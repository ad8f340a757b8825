----------------------------- MODULE Normalization -----------------------------
(***************************************************************************)
(* The normalization outbox: table normalization_dispatch, the dispatcher  *)
(* that publishes its rows and the normalizers that work them off          *)
(* (workers/ingestion_tasks.py, application/ingestion/raw_writer.py).      *)
(*                                                                         *)
(* A raw record is normalized by the ingestion job that wrote it, at once, *)
(* and by celery tasks that the dispatcher sends for rows it finds         *)
(* unfinished.  The row is written by all three, each in transactions of   *)
(* its own.  A lease is modelled by the generation it was claimed with,    *)
(* which is written together with its token.                               *)
(*                                                                         *)
(* Celery delivers at least once: a message is acknowledged after its task *)
(* and goes back to the queue when the process is lost.  A task whose      *)
(* failure cannot be recorded raises, and celery retries it, up to         *)
(* MaxRetries times; then the message is gone.                             *)
(***************************************************************************)
EXTENDS Integers, FiniteSets

CONSTANTS
  Records,      \* raw objects
  Malformed,    \* those the normalizer or the fact store refuses (ValueError)
  Dispatchers,  \* processes running dispatch_pending_normalization
  Workers,      \* processes that normalize: celery tasks and ingestion jobs
  MaxAttempts,  \* NORMALIZATION_MAX_ATTEMPTS
  MaxRetries,   \* max_retries of the celery task
  MaxRows,      \* bounds the raw objects ever written
  MaxWrites,    \* bounds how often ingestion jobs write one
  MaxFaults,    \* bounds the transient errors, lost processes and slow passes
  None          \* SQL NULL

ASSUME NormalizationAssumption ==
  /\ Malformed \subseteq Records /\ IsFiniteSet(Records)
  /\ MaxAttempts \in Nat \ {0}
  /\ MaxRetries \in Nat /\ MaxRows \in Nat /\ MaxWrites \in Nat /\ MaxFaults \in Nat
  /\ None \notin Records \cup Nat

VARIABLES
  dispatch,    \* table normalization_dispatch
  normalized,  \* raw objects with a normalized_record and its facts
  rejected,    \* raw objects with a normalization_rejection
  queue,       \* queue[r][k]: celery messages for r that were retried k times
  worker,      \* worker[w]: the normalization in progress
  pass,        \* pass[d]: the claims of the pass still to be published
  writes,      \* writes by ingestion jobs so far
  faults       \* faults so far

vars == <<dispatch, normalized, rejected, queue, worker, pass, writes, faults>>

-----------------------------------------------------------------------------
\* due: next_attempt_at has come; over: lease_expires_at has come.
DispatchRow == [state : {"ABSENT", "PENDING", "CLAIMED", "DISPATCHED", "FAILED"},
                attempts : Nat, token : Nat \cup {None}, generation : Nat,
                due : BOOLEAN, over : BOOLEAN]

NoRow == [state |-> "ABSENT", attempts |-> 0, token |-> None, generation |-> 0,
          due |-> FALSE, over |-> FALSE]

Worker == [at : {"idle", "normalizing", "failing", "committed"},
           record : Records \cup {None}, inline : BOOLEAN,
           retries : 0..MaxRetries, terminal : BOOLEAN]

Idle == [at |-> "idle", record |-> None, inline |-> FALSE, retries |-> 0,
         terminal |-> FALSE]

Claim == [record : Records, token : Nat]

\* todo: claims still to be published; sent: the one whose message is out.
Pass == [todo : SUBSET Claim, sent : Claim \cup {None}]

NoPass == [todo |-> {}, sent |-> None]

Init == /\ dispatch = [r \in Records |-> NoRow]
        /\ normalized = {}
        /\ rejected = {}
        /\ queue = [r \in Records |-> [k \in 0..MaxRetries |-> 0]]
        /\ worker = [w \in Workers |-> Idle]
        /\ pass = [d \in Dispatchers |-> NoPass]
        /\ writes = 0
        /\ faults = 0

Fault == faults < MaxFaults /\ faults' = faults + 1

-----------------------------------------------------------------------------
(* The start of a normalization *)

Written == {r \in Records : dispatch[r].state # "ABSENT"}

\* RawWriter.write: the row is inserted with its raw object, due at once; a job
\* that stores the same bytes again finds the row and leaves it as it is.
Writes(w, r) ==
  /\ worker[w].at = "idle"
  /\ writes < MaxWrites /\ Cardinality(Written \cup {r}) <= MaxRows
  /\ writes' = writes + 1
  /\ dispatch' = IF r \in Written THEN dispatch
                 ELSE [dispatch EXCEPT ![r].state = "PENDING", ![r].due = TRUE]
  /\ worker' = [worker EXCEPT ![w] = [Idle EXCEPT !.at = "normalizing", !.record = r,
                                                  !.inline = TRUE]]
  /\ UNCHANGED <<normalized, rejected, queue, pass, faults>>

\* A worker takes a message of normalize_raw_object.
Receives(w, r, k) ==
  /\ worker[w].at = "idle"
  /\ queue[r][k] > 0
  /\ queue' = [queue EXCEPT ![r][k] = @ - 1]
  /\ worker' = [worker EXCEPT ![w] = [Idle EXCEPT !.at = "normalizing", !.record = r,
                                                  !.retries = k]]
  /\ UNCHANGED <<dispatch, normalized, rejected, pass, writes, faults>>

-----------------------------------------------------------------------------
(* normalize_dispatched_record and record_normalization_failure *)

\* ck_normalization_dispatch_lease: the update to DISPATCHED leaves the lease
\* columns alone, which the database refuses while the row is claimed.
MayCommit(r) == dispatch[r].token = None

\* One transaction writes the normalized record, its facts and the row.
Normalizes(w) ==
  LET r == worker[w].record
  IN /\ worker[w].at = "normalizing"
     /\ r \notin Malformed
     /\ MayCommit(r)
     /\ normalized' = normalized \cup {r}
     /\ dispatch' = [dispatch EXCEPT ![r].state = "DISPATCHED"]
     /\ worker' = [worker EXCEPT ![w].at = "committed"]
     /\ UNCHANGED <<rejected, queue, pass, writes, faults>>

NormalizeFails(w) ==
  LET r == worker[w].record
  IN /\ worker[w].at = "normalizing"
     /\ \/ /\ r \in Malformed
           /\ worker' = [worker EXCEPT ![w].at = "failing", ![w].terminal = TRUE]
           /\ UNCHANGED faults
        \/ /\ IF r \notin Malformed /\ ~ MayCommit(r) THEN UNCHANGED faults ELSE Fault
           /\ worker' = [worker EXCEPT ![w].at = "failing"]
     /\ UNCHANGED <<dispatch, normalized, rejected, queue, pass, writes>>

\* The row after a failure: given up, or due again later.
FailedRow(r, terminal) ==
  LET row == [dispatch[r] EXCEPT !.token = None, !.over = FALSE]
  IN IF terminal \/ row.attempts >= MaxAttempts
     THEN [row EXCEPT !.state = "FAILED"]
     ELSE [row EXCEPT !.state = "PENDING", !.due = FALSE]

\* Seeded fault: a failure is recorded whatever the state of the row.
RecordableAlways(r) == dispatch[r].state # "ABSENT"

Recordable(r) == dispatch[r].state \in {"PENDING", "CLAIMED", "DISPATCHED"}

RecordsFailure(w) ==
  LET r == worker[w].record
  IN /\ worker[w].at = "failing"
     /\ Recordable(r)
     /\ dispatch' = [dispatch EXCEPT ![r] = FailedRow(r, worker[w].terminal)]
     /\ rejected' = IF worker[w].terminal THEN rejected \cup {r} ELSE rejected
     /\ worker' = [worker EXCEPT ![w] = Idle]
     /\ UNCHANGED <<normalized, queue, pass, writes, faults>>

\* The message of a task goes back with one more retry, while it has one left.
Requeued(w) ==
  IF worker[w].inline \/ worker[w].retries = MaxRetries
  THEN UNCHANGED queue
  ELSE queue' = [queue EXCEPT ![worker[w].record][worker[w].retries + 1] = @ + 1]

\* .one() finds no row to record the failure in, or the database fails: the
\* error leaves the task.
RecordingFails(w) ==
  /\ worker[w].at = "failing"
  /\ IF Recordable(worker[w].record) THEN Fault ELSE UNCHANGED faults
  /\ Requeued(w)
  /\ worker' = [worker EXCEPT ![w] = Idle]
  /\ UNCHANGED <<dispatch, normalized, rejected, pass, writes>>

\* The task returns and its message is acknowledged; the job goes on.
Returns(w) ==
  /\ worker[w].at = "committed"
  /\ worker' = [worker EXCEPT ![w] = Idle]
  /\ UNCHANGED <<dispatch, normalized, rejected, queue, pass, writes, faults>>

\* The process is lost: its message was not acknowledged.
WorkerLost(w) ==
  /\ worker[w].at # "idle"
  /\ Fault
  /\ queue' = IF worker[w].inline THEN queue
              ELSE [queue EXCEPT ![worker[w].record][worker[w].retries] = @ + 1]
  /\ worker' = [worker EXCEPT ![w] = Idle]
  /\ UNCHANGED <<dispatch, normalized, rejected, pass, writes>>

-----------------------------------------------------------------------------
(* dispatch_pending_normalization *)

\* Seeded fault: a claim whose lease expired is not taken over.
PendingRows == {r \in Records : dispatch[r].state = "PENDING" /\ dispatch[r].due}

DueRows == {r \in Records : \/ dispatch[r].state = "PENDING" /\ dispatch[r].due
                            \/ dispatch[r].state = "CLAIMED" /\ dispatch[r].over}

ClaimedRow(row) == [row EXCEPT !.state = "CLAIMED", !.attempts = @ + 1,
                               !.generation = @ + 1, !.token = row.generation + 1,
                               !.over = FALSE]

\* SKIP LOCKED and the batch limit leave some rows for a later pass.
Claims(d, S) ==
  /\ pass[d] = NoPass
  /\ S # {}
  /\ S \subseteq DueRows
  /\ dispatch' = [r \in Records |-> IF r \in S THEN ClaimedRow(dispatch[r]) ELSE dispatch[r]]
  /\ pass' = [pass EXCEPT ![d].todo = {[record |-> r, token |-> dispatch[r].generation + 1]
                                         : r \in S}]
  /\ UNCHANGED <<normalized, rejected, queue, worker, writes, faults>>

Enqueued(r) == queue' = [queue EXCEPT ![r][0] = @ + 1]

Publishes(d) ==
  /\ pass[d].sent = None
  /\ \E c \in pass[d].todo :
       /\ Enqueued(c.record)
       /\ pass' = [pass EXCEPT ![d].todo = @ \ {c}, ![d].sent = c]
  /\ UNCHANGED <<dispatch, normalized, rejected, worker, writes, faults>>

Holds(c) == dispatch[c.record].state = "CLAIMED" /\ dispatch[c.record].token = c.token

\* The dispatcher gives up claim c, if it is still the row's.
Settled(c, state) ==
  IF Holds(c) THEN [dispatch EXCEPT ![c.record] = [@ EXCEPT !.state = state, !.token = None,
                                                           !.over = FALSE, !.due = FALSE]]
  ELSE dispatch

MarksDispatched(d) ==
  /\ pass[d].sent # None
  /\ dispatch' = Settled(pass[d].sent, "DISPATCHED")
  /\ pass' = [pass EXCEPT ![d].sent = None]
  /\ UNCHANGED <<normalized, rejected, queue, worker, writes, faults>>

AfterFailure(c) == Settled(c, "PENDING")

\* The error may have come after the broker took the message.
PublishFails(d) ==
  /\ pass[d].sent = None
  /\ Fault
  /\ \E c \in pass[d].todo :
       /\ dispatch' = AfterFailure(c)
       /\ pass' = [pass EXCEPT ![d].todo = @ \ {c}]
       /\ Enqueued(c.record) \/ UNCHANGED queue
  /\ UNCHANGED <<normalized, rejected, worker, writes>>

DispatcherLost(d) ==
  /\ pass[d] # NoPass
  /\ Fault
  /\ pass' = [pass EXCEPT ![d] = NoPass]
  /\ UNCHANGED <<dispatch, normalized, rejected, queue, worker, writes>>

-----------------------------------------------------------------------------
(* Time *)

ComesDue(r) ==
  /\ dispatch[r].state = "PENDING" /\ ~ dispatch[r].due
  /\ dispatch' = [dispatch EXCEPT ![r].due = TRUE]
  /\ UNCHANGED <<normalized, rejected, queue, worker, pass, writes, faults>>

HeldByPass(r) ==
  \E d \in Dispatchers :
    [record |-> r, token |-> dispatch[r].token] \in pass[d].todo \cup {pass[d].sent}

\* A lease that runs out during the pass that holds it counts as a fault.
LeaseRunsOut(r) ==
  /\ dispatch[r].state = "CLAIMED" /\ ~ dispatch[r].over
  /\ IF HeldByPass(r) THEN Fault ELSE UNCHANGED faults
  /\ dispatch' = [dispatch EXCEPT ![r].over = TRUE]
  /\ UNCHANGED <<normalized, rejected, queue, worker, pass, writes>>

-----------------------------------------------------------------------------
Works(w) == Normalizes(w) \/ NormalizeFails(w) \/ RecordsFailure(w) \/ RecordingFails(w)
            \/ Returns(w)

Dispatches(d) == Publishes(d) \/ MarksDispatched(d)

Next ==
  \/ \E w \in Workers : \/ Works(w) \/ WorkerLost(w)
                        \/ \E r \in Records : Writes(w, r)
                        \/ \E r \in Records, k \in 0..MaxRetries : Receives(w, r, k)
  \/ \E d \in Dispatchers, S \in SUBSET Records : Claims(d, S)
  \/ \E d \in Dispatchers : Dispatches(d) \/ PublishFails(d) \/ DispatcherLost(d)
  \/ \E r \in Records : ComesDue(r) \/ LeaseRunsOut(r)

Spec == Init /\ [][Next]_vars

\* Beat runs the dispatcher every 30 s, celery tasks run to their end or are
\* redelivered, time passes.  Nothing is assumed of ingestion jobs.
Fairness ==
  /\ \A w \in Workers : WF_vars(Works(w))
  /\ \A r \in Records, k \in 0..MaxRetries : SF_vars(\E w \in Workers : Receives(w, r, k))
  /\ \A d \in Dispatchers : WF_vars(Dispatches(d))
  /\ \A r \in Records :
       SF_vars(\E d \in Dispatchers, S \in SUBSET Records : r \in S /\ Claims(d, S))
  /\ \A r \in Records : WF_vars(ComesDue(r)) /\ WF_vars(LeaseRunsOut(r))

FairSpec == Spec /\ Fairness
-----------------------------------------------------------------------------
(* Properties *)

\* The variables have their types; no statement but the normalizer's own update
\* would violate ck_normalization_dispatch_lease.
TypeOK == /\ dispatch \in [Records -> DispatchRow]
          /\ \A r \in Records : dispatch[r].state = "CLAIMED" <=> dispatch[r].token # None
          /\ normalized \subseteq Records /\ rejected \subseteq Records
          /\ queue \in [Records -> [0..MaxRetries -> Nat]]
          /\ worker \in [Workers -> Worker]
          /\ pass \in [Dispatchers -> Pass]

InFlight(r) == \/ \E k \in 0..MaxRetries : queue[r][k] > 0
               \/ \E w \in Workers : worker[w].record = r /\ ~ worker[w].inline

\* The dispatcher never looks at a DISPATCHED row again, so its record is
\* normalized or a message for it is on its way, through expired leases, failed
\* and repeated publications and failures recorded before the row was marked;
\* unless more faults than celery retries made a task vanish.
NoRecordStranded ==
  \A r \in Records : dispatch[r].state = "DISPATCHED" /\ faults <= MaxRetries
                        => r \in normalized \/ InFlight(r)

\* A record that was rejected stays FAILED and is never normalized, whatever
\* messages and retries for it are still about.
RejectedStaysFailed ==
  \A r \in rejected : dispatch[r].state = "FAILED" /\ r \notin normalized

\* The outbox can be believed: its rows keep their constraints, none is left
\* behind without a message and none that failed comes back.
OutboxSound == TypeOK /\ NoRecordStranded /\ RejectedStaysFailed

\* A raw record once written is normalized or given up, though jobs, dispatchers
\* and workers are lost: the outbox closes the gap between commit and delivery.
EventuallySettled ==
  \A r \in Records :
    r \in Written ~>
      r \in normalized \/ dispatch[r].state = "FAILED" \/ faults > MaxRetries
=============================================================================
