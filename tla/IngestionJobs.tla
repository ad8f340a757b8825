---------------------------- MODULE IngestionJobs ----------------------------
(***************************************************************************)
(* The durable queue of ingestion work:                                    *)
(* infrastructure/ingestion/job_store.py, one action per store method.     *)
(* Every method is one short PostgreSQL transaction whose UPDATE or SELECT *)
(* ... FOR UPDATE re-checks the row, so a method is one atomic step.       *)
(*                                                                         *)
(* Callers are not trusted.  A lease is the pair (job, generation) that    *)
(* claim() returned; any lease ever issued may be presented again at any   *)
(* time, by a worker that stalled, crashed and was restarted, or was       *)
(* superseded.  The uuid4 token is modelled by the generation it was       *)
(* issued with: claim() is the only statement that writes either, and it   *)
(* writes both.                                                            *)
(*                                                                         *)
(* Time is relative: a stored timestamp is kept as its distance from the   *)
(* present and Tick lowers it.  The `now` argument of a method is read by  *)
(* the caller before the call, possibly long before (alpha jobs reuse the  *)
(* `checked_now` of their start): it lies `lag` ticks in the past.         *)
(***************************************************************************)
EXTENDS Integers, Sequences

CONSTANTS
  Jobs,         \* job row ids (bounds the rows ever inserted)
  Requests,     \* request hashes
  MaxAttempts,  \* MaxAttempts[r]: spec.max_attempts, part of the hash
  LeaseFor,     \* lease_for
  MaxLag,       \* how stale a caller's `now` may be
  MaxBackoff,   \* the longest next_attempt_at - now of schedule_retry
  None          \* SQL NULL

ASSUME JobsAssumption ==
  /\ MaxAttempts \in [Requests -> Nat \ {0}]
  /\ LeaseFor \in Nat \ {0}
  /\ MaxLag \in Nat
  /\ MaxBackoff \in Nat \ {0}
  /\ None \notin Int \cup Requests

VARIABLES
  job,          \* table ingestion_job
  ledger,       \* table ingestion_attempt: ledger[j] in order of insertion
  deadLetters   \* table ingestion_dead_letter

vars == <<job, ledger, deadLetters>>

-----------------------------------------------------------------------------
FinalStates == {"SUCCEEDED", "COMPLETED_WITH_GAPS", "FAILED", "DEAD_LETTER", "CANCELLED"}
ActiveStates == {"QUEUED", "RUNNING", "RETRY_SCHEDULED"}
States == {"ABSENT"} \cup ActiveStates \cup FinalStates
Outcomes == {"SUCCEEDED", "COMPLETED_WITH_GAPS", "RETRY_SCHEDULED", "FAILED", "DEAD_LETTER"}

Lags == 0..MaxLag

JobRow == [request : Requests \cup {None},
           state : States,
           attempts : Nat,
           generation : Nat,
           token : Nat \cup {None},      \* lease_token
           ttl : Int \cup {None},        \* lease_expires_at - present
           wait : Int \cup {None},       \* next_attempt_at - present
           completed : BOOLEAN]          \* completed_at IS NOT NULL

AttemptRow == [number : Nat, generation : Nat, outcome : Outcomes, expired : BOOLEAN]

NoJob == [request |-> None, state |-> "ABSENT", attempts |-> 0, generation |-> 0,
          token |-> None, ttl |-> None, wait |-> None, completed |-> FALSE]

Limit(j) == MaxAttempts[job[j].request]

Init == /\ job = [j \in Jobs |-> NoJob]
        /\ ledger = [j \in Jobs |-> <<>>]
        /\ deadLetters = {}

-----------------------------------------------------------------------------
(* Admission *)

\* Seeded fault: a retry in its backoff does not count as active.
UnlockedActive(r) == {j \in Jobs : job[j].request = r /\ job[j].state \in {"QUEUED", "RUNNING"}}

Existing(r) == {j \in Jobs : job[j].request = r /\ job[j].state \in ActiveStates}

\* A request with an active job gets that job back and nothing is written.
EnqueueWithResult(r) ==
  /\ Existing(r) = {}
  /\ \E j \in Jobs :
       /\ job[j].state = "ABSENT"
       /\ job' = [job EXCEPT ![j] = [NoJob EXCEPT !.request = r, !.state = "QUEUED"]]
  /\ UNCHANGED <<ledger, deadLetters>>

-----------------------------------------------------------------------------
(* Leases *)

Claimed(row, lag) ==
  [row EXCEPT !.state = "RUNNING", !.attempts = row.attempts + 1,
              !.generation = row.generation + 1, !.token = row.generation + 1,
              !.ttl = LeaseFor - lag]

Claim(j, lag) ==
  /\ job[j].state = "QUEUED"
  /\ job[j].attempts < Limit(j)
  /\ job' = [job EXCEPT ![j] = Claimed(job[j], lag)]
  /\ UNCHANGED <<ledger, deadLetters>>

\* Seeded fault: the lease is recognised by its job alone.
LeaseOfJob(j, g, lag) == job[j].state = "RUNNING" /\ job[j].ttl + lag > 0

\* _lease_predicates: the WHERE clause of every write made under a lease.
LeaseValid(j, g, lag) ==
  /\ job[j].state = "RUNNING"
  /\ job[j].token = g
  /\ job[j].generation = g
  /\ job[j].ttl + lag > 0

Renewed(row, lag) == [row EXCEPT !.ttl = LeaseFor - lag]

Heartbeat(j, g, lag) ==
  /\ LeaseValid(j, g, lag)
  /\ job' = [job EXCEPT ![j] = Renewed(job[j], lag)]
  /\ UNCHANGED <<ledger, deadLetters>>

-----------------------------------------------------------------------------
(* The end of an attempt *)

\* The columns every end of an attempt writes.
Released(row, outcome, next) ==
  [row EXCEPT !.state = outcome, !.token = None, !.ttl = None,
              !.wait = next, !.completed = outcome \in FinalStates]

Attempt(j, g, outcome, expired) ==
  [number |-> job[j].attempts, generation |-> g, outcome |-> outcome, expired |-> expired]

\* _finish: a stale lease writes nothing; the last attempt's retry is a dead letter.
Finish(j, g, lag, target, next) ==
  LET exhausted == target = "RETRY_SCHEDULED" /\ job[j].attempts >= Limit(j)
      outcome == IF exhausted THEN "DEAD_LETTER" ELSE target
  IN /\ LeaseValid(j, g, lag)
     /\ ledger' = [ledger EXCEPT ![j] = Append(ledger[j], Attempt(j, g, outcome, FALSE))]
     /\ deadLetters' = IF outcome = "DEAD_LETTER"
                       THEN deadLetters \cup {<<j, job[j].attempts>>}
                       ELSE deadLetters
     /\ job' = [job EXCEPT ![j] = Released(job[j], outcome, IF exhausted THEN None ELSE next)]

Complete(j, g, lag) ==
  \E target \in {"SUCCEEDED", "COMPLETED_WITH_GAPS"} : Finish(j, g, lag, target, None)

\* next_attempt_at must lie after `now`.
ScheduleRetry(j, g, lag) ==
  \E backoff \in 1..MaxBackoff : Finish(j, g, lag, "RETRY_SCHEDULED", backoff - lag)

DeadLetter(j, g, lag) == Finish(j, g, lag, "DEAD_LETTER", None)

Fail(j, g, lag) == Finish(j, g, lag, "FAILED", None)

-----------------------------------------------------------------------------
(* Operations that need no lease *)

\* Seeded fault: a running job may be cancelled under its worker.
CancelActive(j) ==
  /\ job[j].state \in ActiveStates
  /\ job' = [job EXCEPT ![j] = Released(job[j], "CANCELLED", None)]
  /\ UNCHANGED <<ledger, deadLetters>>

Cancelled(row) == [row EXCEPT !.state = "CANCELLED", !.wait = None, !.completed = TRUE]

Cancel(j) ==
  /\ job[j].state \in {"QUEUED", "RETRY_SCHEDULED"}
  /\ job' = [job EXCEPT ![j] = Cancelled(job[j])]
  /\ UNCHANGED <<ledger, deadLetters>>

Due(lag) == {j \in Jobs : /\ job[j].state = "RETRY_SCHEDULED"
                          /\ job[j].wait + lag <= 0
                          /\ job[j].attempts < Limit(j)}

Requeued(row) == [row EXCEPT !.state = "QUEUED", !.wait = None]

\* One UPDATE moves every due job.
RequeueDue(lag) ==
  /\ Due(lag) # {}
  /\ job' = [j \in Jobs |-> IF j \in Due(lag) THEN Requeued(job[j]) ELSE job[j]]
  /\ UNCHANGED <<ledger, deadLetters>>

\* Seeded fault: a job on its last attempt is left to its vanished worker.
ExpiredWithAttemptsLeft(lag) ==
  {j \in Jobs : job[j].state = "RUNNING" /\ job[j].ttl + lag <= 0 /\ job[j].attempts < Limit(j)}

\* Seeded fault: the lease's expiry is not consulted.
RunningAtAll(lag) == {j \in Jobs : job[j].state = "RUNNING"}

Expired(lag) == {j \in Jobs : job[j].state = "RUNNING" /\ job[j].ttl + lag <= 0}

Exhausted(j) == job[j].attempts >= Limit(j)

RecoveryTarget(j) == IF Exhausted(j) THEN "DEAD_LETTER" ELSE "RETRY_SCHEDULED"

\* SKIP LOCKED leaves out the rows another transaction holds: any S may be found.
RecoverExpired(S, lag) ==
  /\ S # {}
  /\ S \subseteq Expired(lag)
  /\ ledger' = [j \in Jobs |->
                  IF j \in S
                  THEN Append(ledger[j], Attempt(j, job[j].generation, RecoveryTarget(j), TRUE))
                  ELSE ledger[j]]
  /\ deadLetters' = deadLetters \cup {<<j, job[j].attempts>> : j \in {i \in S : Exhausted(i)}}
  /\ job' = [j \in Jobs |->
               IF j \in S
               THEN Released(job[j], RecoveryTarget(j), IF Exhausted(j) THEN None ELSE -lag)
               ELSE job[j]]

-----------------------------------------------------------------------------
\* A distance below -MaxLag is in the past of every caller: it is not told apart.
Sooner(t) == IF t = None \/ t = -MaxLag THEN t ELSE t - 1

Later(row) == [row EXCEPT !.ttl = Sooner(row.ttl), !.wait = Sooner(row.wait)]

Tick == /\ job' = [j \in Jobs |-> Later(job[j])]
        /\ UNCHANGED <<ledger, deadLetters>>

UseLease(j, g, lag) == \/ Heartbeat(j, g, lag)
                       \/ Complete(j, g, lag)
                       \/ ScheduleRetry(j, g, lag)
                       \/ DeadLetter(j, g, lag)
                       \/ Fail(j, g, lag)

Next ==
  \/ \E r \in Requests : EnqueueWithResult(r)
  \/ \E j \in Jobs : Cancel(j)
  \/ \E j \in Jobs, lag \in Lags : Claim(j, lag)
  \/ \E j \in Jobs, lag \in Lags : \E g \in 1..job[j].generation : UseLease(j, g, lag)
  \/ \E lag \in Lags : RequeueDue(lag)
  \/ \E S \in SUBSET Jobs, lag \in Lags : RecoverExpired(S, lag)
  \/ Tick

Spec == Init /\ [][Next]_vars
-----------------------------------------------------------------------------
(* Properties *)

Running(j) == job[j].state = "RUNNING"
Active(j) == job[j].state \in ActiveStates
Final(j) == job[j].state \in FinalStates

\* Every row has its columns' types, and no job exceeds its attempt budget.
TypeOK == /\ job \in [Jobs -> JobRow]
          /\ ledger \in [Jobs -> Seq(AttemptRow)]
          /\ deadLetters \subseteq Jobs \X Nat

\* The CHECK constraints of ingestion_job are never relied on: no method writes
\* a row that violates ck_ingestion_job_attempts, _running_lease, _retry_time or
\* _completion_time (which would abort the method's transaction).
RowConstraints ==
  \A j \in Jobs :
    /\ job[j].request # None => job[j].attempts <= Limit(j)
    /\ Running(j) <=> job[j].token # None
    /\ Running(j) <=> job[j].ttl # None
    /\ job[j].state = "RETRY_SCHEDULED" <=> job[j].wait # None
    /\ Final(j) <=> job[j].completed

\* enqueue_with_result: two active jobs never serve the same request
\* (uq_ingestion_job_active_request), whatever the retries and recoveries.
OneActivePerRequest ==
  \A i, j \in Jobs : Active(i) /\ Active(j) /\ job[i].request = job[j].request => i = j

\* The CHECK constraints and the partial unique index of ingestion_job hold: no
\* method relies on the database to refuse what it writes.
TableConstraints == RowConstraints /\ OneActivePerRequest

\* claim needs attempt_count < max_attempts and enqueue returns the active job:
\* a waiting job without attempts left would block its request for ever.
NoStrandedJob ==
  \A j \in Jobs : job[j].state \in {"QUEUED", "RETRY_SCHEDULED"} => job[j].attempts < Limit(j)

\* Every attempt that ended has one row, written by the lease of that attempt:
\* row n is attempt n of generation n, though stale leases are presented again
\* and recovery races the worker's own end of the attempt.
AttemptsAccounted ==
  \A j \in Jobs :
    /\ Len(ledger[j]) = job[j].attempts - (IF Running(j) THEN 1 ELSE 0)
    /\ \A n \in 1..Len(ledger[j]) : ledger[j][n].number = n /\ ledger[j][n].generation = n

\* A job is dead-lettered exactly when its state says so, once, for its last attempt
\* (uq_ingestion_dead_letter_attempt never fires).
DeadLettersAccounted ==
  deadLetters = {<<j, job[j].attempts>> : j \in {i \in Jobs : job[i].state = "DEAD_LETTER"}}

\* The history of a job ends with the state the table shows: a retry is
\* the only outcome that another attempt may follow.
HistoryMatchesState ==
  \A j \in Jobs :
    /\ \A n \in 1..Len(ledger[j]) - 1 : ledger[j][n].outcome = "RETRY_SCHEDULED"
    /\ Final(j) /\ job[j].state # "CANCELLED" =>
         Len(ledger[j]) > 0 /\ ledger[j][Len(ledger[j])].outcome = job[j].state

\* ingestion_attempt and ingestion_dead_letter tell the job's history: each attempt
\* once, under its own lease, up to the state the job is in.
LedgerAccounts == AttemptsAccounted /\ DeadLettersAccounted /\ HistoryMatchesState

\* Whatever leases are presented and however recovery races them, the three
\* tables stay within their constraints, no waiting job is beyond its attempts,
\* and the attempts and dead letters tell each job's history.
StoreSound == TypeOK /\ TableConstraints /\ NoStrandedJob /\ LedgerAccounts

\* Recovery never takes a job whose lease has not expired: no step that times an
\* attempt out finds it with lease time left.
LiveLeaseIsKept ==
  [][\A j \in Jobs :
       Len(ledger'[j]) > Len(ledger[j]) /\ ledger'[j][Len(ledger'[j])].expired
         => job[j].ttl <= 0]_vars

\* The store implements the job's lifecycle (models.py:_LEGAL_TRANSITIONS).
Lifecycle == INSTANCE IngestionLifecycle
  WITH state <- [j \in Jobs |-> job[j].state],
       left <- [j \in Jobs |-> IF job[j].request = None THEN 0
                               ELSE Limit(j) - job[j].attempts]
LifecycleSpec == Lifecycle!Spec
=============================================================================
