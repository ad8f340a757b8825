------------------------------ MODULE AgentRuns ------------------------------
(***************************************************************************)
(* The durable agent runs: application/runs.py (admission, claim, events,  *)
(* completion and failure), the recovery and operator commands of          *)
(* workers/schedules.py and the cancel route of api/routes/rest.py.        *)
(*                                                                         *)
(* Each action is one committed transaction.  A worker's attempt is not    *)
(* one transaction: it claims in a first one, reports progress in many     *)
(* (RunControl.emit), does its work in another that stays open all along,  *)
(* and ends it together with the run's status.  Between any two of them    *)
(* the run may be cancelled, recovered, or claimed again, so attempt n of  *)
(* run r is an actor of its own, `worker[r][n]`, that may act for ever or  *)
(* never act again (a crash, a hang).                                      *)
(*                                                                         *)
(* Time is relative: the lease is kept as its distance from the present,   *)
(* and the recovery's clock, read and cut to the minute before the         *)
(* transaction, lies `lag` ticks in the past.                              *)
(***************************************************************************)
EXTENDS Integers, Sequences, FiniteSets

CONSTANTS
  Keys,         \* idempotency keys of API requests and of schedules
  CatchUpKeys,  \* those of the latest completed session's scheduled runs
  Runs,         \* agent_run row ids, in order of insertion (bounds the rows)
  MaxAttempts,  \* MaxAttempts[r]: max_attempts of row r
  MaxActive,    \* settings.max_active_agent_runs
  LeaseFor,     \* the 15 minutes of _claim_run
  MaxLag,       \* how stale the recovery's clock may be
  MaxNotes,     \* MaxNotes[r]: bounds the progress events of run r
  None          \* SQL NULL

ASSUME RunsAssumption ==
  /\ Runs \subseteq Nat
  /\ CatchUpKeys \subseteq Keys
  /\ MaxAttempts \in [Runs -> Nat \ {0}]
  /\ MaxActive \in Nat \ {0}
  /\ LeaseFor \in Nat \ {0}
  /\ MaxLag \in Nat
  /\ MaxNotes \in [Runs -> Nat]
  /\ Keys \cap Runs = {}
  /\ None \notin Int \cup Keys \cup Runs

VARIABLES
  run,        \* table agent_run
  events,     \* table agent_event: events[r] by sequence
  worker,     \* worker[r][n]: what attempt n of run r is doing
  committed,  \* committed[r]: the attempts whose work transaction committed
  queue       \* the runs with a published celery message

vars == <<run, events, worker, committed, queue>>

-----------------------------------------------------------------------------
ActiveStatuses == {"QUEUED", "RUNNING"}
EndStatuses == {"COMPLETED", "FAILED", "CANCELLED"}
Statuses == {"ABSENT"} \cup ActiveStatuses \cup EndStatuses
Attempts == UNION {1..MaxAttempts[r] : r \in Runs}
Lags == 0..MaxLag

\* The key of the replacement of run r is "replacement:<r>": r itself here.
RunRow == [key : Keys \cup Runs \cup {None},
           status : Statuses,
           attempts : Nat,
           ttl : Int \cup {None}]     \* lease_expires_at - present

StatusTypes == {"run.started", "run.retry_scheduled", "run.operator_retry_queued",
                "run.completed", "run.failed", "run.cancelled"}
NoteTypes == {"node.completed", "mcp.tool"}
AuditTypes == {"run.replacement_queued", "run.replaces_failed"}
EventTypes == StatusTypes \cup NoteTypes \cup AuditTypes

\* `attempt` is the attempt that speaks, 0 if it is the API or an operator.
Event(type, n) == [type |-> type, attempt |-> n]

EventRow == [type : EventTypes, attempt : Nat]

NoRun == [key |-> None, status |-> "ABSENT", attempts |-> 0, ttl |-> None]

Init == /\ run = [r \in Runs |-> NoRun]
        /\ events = [r \in Runs |-> <<>>]
        /\ worker = [r \in Runs |-> [n \in Attempts |-> "none"]]
        /\ committed = [r \in Runs |-> {}]
        /\ queue = {}

\* append_run_event: an advisory lock held to the commit makes sequences dense.
Record(r, type, n) == events' = [events EXCEPT ![r] = Append(events[r], Event(type, n))]

-----------------------------------------------------------------------------
(* Admission: admit_run, serialised by an advisory lock *)

Holders(k) == {r \in Runs : run[r].key = k}

Active == {r \in Runs : run[r].status \in ActiveStatuses}

Admitted(k) == [NoRun EXCEPT !.key = k, !.status = "QUEUED"]

\* A key in use is answered from its row (or refused, if the payload differs).
Admit(k, new) ==
  /\ Holders(k) = {}
  /\ Cardinality(Active) < MaxActive
  /\ run[new].status = "ABSENT"
  /\ \A r \in Runs : r < new => run[r].status # "ABSENT"
  /\ run' = [run EXCEPT ![new] = Admitted(k)]

\* The API takes any key; it does not publish what it admits: the next recovery does.
CreateRun(k) ==
  /\ \E new \in Runs : Admit(k, new)
  /\ UNCHANGED <<events, worker, committed, queue>>

\* The admissions one transaction of a schedule may make after which the rows are
\* as given: each key of S that has no run gets the next row, while there is room.
Admissions(S, rows) ==
  LET due == {k \in S : Holders(k) = {}}
      fresh == {r \in Runs : rows[r].status = "ABSENT"}
      room == MaxActive - Cardinality({r \in Runs : rows[r].status \in ActiveStatuses})
      Taken(new) == {r \in Runs : new[r] # None}
  IN {new \in [Runs -> due \cup {None}] :
        /\ Taken(new) \subseteq fresh
        /\ \A r \in Taken(new), s \in fresh : s < r => s \in Taken(new)
        /\ \A r, s \in Taken(new) : new[r] = new[s] => r = s
        /\ Taken(new) = {} \/ Cardinality(Taken(new)) <= room
        /\ \/ \A k \in due : \E r \in Runs : new[r] = k
           \/ Cardinality(Taken(new)) >= room
           \/ Taken(new) = fresh}

WithAdmitted(new, rows) == [r \in Runs |-> IF new[r] = None THEN rows[r] ELSE Admitted(new[r])]

\* Beat publishes what it admits: the runs of a cutoff's schedule, or at the start
\* of the runtime those of the latest session that were missed.
Schedule(S) ==
  \E new \in Admissions(S, run) :
    /\ run' = WithAdmitted(new, run)
    /\ queue' = queue \cup {r \in Runs : new[r] # None}
    /\ UNCHANGED <<events, worker, committed>>

-----------------------------------------------------------------------------
(* The worker: execute_run *)

Start(r) ==
  [run[r] EXCEPT !.status = "RUNNING", !.attempts = run[r].attempts + 1, !.ttl = LeaseFor]

\* _claim_run, on delivery of the run's message.
Claim(r) ==
  /\ r \in queue
  /\ run[r].status = "QUEUED"
  /\ run[r].attempts < MaxAttempts[r]
  /\ queue' = queue \ {r}
  /\ run' = [run EXCEPT ![r] = Start(r)]
  /\ worker' = [worker EXCEPT ![r][run[r].attempts + 1] = "working"]
  /\ Record(r, "run.started", run[r].attempts + 1)
  /\ UNCHANGED committed

\* The check of RunControl.emit, of the completion UPDATE and of _finish_failure.
Holds(r, n) == run[r].status = "RUNNING" /\ run[r].attempts = n

Notes(r) == Len(SelectSeq(events[r], LAMBDA e : e.type \in NoteTypes))

NodeCompleted(r, n) ==
  /\ worker[r][n] = "working"
  /\ Holds(r, n)
  /\ Notes(r) < MaxNotes[r]
  /\ Record(r, "node.completed", n)
  /\ UNCHANGED <<run, worker, committed, queue>>

\* The tool audit has an engine of its own and asks nothing of the run.
AuditTool(r, n) ==
  /\ worker[r][n] = "working"
  /\ Notes(r) < MaxNotes[r]
  /\ Record(r, "mcp.tool", n)
  /\ UNCHANGED <<run, worker, committed, queue>>

Leaves(r, n) == worker' = [worker EXCEPT ![r][n] = "gone"]

\* Seeded fault: the work is committed before the run is completed.
CommitEarly(r, n) ==
  /\ worker[r][n] = "working"
  /\ committed' = [committed EXCEPT ![r] = @ \cup {n}]
  /\ Leaves(r, n)
  /\ IF Holds(r, n)
     THEN /\ run' = [run EXCEPT ![r].status = "COMPLETED", ![r].ttl = None]
          /\ Record(r, "run.completed", n)
     ELSE UNCHANGED <<run, events>>
  /\ UNCHANGED queue

\* The work's own transaction completes the run, records it and commits.
Commit(r, n) ==
  /\ worker[r][n] = "working"
  /\ Holds(r, n)
  /\ run' = [run EXCEPT ![r].status = "COMPLETED", ![r].ttl = None]
  /\ committed' = [committed EXCEPT ![r] = @ \cup {n}]
  /\ Leaves(r, n)
  /\ Record(r, "run.completed", n)
  /\ UNCHANGED queue

\* An emit or the completion finds the run taken away: the work rolls back.
Refused(r, n) ==
  /\ worker[r][n] = "working"
  /\ ~Holds(r, n)
  /\ worker' = [worker EXCEPT ![r][n] = IF run[r].status = "CANCELLED" THEN "cancelled" ELSE "gone"]
  /\ UNCHANGED <<run, events, committed, queue>>

Says(r, type) == \E i \in 1..Len(events[r]) : events[r][i].type = type

\* Seeded fault: the worker does not look whether the route recorded it.
RecordCancelledAgain(r, n) ==
  /\ worker[r][n] = "cancelled"
  /\ Record(r, "run.cancelled", n)
  /\ Leaves(r, n)
  /\ UNCHANGED <<run, committed, queue>>

\* The transaction of the RunCancelled handler.
RecordCancelled(r, n) ==
  /\ worker[r][n] = "cancelled"
  /\ IF Says(r, "run.cancelled") THEN UNCHANGED events ELSE Record(r, "run.cancelled", n)
  /\ Leaves(r, n)
  /\ UNCHANGED <<run, committed, queue>>

\* The work raised: _finish_failure, in a transaction of its own.
FinishFailure(r, n, retryable) ==
  /\ worker[r][n] = "working"
  /\ IF Holds(r, n)
     THEN LET exhausted == run[r].attempts >= MaxAttempts[r]
              status == IF retryable /\ ~exhausted THEN "QUEUED" ELSE "FAILED"
          IN /\ run' = [run EXCEPT ![r].status = status, ![r].ttl = None]
             /\ Record(r, IF status = "QUEUED" THEN "run.retry_scheduled" ELSE "run.failed", n)
     ELSE UNCHANGED <<run, events>>
  /\ Leaves(r, n)
  /\ UNCHANGED <<committed, queue>>

-----------------------------------------------------------------------------
(* The API's cancel route, the recovery and the operator's commands *)

\* lease_expires_at stays as it was.
CancelRun(r) ==
  /\ run[r].status \in ActiveStatuses
  /\ run' = [run EXCEPT ![r].status = "CANCELLED"]
  /\ Record(r, "run.cancelled", 0)
  /\ UNCHANGED <<worker, committed, queue>>

Expired(lag) == {r \in Runs : run[r].status = "RUNNING" /\ run[r].ttl + lag <= 0}

\* Seeded fault: leases are recovered whatever the attempts they used up.
AlwaysQueued(r) == [run[r] EXCEPT !.status = "QUEUED", !.ttl = None]

\* Both UPDATEs of recover_queued_runs, by the attempts the run has left.
Recovered(r) ==
  [run[r] EXCEPT !.status = IF run[r].attempts >= MaxAttempts[r] THEN "FAILED" ELSE "QUEUED",
                 !.ttl = None]

\* recover_queued_runs; rows a worker or the route has locked are waited for.
RecoveredRuns(lag) == [r \in Runs |-> IF r \in Expired(lag) THEN Recovered(r) ELSE run[r]]

\* Seeded fault: only runs that were never started are published.
NeverStarted(rows) == {r \in Runs : rows[r].status = "QUEUED" /\ rows[r].attempts = 0}

\* What recover_queued_runs publishes.
Startable(rows) == {r \in Runs : rows[r].status = "QUEUED" /\ rows[r].attempts < MaxAttempts[r]}

\* recover_and_schedule_catch_up, one transaction: leases that ran out are recovered,
\* then the latest session's missing runs are admitted as capacity allows.
RecoverAndCatchUp(lag) ==
  \E new \in Admissions(CatchUpKeys, RecoveredRuns(lag)) :
    /\ run' = WithAdmitted(new, RecoveredRuns(lag))
    /\ events' = [r \in Runs |->
                    IF r \in Expired(lag) /\ RecoveredRuns(lag)[r].status = "FAILED"
                    THEN Append(events[r], Event("run.failed", 0))
                    ELSE events[r]]
    /\ queue' = queue \cup Startable(RecoveredRuns(lag)) \cup {r \in Runs : new[r] # None}
    /\ UNCHANGED <<worker, committed>>

\* The settings changed since a catch-up run was admitted: its payload differs,
\* admit_run raises IdempotencyConflict and takes the recovery back with it, but
\* what was published stays published.
RecoveryConflicts(lag) ==
  /\ \E k \in CatchUpKeys : Holders(k) # {}
  /\ queue' = queue \cup Startable(RecoveredRuns(lag))
  /\ UNCHANGED <<run, events, worker, committed>>

\* The operator's retry does not look at MaxActive.
RequeueFailedRun(r) ==
  /\ run[r].status = "FAILED"
  /\ run[r].attempts < MaxAttempts[r]
  /\ run' = [run EXCEPT ![r].status = "QUEUED", ![r].ttl = None]
  /\ Record(r, "run.operator_retry_queued", 0)
  /\ queue' = queue \cup {r}
  /\ UNCHANGED <<worker, committed>>

\* A second replacement of r is answered with the first.
ReplaceExhaustedRun(r, new) ==
  /\ run[r].status = "FAILED"
  /\ run[r].attempts >= MaxAttempts[r]
  /\ Admit(r, new)
  /\ events' = [events EXCEPT ![r] = Append(@, Event("run.replacement_queued", 0)),
                              ![new] = Append(@, Event("run.replaces_failed", 0))]
  /\ queue' = queue \cup {new}
  /\ UNCHANGED <<worker, committed>>

-----------------------------------------------------------------------------
(* The broker and the clock *)

\* A message is lost, arrives before its row is committed (dispatch comes
\* before the commit: KeyError), or finds nothing to claim.
Drop(r) == /\ r \in queue
           /\ queue' = queue \ {r}
           /\ UNCHANGED <<run, events, worker, committed>>

\* acks_late, reject_on_worker_lost: the message of a lost worker comes back (one
\* that comes back after the run ended finds nothing to claim and is left out).
Redeliver(r) == /\ r \notin queue
                /\ run[r].attempts > 0
                /\ run[r].status \in ActiveStatuses
                /\ queue' = queue \cup {r}
                /\ UNCHANGED <<run, events, worker, committed>>

\* A distance below -MaxLag is in the past of every caller: it is not told apart.
Sooner(t) == IF t = None \/ t = -MaxLag THEN t ELSE t - 1

Tick == /\ run' = [r \in Runs |-> [run[r] EXCEPT !.ttl = Sooner(@)]]
        /\ UNCHANGED <<events, worker, committed, queue>>

Work(r, n) == \/ NodeCompleted(r, n)
              \/ AuditTool(r, n)
              \/ Commit(r, n)
              \/ Refused(r, n)
              \/ RecordCancelled(r, n)
              \/ \E retryable \in BOOLEAN : FinishFailure(r, n, retryable)

Recover == \E lag \in Lags : RecoverAndCatchUp(lag)

Next ==
  \/ \E k \in Keys : CreateRun(k)
  \/ \E S \in SUBSET CatchUpKeys : Schedule(S)
  \/ \E r \in Runs : \/ Claim(r) \/ CancelRun(r) \/ RequeueFailedRun(r)
                     \/ Drop(r) \/ Redeliver(r)
  \/ \E r \in Runs, n \in Attempts : Work(r, n)
  \/ \E r, new \in Runs : ReplaceExhaustedRun(r, new)
  \/ Recover
  \/ \E lag \in Lags : RecoveryConflicts(lag)
  \/ Tick

Spec == Init /\ [][Next]_vars

\* Beat recovers every 60 s and publishes what waits (a conflict lasts at most until
\* the next session has other keys); the broker does not lose every one of those
\* messages, and a worker is there to take one.  Nothing is assumed of a worker
\* once it has claimed.
Fairness == /\ WF_vars(Tick)
            /\ WF_vars(Recover)
            /\ \A r \in Runs : SF_vars(Claim(r))

FairSpec == Spec /\ Fairness
-----------------------------------------------------------------------------
(* Properties *)

\* Every column keeps its type and no message names an unknown run.
TypeOK == /\ run \in [Runs -> RunRow]
          /\ events \in [Runs -> Seq(EventRow)]
          /\ worker \in [Runs -> [Attempts -> {"none", "working", "cancelled", "gone"}]]
          /\ committed \in [Runs -> SUBSET Attempts]
          /\ queue \subseteq Runs

\* ck_agent_run_attempts never fires, a run in progress always has a lease to
\* expire, and a queued run can always be claimed: no run is stranded.
NoStrandedRun ==
  \A r \in Runs :
    /\ run[r].attempts <= MaxAttempts[r]
    /\ run[r].status = "RUNNING" => run[r].attempts > 0 /\ run[r].ttl # None
    /\ run[r].status = "QUEUED" => run[r].attempts < MaxAttempts[r] /\ run[r].ttl = None

\* Retries, recoveries and stale attempts never publish a run's results twice,
\* nor for a run that is not COMPLETED; the attempt that did is the last one.
ResultsOnce ==
  \A r \in Runs :
    committed[r] = IF run[r].status = "COMPLETED" THEN {run[r].attempts} ELSE {}

Entries(r, types) == {i \in 1..Len(events[r]) : events[r][i].type \in types}

\* The status events of a run, and those that announce an attempt.
History(r) == Entries(r, StatusTypes)
Started(r) == Entries(r, {"run.started"})

\* The audit trail tells the story of the row: each attempt is announced once
\* and in order, and the last status event is the one the status calls for
\* (a recovery that queues the run again is silent: run.started may remain).
LastOf(status) ==
  CASE status = "ABSENT"    -> {}
    [] status = "QUEUED"    -> {"run.started", "run.retry_scheduled", "run.operator_retry_queued"}
    [] status = "RUNNING"   -> {"run.started"}
    [] status = "COMPLETED" -> {"run.completed"}
    [] status = "FAILED"    -> {"run.failed"}
    [] status = "CANCELLED" -> {"run.cancelled"}

AttemptsAnnounced(r) ==
  /\ {events[r][i].attempt : i \in Started(r)} = 1..run[r].attempts
  /\ \A i, j \in Started(r) : i < j => events[r][i].attempt < events[r][j].attempt

StatusTold(r) ==
  IF History(r) = {}
  THEN run[r].status \in {"ABSENT", "QUEUED"}
  ELSE \E last \in History(r) : /\ \A i \in History(r) : i <= last
                                /\ events[r][last].type \in LastOf(run[r].status)

EventsTellStatus == \A r \in Runs : AttemptsAnnounced(r) /\ StatusTold(r)

\* COMPLETED and CANCELLED end the story: nothing follows in the run's history.
FinalEventsAreLast ==
  \A r \in Runs : \A i, j \in History(r) :
    i < j => events[r][i].type \notin {"run.completed", "run.cancelled"}

\* The audit trail of a run leads to the row and ends where the run ends, though
\* claims, stale attempts, cancellation and recovery write it side by side.
TrailTellsStory == EventsTellStatus /\ FinalEventsAreLast

\* The progress an attempt reports lies inside the attempt: the status event
\* before a node.completed is the run.started of the attempt that reports it,
\* though stale attempts go on working next to their successors.
ProgressWithinAttempt ==
  \A r \in Runs : \A i \in 1..Len(events[r]) :
    events[r][i].type = "node.completed" =>
      \E s \in 1..i - 1 :
        /\ events[r][s] = Event("run.started", events[r][i].attempt)
        /\ \A j \in s + 1..i - 1 : events[r][j].type \notin StatusTypes

\* An idempotency key, and so a replaced run, has one run only, and what was
\* replaced stays failed: no retry ever runs next to its replacement.
ReplacedStaysFailed ==
  /\ \A r, s \in Runs : run[r].key # None /\ run[r].key = run[s].key => r = s
  /\ \A r \in Runs : Holders(r) # {} => /\ run[r].status = "FAILED"
                                       /\ run[r].attempts = MaxAttempts[r]

\* Every run comes to rest: lost messages, lost workers, retries and operators'
\* retries together do not keep it from a final status for ever.
EventuallySettled ==
  \A r \in Runs : <>[](run[r].status \in {"ABSENT"} \cup EndStatuses)

\* Stale attempts, cancellation, recovery, retries and replacements leave the run
\* table within its constraints, no run stranded, no result published twice and
\* no replaced run revived.
RunsSound == TypeOK /\ NoStrandedRun /\ ResultsOnce /\ ReplacedStaysFailed

\* The runs implement the lifecycle, results included.
Lifecycle == INSTANCE RunLifecycle
  WITH Budget <- MaxAttempts,
       status <- [r \in Runs |-> run[r].status],
       left <- [r \in Runs |-> MaxAttempts[r] - run[r].attempts],
       result <- [r \in Runs |-> committed[r] # {}]
LifecycleSpec == Lifecycle!Spec
=============================================================================
