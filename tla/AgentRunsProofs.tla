--------------------------- MODULE AgentRunsProofs ---------------------------
(***************************************************************************)
(* Agent runs publish their results once, are never stranded and implement *)
(* RunLifecycle, for every set of runs and keys, every attempt budget and  *)
(* every lease, whatever stale attempts, recoveries and operators do.      *)
(*                                                                         *)
(* The argument: every step does to each single run one of the things of   *)
(* RunsStep (an old row's step, or its admission under a key of its own),  *)
(* and RunInv, which ties a run's status, attempts, lease and committed    *)
(* attempts together, survives each.                                       *)
(*                                                                         *)
(* And the trail of a run tells its story, to the page that follows it     *)
(* over any number of connections (RunEventStream): every step appends at  *)
(* most one entry to a trail, after which TrailInv holds again.            *)
(***************************************************************************)
EXTENDS RunEventStream, FiniteSetTheorems, TLAPS

\* What holds of a run and of the work it committed at all times.
RunInv(r) ==
  /\ IF run[r].status = "ABSENT" THEN run[r] = NoRun ELSE run[r].key \in Keys \cup Runs
  /\ run[r].attempts <= MaxAttempts[r]
  /\ run[r].status \in {"RUNNING", "COMPLETED"} => run[r].attempts > 0
  /\ run[r].status = "RUNNING" => run[r].ttl # None
  /\ run[r].status = "QUEUED" => run[r].attempts < MaxAttempts[r] /\ run[r].ttl = None
  /\ committed[r] = IF run[r].status = "COMPLETED" THEN {run[r].attempts} ELSE {}

IInv == TypeOK /\ ReplacedStaysFailed /\ \A r \in Runs : RunInv(r)

-----------------------------------------------------------------------------
(* The effect of a step on one run. *)

RowStays(r) == run'[r] = run[r] /\ committed'[r] = committed[r]

RowAges(r) == /\ run'[r] = [run[r] EXCEPT !.ttl = Sooner(@)]
              /\ committed'[r] = committed[r]

RowClaimed(r) == /\ run[r].status = "QUEUED"
                 /\ run[r].attempts < MaxAttempts[r]
                 /\ run'[r] = Start(r)
                 /\ committed'[r] = committed[r]

RowCompleted(r) == /\ run[r].status = "RUNNING"
                   /\ run'[r] = [run[r] EXCEPT !.status = "COMPLETED", !.ttl = None]
                   /\ committed'[r] = committed[r] \cup {run[r].attempts}

RowFailed(r) == /\ run[r].status = "RUNNING"
                /\ run'[r] = [run[r] EXCEPT !.status = "FAILED", !.ttl = None]
                /\ committed'[r] = committed[r]

RowQueued(r) == /\ run[r].status \in {"RUNNING", "FAILED"}
                /\ run[r].attempts < MaxAttempts[r]
                /\ run'[r] = [run[r] EXCEPT !.status = "QUEUED", !.ttl = None]
                /\ committed'[r] = committed[r]

RowCancelled(r) == /\ run[r].status \in ActiveStatuses
                   /\ run'[r] = [run[r] EXCEPT !.status = "CANCELLED"]
                   /\ committed'[r] = committed[r]

OldRowStep(r) == \/ RowStays(r) \/ RowAges(r) \/ RowClaimed(r) \/ RowCompleted(r)
                 \/ RowFailed(r) \/ RowQueued(r) \/ RowCancelled(r)

RowAdmitted(r, k) == /\ run[r].status = "ABSENT"
                     /\ run'[r] = Admitted(k)
                     /\ committed'[r] = committed[r]

\* The row is one of the new ones, for a key nobody has; a replaced run is exhausted.
NewRowStep(r) ==
  \E k \in Keys \cup Runs :
    /\ RowAdmitted(r, k)
    /\ Holders(k) = {}
    /\ k \in Runs => run[k].status = "FAILED" /\ run[k].attempts >= MaxAttempts[k]

\* What a step does to the runs: an old row's step or an admission of each, and no
\* key is admitted twice.
RunsStep ==
  /\ \A r \in Runs : OldRowStep(r) \/ NewRowStep(r)
  /\ \A r, s \in Runs : NewRowStep(r) /\ NewRowStep(s) /\ run'[r].key = run'[s].key => r = s

-----------------------------------------------------------------------------
\* Each row update yields a well-typed row.
LEMMA RowTypes ==
  /\ NoRun \in RunRow
  /\ \A k \in Keys \cup Runs : Admitted(k) \in RunRow
  /\ \A row \in RunRow :
       /\ [row EXCEPT !.status = "RUNNING", !.attempts = row.attempts + 1, !.ttl = LeaseFor] \in RunRow
       /\ [row EXCEPT !.status = "CANCELLED"] \in RunRow
       /\ \A s \in Statuses : [row EXCEPT !.status = s, !.ttl = None] \in RunRow
       /\ [row EXCEPT !.ttl = Sooner(@)] \in RunRow
<1> USE DEF RunRow, Statuses, ActiveStatuses, EndStatuses
<1>1. NoRun \in RunRow BY DEF NoRun
<1>2. \A k \in Keys \cup Runs : Admitted(k) \in RunRow BY DEF NoRun, Admitted
<1>3. ASSUME NEW row \in RunRow
      PROVE  /\ [row EXCEPT !.status = "RUNNING", !.attempts = row.attempts + 1, !.ttl = LeaseFor] \in RunRow
             /\ [row EXCEPT !.status = "CANCELLED"] \in RunRow
             /\ \A s \in Statuses : [row EXCEPT !.status = s, !.ttl = None] \in RunRow
             /\ [row EXCEPT !.ttl = Sooner(@)] \in RunRow
  <2>1. LeaseFor \in Int /\ row.attempts + 1 \in Nat BY RunsAssumption
  <2>2. Sooner(row.ttl) \in Int \cup {None} BY RunsAssumption DEF Sooner
  <2>3. [row EXCEPT !.status = "RUNNING", !.attempts = row.attempts + 1, !.ttl = LeaseFor] \in RunRow
    BY <2>1
  <2>4. [row EXCEPT !.ttl = Sooner(@)] \in RunRow BY <2>2
  <2> QED BY <2>3, <2>4
<1> QED BY <1>1, <1>2, <1>3

\* An appended event keeps the event table well typed.
LEMMA RecordTypes ==
  ASSUME TypeOK
  PROVE  \A r \in Runs, type \in EventTypes, n \in Nat :
           /\ Append(events[r], Event(type, n)) \in Seq(EventRow)
           /\ Record(r, type, n) => events' \in [Runs -> Seq(EventRow)]
<1> SUFFICES ASSUME NEW r \in Runs, NEW type \in EventTypes, NEW n \in Nat
             PROVE  /\ Append(events[r], Event(type, n)) \in Seq(EventRow)
                    /\ Record(r, type, n) => events' \in [Runs -> Seq(EventRow)]
  OBVIOUS
<1>1. events \in [Runs -> Seq(EventRow)] BY DEF TypeOK
<1>2. Event(type, n) \in EventRow BY DEF Event, EventRow
<1>3. Append(events[r], Event(type, n)) \in Seq(EventRow) BY <1>1, <1>2
<1> QED BY <1>1, <1>3 DEF Record

\* The empty tables satisfy the invariant.
LEMMA InitIInv == Init => IInv
<1> SUFFICES ASSUME Init PROVE IInv OBVIOUS
<1>1. TypeOK
  <2>1. run \in [Runs -> RunRow] BY RowTypes DEF Init
  <2>2. \A r \in Runs : events[r] = <<>> BY DEF Init
  <2>3. <<>> \in Seq(EventRow) OBVIOUS
  <2>4. events \in [Runs -> Seq(EventRow)] BY <2>3 DEF Init
  <2>5. worker \in [Runs -> [Attempts -> {"none", "working", "cancelled", "gone"}]] BY DEF Init
  <2>6. committed \in [Runs -> SUBSET Attempts] /\ queue \subseteq Runs BY DEF Init
  <2> QED BY <2>1, <2>4, <2>5, <2>6 DEF TypeOK
<1>2. ReplacedStaysFailed
  <2>1. \A r \in Runs : run[r].key = None BY DEF Init, NoRun
  <2>2. \A r \in Runs : Holders(r) = {} BY <2>1, RunsAssumption DEF Holders
  <2> QED BY <2>1, <2>2 DEF ReplacedStaysFailed
<1>3. \A r \in Runs : RunInv(r) BY RunsAssumption DEF Init, RunInv, NoRun
<1> QED BY <1>1, <1>2, <1>3 DEF IInv

-----------------------------------------------------------------------------
(* Every action is a RunsStep and keeps the types. *)

\* An old row's step is no admission.
LEMMA OldIsNotNew ==
  ASSUME TypeOK, NEW r \in Runs, OldRowStep(r)
  PROVE  ~NewRowStep(r)
<1> SUFFICES ASSUME NewRowStep(r) PROVE FALSE OBVIOUS
<1>1. run[r] \in RunRow BY DEF TypeOK
<1>2. run[r].status = "ABSENT" /\ run'[r].status = "QUEUED"
  BY DEF NewRowStep, RowAdmitted, Admitted, NoRun
<1>3. run'[r].status = run[r].status \/ run[r].status # "ABSENT"
  BY <1>1 DEF OldRowStep, RowStays, RowAges, RowClaimed, RowCompleted, RowFailed, RowQueued,
              RowCancelled, RunRow, ActiveStatuses
<1> QED BY <1>2, <1>3

\* A step that leaves every row an old one is a RunsStep.
LEMMA OldRowsStep ==
  ASSUME TypeOK, \A r \in Runs : OldRowStep(r)
  PROVE  RunsStep
BY OldIsNotNew DEF RunsStep

\* So is one that admits one row and leaves the others.
LEMMA OneNewRowStep ==
  ASSUME TypeOK, NEW new \in Runs, NewRowStep(new), \A r \in Runs \ {new} : RowStays(r)
  PROVE  RunsStep
<1>1. \A r \in Runs \ {new} : OldRowStep(r) BY DEF OldRowStep
<1> QED BY <1>1, OldIsNotNew DEF RunsStep

\* What is admitted together is admitted under keys without a run, each its own.
LEMMA AdmissionsStep ==
  ASSUME TypeOK, NEW S \in SUBSET Keys, NEW rows \in [Runs -> RunRow],
         NEW new \in Admissions(S, rows),
         run' = WithAdmitted(new, rows), UNCHANGED committed,
         \A r \in Runs : rows[r].status = "ABSENT" => run[r].status = "ABSENT",
         \A r \in Runs : run'[r] = rows[r] => OldRowStep(r)
  PROVE  run' \in [Runs -> RunRow] /\ RunsStep
<1>1. /\ \A r \in Runs : new[r] # None => /\ new[r] \in S /\ Holders(new[r]) = {}
                                          /\ rows[r].status = "ABSENT"
      /\ \A r, s \in Runs : new[r] # None /\ new[r] = new[s] => r = s
  BY DEF Admissions
<1>2. \A r \in Runs : new[r] # None => run'[r] = Admitted(new[r]) BY DEF WithAdmitted
<1>3. \A r \in Runs : new[r] = None => run'[r] = rows[r] BY DEF WithAdmitted
<1>4. run' \in [Runs -> RunRow] BY <1>1, RowTypes DEF WithAdmitted
<1>5. \A r \in Runs : new[r] # None => NewRowStep(r)
  <2> SUFFICES ASSUME NEW r \in Runs, new[r] # None PROVE NewRowStep(r) OBVIOUS
  <2>1. RowAdmitted(r, new[r]) BY <1>1, <1>2 DEF RowAdmitted
  <2>2. new[r] \in Keys /\ new[r] \notin Runs BY <1>1, RunsAssumption
  <2> QED BY <2>1, <2>2, <1>1 DEF NewRowStep
<1>6. \A r \in Runs : new[r] = None => OldRowStep(r) BY <1>3
<1>7. ASSUME NEW r \in Runs, NEW s \in Runs, NewRowStep(r), NewRowStep(s), run'[r].key = run'[s].key
      PROVE  r = s
  <2>1. new[r] # None /\ new[s] # None BY <1>6, <1>7, OldIsNotNew
  <2>2. run'[r].key = new[r] /\ run'[s].key = new[s] BY <2>1, <1>2 DEF Admitted, NoRun
  <2> QED BY <2>1, <2>2, <1>1, <1>7
<1> QED BY <1>4, <1>5, <1>6, <1>7 DEF RunsStep

\* The work of an attempt ends or goes on.
LEMMA WorkSteps ==
  ASSUME IInv, NEW r \in Runs, NEW n \in Attempts, Work(r, n)
  PROVE  TypeOK' /\ RunsStep
<1>a. TypeOK /\ RunInv(r) BY DEF IInv
<1>b. /\ run \in [Runs -> RunRow]
      /\ events \in [Runs -> Seq(EventRow)]
      /\ worker \in [Runs -> [Attempts -> {"none", "working", "cancelled", "gone"}]]
      /\ committed \in [Runs -> SUBSET Attempts]
      /\ queue \subseteq Runs
  BY <1>a DEF TypeOK
<1>c. n \in Nat BY RunsAssumption DEF Attempts
<1>d. \A type \in EventTypes : Record(r, type, n) => events' \in [Runs -> Seq(EventRow)]
  BY <1>a, <1>c, RecordTypes
<1>e. \A s \in {"gone", "cancelled"} :
        [worker EXCEPT ![r][n] = s]
          \in [Runs -> [Attempts -> {"none", "working", "cancelled", "gone"}]]
  BY <1>b
<1>f. \A s \in Statuses : [run EXCEPT ![r].status = s, ![r].ttl = None] \in [Runs -> RunRow]
  BY <1>b, RowTypes
<1> USE DEF EventTypes, StatusTypes, NoteTypes, AuditTypes
<1>0. ASSUME UNCHANGED <<run, committed>> PROVE RunsStep
  BY <1>0, <1>a, OldRowsStep DEF OldRowStep, RowStays
<1>1. CASE NodeCompleted(r, n)
  <2>1. events' \in [Runs -> Seq(EventRow)] BY <1>1, <1>d DEF NodeCompleted
  <2>2. TypeOK' BY <1>1, <2>1, <1>b DEF NodeCompleted, TypeOK
  <2> QED BY <1>1, <2>2, <1>0 DEF NodeCompleted
<1>2. CASE AuditTool(r, n)
  <2>1. events' \in [Runs -> Seq(EventRow)] BY <1>2, <1>d DEF AuditTool
  <2>2. TypeOK' BY <1>2, <2>1, <1>b DEF AuditTool, TypeOK
  <2> QED BY <1>2, <2>2, <1>0 DEF AuditTool
<1>3. CASE Commit(r, n)
  <2>1. events' \in [Runs -> Seq(EventRow)] BY <1>3, <1>d DEF Commit
  <2>2. run' \in [Runs -> RunRow] BY <1>3, <1>f DEF Commit, Statuses, EndStatuses
  <2>3. committed' \in [Runs -> SUBSET Attempts] BY <1>3, <1>b DEF Commit
  <2>4. worker' \in [Runs -> [Attempts -> {"none", "working", "cancelled", "gone"}]]
    BY <1>3, <1>e DEF Commit, Leaves
  <2>5. TypeOK' BY <1>3, <2>1, <2>2, <2>3, <2>4, <1>b DEF Commit, TypeOK
  <2>6. RowCompleted(r) BY <1>3, <1>b DEF Commit, RowCompleted, Holds
  <2>7. \A i \in Runs \ {r} : RowStays(i) BY <1>3, <1>b DEF Commit, RowStays
  <2> QED BY <2>5, <2>6, <2>7, <1>a, OldRowsStep DEF OldRowStep
<1>4. CASE Refused(r, n)
  <2>1. worker' \in [Runs -> [Attempts -> {"none", "working", "cancelled", "gone"}]]
    BY <1>4, <1>e DEF Refused
  <2>2. TypeOK' BY <1>4, <2>1, <1>b DEF Refused, TypeOK
  <2> QED BY <1>4, <2>2, <1>0 DEF Refused
<1>5. CASE RecordCancelled(r, n)
  <2>1. events' \in [Runs -> Seq(EventRow)] BY <1>5, <1>d, <1>b DEF RecordCancelled
  <2>2. worker' \in [Runs -> [Attempts -> {"none", "working", "cancelled", "gone"}]]
    BY <1>5, <1>e DEF RecordCancelled, Leaves
  <2>3. TypeOK' BY <1>5, <2>1, <2>2, <1>b DEF RecordCancelled, TypeOK
  <2> QED BY <1>5, <2>3, <1>0 DEF RecordCancelled
<1>6. ASSUME NEW retryable \in BOOLEAN, FinishFailure(r, n, retryable)
      PROVE  TypeOK' /\ RunsStep
  <2>1. worker' \in [Runs -> [Attempts -> {"none", "working", "cancelled", "gone"}]]
    BY <1>6, <1>e DEF FinishFailure, Leaves
  <2>2. CASE ~Holds(r, n)
    <3>1. UNCHANGED <<run, events, committed, queue>> BY <1>6, <2>2 DEF FinishFailure
    <3>2. TypeOK' BY <2>1, <3>1, <1>b DEF TypeOK
    <3> QED BY <3>1, <3>2, <1>0
  <2>3. CASE Holds(r, n)
    <3> DEFINE status == IF retryable /\ ~(run[r].attempts >= MaxAttempts[r])
                         THEN "QUEUED" ELSE "FAILED"
    <3>1. /\ run' = [run EXCEPT ![r].status = status, ![r].ttl = None]
          /\ Record(r, IF status = "QUEUED" THEN "run.retry_scheduled" ELSE "run.failed", n)
          /\ UNCHANGED <<committed, queue>>
      BY <1>6, <2>3 DEF FinishFailure
    <3>2. status \in Statuses BY DEF Statuses, ActiveStatuses, EndStatuses
    <3>3. run' \in [Runs -> RunRow] BY <3>1, <3>2, <1>f
    <3>4. events' \in [Runs -> Seq(EventRow)] BY <3>1, <1>d
    <3>5. TypeOK' BY <2>1, <3>1, <3>3, <3>4, <1>b DEF TypeOK
    <3>6. run[r].status = "RUNNING" /\ run[r].attempts \in Nat
      BY <2>3, <1>b DEF Holds, RunRow
    <3>7. run'[r] = [run[r] EXCEPT !.status = status, !.ttl = None] /\ committed'[r] = committed[r]
      BY <3>1, <1>b
    <3>8. RowQueued(r) \/ RowFailed(r)
      <4>1. CASE retryable /\ ~(run[r].attempts >= MaxAttempts[r])
        <5>1. status = "QUEUED" BY <4>1
        <5>2. run[r].attempts < MaxAttempts[r] BY <3>6, <4>1, RunsAssumption
        <5> HIDE DEF status
        <5> QED BY <3>6, <3>7, <5>1, <5>2 DEF RowQueued
      <4>2. CASE ~(retryable /\ ~(run[r].attempts >= MaxAttempts[r]))
        <5>1. status = "FAILED" BY <4>2
        <5> HIDE DEF status
        <5> QED BY <3>6, <3>7, <5>1 DEF RowFailed
      <4> QED BY <4>1, <4>2
    <3>9. \A i \in Runs \ {r} : RowStays(i) BY <3>1, <1>b DEF RowStays
    <3> QED BY <3>5, <3>8, <3>9, <1>a, OldRowsStep DEF OldRowStep
  <2> QED BY <2>2, <2>3
<1> QED BY <1>1, <1>2, <1>3, <1>4, <1>5, <1>6 DEF Work

\* The API and the schedules admit a run, the operator a replacement.
LEMMA AdmissionSteps ==
  ASSUME IInv,
         \/ \E k \in Keys : CreateRun(k)
         \/ \E S \in SUBSET CatchUpKeys : Schedule(S)
         \/ \E r, new \in Runs : ReplaceExhaustedRun(r, new)
  PROVE  TypeOK' /\ RunsStep
<1>a. TypeOK BY DEF IInv
<1>b. /\ run \in [Runs -> RunRow]
      /\ events \in [Runs -> Seq(EventRow)]
      /\ queue \subseteq Runs
  BY <1>a DEF TypeOK
<1>1. ASSUME NEW k \in Keys \cup Runs, NEW new \in Runs, Admit(k, new), UNCHANGED committed,
             k \in Runs => run[k].status = "FAILED" /\ run[k].attempts >= MaxAttempts[k]
      PROVE  run' \in [Runs -> RunRow] /\ RunsStep
  <2>1. run' \in [Runs -> RunRow] BY <1>1, <1>b, RowTypes DEF Admit
  <2>2. RowAdmitted(new, k) /\ Holders(k) = {} BY <1>1, <1>b DEF Admit, RowAdmitted
  <2>3. \A i \in Runs \ {new} : RowStays(i) BY <1>1, <1>b DEF Admit, RowStays
  <2>4. NewRowStep(new) BY <1>1, <2>2 DEF NewRowStep
  <2> QED BY <2>1, <2>3, <2>4, <1>a, OneNewRowStep
<1>2. ASSUME NEW k \in Keys, CreateRun(k) PROVE TypeOK' /\ RunsStep
  <2>1. PICK new \in Runs : Admit(k, new) BY <1>2 DEF CreateRun
  <2>2. UNCHANGED <<events, worker, committed, queue>> BY <1>2 DEF CreateRun
  <2>3. k \notin Runs BY RunsAssumption
  <2>4. run' \in [Runs -> RunRow] /\ RunsStep BY <1>1, <2>1, <2>2, <2>3
  <2> QED BY <2>2, <2>4, <1>a DEF TypeOK
<1>3. ASSUME NEW S \in SUBSET CatchUpKeys, Schedule(S) PROVE TypeOK' /\ RunsStep
  <2>1. PICK new \in Admissions(S, run) :
          /\ run' = WithAdmitted(new, run)
          /\ queue' = queue \cup {r \in Runs : new[r] # None}
          /\ UNCHANGED <<events, worker, committed>>
    BY <1>3 DEF Schedule
  <2>2. S \in SUBSET Keys BY RunsAssumption
  <2>3. \A r \in Runs : run'[r] = run[r] => OldRowStep(r) BY <2>1 DEF OldRowStep, RowStays
  <2>4. run' \in [Runs -> RunRow] /\ RunsStep BY <2>1, <2>2, <2>3, <1>a, <1>b, AdmissionsStep
  <2> QED BY <2>1, <2>4, <1>a DEF TypeOK
<1>4. ASSUME NEW r \in Runs, NEW new \in Runs, ReplaceExhaustedRun(r, new)
      PROVE  TypeOK' /\ RunsStep
  <2>1. Admit(r, new) /\ UNCHANGED <<worker, committed>> /\ queue' = queue \cup {new}
    BY <1>4 DEF ReplaceExhaustedRun
  <2>2. run' \in [Runs -> RunRow] /\ RunsStep BY <1>1, <2>1, <1>4 DEF ReplaceExhaustedRun
  <2>3. r # new BY <1>4 DEF ReplaceExhaustedRun, Admit
  <2>4. /\ Append(events[r], Event("run.replacement_queued", 0)) \in Seq(EventRow)
        /\ Append(events[new], Event("run.replaces_failed", 0)) \in Seq(EventRow)
    BY <1>a, RecordTypes DEF EventTypes, AuditTypes
  <2>5. events' = [events EXCEPT ![r] = Append(events[r], Event("run.replacement_queued", 0)),
                                 ![new] = Append(events[new], Event("run.replaces_failed", 0))]
    BY <1>4, <2>3, <1>b DEF ReplaceExhaustedRun
  <2>6. events' \in [Runs -> Seq(EventRow)] BY <2>4, <2>5, <1>b
  <2> QED BY <2>1, <2>2, <2>6, <1>a DEF TypeOK
<1> QED BY <1>2, <1>3, <1>4

\* Everything else: the claim, the routes, the recovery, the broker, the clock.
LEMMA OtherSteps ==
  ASSUME IInv,
         \/ \E r \in Runs : \/ Claim(r) \/ CancelRun(r) \/ RequeueFailedRun(r)
                            \/ Drop(r) \/ Redeliver(r)
         \/ Recover
         \/ \E lag \in Lags : RecoveryConflicts(lag)
         \/ Tick
  PROVE  TypeOK' /\ RunsStep
<1>a. TypeOK BY DEF IInv
<1>b. /\ run \in [Runs -> RunRow]
      /\ events \in [Runs -> Seq(EventRow)]
      /\ worker \in [Runs -> [Attempts -> {"none", "working", "cancelled", "gone"}]]
      /\ committed \in [Runs -> SUBSET Attempts]
      /\ queue \subseteq Runs
  BY <1>a DEF TypeOK
<1> USE DEF EventTypes, StatusTypes
<1>1. ASSUME NEW r \in Runs, Claim(r) PROVE TypeOK' /\ RunsStep
  <2>1. Start(r) \in RunRow BY <1>b, RowTypes DEF Start
  <2>2. run' \in [Runs -> RunRow] BY <1>1, <1>b, <2>1 DEF Claim
  <2>3. run[r].attempts + 1 \in Nat BY <1>b DEF RunRow
  <2>4. events' \in [Runs -> Seq(EventRow)] BY <1>1, <1>a, <2>3, RecordTypes DEF Claim
  <2>5. worker' \in [Runs -> [Attempts -> {"none", "working", "cancelled", "gone"}]]
    BY <1>1, <1>b DEF Claim
  <2>6. queue' \subseteq Runs BY <1>1, <1>b DEF Claim
  <2>7. TypeOK' BY <1>1, <2>2, <2>4, <2>5, <2>6, <1>b DEF Claim, TypeOK
  <2>8. \A i \in Runs : RowClaimed(i) \/ RowStays(i)
    BY <1>1, <1>b DEF Claim, RowClaimed, RowStays
  <2> QED BY <2>7, <2>8, <1>a, OldRowsStep DEF OldRowStep
<1>2. ASSUME NEW r \in Runs, CancelRun(r) PROVE TypeOK' /\ RunsStep
  <2>1. run' \in [Runs -> RunRow] BY <1>2, <1>b, RowTypes DEF CancelRun
  <2>2. events' \in [Runs -> Seq(EventRow)] BY <1>2, <1>a, RecordTypes DEF CancelRun
  <2>3. TypeOK' BY <1>2, <2>1, <2>2, <1>b DEF CancelRun, TypeOK
  <2>4. \A i \in Runs : RowCancelled(i) \/ RowStays(i)
    BY <1>2, <1>b DEF CancelRun, RowCancelled, RowStays
  <2> QED BY <2>3, <2>4, <1>a, OldRowsStep DEF OldRowStep
<1>3. ASSUME NEW r \in Runs, RequeueFailedRun(r) PROVE TypeOK' /\ RunsStep
  <2>1. run' \in [Runs -> RunRow]
    BY <1>3, <1>b, RowTypes DEF RequeueFailedRun, Statuses, ActiveStatuses
  <2>2. events' \in [Runs -> Seq(EventRow)] BY <1>3, <1>a, RecordTypes DEF RequeueFailedRun
  <2>3. TypeOK' BY <1>3, <2>1, <2>2, <1>b DEF RequeueFailedRun, TypeOK
  <2>4. \A i \in Runs : RowQueued(i) \/ RowStays(i)
    BY <1>3, <1>b DEF RequeueFailedRun, RowQueued, RowStays
  <2> QED BY <2>3, <2>4, <1>a, OldRowsStep DEF OldRowStep
<1>4. ASSUME NEW r \in Runs, Drop(r) \/ Redeliver(r) PROVE TypeOK' /\ RunsStep
  <2>1. TypeOK' BY <1>4, <1>b DEF Drop, Redeliver, TypeOK
  <2>2. \A i \in Runs : RowStays(i) BY <1>4 DEF Drop, Redeliver, RowStays
  <2> QED BY <2>1, <2>2, <1>a, OldRowsStep DEF OldRowStep
<1>5. ASSUME NEW lag \in Lags, RecoverAndCatchUp(lag) PROVE TypeOK' /\ RunsStep
  <2> DEFINE rows == RecoveredRuns(lag)
  <2>1. PICK new \in Admissions(CatchUpKeys, rows) :
          /\ run' = WithAdmitted(new, rows)
          /\ events' = [r \in Runs |->
                          IF r \in Expired(lag) /\ rows[r].status = "FAILED"
                          THEN Append(events[r], Event("run.failed", 0)) ELSE events[r]]
          /\ queue' = queue \cup Startable(rows) \cup {r \in Runs : new[r] # None}
          /\ UNCHANGED <<worker, committed>>
    BY <1>5 DEF RecoverAndCatchUp
  <2>2. \A r \in Runs : Recovered(r) \in RunRow
    BY <1>b, RowTypes DEF Recovered, Statuses, ActiveStatuses, EndStatuses
  <2>3. rows \in [Runs -> RunRow] BY <2>2, <1>b DEF RecoveredRuns
  <2>4. \A r \in Runs : rows[r] = IF r \in Expired(lag) THEN Recovered(r) ELSE run[r]
    BY DEF RecoveredRuns
  <2>5. ASSUME NEW i \in Runs, run'[i] = rows[i] PROVE OldRowStep(i)
    <3>1. CASE i \notin Expired(lag)
      BY <3>1, <2>1, <2>4, <2>5 DEF OldRowStep, RowStays
    <3>2. CASE i \in Expired(lag)
      <4>1. run'[i] = Recovered(i) /\ committed'[i] = committed[i]
        BY <3>2, <2>1, <2>4, <2>5
      <4>2. run[i].status = "RUNNING" /\ run[i].attempts \in Nat
        BY <3>2, <1>b DEF Expired, RunRow
      <4>3. RowFailed(i) \/ RowQueued(i)
        <5>1. CASE run[i].attempts >= MaxAttempts[i]
          <6>1. Recovered(i) = [run[i] EXCEPT !.status = "FAILED", !.ttl = None]
            BY <5>1 DEF Recovered
          <6> QED BY <4>1, <4>2, <6>1 DEF RowFailed
        <5>2. CASE ~(run[i].attempts >= MaxAttempts[i])
          <6>1. Recovered(i) = [run[i] EXCEPT !.status = "QUEUED", !.ttl = None]
            BY <5>2 DEF Recovered
          <6>2. run[i].attempts < MaxAttempts[i] BY <4>2, <5>2, RunsAssumption
          <6> QED BY <4>1, <4>2, <6>1, <6>2 DEF RowQueued
        <5> QED BY <5>1, <5>2
      <4> QED BY <4>3 DEF OldRowStep
    <3> QED BY <3>1, <3>2
  <2>6. \A r \in Runs : rows[r].status = "ABSENT" => run[r].status = "ABSENT"
    <3>1. \A r \in Runs : Recovered(r).status # "ABSENT" BY <1>b DEF Recovered, RunRow
    <3> QED BY <3>1, <2>4
  <2>7. CatchUpKeys \in SUBSET Keys BY RunsAssumption
  <2>8. \A r \in Runs : Append(events[r], Event("run.failed", 0)) \in Seq(EventRow)
    BY <1>a, RecordTypes
  <2>9. events' \in [Runs -> Seq(EventRow)] BY <2>1, <2>8, <1>b
  <2>10. queue' \subseteq Runs BY <2>1, <1>b DEF Startable
  <2> HIDE DEF rows
  <2>11. run' \in [Runs -> RunRow] /\ RunsStep
    BY <2>1, <2>3, <2>5, <2>6, <2>7, <1>a, AdmissionsStep
  <2> QED BY <2>1, <2>9, <2>10, <2>11, <1>b DEF TypeOK
<1>7. ASSUME NEW lag \in Lags, RecoveryConflicts(lag) PROVE TypeOK' /\ RunsStep
  <2>1. UNCHANGED <<run, events, worker, committed>> /\ queue' = queue \cup Startable(RecoveredRuns(lag))
    BY <1>7 DEF RecoveryConflicts
  <2>2. TypeOK' BY <2>1, <1>b DEF TypeOK, Startable
  <2>3. \A i \in Runs : RowStays(i) BY <2>1 DEF RowStays
  <2> QED BY <2>2, <2>3, <1>a, OldRowsStep DEF OldRowStep
<1>6. ASSUME Tick PROVE TypeOK' /\ RunsStep
  <2>1. run' \in [Runs -> RunRow] BY <1>6, <1>b, RowTypes DEF Tick
  <2>2. TypeOK' BY <1>6, <2>1, <1>b DEF Tick, TypeOK
  <2>3. \A i \in Runs : RowAges(i) BY <1>6 DEF Tick, RowAges
  <2> QED BY <2>2, <2>3, <1>a, OldRowsStep DEF OldRowStep
<1> QED BY <1>1, <1>2, <1>3, <1>4, <1>5, <1>6, <1>7 DEF Recover

\* Every step of the specification is a RunsStep that keeps the types.
LEMMA Steps ==
  ASSUME IInv, [Next]_vars
  PROVE  TypeOK' /\ RunsStep
<1>1. CASE UNCHANGED vars
  <2>1. TypeOK' BY <1>1 DEF IInv, TypeOK, vars
  <2>2. TypeOK BY DEF IInv
  <2> QED BY <1>1, <2>1, <2>2, OldRowsStep DEF vars, OldRowStep, RowStays
<1>2. CASE Next BY <1>2, WorkSteps, AdmissionSteps, OtherSteps DEF Next
<1> QED BY <1>1, <1>2

-----------------------------------------------------------------------------
(* The invariant. *)

\* The invariant of a run survives whatever an old row's step does to it.
LEMMA OldRowStepKeepsRunInv ==
  ASSUME TypeOK, TypeOK', NEW r \in Runs, RunInv(r), OldRowStep(r)
  PROVE  RunInv(r)'
<1>a. run[r] \in RunRow /\ run'[r] \in RunRow BY DEF TypeOK
<1>b. None \notin Int /\ LeaseFor \in Int BY RunsAssumption
<1> USE DEF RunInv, RunRow
<1>1. CASE RowStays(r) BY <1>1 DEF RowStays
<1>2. CASE RowAges(r)
  <2>1. \A t \in Int \cup {None} : Sooner(t) = None <=> t = None
    BY <1>b, RunsAssumption DEF Sooner
  <2>2. run[r].ttl \in Int \cup {None} BY <1>a
  <2>3. /\ run'[r].key = run[r].key /\ run'[r].status = run[r].status
        /\ run'[r].attempts = run[r].attempts /\ run'[r].ttl = Sooner(run[r].ttl)
        /\ committed'[r] = committed[r]
    BY <1>2, <1>a DEF RowAges
  <2>4. run[r].status = "ABSENT" => run'[r] = NoRun
    BY <1>2, <2>1, <1>a DEF RowAges, NoRun
  <2> QED BY <2>1, <2>2, <2>3, <2>4
<1>3. CASE RowClaimed(r)
  <2>1. /\ run'[r].key = run[r].key /\ run'[r].status = "RUNNING"
        /\ run'[r].attempts = run[r].attempts + 1 /\ run'[r].ttl = LeaseFor
        /\ committed'[r] = committed[r] /\ run[r].status = "QUEUED"
        /\ run[r].attempts < MaxAttempts[r]
    BY <1>3, <1>a DEF RowClaimed, Start
  <2> QED BY <2>1, <1>a, <1>b, RunsAssumption
<1>4. CASE RowCompleted(r)
  <2>1. /\ run'[r].key = run[r].key /\ run'[r].status = "COMPLETED"
        /\ run'[r].attempts = run[r].attempts
        /\ committed'[r] = committed[r] \cup {run[r].attempts} /\ run[r].status = "RUNNING"
    BY <1>4, <1>a DEF RowCompleted
  <2> QED BY <2>1, <1>a
<1>5. CASE RowFailed(r)
  <2>1. /\ run'[r].key = run[r].key /\ run'[r].status = "FAILED"
        /\ run'[r].attempts = run[r].attempts
        /\ committed'[r] = committed[r] /\ run[r].status = "RUNNING"
    BY <1>5, <1>a DEF RowFailed
  <2> QED BY <2>1, <1>a
<1>6. CASE RowQueued(r)
  <2>1. /\ run'[r].key = run[r].key /\ run'[r].status = "QUEUED"
        /\ run'[r].attempts = run[r].attempts /\ run'[r].ttl = None
        /\ committed'[r] = committed[r] /\ run[r].status \in {"RUNNING", "FAILED"}
        /\ run[r].attempts < MaxAttempts[r]
    BY <1>6, <1>a DEF RowQueued
  <2> QED BY <2>1, <1>a
<1>7. CASE RowCancelled(r)
  <2>1. /\ run'[r].key = run[r].key /\ run'[r].status = "CANCELLED"
        /\ run'[r].attempts = run[r].attempts
        /\ committed'[r] = committed[r] /\ run[r].status \in {"QUEUED", "RUNNING"}
    BY <1>7, <1>a DEF RowCancelled, ActiveStatuses
  <2> QED BY <2>1, <1>a
<1> QED BY <1>1, <1>2, <1>3, <1>4, <1>5, <1>6, <1>7 DEF OldRowStep

\* An old row keeps its key, and a failed run without attempts left stays so.
LEMMA OldRowStepKeepsKey ==
  ASSUME TypeOK, NEW r \in Runs, OldRowStep(r)
  PROVE  /\ run'[r].key = run[r].key
         /\ run[r].status = "FAILED" /\ run[r].attempts >= MaxAttempts[r] =>
              run'[r].status = "FAILED" /\ run'[r].attempts = run[r].attempts
<1>1. run[r] \in RunRow BY DEF TypeOK
<1>2. run'[r].key = run[r].key
  BY <1>1 DEF OldRowStep, RowStays, RowAges, RowClaimed, RowCompleted, RowFailed, RowQueued,
              RowCancelled, Start, RunRow
<1>3. ASSUME run[r].status = "FAILED", run[r].attempts >= MaxAttempts[r]
      PROVE  run'[r].status = "FAILED" /\ run'[r].attempts = run[r].attempts
  <2>1. ~(run[r].attempts < MaxAttempts[r]) BY <1>1, <1>3, RunsAssumption DEF RunRow
  <2>2. RowStays(r) \/ RowAges(r)
    BY <1>3, <2>1 DEF OldRowStep, RowClaimed, RowCompleted, RowFailed, RowQueued, RowCancelled,
                      ActiveStatuses
  <2> QED BY <1>1, <1>3, <2>2 DEF RowStays, RowAges, RunRow
<1> QED BY <1>2, <1>3

\* The invariant survives every step.
LEMMA NextIInv == IInv /\ [Next]_vars => IInv'
<1> SUFFICES ASSUME IInv, [Next]_vars PROVE IInv' OBVIOUS
<1>a. TypeOK /\ ReplacedStaysFailed /\ \A r \in Runs : RunInv(r) BY DEF IInv
<1>b. TypeOK' /\ RunsStep BY Steps
<1>c. \A r \in Runs : run[r] \in RunRow BY <1>a DEF TypeOK
<1>d. /\ \A r, s \in Runs : run[r].key # None /\ run[r].key = run[s].key => r = s
      /\ \A r, s \in Runs : run[s].key = r => /\ run[r].status = "FAILED"
                                              /\ run[r].attempts = MaxAttempts[r]
  BY <1>a DEF ReplacedStaysFailed, Holders
<1>e. \A r \in Runs : MaxAttempts[r] \in Nat /\ MaxAttempts[r] >= MaxAttempts[r] BY RunsAssumption
<1>1. \A r \in Runs : OldRowStep(r) \/ NewRowStep(r) BY <1>b DEF RunsStep
<1>2. ASSUME NEW r \in Runs, NewRowStep(r)
      PROVE  /\ run[r].status = "ABSENT" /\ RunInv(r)' /\ run'[r].key \in Keys \cup Runs
             /\ \A s \in Runs : run[s].key # run'[r].key
             /\ run'[r].key \in Runs =>
                  /\ run[run'[r].key].status = "FAILED"
                  /\ run[run'[r].key].attempts >= MaxAttempts[run'[r].key]
  <2>1. PICK k \in Keys \cup Runs :
             /\ RowAdmitted(r, k)
             /\ Holders(k) = {}
             /\ k \in Runs => run[k].status = "FAILED" /\ run[k].attempts >= MaxAttempts[k]
    BY <1>2 DEF NewRowStep
  <2>2. /\ run[r].status = "ABSENT" /\ run'[r].key = k /\ run'[r].status = "QUEUED"
        /\ run'[r].attempts = 0 /\ run'[r].ttl = None /\ committed'[r] = committed[r]
    BY <2>1 DEF RowAdmitted, Admitted, NoRun
  <2>3. RunInv(r)'
    <3>1. 0 < MaxAttempts[r] /\ 0 <= MaxAttempts[r] BY RunsAssumption
    <3>2. committed'[r] = {} BY <2>2, <1>a DEF RunInv
    <3> QED BY <2>2, <3>1, <3>2 DEF RunInv
  <2>4. \A s \in Runs : run[s].key # k BY <2>1 DEF Holders
  <2> QED BY <2>1, <2>2, <2>3, <2>4
<1>3. \A r \in Runs : RunInv(r)'
  BY <1>1, <1>2, <1>a, <1>b, OldRowStepKeepsRunInv
<1>4. \A r \in Runs : OldRowStep(r) => run'[r].key = run[r].key BY <1>a, OldRowStepKeepsKey
<1>5. ASSUME NEW r \in Runs, NEW s \in Runs, run'[r].key # None, run'[r].key = run'[s].key
      PROVE  r = s
  <2>1. CASE OldRowStep(r) /\ OldRowStep(s) BY <2>1, <1>4, <1>5, <1>d
  <2>2. CASE OldRowStep(r) /\ NewRowStep(s) BY <2>2, <1>2, <1>4, <1>5
  <2>3. CASE NewRowStep(r) /\ OldRowStep(s) BY <2>3, <1>2, <1>4, <1>5
  <2>4. CASE NewRowStep(r) /\ NewRowStep(s) BY <2>4, <1>5, <1>b DEF RunsStep
  <2> QED BY <1>1, <2>1, <2>2, <2>3, <2>4
<1>6. ASSUME NEW r \in Runs, NEW s \in Runs, run'[s].key = r
      PROVE  run'[r].status = "FAILED" /\ run'[r].attempts = MaxAttempts[r]
  <2>1. run[r].status = "FAILED" /\ run[r].attempts >= MaxAttempts[r]
    <3>1. CASE OldRowStep(s) BY <3>1, <1>4, <1>6, <1>d, <1>e
    <3>2. CASE NewRowStep(s) BY <3>2, <1>2, <1>6
    <3> QED BY <1>1, <3>1, <3>2
  <2>2. run[r].attempts = MaxAttempts[r]
    <3>1. run[r].attempts <= MaxAttempts[r] /\ run[r].attempts \in Nat BY <1>a, <1>c DEF RunInv, RunRow
    <3> QED BY <2>1, <3>1, <1>e
  <2>3. OldRowStep(r) BY <1>1, <1>2, <2>1
  <2> QED BY <2>1, <2>2, <2>3, <1>a, OldRowStepKeepsKey
<1>7. ReplacedStaysFailed' BY <1>5, <1>6 DEF ReplacedStaysFailed, Holders
<1> QED BY <1>3, <1>7, <1>b DEF IInv

\* IInv holds in every reachable state.
LEMMA RunsIInv == Spec => []IInv
BY InitIInv, NextIInv, PTL DEF Spec

\* The tables keep their types, and no message names an unknown run.
THEOREM RunsTypeOK == Spec => []TypeOK
<1>1. IInv => TypeOK BY DEF IInv
<1> QED BY <1>1, RunsIInv, PTL

\* No run ever waits without an attempt left, or runs without a lease.
THEOREM RunsNoStrandedRun == Spec => []NoStrandedRun
<1>1. IInv => NoStrandedRun BY DEF IInv, NoStrandedRun, RunInv
<1> QED BY <1>1, RunsIInv, PTL

\* A run's results are published by one attempt, the last, and only if it completes.
THEOREM RunsResultsOnce == Spec => []ResultsOnce
<1>1. IInv => ResultsOnce BY DEF IInv, ResultsOnce, RunInv
<1> QED BY <1>1, RunsIInv, PTL

\* A key has one run, and a replaced run is never revived.
THEOREM RunsReplacedStaysFailed == Spec => []ReplacedStaysFailed
<1>1. IInv => ReplacedStaysFailed BY DEF IInv
<1> QED BY <1>1, RunsIInv, PTL

\* The run table is sound, whatever attempts, recoveries and operators do to it.
THEOREM RunsAreSound == Spec => []RunsSound
BY RunsTypeOK, RunsNoStrandedRun, RunsResultsOnce, RunsReplacedStaysFailed, PTL DEF RunsSound

-----------------------------------------------------------------------------
(* The refinement. *)

left(r) == MaxAttempts[r] - run[r].attempts

result(r) == committed[r] # {}

\* An old row's step is a move of the lifecycle.
LEMMA OldRowStepIsLifecycleStep ==
  ASSUME TypeOK, NEW r \in Runs, RunInv(r), OldRowStep(r)
  PROVE  \/ /\ run[r].status = "QUEUED" /\ run'[r].status = "RUNNING"
            /\ left(r)' = left(r) - 1 /\ result(r)' = result(r)
         \/ /\ run[r].status = "RUNNING" /\ run'[r].status = "COMPLETED"
            /\ left(r)' = left(r) /\ result(r)'
         \/ /\ \/ run[r].status \in {"RUNNING", "FAILED"} /\ run'[r].status = "QUEUED" /\ left(r) > 0
               \/ run[r].status = "RUNNING" /\ run'[r].status = "FAILED"
               \/ run[r].status \in {"QUEUED", "RUNNING"} /\ run'[r].status = "CANCELLED"
               \/ run'[r].status = run[r].status
            /\ left(r)' = left(r) /\ result(r)' = result(r)
<1>a. run[r] \in RunRow /\ MaxAttempts[r] \in Nat BY RunsAssumption DEF TypeOK
<1> USE DEF left, result, RunRow
<1>1. CASE RowStays(r) BY <1>1 DEF RowStays
<1>2. CASE RowAges(r) BY <1>2, <1>a DEF RowAges
<1>3. CASE RowClaimed(r)
  <2>1. /\ run[r].status = "QUEUED" /\ run'[r].status = "RUNNING"
        /\ run'[r].attempts = run[r].attempts + 1 /\ committed'[r] = committed[r]
    BY <1>3, <1>a DEF RowClaimed, Start
  <2> QED BY <2>1, <1>a
<1>4. CASE RowCompleted(r)
  <2>1. /\ run[r].status = "RUNNING" /\ run'[r].status = "COMPLETED"
        /\ run'[r].attempts = run[r].attempts
        /\ committed'[r] = committed[r] \cup {run[r].attempts}
    BY <1>4, <1>a DEF RowCompleted
  <2> QED BY <2>1
<1>5. CASE RowFailed(r)
  <2>1. /\ run[r].status = "RUNNING" /\ run'[r].status = "FAILED"
        /\ run'[r].attempts = run[r].attempts /\ committed'[r] = committed[r]
    BY <1>5, <1>a DEF RowFailed
  <2> QED BY <2>1
<1>6. CASE RowQueued(r)
  <2>1. /\ run[r].status \in {"RUNNING", "FAILED"} /\ run'[r].status = "QUEUED"
        /\ run'[r].attempts = run[r].attempts /\ committed'[r] = committed[r]
        /\ run[r].attempts < MaxAttempts[r]
    BY <1>6, <1>a DEF RowQueued
  <2> QED BY <2>1, <1>a
<1>7. CASE RowCancelled(r)
  <2>1. /\ run[r].status \in {"QUEUED", "RUNNING"} /\ run'[r].status = "CANCELLED"
        /\ run'[r].attempts = run[r].attempts /\ committed'[r] = committed[r]
    BY <1>7, <1>a DEF RowCancelled, ActiveStatuses
  <2> QED BY <2>1
<1> QED BY <1>1, <1>2, <1>3, <1>4, <1>5, <1>6, <1>7 DEF OldRowStep

\* Agent runs implement RunLifecycle, their results included.
THEOREM RunsImplementLifecycle == Spec => LifecycleSpec
<1>1. ASSUME Init PROVE Lifecycle!Init
  <2>1. \A r \in Runs : /\ run[r].status = "ABSENT"
                        /\ run[r].attempts = 0
                        /\ committed[r] = {}
    BY <1>1 DEF Init, NoRun
  <2>2. \A r \in Runs : MaxAttempts[r] - run[r].attempts = MaxAttempts[r] BY <2>1, RunsAssumption
  <2>3. [r \in Runs |-> MaxAttempts[r] - run[r].attempts] = MaxAttempts BY <2>2, RunsAssumption
  <2> QED BY <2>1, <2>3 DEF Lifecycle!Init
<1>2. IInv /\ IInv' /\ [Next]_vars => [Lifecycle!Next]_(Lifecycle!vars)
  <2> SUFFICES ASSUME IInv, IInv', [Next]_vars PROVE Lifecycle!Next OBVIOUS
  <2>a. TypeOK /\ \A r \in Runs : RunInv(r) BY DEF IInv
  <2>b. TypeOK' /\ \A r \in Runs : RunInv(r)' BY DEF IInv
  <2>c. RunsStep BY Steps
  <2>d. \A r \in Runs : MaxAttempts[r] \in Nat BY RunsAssumption
  <2>1. \A r \in Runs : run'[r].status \in Lifecycle!Statuses
    BY <2>b DEF TypeOK, RunRow, Statuses, ActiveStatuses, EndStatuses, Lifecycle!Statuses
  <2>2. ASSUME NEW r \in Runs PROVE left(r)' \in Nat
    <3>1. run'[r].attempts \in Nat /\ run'[r].attempts <= MaxAttempts[r]
      BY <2>b DEF RunInv, TypeOK, RunRow
    <3> QED BY <3>1, <2>d DEF left
  <2>3. ASSUME NEW r \in Runs, OldRowStep(r)
        PROVE  Lifecycle!Start(r) \/ Lifecycle!Publish(r) \/ Lifecycle!Other(r) \/ Lifecycle!Stay(r)
    BY <2>3, <2>a, OldRowStepIsLifecycleStep
       DEF left, result, Lifecycle!Start, Lifecycle!Publish, Lifecycle!Other, Lifecycle!Stay,
           Lifecycle!Moves
  <2>4. ASSUME NEW r \in Runs
        PROVE  Lifecycle!Start(r) \/ Lifecycle!Publish(r) \/ Lifecycle!Other(r) \/ Lifecycle!Stay(r)
    <3>1. CASE OldRowStep(r) BY <3>1, <2>3
    <3>2. CASE \E k \in Keys \cup Runs : RowAdmitted(r, k)
      <4>1. /\ run[r].status = "ABSENT" /\ run'[r].status = "QUEUED"
            /\ run'[r].attempts = run[r].attempts /\ committed'[r] = committed[r]
        BY <3>2, <2>a DEF RowAdmitted, Admitted, NoRun, RunInv
      <4> QED BY <4>1 DEF Lifecycle!Other, Lifecycle!Moves
    <3> QED BY <3>1, <3>2, <2>c DEF RunsStep, NewRowStep
  <2> QED BY <2>1, <2>2, <2>4 DEF Lifecycle!Next, left
<1> QED BY <1>1, <1>2, RunsIInv, PTL DEF Spec, LifecycleSpec, Lifecycle!Spec
-----------------------------------------------------------------------------
(* The audit trail *)

\* The parts of TrailTellsStory and ProgressWithinAttempt that are about run r.
FinalIsLast(r) ==
  \A i, j \in History(r) : i < j => events[r][i].type \notin {"run.completed", "run.cancelled"}

ProgressWithin(r) ==
  \A i \in 1..Len(events[r]) : events[r][i].type = "node.completed" =>
    \E s \in 1..i - 1 :
      /\ events[r][s] = Event("run.started", events[r][i].attempt)
      /\ \A j \in s + 1..i - 1 : events[r][j].type \notin StatusTypes

TrailInv(r) == AttemptsAnnounced(r) /\ StatusTold(r) /\ FinalIsLast(r) /\ ProgressWithin(r)

\* A worker that was told of a cancellation holds a cancelled run.
ToldOfCancelled ==
  \A r \in Runs, n \in Attempts : worker[r][n] = "cancelled" => run[r].status = "CANCELLED"

TrailsInv == ToldOfCancelled /\ \A r \in Runs : TrailInv(r)

(* The effect of a step on the trail of one run. *)

Adds(r, e) == events'[r] = Append(events[r], e)

AdmittedOrSame(r) == \/ run'[r].status = run[r].status
                     \/ run[r].status = "ABSENT" /\ run'[r].status = "QUEUED"

TrailStays(r) ==
  /\ events'[r] = events[r]
  /\ run'[r].attempts = run[r].attempts
  /\ \/ AdmittedOrSame(r)
     \/ run[r].status = "RUNNING" /\ run'[r].status = "QUEUED"

Noted(r, e) ==
  /\ Adds(r, e)
  /\ e.type \notin StatusTypes
  /\ e.type = "node.completed" => run[r].status = "RUNNING" /\ e.attempt = run[r].attempts
  /\ run'[r].attempts = run[r].attempts
  /\ AdmittedOrSame(r)

Marked(r, e) ==
  /\ Adds(r, e)
  /\ e.type \in StatusTypes /\ e.type \in LastOf(run'[r].status)
  /\ run[r].status \notin {"COMPLETED", "CANCELLED"}
  /\ IF e.type = "run.started"
     THEN e.attempt = run[r].attempts + 1 /\ run'[r].attempts = run[r].attempts + 1
     ELSE run'[r].attempts = run[r].attempts

TrailStep(r) == \/ TrailStays(r)
                \/ \E e \in EventRow : Noted(r, e) \/ Marked(r, e)

\* What an append does to the entries of a trail.
LEMMA Appended ==
  ASSUME NEW s \in Seq(EventRow), NEW e \in EventRow, NEW t, t = Append(s, e)
  PROVE  /\ Len(s) \in Nat /\ Len(t) = Len(s) + 1
         /\ \A i \in 1..Len(s) : t[i] = s[i]
         /\ t[Len(s) + 1] = e
OBVIOUS

\* A run in progress was last announced as the attempt it is in.
LEMMA RunningWasStarted ==
  ASSUME TypeOK, NEW r \in Runs, TrailInv(r), run[r].status = "RUNNING"
  PROVE  \E s \in 1..Len(events[r]) :
           /\ events[r][s] = Event("run.started", run[r].attempts)
           /\ \A j \in s + 1..Len(events[r]) : events[r][j].type \notin StatusTypes
<1>a. events[r] \in Seq(EventRow) /\ run[r] \in RunRow BY DEF TypeOK
<1>b. Len(events[r]) \in Nat /\ \A i \in 1..Len(events[r]) : events[r][i] \in EventRow
  BY <1>a
<1>1. PICK s \in History(r) : /\ \A i \in History(r) : i <= s
                              /\ events[r][s].type \in LastOf("RUNNING")
  BY DEF TrailInv, StatusTold
<1>2. events[r][s].type = "run.started" /\ s \in 1..Len(events[r])
  BY <1>1 DEF LastOf, History, Entries
<1>3. s \in Started(r) BY <1>2 DEF Started, Entries
<1>4. Started(r) \subseteq History(r) BY DEF Started, History, Entries, StatusTypes
<1>5. events[r][s].attempt \in 1..run[r].attempts BY <1>3 DEF TrailInv, AttemptsAnnounced
<1>6. run[r].attempts \in 1..run[r].attempts BY <1>a, <1>5 DEF RunRow
<1>7. PICK i \in Started(r) : events[r][i].attempt = run[r].attempts
  BY <1>6 DEF TrailInv, AttemptsAnnounced
<1>8. i <= s /\ i \in Nat /\ s \in Nat BY <1>1, <1>2, <1>4, <1>7 DEF Started, Entries
<1>9. events[r][s].attempt = run[r].attempts
  <2>1. CASE i = s BY <1>7, <2>1
  <2>2. CASE i < s
    <3>1. events[r][i].attempt < events[r][s].attempt
      BY <1>3, <1>7, <2>2 DEF TrailInv, AttemptsAnnounced
    <3> QED BY <1>5, <1>7, <1>a, <3>1 DEF RunRow
  <2> QED BY <1>8, <2>1, <2>2
<1>10. events[r][s] = Event("run.started", run[r].attempts)
  BY <1>2, <1>9, <1>b DEF Event, EventRow
<1>11. ASSUME NEW j \in s + 1..Len(events[r]) PROVE events[r][j].type \notin StatusTypes
  <2>1. j \in 1..Len(events[r]) /\ ~(j <= s) BY <1>2, <1>b
  <2> QED BY <1>1, <2>1 DEF History, Entries
<1> QED BY <1>2, <1>10, <1>11

\* A trail that is left alone goes on telling the story.
LEMMA TrailStaysInv ==
  ASSUME TypeOK, NEW r \in Runs, TrailInv(r), TrailStays(r)
  PROVE  TrailInv(r)'
<1>1. History(r)' = History(r) /\ Started(r)' = Started(r)
  BY DEF TrailStays, History, Started, Entries
<1>2. AttemptsAnnounced(r)' BY <1>1 DEF TrailInv, TrailStays, AttemptsAnnounced
<1>3. StatusTold(r)'
  <2>1. CASE History(r) = {}
    BY <1>1, <2>1 DEF TrailInv, TrailStays, StatusTold, AdmittedOrSame
  <2>2. CASE History(r) # {}
    <3>1. PICK last \in History(r) : /\ \A i \in History(r) : i <= last
                                     /\ events[r][last].type \in LastOf(run[r].status)
      BY <2>2 DEF TrailInv, StatusTold
    <3>2. events[r][last].type \in LastOf(run'[r].status)
      BY <3>1 DEF TrailStays, AdmittedOrSame, LastOf
    <3>3. events'[r] = events[r] BY DEF TrailStays
    <3> QED BY <1>1, <2>2, <3>1, <3>2, <3>3 DEF StatusTold
  <2> QED BY <2>1, <2>2
<1>4. FinalIsLast(r)' BY <1>1 DEF TrailInv, TrailStays, FinalIsLast
<1>5. ProgressWithin(r)' BY DEF TrailInv, TrailStays, ProgressWithin
<1> QED BY <1>2, <1>3, <1>4, <1>5 DEF TrailInv

\* So does one that gets a note, which lies in the attempt it is from.
LEMMA NotedInv ==
  ASSUME TypeOK, NEW r \in Runs, TrailInv(r), NEW e \in EventRow, Noted(r, e)
  PROVE  TrailInv(r)'
<1> DEFINE len == Len(events[r])
<1>a. events[r] \in Seq(EventRow) BY DEF TypeOK
<1>b. /\ len \in Nat /\ Len(events'[r]) = len + 1
      /\ \A i \in 1..len : events'[r][i] = events[r][i]
      /\ events'[r][len + 1] = e
  BY <1>a, Appended DEF Noted, Adds
<1>c. \A types : Entries(r, types)' = Entries(r, types) \cup (IF e.type \in types THEN {len + 1} ELSE {})
  BY <1>b DEF Entries
<1> HIDE DEF len
<1>1. History(r)' = History(r) /\ Started(r)' = Started(r)
  <2>1. e.type \notin StatusTypes /\ e.type \notin {"run.started"} BY DEF Noted, StatusTypes
  <2>2. History(r)' = History(r) BY <1>c, <2>1 DEF History
  <2>3. Started(r)' = Started(r) BY <1>c, <2>1 DEF Started
  <2> QED BY <2>2, <2>3
<1>2. History(r) \subseteq 1..len /\ Started(r) \subseteq 1..len
  BY DEF History, Started, Entries, len
<1>3. AttemptsAnnounced(r)'
  BY <1>1, <1>2, <1>b DEF TrailInv, AttemptsAnnounced, Noted
<1>4. StatusTold(r)'
  <2>1. CASE History(r) = {}
    BY <1>1, <2>1 DEF TrailInv, Noted, StatusTold, AdmittedOrSame
  <2>2. CASE History(r) # {}
    <3>1. PICK last \in History(r) : /\ \A i \in History(r) : i <= last
                                     /\ events[r][last].type \in LastOf(run[r].status)
      BY <2>2 DEF TrailInv, StatusTold
    <3>2. events'[r][last].type \in LastOf(run'[r].status)
      BY <3>1, <1>2, <1>b DEF Noted, AdmittedOrSame, LastOf
    <3> QED BY <1>1, <2>2, <3>1, <3>2 DEF StatusTold
  <2> QED BY <2>1, <2>2
<1>5. FinalIsLast(r)' BY <1>1, <1>2, <1>b DEF TrailInv, FinalIsLast
<1>6. ProgressWithin(r)'
  <2>1. ASSUME NEW i \in 1..len + 1, events'[r][i].type = "node.completed"
        PROVE  \E s \in 1..i - 1 :
                 /\ events'[r][s] = Event("run.started", events'[r][i].attempt)
                 /\ \A j \in s + 1..i - 1 : events'[r][j].type \notin StatusTypes
    <3>1. CASE i \in 1..len
      <4>1. PICK s \in 1..i - 1 :
              /\ events[r][s] = Event("run.started", events[r][i].attempt)
              /\ \A j \in s + 1..i - 1 : events[r][j].type \notin StatusTypes
        BY <2>1, <3>1, <1>b DEF TrailInv, ProgressWithin, len
      <4>2. s \in 1..len /\ \A j \in s + 1..i - 1 : j \in 1..len BY <3>1, <1>b
      <4> QED BY <3>1, <4>1, <4>2, <1>b
    <3>2. CASE i = len + 1
      <4>1. e.type = "node.completed" BY <2>1, <3>2, <1>b
      <4>2. run[r].status = "RUNNING" /\ e.attempt = run[r].attempts BY <4>1 DEF Noted
      <4>3. PICK s \in 1..len :
              /\ events[r][s] = Event("run.started", run[r].attempts)
              /\ \A j \in s + 1..len : events[r][j].type \notin StatusTypes
        BY <4>2, RunningWasStarted DEF len
      <4>4. i - 1 = len BY <3>2, <1>b
      <4>5. \A j \in s + 1..len : j \in 1..len BY <1>b
      <4> QED BY <3>2, <4>2, <4>3, <4>4, <4>5, <1>b
    <3> QED BY <2>1, <3>1, <3>2, <1>b
  <2> QED BY <2>1, <1>b DEF ProgressWithin
<1> QED BY <1>3, <1>4, <1>5, <1>6 DEF TrailInv

\* And one that gets the status event of the step that changed the row.
LEMMA MarkedInv ==
  ASSUME TypeOK, NEW r \in Runs, TrailInv(r), NEW e \in EventRow, Marked(r, e)
  PROVE  TrailInv(r)'
<1> DEFINE len == Len(events[r])
<1>a. events[r] \in Seq(EventRow) /\ run[r] \in RunRow BY DEF TypeOK
<1>b. /\ len \in Nat /\ Len(events'[r]) = len + 1
      /\ \A i \in 1..len : events'[r][i] = events[r][i]
      /\ events'[r][len + 1] = e
  BY <1>a, Appended DEF Marked, Adds
<1>c. \A types : Entries(r, types)' = Entries(r, types) \cup (IF e.type \in types THEN {len + 1} ELSE {})
  BY <1>b DEF Entries
<1>d. run[r].attempts \in Nat BY <1>a DEF RunRow
<1> HIDE DEF len
<1>1. History(r)' = History(r) \cup {len + 1} BY <1>c DEF Marked, History
<1>2. History(r) \subseteq 1..len /\ Started(r) \subseteq 1..len
  BY DEF History, Started, Entries, len
<1>3. AttemptsAnnounced(r)'
  <2>1. CASE e.type # "run.started"
    <3>1. Started(r)' = Started(r) BY <1>c, <2>1 DEF Started
    <3> QED BY <1>2, <1>b, <2>1, <3>1 DEF TrailInv, AttemptsAnnounced, Marked
  <2>2. CASE e.type = "run.started"
    <3>1. Started(r)' = Started(r) \cup {len + 1} BY <1>c, <2>2 DEF Started
    <3>2. e.attempt = run[r].attempts + 1 /\ run'[r].attempts = run[r].attempts + 1
      BY <2>2 DEF Marked
    <3>3. {events[r][i].attempt : i \in Started(r)} = 1..run[r].attempts
      BY DEF TrailInv, AttemptsAnnounced
    <3>4. {events'[r][i].attempt : i \in Started(r)'} = 1..run[r].attempts + 1
      <4>1. \A i \in Started(r)' :
              events'[r][i].attempt = IF i = len + 1 THEN run[r].attempts + 1 ELSE events[r][i].attempt
        BY <1>2, <1>b, <3>1, <3>2
      <4>2. \A n : n \in 1..run[r].attempts + 1 <=> n \in 1..run[r].attempts \/ n = run[r].attempts + 1
        BY <1>d
      <4>3. len + 1 \notin Started(r) BY <1>2, <1>b
      <4> QED BY <3>1, <3>3, <4>1, <4>2, <4>3
    <3>5. \A i \in Started(r) : events[r][i].attempt \in 1..run[r].attempts BY <3>3
    <3>6. ASSUME NEW i \in Started(r)', NEW j \in Started(r)', i < j
          PROVE  events'[r][i].attempt < events'[r][j].attempt
      <4>1. i \in 1..len /\ i \in Started(r) BY <1>2, <1>b, <3>1, <3>6
      <4>2. CASE j \in Started(r)
        BY <1>2, <1>b, <3>6, <4>1, <4>2 DEF TrailInv, AttemptsAnnounced
      <4>3. CASE j = len + 1
        <5>1. events'[r][j].attempt = run[r].attempts + 1 BY <1>b, <3>2, <4>3
        <5>2. events'[r][i].attempt = events[r][i].attempt BY <1>b, <4>1
        <5>3. events[r][i].attempt \in 1..run[r].attempts BY <3>5, <4>1
        <5> QED BY <1>d, <5>1, <5>2, <5>3
      <4> QED BY <3>1, <4>2, <4>3
    <3> QED BY <3>2, <3>4, <3>6 DEF AttemptsAnnounced
  <2> QED BY <2>1, <2>2
<1>4. StatusTold(r)'
  <2>1. len + 1 \in History(r)' /\ \A i \in History(r)' : i <= len + 1 BY <1>1, <1>2, <1>b
  <2>2. events'[r][len + 1].type \in LastOf(run'[r].status) BY <1>b DEF Marked
  <2> QED BY <2>1, <2>2 DEF StatusTold
<1>5. FinalIsLast(r)'
  <2>1. ASSUME NEW i \in History(r)', NEW j \in History(r)', i < j
        PROVE  events'[r][i].type \notin {"run.completed", "run.cancelled"}
    <3>1. i \in History(r) /\ i \in 1..len /\ events'[r][i] = events[r][i]
      BY <1>1, <1>2, <1>b, <2>1
    <3>2. CASE j \in History(r) BY <2>1, <3>1, <3>2 DEF TrailInv, FinalIsLast
    <3>3. CASE j = len + 1
      <4>1. PICK last \in History(r) : /\ \A k \in History(r) : k <= last
                                       /\ events[r][last].type \in LastOf(run[r].status)
        BY <3>1 DEF TrailInv, StatusTold
      <4>2. CASE i = last
        <5>1. run[r].status \notin {"COMPLETED", "CANCELLED"} BY DEF Marked
        <5> QED BY <1>a, <3>1, <4>1, <4>2, <5>1
              DEF LastOf, RunRow, Statuses, ActiveStatuses, EndStatuses
      <4>3. CASE i # last
        <5>1. i < last /\ last \in History(r) BY <1>2, <1>b, <3>1, <4>1, <4>3
        <5> QED BY <3>1, <5>1 DEF TrailInv, FinalIsLast
      <4> QED BY <4>2, <4>3
    <3> QED BY <1>1, <3>2, <3>3
  <2> QED BY <2>1 DEF FinalIsLast
<1>6. ProgressWithin(r)'
  <2>1. ASSUME NEW i \in 1..len + 1, events'[r][i].type = "node.completed"
        PROVE  \E s \in 1..i - 1 :
                 /\ events'[r][s] = Event("run.started", events'[r][i].attempt)
                 /\ \A j \in s + 1..i - 1 : events'[r][j].type \notin StatusTypes
    <3>1. i # len + 1 BY <2>1, <1>b DEF Marked, StatusTypes
    <3>2. i \in 1..len BY <2>1, <3>1, <1>b
    <3>3. PICK s \in 1..i - 1 :
            /\ events[r][s] = Event("run.started", events[r][i].attempt)
            /\ \A j \in s + 1..i - 1 : events[r][j].type \notin StatusTypes
      BY <2>1, <3>2, <1>b DEF TrailInv, ProgressWithin, len
    <3>4. s \in 1..len /\ \A j \in s + 1..i - 1 : j \in 1..len BY <3>2, <1>b
    <3> QED BY <3>2, <3>3, <3>4, <1>b
  <2> QED BY <2>1, <1>b DEF ProgressWithin
<1> QED BY <1>3, <1>4, <1>5, <1>6 DEF TrailInv
\* A step that changes no row, and appends at most a note to one trail.
LEMMA NoteSteps ==
  ASSUME TypeOK, UNCHANGED run, NEW r \in Runs, NEW e \in EventRow,
         events' = [events EXCEPT ![r] = Append(events[r], e)],
         e.type \notin StatusTypes,
         e.type = "node.completed" => run[r].status = "RUNNING" /\ e.attempt = run[r].attempts
  PROVE  \A i \in Runs : TrailStep(i)
<1> TAKE i \in Runs
<1>1. events \in [Runs -> Seq(EventRow)] BY DEF TypeOK
<1>2. CASE i = r
  <2>1. Noted(r, e) BY <1>1 DEF Noted, Adds, AdmittedOrSame
  <2> QED BY <1>2, <2>1 DEF TrailStep
<1>3. CASE i # r
  <2>1. TrailStays(i) BY <1>1, <1>3 DEF TrailStays, AdmittedOrSame
  <2> QED BY <2>1 DEF TrailStep
<1> QED BY <1>2, <1>3

\* A step that changes one row and records the status event of the change.
LEMMA MarkSteps ==
  ASSUME TypeOK, NEW r \in Runs, NEW e \in EventRow, NEW row,
         events' = [events EXCEPT ![r] = Append(events[r], e)],
         run' = [run EXCEPT ![r] = row],
         e.type \in StatusTypes, e.type \in LastOf(row.status),
         run[r].status \notin {"COMPLETED", "CANCELLED"},
         IF e.type = "run.started"
         THEN e.attempt = run[r].attempts + 1 /\ row.attempts = run[r].attempts + 1
         ELSE row.attempts = run[r].attempts
  PROVE  \A i \in Runs : TrailStep(i)
<1> TAKE i \in Runs
<1>1. events \in [Runs -> Seq(EventRow)] /\ run \in [Runs -> RunRow] BY DEF TypeOK
<1>2. CASE i = r
  <2>1. run'[r] = row BY <1>1
  <2>2. Marked(r, e) BY <1>1, <2>1 DEF Marked, Adds
  <2> QED BY <1>2, <2>2 DEF TrailStep
<1>3. CASE i # r
  <2>1. TrailStays(i) BY <1>1, <1>3 DEF TrailStays, AdmittedOrSame
  <2> QED BY <2>1 DEF TrailStep
<1> QED BY <1>2, <1>3

\* The events the actions record are events.
LEMMA EventTypesOf ==
  \A type \in EventTypes, n \in Nat : /\ Event(type, n) \in EventRow
                                      /\ Event(type, n).type = type
                                      /\ Event(type, n).attempt = n
BY DEF Event, EventRow

\* A row that is left alone has no part in the step's trail.
LEMMA SameIsTrailStep ==
  ASSUME NEW r \in Runs, events'[r] = events[r], run'[r].attempts = run[r].attempts,
         AdmittedOrSame(r)
  PROVE  TrailStep(r)
<1>1. TrailStays(r) BY DEF TrailStays
<1> QED BY <1>1 DEF TrailStep

\* What a worker does shows in its run's trail.
LEMMA WorkTrail ==
  ASSUME IInv, TrailsInv, NEW r \in Runs, NEW n \in Attempts, Work(r, n)
  PROVE  ToldOfCancelled' /\ \A i \in Runs : TrailStep(i)
<1>a. /\ TypeOK /\ run \in [Runs -> RunRow] /\ events \in [Runs -> Seq(EventRow)]
      /\ worker \in [Runs -> [Attempts -> {"none", "working", "cancelled", "gone"}]]
  BY DEF IInv, TypeOK
<1>b. n \in Nat BY RunsAssumption DEF Attempts
<1>c. ToldOfCancelled BY DEF TrailsInv
<1>d. /\ {"run.completed", "run.retry_scheduled", "run.failed", "run.cancelled", "node.completed", "mcp.tool"}
           \subseteq EventTypes
      /\ {"run.completed", "run.retry_scheduled", "run.failed", "run.cancelled"} \subseteq StatusTypes
      /\ "node.completed" \notin StatusTypes /\ "mcp.tool" \notin StatusTypes
  BY DEF EventTypes, StatusTypes, NoteTypes, AuditTypes
<1>e. ASSUME UNCHANGED <<run, events>> PROVE \A i \in Runs : TrailStep(i)
  BY <1>e DEF TrailStep, TrailStays, AdmittedOrSame
<1>f. ASSUME Leaves(r, n),
             \A i \in Runs : run'[i].status = run[i].status \/ run[i].status = "RUNNING"
      PROVE  ToldOfCancelled'
  BY <1>a, <1>c, <1>f DEF Leaves, ToldOfCancelled
<1>1. CASE NodeCompleted(r, n)
  <2>1. ToldOfCancelled' BY <1>1, <1>c DEF NodeCompleted, ToldOfCancelled
  <2> DEFINE e == Event("node.completed", n)
  <2>2. /\ e \in EventRow /\ e.type \notin StatusTypes
        /\ e.type = "node.completed" => run[r].status = "RUNNING" /\ e.attempt = run[r].attempts
    BY <1>1, <1>b, <1>d, EventTypesOf DEF NodeCompleted, Holds
  <2>3. UNCHANGED run /\ events' = [events EXCEPT ![r] = Append(events[r], e)]
    BY <1>1 DEF NodeCompleted, Record
  <2> HIDE DEF e
  <2>4. \A i \in Runs : TrailStep(i) BY <1>a, <2>2, <2>3, NoteSteps
  <2> QED BY <2>1, <2>4
<1>2. CASE AuditTool(r, n)
  <2>1. ToldOfCancelled' BY <1>2, <1>c DEF AuditTool, ToldOfCancelled
  <2> DEFINE e == Event("mcp.tool", n)
  <2>2. /\ e \in EventRow /\ e.type \notin StatusTypes
        /\ e.type = "node.completed" => run[r].status = "RUNNING" /\ e.attempt = run[r].attempts
    BY <1>2, <1>b, <1>d, EventTypesOf DEF AuditTool, Holds
  <2>3. UNCHANGED run /\ events' = [events EXCEPT ![r] = Append(events[r], e)]
    BY <1>2 DEF AuditTool, Record
  <2> HIDE DEF e
  <2>4. \A i \in Runs : TrailStep(i) BY <1>a, <2>2, <2>3, NoteSteps
  <2> QED BY <2>1, <2>4
<1>3. CASE Commit(r, n)
  <2> DEFINE row == [run[r] EXCEPT !.status = "COMPLETED", !.ttl = None]
  <2>1. run' = [run EXCEPT ![r] = row] BY <1>3, <1>a DEF Commit
  <2>2. /\ row.status = "COMPLETED" /\ row.attempts = run[r].attempts
        /\ run[r].status = "RUNNING"
    BY <1>3, <1>a DEF Commit, Holds, RunRow
  <2> HIDE DEF row
  <2>3. ToldOfCancelled' BY <1>3, <1>a, <1>f, <2>1, <2>2 DEF Commit
  <2> DEFINE e == Event("run.completed", n)
  <2>4. e \in EventRow /\ e.type = "run.completed" /\ e.type \in StatusTypes
    BY <1>b, <1>d, EventTypesOf
  <2>5. events' = [events EXCEPT ![r] = Append(events[r], e)] BY <1>3 DEF Commit, Record
  <2> HIDE DEF e
  <2>6. e.type \in LastOf(row.status) /\ e.type # "run.started" BY <2>2, <2>4 DEF LastOf
  <2>7. \A i \in Runs : TrailStep(i)
    BY <1>a, <2>1, <2>2, <2>4, <2>5, <2>6, MarkSteps
  <2> QED BY <2>3, <2>7
<1>4. CASE Refused(r, n)
  <2>1. ToldOfCancelled' BY <1>4, <1>a, <1>c DEF Refused, ToldOfCancelled
  <2> QED BY <1>4, <1>e, <2>1 DEF Refused
<1>5. CASE RecordCancelled(r, n)
  <2>1. ToldOfCancelled' BY <1>5, <1>f DEF RecordCancelled
  <2>2. run[r].status = "CANCELLED" BY <1>5, <1>c DEF RecordCancelled, ToldOfCancelled
  <2>3. Says(r, "run.cancelled")
    <3>1. StatusTold(r) BY DEF TrailsInv, TrailInv
    <3>2. PICK last \in History(r) : events[r][last].type \in LastOf("CANCELLED")
      BY <2>2, <3>1 DEF StatusTold
    <3> QED BY <3>2 DEF LastOf, Says, History, Entries
  <2> QED BY <1>5, <1>e, <2>1, <2>3 DEF RecordCancelled
<1>6. ASSUME NEW retryable \in BOOLEAN, FinishFailure(r, n, retryable)
      PROVE  ToldOfCancelled' /\ \A i \in Runs : TrailStep(i)
  <2>1. CASE ~Holds(r, n)
    <3>1. UNCHANGED <<run, events>> /\ Leaves(r, n) BY <1>6, <2>1 DEF FinishFailure
    <3> QED BY <1>e, <1>f, <3>1
  <2>2. CASE Holds(r, n)
    <3> DEFINE status == IF retryable /\ ~(run[r].attempts >= MaxAttempts[r])
                         THEN "QUEUED" ELSE "FAILED"
               row == [run[r] EXCEPT !.status = status, !.ttl = None]
               type == IF status = "QUEUED" THEN "run.retry_scheduled" ELSE "run.failed"
    <3>1. /\ run' = [run EXCEPT ![r].status = status, ![r].ttl = None]
          /\ Record(r, type, n) /\ Leaves(r, n)
      BY <1>6, <2>2 DEF FinishFailure
    <3>2. run' = [run EXCEPT ![r] = row] BY <3>1, <1>a
    <3>3. /\ row.status = status /\ row.attempts = run[r].attempts
          /\ run[r].status = "RUNNING" /\ status \in {"QUEUED", "FAILED"}
      BY <2>2, <1>a DEF Holds, RunRow
    <3>4. type \in LastOf(status) /\ type # "run.started" /\ type \in {"run.retry_scheduled", "run.failed"}
      BY DEF LastOf
    <3> HIDE DEF status, row, type
    <3>5. ToldOfCancelled' BY <1>a, <1>f, <3>1, <3>2, <3>3
    <3> DEFINE e == Event(type, n)
    <3>6. e \in EventRow /\ e.type = type /\ e.type \in StatusTypes
      BY <1>b, <1>d, <3>4, EventTypesOf
    <3>7. events' = [events EXCEPT ![r] = Append(events[r], e)] BY <3>1 DEF Record
    <3> HIDE DEF e
    <3>8. \A i \in Runs : TrailStep(i)
      BY <1>a, <3>2, <3>3, <3>4, <3>6, <3>7, MarkSteps
    <3> QED BY <3>5, <3>8
  <2> QED BY <2>1, <2>2
<1> QED BY <1>1, <1>2, <1>3, <1>4, <1>5, <1>6 DEF Work

\* Rows that are admitted, and those a step leaves, show nothing in their trails.
LEMMA AdmittedTrail ==
  ASSUME IInv, NEW r \in Runs, run[r].status = "ABSENT", NEW k, run'[r] = Admitted(k)
  PROVE  AdmittedOrSame(r) /\ run'[r].attempts = run[r].attempts
<1>1. run[r] = NoRun BY DEF IInv, RunInv
<1> QED BY <1>1 DEF AdmittedOrSame, Admitted, NoRun

\* An admission changes no trail but by the notes of a replacement.
LEMMA AdmissionTrail ==
  ASSUME IInv, TrailsInv,
         \/ \E k \in Keys : CreateRun(k)
         \/ \E S \in SUBSET CatchUpKeys : Schedule(S)
         \/ \E r, new \in Runs : ReplaceExhaustedRun(r, new)
  PROVE  ToldOfCancelled' /\ \A i \in Runs : TrailStep(i)
<1>a. TypeOK /\ run \in [Runs -> RunRow] /\ events \in [Runs -> Seq(EventRow)]
  BY DEF IInv, TypeOK
<1>b. UNCHANGED worker BY DEF CreateRun, Schedule, ReplaceExhaustedRun
<1>1. ASSUME NEW k \in Keys, CreateRun(k)
      PROVE \A i \in Runs : run'[i].status = run[i].status \/ run[i].status = "ABSENT"
  BY <1>1, <1>a DEF CreateRun, Admit
<1>2. ASSUME NEW k \in Keys, CreateRun(k) PROVE \A i \in Runs : TrailStep(i)
  <2> TAKE i \in Runs
  <2>1. PICK new \in Runs : Admit(k, new) BY <1>2 DEF CreateRun
  <2>2. AdmittedOrSame(i) /\ run'[i].attempts = run[i].attempts
    <3>1. CASE i = new BY <2>1, <3>1, <1>a, AdmittedTrail DEF Admit
    <3>2. CASE i # new BY <2>1, <3>2, <1>a DEF Admit, AdmittedOrSame
    <3> QED BY <3>1, <3>2
  <2> QED BY <1>2, <2>2 DEF CreateRun, TrailStep, TrailStays
<1>3. ASSUME NEW S \in SUBSET CatchUpKeys, Schedule(S)
      PROVE  /\ \A i \in Runs : TrailStep(i)
             /\ \A i \in Runs : run'[i].status = run[i].status \/ run[i].status = "ABSENT"
  <2>1. PICK new \in Admissions(S, run) :
          run' = WithAdmitted(new, run) /\ UNCHANGED <<events, worker, committed>>
    BY <1>3 DEF Schedule
  <2>2. \A i \in Runs : new[i] # None => run[i].status = "ABSENT" BY DEF Admissions
  <2>3. \A i \in Runs : run'[i] = IF new[i] = None THEN run[i] ELSE Admitted(new[i])
    BY <2>1 DEF WithAdmitted
  <2>4. ASSUME NEW i \in Runs PROVE TrailStep(i)
    <3>1. AdmittedOrSame(i) /\ run'[i].attempts = run[i].attempts
      <4>1. CASE new[i] = None BY <2>3, <4>1 DEF AdmittedOrSame
      <4>2. CASE new[i] # None BY <2>2, <2>3, <4>2, AdmittedTrail
      <4> QED BY <4>1, <4>2
    <3> QED BY <2>1, <3>1 DEF TrailStep, TrailStays
  <2> QED BY <2>2, <2>3, <2>4
<1>4. ASSUME NEW r \in Runs, NEW new \in Runs, ReplaceExhaustedRun(r, new)
      PROVE  /\ \A i \in Runs : TrailStep(i)
             /\ \A i \in Runs : run'[i].status = run[i].status \/ run[i].status = "ABSENT"
  <2>1. /\ run[new].status = "ABSENT" /\ run' = [run EXCEPT ![new] = Admitted(r)]
        /\ run[r].status = "FAILED"
    BY <1>4 DEF ReplaceExhaustedRun, Admit
  <2>2. r # new BY <2>1
  <2> DEFINE e == Event("run.replacement_queued", 0)
             f == Event("run.replaces_failed", 0)
  <2>3. events' = [events EXCEPT ![r] = Append(events[r], e), ![new] = Append(events[new], f)]
    BY <1>4, <2>2, <1>a DEF ReplaceExhaustedRun
  <2>4. /\ e \in EventRow /\ e.type \notin StatusTypes /\ e.type # "node.completed"
        /\ f \in EventRow /\ f.type \notin StatusTypes /\ f.type # "node.completed"
    BY DEF Event, EventRow, EventTypes, AuditTypes, StatusTypes
  <2> HIDE DEF e, f
  <2>5. ASSUME NEW i \in Runs PROVE TrailStep(i)
    <3>1. AdmittedOrSame(i) /\ run'[i].attempts = run[i].attempts
      <4>1. CASE i = new BY <2>1, <4>1, <1>a, AdmittedTrail
      <4>2. CASE i # new BY <2>1, <4>2, <1>a DEF AdmittedOrSame
      <4> QED BY <4>1, <4>2
    <3>2. CASE i = r
      <4>1. events'[i] = Append(events[i], e) BY <2>2, <2>3, <3>2, <1>a
      <4> QED BY <2>4, <3>1, <4>1 DEF TrailStep, Noted, Adds
    <3>3. CASE i = new
      <4>1. events'[i] = Append(events[i], f) BY <2>2, <2>3, <3>3, <1>a
      <4> QED BY <2>4, <3>1, <4>1 DEF TrailStep, Noted, Adds
    <3>4. CASE i \notin {r, new}
      <4>1. events'[i] = events[i] BY <2>3, <3>4, <1>a
      <4> QED BY <3>1, <4>1 DEF TrailStep, TrailStays
    <3> QED BY <3>2, <3>3, <3>4
  <2> QED BY <2>1, <2>5, <1>a
<1>5. \A i \in Runs : run'[i].status = run[i].status \/ run[i].status = "ABSENT"
  BY <1>1, <1>3, <1>4
<1>6. ToldOfCancelled' BY <1>b, <1>5 DEF TrailsInv, ToldOfCancelled
<1> QED BY <1>2, <1>3, <1>4, <1>6
\* The claim, the routes, the recovery, the broker and the clock.
LEMMA OtherTrail ==
  ASSUME IInv, TrailsInv,
         \/ \E r \in Runs : \/ Claim(r) \/ CancelRun(r) \/ RequeueFailedRun(r)
                            \/ Drop(r) \/ Redeliver(r)
         \/ Recover
         \/ \E lag \in Lags : RecoveryConflicts(lag)
         \/ Tick
  PROVE  ToldOfCancelled' /\ \A i \in Runs : TrailStep(i)
<1>a. /\ TypeOK /\ run \in [Runs -> RunRow] /\ events \in [Runs -> Seq(EventRow)]
      /\ worker \in [Runs -> [Attempts -> {"none", "working", "cancelled", "gone"}]]
  BY DEF IInv, TypeOK
<1>b. ToldOfCancelled BY DEF TrailsInv
<1>c. /\ {"run.started", "run.cancelled", "run.operator_retry_queued", "run.failed"} \subseteq EventTypes
      /\ {"run.started", "run.cancelled", "run.operator_retry_queued", "run.failed"} \subseteq StatusTypes
  BY DEF EventTypes, StatusTypes
<1>d. ASSUME UNCHANGED worker, \A i \in Runs : run[i].status = "CANCELLED" => run'[i].status = "CANCELLED"
      PROVE  ToldOfCancelled'
  BY <1>b, <1>d DEF ToldOfCancelled
<1>e. ASSUME UNCHANGED <<run, events>> PROVE \A i \in Runs : TrailStep(i)
  BY <1>e, SameIsTrailStep DEF AdmittedOrSame
<1>1. ASSUME NEW r \in Runs, Claim(r) PROVE ToldOfCancelled' /\ \A i \in Runs : TrailStep(i)
  <2> DEFINE row == Start(r)
             e == Event("run.started", run[r].attempts + 1)
  <2>1. run' = [run EXCEPT ![r] = row] /\ events' = [events EXCEPT ![r] = Append(events[r], e)]
    BY <1>1 DEF Claim, Record
  <2>2. /\ row.status = "RUNNING" /\ row.attempts = run[r].attempts + 1
        /\ run[r].status = "QUEUED" /\ run[r].attempts \in Nat
    BY <1>1, <1>a DEF Claim, Start, RunRow
  <2>3. /\ e \in EventRow /\ e.type = "run.started" /\ e.attempt = run[r].attempts + 1
        /\ e.type \in StatusTypes
    BY <1>c, <2>2, EventTypesOf
  <2> HIDE DEF row, e
  <2>4. e.type \in LastOf(row.status) BY <2>2, <2>3 DEF LastOf
  <2>5. \A i \in Runs : TrailStep(i) BY <1>a, <2>1, <2>2, <2>3, <2>4, MarkSteps
  <2>6. worker' = [worker EXCEPT ![r][run[r].attempts + 1] = "working"] BY <1>1 DEF Claim
  <2>7. \A i \in Runs : run[i].status = "CANCELLED" => run'[i].status = "CANCELLED"
    BY <1>a, <2>1, <2>2
  <2>8. \A i \in Runs, n \in Attempts : worker'[i][n] = "cancelled" => worker[i][n] = "cancelled"
    BY <1>a, <2>6
  <2>9. ToldOfCancelled' BY <1>b, <2>7, <2>8 DEF ToldOfCancelled
  <2> QED BY <2>5, <2>9
<1>2. ASSUME NEW r \in Runs, CancelRun(r) PROVE ToldOfCancelled' /\ \A i \in Runs : TrailStep(i)
  <2> DEFINE row == [run[r] EXCEPT !.status = "CANCELLED"]
             e == Event("run.cancelled", 0)
  <2>1. run' = [run EXCEPT ![r] = row] /\ events' = [events EXCEPT ![r] = Append(events[r], e)]
    BY <1>2, <1>a DEF CancelRun, Record
  <2>2. /\ row.status = "CANCELLED" /\ row.attempts = run[r].attempts
        /\ run[r].status \in {"QUEUED", "RUNNING"}
    BY <1>2, <1>a DEF CancelRun, ActiveStatuses, RunRow
  <2>3. e \in EventRow /\ e.type = "run.cancelled" /\ e.type \in StatusTypes
    BY <1>c, EventTypesOf
  <2> HIDE DEF row, e
  <2>4. e.type \in LastOf(row.status) BY <2>2, <2>3 DEF LastOf
  <2>5. \A i \in Runs : TrailStep(i) BY <1>a, <2>1, <2>2, <2>3, <2>4, MarkSteps
  <2>6. \A i \in Runs : run[i].status = "CANCELLED" => run'[i].status = "CANCELLED"
    BY <1>a, <2>1, <2>2
  <2> QED BY <1>2, <1>d, <2>5, <2>6 DEF CancelRun
<1>3. ASSUME NEW r \in Runs, RequeueFailedRun(r) PROVE ToldOfCancelled' /\ \A i \in Runs : TrailStep(i)
  <2> DEFINE row == [run[r] EXCEPT !.status = "QUEUED", !.ttl = None]
             e == Event("run.operator_retry_queued", 0)
  <2>1. run' = [run EXCEPT ![r] = row] /\ events' = [events EXCEPT ![r] = Append(events[r], e)]
    BY <1>3, <1>a DEF RequeueFailedRun, Record
  <2>2. /\ row.status = "QUEUED" /\ row.attempts = run[r].attempts
        /\ run[r].status = "FAILED"
    BY <1>3, <1>a DEF RequeueFailedRun, RunRow
  <2>3. e \in EventRow /\ e.type = "run.operator_retry_queued" /\ e.type \in StatusTypes
    BY <1>c, EventTypesOf
  <2> HIDE DEF row, e
  <2>4. e.type \in LastOf(row.status) BY <2>2, <2>3 DEF LastOf
  <2>5. \A i \in Runs : TrailStep(i) BY <1>a, <2>1, <2>2, <2>3, <2>4, MarkSteps
  <2>6. \A i \in Runs : run[i].status = "CANCELLED" => run'[i].status = "CANCELLED"
    BY <1>a, <2>1, <2>2
  <2> QED BY <1>3, <1>d, <2>5, <2>6 DEF RequeueFailedRun
<1>4. ASSUME NEW r \in Runs, Drop(r) \/ Redeliver(r)
      PROVE  ToldOfCancelled' /\ \A i \in Runs : TrailStep(i)
  BY <1>4, <1>d, <1>e DEF Drop, Redeliver
<1>5. ASSUME NEW lag \in Lags, RecoveryConflicts(lag)
      PROVE  ToldOfCancelled' /\ \A i \in Runs : TrailStep(i)
  BY <1>5, <1>d, <1>e DEF RecoveryConflicts
<1>6. ASSUME Tick PROVE ToldOfCancelled' /\ \A i \in Runs : TrailStep(i)
  <2>1. \A i \in Runs : run'[i].status = run[i].status /\ run'[i].attempts = run[i].attempts
    BY <1>6, <1>a DEF Tick, RunRow
  <2>2. \A i \in Runs : TrailStep(i) BY <1>6, <2>1, SameIsTrailStep DEF Tick, AdmittedOrSame
  <2> QED BY <1>6, <1>d, <2>1, <2>2 DEF Tick
<1>7. ASSUME NEW lag \in Lags, RecoverAndCatchUp(lag)
      PROVE  ToldOfCancelled' /\ \A i \in Runs : TrailStep(i)
  <2> DEFINE rows == RecoveredRuns(lag)
             e == Event("run.failed", 0)
  <2>1. PICK new \in Admissions(CatchUpKeys, rows) :
          /\ run' = WithAdmitted(new, rows)
          /\ events' = [r \in Runs |-> IF r \in Expired(lag) /\ rows[r].status = "FAILED"
                                       THEN Append(events[r], e) ELSE events[r]]
          /\ UNCHANGED worker
    BY <1>7 DEF RecoverAndCatchUp
  <2>2. \A i \in Runs : rows[i] = IF i \in Expired(lag) THEN Recovered(i) ELSE run[i]
    BY DEF RecoveredRuns
  <2>3. \A i \in Runs : /\ Recovered(i).status \in {"FAILED", "QUEUED"}
                        /\ Recovered(i).attempts = run[i].attempts
    BY <1>a DEF Recovered, RunRow
  <2>4. \A i \in Expired(lag) : run[i].status = "RUNNING" BY DEF Expired
  <2>5. \A i \in Runs : new[i] # None => rows[i].status = "ABSENT" BY DEF Admissions
  <2>6. e \in EventRow /\ e.type = "run.failed" /\ e.type \in StatusTypes
    BY <1>c, EventTypesOf
  <2> HIDE DEF rows, e
  <2>7. \A i \in Runs : run'[i] = IF new[i] = None THEN rows[i] ELSE Admitted(new[i])
    BY <2>1 DEF WithAdmitted
  <2>8. ASSUME NEW i \in Runs
        PROVE  TrailStep(i) /\ (run[i].status = "CANCELLED" => run'[i].status = "CANCELLED")
    <3>1. CASE i \in Expired(lag)
      <4>1. /\ run'[i] = Recovered(i) /\ run[i].status = "RUNNING" /\ rows[i] = Recovered(i)
            /\ run'[i].status \in {"FAILED", "QUEUED"} /\ run'[i].attempts = run[i].attempts
        BY <2>2, <2>3, <2>4, <2>5, <2>7, <3>1
      <4>2. CASE run'[i].status = "FAILED"
        <5>1. events'[i] = Append(events[i], e) BY <2>1, <3>1, <4>1, <4>2
        <5>2. e.type \in LastOf(run'[i].status) /\ e.type # "run.started" BY <2>6, <4>2 DEF LastOf
        <5>3. Marked(i, e) BY <2>6, <4>1, <5>1, <5>2 DEF Marked, Adds
        <5> QED BY <2>6, <4>1, <5>3 DEF TrailStep
      <4>3. CASE run'[i].status = "QUEUED"
        <5>1. events'[i] = events[i] BY <2>1, <3>1, <4>1, <4>3
        <5>2. TrailStays(i) BY <4>1, <4>3, <5>1 DEF TrailStays
        <5> QED BY <4>1, <5>2 DEF TrailStep
      <4> QED BY <4>1, <4>2, <4>3
    <3>2. CASE i \notin Expired(lag)
      <4>1. rows[i] = run[i] /\ events'[i] = events[i] BY <2>1, <2>2, <3>2
      <4>2. CASE new[i] = None
        <5>1. run'[i] = run[i] BY <2>7, <4>1, <4>2
        <5> QED BY <4>1, <5>1, SameIsTrailStep DEF AdmittedOrSame
      <4>3. CASE new[i] # None
        <5>1. run[i].status = "ABSENT" /\ run'[i] = Admitted(new[i]) BY <2>5, <2>7, <4>1, <4>3
        <5>2. AdmittedOrSame(i) /\ run'[i].attempts = run[i].attempts BY <5>1, AdmittedTrail
        <5> QED BY <4>1, <5>1, <5>2, SameIsTrailStep
      <4> QED BY <4>2, <4>3
    <3> QED BY <3>1, <3>2
  <2> QED BY <1>d, <2>1, <2>8
<1> QED BY <1>1, <1>2, <1>3, <1>4, <1>5, <1>6, <1>7 DEF Recover

\* At the start there is nothing to tell.
LEMMA InitTrails == Init => TrailsInv
<1> SUFFICES ASSUME Init PROVE TrailsInv OBVIOUS
<1>1. ToldOfCancelled BY DEF Init, ToldOfCancelled
<1>2. ASSUME NEW r \in Runs PROVE TrailInv(r)
  <2>1. events[r] = <<>> /\ run[r].status = "ABSENT" /\ run[r].attempts = 0
    BY DEF Init, NoRun
  <2>2. Len(events[r]) = 0 BY <2>1
  <2>3. History(r) = {} /\ Started(r) = {} BY <2>2 DEF History, Started, Entries
  <2>4. AttemptsAnnounced(r) BY <2>1, <2>3 DEF AttemptsAnnounced
  <2> QED BY <2>1, <2>2, <2>3, <2>4 DEF TrailInv, StatusTold, FinalIsLast, ProgressWithin
<1> QED BY <1>1, <1>2 DEF TrailsInv

\* Every step continues each run's story.
LEMMA NextTrails ==
  ASSUME IInv, TrailsInv, [Next]_vars
  PROVE  TrailsInv'
<1>a. TypeOK BY DEF IInv
<1>1. ToldOfCancelled' /\ \A i \in Runs : TrailStep(i)
  <2>1. CASE UNCHANGED vars
    <3>1. ToldOfCancelled' BY <2>1 DEF vars, TrailsInv, ToldOfCancelled
    <3>2. \A i \in Runs : TrailStep(i) BY <2>1, SameIsTrailStep DEF vars, AdmittedOrSame
    <3> QED BY <3>1, <3>2
  <2>2. CASE Next BY <2>2, WorkTrail, AdmissionTrail, OtherTrail DEF Next
  <2> QED BY <2>1, <2>2
<1>2. ASSUME NEW i \in Runs PROVE TrailInv(i)'
  <2>1. TrailInv(i) BY DEF TrailsInv
  <2> QED BY <1>1, <1>a, <2>1, TrailStaysInv, NotedInv, MarkedInv DEF TrailStep
<1> QED BY <1>1, <1>2 DEF TrailsInv

-----------------------------------------------------------------------------
(* The page *)

\* What the page shows and where the stream stands, with the count named: they
\* never lead the trail, and only an open page has a stream.
PageInv ==
  /\ page \in Page /\ stream \in Stream
  /\ page.run # None => page.run \in Watched
  /\ page.run = None <=> page.state = "none"
  /\ page.run = None => stream.phase = "closed"
  /\ \E n \in Nat :
       /\ page.shown = 1..n
       /\ page.run # None => n <= Len(Recorded)
       /\ stream.phase # "closed" =>
            /\ page.run # None
            /\ stream.cursor = n /\ n <= stream.upto /\ stream.upto <= Len(Recorded)

\* The page shows a prefix, and the stream resumes behind it.
LEMMA PageInvImplies == PageInv => PageShowsPrefix
<1> SUFFICES ASSUME PageInv PROVE PageShowsPrefix OBVIOUS
<1>1. PICK n \in Nat :
        /\ page.shown = 1..n
        /\ page.run # None => n <= Len(Recorded)
        /\ stream.phase # "closed" => stream.cursor = n
  BY DEF PageInv
<1>2. Cardinality(1..n) = n BY FS_Interval
<1> QED BY <1>1, <1>2 DEF PageShowsPrefix

\* Trails only grow.
LEMMA TrailsGrow ==
  ASSUME TypeOK, NEW r \in Runs, TrailStep(r)
  PROVE  Len(events'[r]) >= Len(events[r])
<1>1. events[r] \in Seq(EventRow) BY DEF TypeOK
<1>2. CASE TrailStays(r) BY <1>1, <1>2 DEF TrailStays
<1>3. ASSUME NEW e \in EventRow, Noted(r, e) \/ Marked(r, e)
      PROVE  Len(events'[r]) >= Len(events[r])
  <2>1. events'[r] = Append(events[r], e) BY <1>3 DEF Noted, Marked, Adds
  <2> QED BY <1>1, <2>1, Appended
<1> QED BY <1>2, <1>3 DEF TrailStep

\* The largest of the first n numbers, and the smaller of two.
LEMMA MaxMin ==
  /\ \A n \in Nat : n > 0 => Max(1..n) = n
  /\ \A a, b \in Nat : Min({a, b}) = IF a <= b THEN a ELSE b
<1>1. ASSUME NEW n \in Nat, n > 0 PROVE Max(1..n) = n
  <2>1. n \in 1..n /\ \A y \in 1..n : n >= y BY <1>1
  <2>2. Max(1..n) \in 1..n /\ \A y \in 1..n : Max(1..n) >= y BY <2>1 DEF Max
  <2> QED BY <2>1, <2>2
<1>2. ASSUME NEW a \in Nat, NEW b \in Nat PROVE Min({a, b}) = IF a <= b THEN a ELSE b
  <2>1. \E x \in {a, b} : \A y \in {a, b} : x =< y OBVIOUS
  <2>2. Min({a, b}) \in {a, b} /\ \A y \in {a, b} : Min({a, b}) =< y BY <2>1 DEF Min
  <2> QED BY <2>2
<1> QED BY <1>1, <1>2

\* No page is open at the start.
LEMMA InitPage == StreamInit => PageInv
<1> SUFFICES ASSUME StreamInit PROVE PageInv OBVIOUS
<1>1. page = NoPage /\ stream = Closed BY DEF StreamInit
<1>2. NoPage \in Page /\ Closed \in Stream BY DEF NoPage, Closed, Page, Stream
<1>3. /\ page.run = None /\ page.state = "none" /\ page.shown = {} /\ stream.phase = "closed"
  BY <1>1 DEF NoPage, Closed
<1>4. page.shown = 1..0 BY <1>3
<1> QED BY <1>1, <1>2, <1>3, <1>4 DEF PageInv

\* The page and its stream move on, while the trail grows beside them.
LEMMA NextPage ==
  ASSUME IInv, IInv', TrailsInv, PageInv, [StreamNext]_allVars
  PROVE  PageInv'
<1>a. TypeOK /\ TypeOK' BY DEF IInv
<1>b. events \in [Runs -> Seq(EventRow)] BY <1>a DEF TypeOK
<1>c. page \in Page /\ stream \in Stream BY DEF PageInv
<1>d. /\ stream.cursor \in Nat /\ stream.upto \in Nat
      /\ page.run # None => page.run \in Runs /\ Len(Recorded) \in Nat
  BY <1>b, <1>c DEF Page, Stream, Recorded
<1>e. PICK n \in Nat :
        /\ page.shown = 1..n
        /\ page.run # None => n <= Len(Recorded)
        /\ stream.phase # "closed" =>
             /\ page.run # None
             /\ stream.cursor = n /\ n <= stream.upto /\ stream.upto <= Len(Recorded)
  BY DEF PageInv
<1>f. /\ page.run # None => page.run \in Watched
      /\ page.run = None <=> page.state = "none"
      /\ page.run = None => stream.phase = "closed"
  BY DEF PageInv
<1>g. BatchSize \in Nat \ {0} BY StreamAssumption
<1>1. ASSUME UNCHANGED streamVars, [Next]_vars PROVE PageInv'
  <2>1. ASSUME page.run # None PROVE Len(Recorded)' >= Len(Recorded) /\ Len(Recorded)' \in Nat
    <3>1. TrailStep(page.run)
      <4>1. CASE UNCHANGED vars
        BY <1>d, <2>1, <4>1, SameIsTrailStep DEF vars, AdmittedOrSame
      <4>2. CASE Next BY <1>d, <2>1, <4>2, WorkTrail, AdmissionTrail, OtherTrail DEF Next
      <4> QED BY <1>1, <4>1, <4>2
    <3>2. Recorded' = events'[page.run] BY <1>1 DEF Recorded, streamVars
    <3>3. Len(events'[page.run]) >= Len(events[page.run]) BY <1>a, <1>d, <2>1, <3>1, TrailsGrow
    <3>4. Len(events'[page.run]) \in Nat BY <1>a, <1>d, <2>1 DEF TypeOK
    <3> QED BY <3>2, <3>3, <3>4 DEF Recorded
  <2>2. /\ page.run # None => n <= Len(Recorded)'
        /\ stream.phase # "closed" => stream.upto <= Len(Recorded)'
    BY <1>d, <1>e, <2>1
  <2>3. page' = page /\ stream' = stream BY <1>1 DEF streamVars
  <2> QED BY <1>c, <1>e, <1>f, <2>2, <2>3 DEF PageInv
<1>2. ASSUME NEW r \in Runs, OpenPage(r), UNCHANGED vars PROVE PageInv'
  <2> DEFINE ends == run[r].status \in EndStatuses
  <2>0. ends \in BOOLEAN OBVIOUS
  <2>a. page' = [NoPage EXCEPT !.run = r, !.state = "waiting", !.replayOnly = ends]
    BY <1>2 DEF OpenPage
  <2>b. 1..0 = {} OBVIOUS
  <2>c. r \in Watched /\ stream' = stream BY <1>2 DEF OpenPage
  <2> HIDE DEF ends
  <2>1. /\ page'.run = r /\ page'.state = "waiting" /\ page'.shown = 1..0
        /\ page' \in Page /\ r \in Watched /\ stream' = stream
    BY <2>0, <2>a, <2>b, <2>c DEF NoPage, Page
  <2>2. page.run = None BY <1>2, <1>f DEF OpenPage
  <2>3. r # None BY RunsAssumption
  <2>4. 0 <= Len(events'[r]) BY <1>a DEF TypeOK
  <2>5. stream'.phase = "closed" BY <1>f, <2>1, <2>2
  <2> QED BY <1>c, <2>1, <2>3, <2>4, <2>5 DEF PageInv, Recorded
<1>h. ASSUME UNCHANGED vars, page'.run = page.run PROVE Len(Recorded)' = Len(Recorded)
  BY <1>h DEF vars, Recorded
<1>i. ASSUME stream.phase # "closed" \/ page.state # "none" PROVE page.run # None
  BY <1>e, <1>f, <1>i
<1>3. ASSUME Connect, UNCHANGED vars PROVE PageInv'
  <2>1. page.run # None BY <1>3, <1>i DEF Connect
  <2>2. /\ page' \in Page /\ page'.run = page.run /\ page'.shown = page.shown
        /\ page'.state = "reading"
    BY <1>3, <1>c DEF Connect, Page
  <2>3. LastEventId = n
    <3>1. CASE n = 0 BY <1>e, <3>1 DEF LastEventId
    <3>2. CASE n > 0
      <4>1. page.shown # {} BY <1>e, <3>2
      <4> QED BY <1>e, <3>2, <4>1, MaxMin DEF LastEventId
    <3> QED BY <3>1, <3>2
  <2>4. stream' \in Stream /\ stream'.cursor = n /\ stream'.upto = n
    BY <1>3, <2>3 DEF Connect, Closed, Stream
  <2>5. Len(Recorded)' = Len(Recorded) BY <1>3, <1>h, <2>2
  <2>6. n <= n /\ n <= Len(Recorded)' BY <1>e, <2>1, <2>5
  <2> QED BY <1>e, <1>f, <2>1, <2>2, <2>4, <2>6 DEF PageInv
<1>4. ASSUME LoadEvents, UNCHANGED vars PROVE PageInv'
  <2>1. stream.phase # "closed" /\ page' = page BY <1>4 DEF LoadEvents
  <2>2. page.run # None BY <1>i, <2>1
  <2> DEFINE upto == Min({stream.cursor + BatchSize, Len(Recorded)})
  <2>3. stream' = [stream EXCEPT !.phase = "status", !.upto = upto,
                                 !.full = upto = stream.cursor + BatchSize]
    BY <1>4 DEF LoadEvents
  <2>4. /\ upto = IF stream.cursor + BatchSize <= Len(Recorded)
                  THEN stream.cursor + BatchSize ELSE Len(Recorded)
        /\ upto \in Nat
    BY <1>d, <1>g, <2>2, MaxMin
  <2>5. n <= upto /\ upto <= Len(Recorded) BY <1>d, <1>e, <1>g, <2>1, <2>2, <2>4
  <2> HIDE DEF upto
  <2>6. stream'.cursor = n /\ stream'.upto = upto BY <1>c, <1>e, <2>1, <2>3 DEF Stream
  <2>7. stream' \in Stream
    <3>1. (upto = stream.cursor + BatchSize) \in BOOLEAN OBVIOUS
    <3> QED BY <1>c, <2>3, <2>4, <3>1 DEF Stream
  <2>8. Len(Recorded)' = Len(Recorded) BY <1>4, <1>h, <2>1
  <2> QED BY <1>c, <1>e, <1>f, <2>1, <2>2, <2>5, <2>6, <2>7, <2>8 DEF PageInv
<1>5. ASSUME ReadStatus, UNCHANGED vars PROVE PageInv'
  <2>1. stream.phase # "closed" /\ page' = page BY <1>5 DEF ReadStatus
  <2>2. page.run # None BY <1>i, <2>1
  <2>3. stream' = [stream EXCEPT !.phase = "send", !.ended = run[page.run].status \in EndStatuses]
    BY <1>5 DEF ReadStatus
  <2>4. stream'.cursor = stream.cursor /\ stream'.upto = stream.upto BY <1>c, <2>3 DEF Stream
  <2>5. stream' \in Stream
    <3>1. (run[page.run].status \in EndStatuses) \in BOOLEAN OBVIOUS
    <3> QED BY <1>c, <2>3, <3>1 DEF Stream
  <2>6. Len(Recorded)' = Len(Recorded) BY <1>5, <1>h, <2>1
  <2> QED BY <1>c, <1>e, <1>f, <2>1, <2>2, <2>4, <2>5, <2>6 DEF PageInv
<1>6. ASSUME SendChunk, UNCHANGED vars PROVE PageInv'
  <2>1. stream.phase # "closed" BY <1>6 DEF SendChunk
  <2>2. page.run # None BY <1>i, <2>1
  <2> DEFINE stops(c) == \E i \in stream.cursor + 1..c : Terminal(i)
  <2>3. PICK c \in stream.cursor + 1..stream.upto :
          /\ page' = [page EXCEPT !.shown = @ \cup (stream.cursor + 1..c),
                                  !.state = IF stops(c) THEN "terminal" ELSE @]
          /\ stream' = IF stops(c) THEN Closed ELSE [stream EXCEPT !.cursor = c]
    BY <1>6, Zenon DEF SendChunk
  <2> HIDE DEF stops
  <2>4. c \in Nat /\ n < c /\ c <= stream.upto /\ stream.upto <= Len(Recorded) /\ stream.cursor = n
    BY <1>d, <1>e, <2>1, <2>3
  <2>5. page'.shown = 1..c
    <3>1. page'.shown = page.shown \cup (n + 1..c) BY <1>c, <2>3, <2>4 DEF Page
    <3>2. 1..c = (1..n) \cup (n + 1..c) BY <2>4
    <3> QED BY <1>e, <3>1, <3>2
  <2>6. page' \in Page /\ page'.run = page.run /\ page'.state # "none"
    <3>1. page.shown \cup (stream.cursor + 1..c) \in SUBSET Nat BY <1>e, <2>4
    <3>2. page.state # "none" BY <1>f, <2>2
    <3>3. (IF stops(c) THEN "terminal" ELSE page.state) \in {"waiting", "reading", "terminal"}
      BY <1>c, <3>2 DEF Page
    <3> QED BY <1>c, <2>3, <3>1, <3>3 DEF Page
  <2>7. stream' \in Stream /\ (stream'.phase # "closed" => stream'.cursor = c /\ stream'.upto = stream.upto)
    <3>1. CASE stops(c) BY <2>3, <3>1 DEF Closed, Stream
    <3>2. CASE ~stops(c) BY <1>c, <2>3, <2>4, <3>2 DEF Stream
    <3> QED BY <3>1, <3>2
  <2>8. Len(Recorded)' = Len(Recorded) BY <1>6, <1>h, <2>6
  <2>9. c <= Len(Recorded) BY <1>d, <2>2, <2>4
  <2> QED BY <1>f, <2>2, <2>4, <2>5, <2>6, <2>7, <2>8, <2>9 DEF PageInv
<1>7. ASSUME EndOfBatch, UNCHANGED vars PROVE PageInv'
  <2>1. stream.phase # "closed" /\ page' = page /\ stream.cursor = stream.upto BY <1>7 DEF EndOfBatch
  <2>2. page.run # None BY <1>i, <2>1
  <2>3. stream' \in Stream /\ stream'.cursor = n /\ stream'.upto = n
    BY <1>7, <1>d, <1>e, <2>1 DEF EndOfBatch, Closed, Stream
  <2>4. Len(Recorded)' = Len(Recorded) BY <1>7, <1>h, <2>1
  <2>5. n <= n BY <1>e
  <2> QED BY <1>c, <1>e, <1>f, <2>1, <2>2, <2>3, <2>4, <2>5 DEF PageInv
<1>8. ASSUME StreamDone \/ Break, UNCHANGED vars PROVE PageInv'
  <2>1. page.run # None /\ stream' = Closed
    BY <1>8, <1>i DEF StreamDone, Break
  <2>2. /\ page' \in Page /\ page'.run = page.run /\ page'.shown = page.shown
        /\ page'.state # "none"
    BY <1>8, <1>c DEF StreamDone, Break, Page
  <2>3. Closed \in Stream /\ Closed.phase = "closed" BY DEF Closed, Stream
  <2>4. Len(Recorded)' = Len(Recorded) BY <1>8, <1>h, <2>2
  <2> QED BY <1>e, <1>f, <2>1, <2>2, <2>3, <2>4 DEF PageInv
<1>9. CASE UNCHANGED allVars BY <1>1, <1>9 DEF allVars, vars, streamVars
<1> QED BY <1>1, <1>2, <1>3, <1>4, <1>5, <1>6, <1>7, <1>8, <1>9 DEF StreamNext, Serve

\* A step of the page is none of the runs.
LEMMA StreamStepsAreRunSteps == [StreamNext]_allVars => [Next]_vars
BY DEF StreamNext, allVars, vars

\* The composition with the page is one of the runs: what is proved of Spec, the
\* lifecycle included, holds of it.
THEOREM PageLeavesRunsAlone == StreamSpec => Spec
<1>1. StreamInit => Init BY DEF StreamInit
<1> QED BY <1>1, StreamStepsAreRunSteps, PTL DEF StreamSpec, Spec

\* Whatever breaks and reconnects, the page shows a prefix, without a hole, of a
\* trail that leads to the row and ends where the run ends, in which each attempt's
\* progress lies within the attempt.
THEOREM PageTellsTheStory == StreamSpec => []PageTellsStory
<1> DEFINE Inv == IInv /\ TrailsInv /\ PageInv
<1>1. StreamInit => Inv BY InitIInv, InitTrails, InitPage DEF StreamInit
<1>2. Inv /\ [StreamNext]_allVars => Inv'
  <2> SUFFICES ASSUME Inv, [StreamNext]_allVars PROVE Inv' OBVIOUS
  <2>1. [Next]_vars BY StreamStepsAreRunSteps
  <2>2. IInv' BY <2>1, NextIInv
  <2>3. TrailsInv' BY <2>1, NextTrails
  <2>4. PageInv' BY <2>2, NextPage
  <2> QED BY <2>2, <2>3, <2>4
<1>3. Inv => PageTellsStory
  <2> SUFFICES ASSUME Inv PROVE PageTellsStory OBVIOUS
  <2>1. PageShowsPrefix BY PageInvImplies
  <2>2. TrailTellsStory
    BY DEF TrailsInv, TrailInv, TrailTellsStory, EventsTellStatus, FinalEventsAreLast, FinalIsLast
  <2>3. ProgressWithinAttempt BY DEF TrailsInv, TrailInv, ProgressWithinAttempt, ProgressWithin
  <2> QED BY <2>1, <2>2, <2>3 DEF PageTellsStory
<1> HIDE DEF Inv
<1> QED BY <1>1, <1>2, <1>3, PTL DEF StreamSpec
=============================================================================
