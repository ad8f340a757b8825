------------------------- MODULE IngestionJobsProofs -------------------------
(***************************************************************************)
(* The job store keeps its tables consistent, and implements the job's     *)
(* lifecycle, for every set of jobs and requests, every attempt budget,    *)
(* every lease length and every staleness of the callers' clocks.          *)
(*                                                                         *)
(* The argument: every step does to each single row one of the things of   *)
(* RowStep, and a row that satisfies RowInv still does after a RowStep.    *)
(***************************************************************************)
EXTENDS IngestionJobs, TLAPS

\* What holds of a job's row, its attempts and its dead letters at all times.
RowInv(j) ==
  /\ IF job[j].state = "ABSENT" THEN job[j] = NoJob ELSE job[j].request \in Requests
  /\ job[j].request # None => job[j].attempts <= Limit(j)
  /\ job[j].generation = job[j].attempts
  /\ Running(j) => job[j].token = job[j].generation /\ job[j].ttl # None
  /\ ~Running(j) => job[j].token = None /\ job[j].ttl = None
  /\ job[j].state = "RETRY_SCHEDULED" <=> job[j].wait # None
  /\ Final(j) <=> job[j].completed
  /\ job[j].state \in {"QUEUED", "RETRY_SCHEDULED"} => job[j].attempts < Limit(j)
  /\ Running(j) => job[j].attempts > 0
  /\ Len(ledger[j]) = job[j].attempts - (IF Running(j) THEN 1 ELSE 0)
  /\ \A n \in 1..Len(ledger[j]) : ledger[j][n].number = n /\ ledger[j][n].generation = n
  /\ \A n \in Nat : <<j, n>> \in deadLetters
                      <=> job[j].state = "DEAD_LETTER" /\ n = job[j].attempts
  /\ \A n \in 1..Len(ledger[j]) :
       \/ ledger[j][n].outcome = "RETRY_SCHEDULED"
       \/ n = Len(ledger[j]) /\ Final(j) /\ ledger[j][n].outcome = job[j].state
  /\ Final(j) /\ job[j].state # "CANCELLED" =>
       Len(ledger[j]) > 0 /\ ledger[j][Len(ledger[j])].outcome = job[j].state

IInv == /\ TypeOK
        /\ OneActivePerRequest
        /\ \A j \in Jobs : RowInv(j)

-----------------------------------------------------------------------------
(* The effect of a step on one row. *)

NoAttemptEnds(j) ==
  /\ ledger'[j] = ledger[j]
  /\ \A n \in Nat : <<j, n>> \in deadLetters' <=> <<j, n>> \in deadLetters

RowAdmitted(j) ==
  /\ job[j].state = "ABSENT"
  /\ \E r \in Requests : job'[j] = [NoJob EXCEPT !.request = r, !.state = "QUEUED"]
  /\ NoAttemptEnds(j)

RowClaimed(j) ==
  /\ job[j].state = "QUEUED"
  /\ job[j].attempts < Limit(j)
  /\ \E lag \in Lags : job'[j] = Claimed(job[j], lag)
  /\ NoAttemptEnds(j)

RowRenewed(j) ==
  /\ Running(j)
  /\ \E lag \in Lags : job'[j] = Renewed(job[j], lag)
  /\ NoAttemptEnds(j)

RowCancelled(j) ==
  /\ job[j].state \in {"QUEUED", "RETRY_SCHEDULED"}
  /\ job'[j] = Cancelled(job[j])
  /\ NoAttemptEnds(j)

RowRequeued(j) ==
  /\ job[j].state = "RETRY_SCHEDULED"
  /\ job[j].attempts < Limit(j)
  /\ job'[j] = Requeued(job[j])
  /\ NoAttemptEnds(j)

RowEndsAttempt(j) ==
  \E outcome \in Outcomes, next \in Int \cup {None}, expired \in BOOLEAN :
    /\ Running(j)
    /\ IF outcome = "RETRY_SCHEDULED" THEN job[j].attempts < Limit(j) /\ next # None
                                      ELSE next = None
    /\ expired => job[j].ttl <= 0
    /\ job'[j] = Released(job[j], outcome, next)
    /\ ledger'[j] = Append(ledger[j], Attempt(j, job[j].generation, outcome, expired))
    /\ \A n \in Nat : <<j, n>> \in deadLetters'
                        <=> \/ <<j, n>> \in deadLetters
                            \/ outcome = "DEAD_LETTER" /\ n = job[j].attempts

RowStays(j) == /\ job'[j] = job[j]
               /\ NoAttemptEnds(j)

RowAges(j) == /\ job'[j] = Later(job[j])
              /\ NoAttemptEnds(j)

\* What any step but an admission does to a row.
OldRowStep(j) == \/ RowStays(j) \/ RowAges(j) \/ RowClaimed(j) \/ RowRenewed(j)
                 \/ RowCancelled(j) \/ RowRequeued(j) \/ RowEndsAttempt(j)

RowStep(j) == RowAdmitted(j) \/ OldRowStep(j)

Typed == job' \in [Jobs -> JobRow] /\ ledger' \in [Jobs -> Seq(AttemptRow)]
           /\ deadLetters' \subseteq Jobs \X Nat

-----------------------------------------------------------------------------
\* Each row update of the store yields a well-typed row.
LEMMA RowTypes ==
  /\ NoJob \in JobRow
  /\ \A r \in Requests : [NoJob EXCEPT !.request = r, !.state = "QUEUED"] \in JobRow
  /\ \A row \in JobRow :
       /\ Cancelled(row) \in JobRow
       /\ Requeued(row) \in JobRow
       /\ Later(row) \in JobRow
  /\ \A row \in JobRow, lag \in Lags :
       /\ Claimed(row, lag) \in JobRow
       /\ Renewed(row, lag) \in JobRow
  /\ \A row \in JobRow, outcome \in Outcomes, next \in Int \cup {None} :
       Released(row, outcome, next) \in JobRow
<1> USE DEF JobRow
<1>1. NoJob \in JobRow BY DEF NoJob, States
<1>2. \A r \in Requests : [NoJob EXCEPT !.request = r, !.state = "QUEUED"] \in JobRow
  BY DEF NoJob, States, ActiveStates
<1>3. ASSUME NEW row \in JobRow, NEW lag \in Lags
      PROVE  Claimed(row, lag) \in JobRow /\ Renewed(row, lag) \in JobRow
  <2>1. LeaseFor - lag \in Int BY JobsAssumption DEF Lags
  <2>2. row.generation + 1 \in Nat /\ row.attempts + 1 \in Nat OBVIOUS
  <2>3. Claimed(row, lag) \in JobRow BY <2>1, <2>2 DEF Claimed, States, ActiveStates
  <2>4. Renewed(row, lag) \in JobRow BY <2>1 DEF Renewed
  <2> QED BY <2>3, <2>4
<1>4. ASSUME NEW row \in JobRow
      PROVE  Cancelled(row) \in JobRow /\ Requeued(row) \in JobRow /\ Later(row) \in JobRow
  <2>1. Cancelled(row) \in JobRow BY DEF Cancelled, States, FinalStates
  <2>2. Requeued(row) \in JobRow BY DEF Requeued, States, ActiveStates
  <2>3. \A t \in Int \cup {None} : Sooner(t) \in Int \cup {None}
    BY JobsAssumption DEF Sooner
  <2>4. Sooner(row.ttl) \in Int \cup {None} /\ Sooner(row.wait) \in Int \cup {None}
    BY <2>3
  <2>5. Later(row) \in JobRow BY <2>4 DEF Later
  <2> QED BY <2>1, <2>2, <2>5
<1>5. ASSUME NEW row \in JobRow, NEW outcome \in Outcomes, NEW next \in Int \cup {None}
      PROVE  Released(row, outcome, next) \in JobRow
  <2>1. outcome \in States BY DEF Outcomes, States, ActiveStates, FinalStates
  <2>2. (outcome \in FinalStates) \in BOOLEAN OBVIOUS
  <2> QED BY <2>1, <2>2 DEF Released
<1> QED BY <1>1, <1>2, <1>3, <1>4, <1>5

\* The rows that an end of an attempt leaves in the two history tables.
LEMMA AttemptTypes ==
  ASSUME TypeOK, NEW j \in Jobs, NEW g \in Nat, NEW outcome \in Outcomes, NEW x \in BOOLEAN
  PROVE  /\ Append(ledger[j], Attempt(j, g, outcome, x)) \in Seq(AttemptRow)
         /\ <<j, job[j].attempts>> \in Jobs \X Nat
<1>1. job[j].attempts \in Nat /\ ledger[j] \in Seq(AttemptRow) BY DEF TypeOK, JobRow
<1>2. Attempt(j, g, outcome, x) \in AttemptRow BY <1>1 DEF Attempt, AttemptRow
<1> QED BY <1>1, <1>2

\* A step of the queue other than an admission changes each row by an OldRowStep.
LEMMA OldRows ==
  ASSUME TypeOK, \A j \in Jobs : RowInv(j), Next, ~ \E r \in Requests : EnqueueWithResult(r)
  PROVE  Typed /\ \A j \in Jobs : OldRowStep(j)
<1> USE DEF Typed, OldRowStep
<1>a. /\ job \in [Jobs -> JobRow]
      /\ ledger \in [Jobs -> Seq(AttemptRow)]
      /\ deadLetters \subseteq Jobs \X Nat
  BY DEF TypeOK
<1>1. ASSUME NEW j \in Jobs, Cancel(j) PROVE Typed /\ \A i \in Jobs : OldRowStep(i)
  <2>1. Cancelled(job[j]) \in JobRow BY <1>a, RowTypes
  <2>2. Typed BY <2>1, <1>1, <1>a DEF Cancel
  <2>3. \A i \in Jobs : RowStays(i) \/ RowCancelled(i)
    BY <1>1, <1>a DEF Cancel, RowStays, RowCancelled, NoAttemptEnds
  <2> QED BY <2>2, <2>3
<1>2. ASSUME NEW j \in Jobs, NEW lag \in Lags, Claim(j, lag) PROVE Typed /\ \A i \in Jobs : OldRowStep(i)
  <2>1. Claimed(job[j], lag) \in JobRow BY <1>a, RowTypes
  <2>2. Typed BY <2>1, <1>2, <1>a DEF Claim
  <2>3. \A i \in Jobs : RowStays(i) \/ RowClaimed(i)
    BY <1>2, <1>a DEF Claim, RowStays, RowClaimed, NoAttemptEnds
  <2> QED BY <2>2, <2>3
<1>3. ASSUME NEW j \in Jobs, NEW lag \in Lags, NEW g \in 1..job[j].generation, Heartbeat(j, g, lag)
      PROVE  Typed /\ \A i \in Jobs : OldRowStep(i)
  <2>1. Renewed(job[j], lag) \in JobRow BY <1>a, RowTypes
  <2>2. Typed BY <2>1, <1>3, <1>a DEF Heartbeat
  <2>3. \A i \in Jobs : RowStays(i) \/ RowRenewed(i)
    BY <1>3, <1>a DEF Heartbeat, RowStays, RowRenewed, NoAttemptEnds, LeaseValid, Running
  <2> QED BY <2>2, <2>3
<1>4. ASSUME NEW j \in Jobs, NEW lag \in Lags, NEW g \in 1..job[j].generation,
             NEW target \in Outcomes, NEW next \in Int \cup {None},
             target = "RETRY_SCHEDULED" <=> next # None,
             Finish(j, g, lag, target, next)
      PROVE  Typed /\ \A i \in Jobs : OldRowStep(i)
  <2> DEFINE exhausted == target = "RETRY_SCHEDULED" /\ job[j].attempts >= Limit(j)
             outcome == IF exhausted THEN "DEAD_LETTER" ELSE target
             next2 == IF exhausted THEN None ELSE next
  <2>0. /\ LeaseValid(j, g, lag)
        /\ ledger' = [ledger EXCEPT ![j] = Append(ledger[j], Attempt(j, g, outcome, FALSE))]
        /\ deadLetters' = IF outcome = "DEAD_LETTER"
                          THEN deadLetters \cup {<<j, job[j].attempts>>}
                          ELSE deadLetters
        /\ job' = [job EXCEPT ![j] = Released(job[j], outcome, next2)]
    BY <1>4 DEF Finish
  <2>1. outcome \in Outcomes /\ next2 \in Int \cup {None} BY DEF Outcomes
  <2>2. Released(job[j], outcome, next2) \in JobRow BY <1>a, <2>1, RowTypes
  <2>3. g \in Nat /\ g = job[j].generation /\ Running(j)
    BY <1>a, <2>0 DEF LeaseValid, Running, JobRow
  <2>4. /\ Append(ledger[j], Attempt(j, g, outcome, FALSE)) \in Seq(AttemptRow)
        /\ <<j, job[j].attempts>> \in Jobs \X Nat
    BY <2>1, <2>3, AttemptTypes
  <2>5. Typed BY <1>a, <2>0, <2>2, <2>4
  <2>6. ASSUME NEW i \in Jobs, i # j PROVE OldRowStep(i)
    <3>1. RowStays(i) BY <2>6, <2>0, <1>a DEF RowStays, NoAttemptEnds
    <3> QED BY <3>1
  <2>7. OldRowStep(j)
    <3>1. Limit(j) \in Nat /\ job[j].attempts \in Nat
      BY <1>a, JobsAssumption, <2>3 DEF RowInv, Limit, JobRow, Running
    <3>2. IF outcome = "RETRY_SCHEDULED" THEN job[j].attempts < Limit(j) /\ next2 # None
                                         ELSE next2 = None
      BY <3>1, <1>4
    <3>3. \A n \in Nat : <<j, n>> \in deadLetters'
                            <=> \/ <<j, n>> \in deadLetters
                                \/ outcome = "DEAD_LETTER" /\ n = job[j].attempts
      BY <2>0
    <3>4. /\ job'[j] = Released(job[j], outcome, next2)
          /\ ledger'[j] = Append(ledger[j], Attempt(j, job[j].generation, outcome, FALSE))
      BY <2>0, <2>3, <1>a
    <3> HIDE DEF outcome, next2, exhausted
    <3>5. RowEndsAttempt(j) BY <3>2, <3>3, <3>4, <2>3, <2>1 DEF RowEndsAttempt
    <3> QED BY <3>5
  <2> QED BY <2>5, <2>6, <2>7
<1>5. ASSUME NEW j \in Jobs, NEW lag \in Lags, NEW g \in 1..job[j].generation, UseLease(j, g, lag)
      PROVE  Typed /\ \A i \in Jobs : OldRowStep(i)
  <2>1. CASE Heartbeat(j, g, lag) BY <2>1, <1>3
  <2>2. CASE Complete(j, g, lag)
    <3>1. PICK target \in {"SUCCEEDED", "COMPLETED_WITH_GAPS"} : Finish(j, g, lag, target, None)
      BY <2>2 DEF Complete
    <3> QED BY <3>1, <1>4 DEF Outcomes
  <2>3. CASE ScheduleRetry(j, g, lag)
    <3>1. PICK backoff \in 1..MaxBackoff :
                 Finish(j, g, lag, "RETRY_SCHEDULED", backoff - lag)
      BY <2>3 DEF ScheduleRetry
    <3>2. backoff - lag \in Int /\ backoff - lag # None BY JobsAssumption DEF Lags
    <3> QED BY <3>1, <3>2, <1>4 DEF Outcomes
  <2>4. CASE DeadLetter(j, g, lag) BY <2>4, <1>4 DEF DeadLetter, Outcomes
  <2>5. CASE Fail(j, g, lag) BY <2>5, <1>4 DEF Fail, Outcomes
  <2> QED BY <1>5, <2>1, <2>2, <2>3, <2>4, <2>5 DEF UseLease
<1>6. ASSUME NEW lag \in Lags, RequeueDue(lag) PROVE Typed /\ \A i \in Jobs : OldRowStep(i)
  <2>1. \A j \in Jobs : Requeued(job[j]) \in JobRow BY <1>a, RowTypes
  <2>2. Typed BY <2>1, <1>6, <1>a DEF RequeueDue
  <2>3. \A i \in Jobs : RowStays(i) \/ RowRequeued(i)
    BY <1>6, <1>a DEF RequeueDue, Due, RowStays, RowRequeued, NoAttemptEnds
  <2> QED BY <2>2, <2>3
<1>7. ASSUME NEW S \in SUBSET Jobs, NEW lag \in Lags, RecoverExpired(S, lag)
      PROVE  Typed /\ \A i \in Jobs : OldRowStep(i)
  <2> DEFINE next(j) == IF Exhausted(j) THEN None ELSE -lag
  <2>1. \A j \in Jobs : RecoveryTarget(j) \in Outcomes /\ next(j) \in Int \cup {None}
    <3>1. -lag \in Int BY JobsAssumption DEF Lags
    <3> QED BY <3>1 DEF RecoveryTarget, Outcomes
  <2>2. \A j \in Jobs : Released(job[j], RecoveryTarget(j), next(j)) \in JobRow
    BY <1>a, <2>1, RowTypes
  <2>3. \A j \in Jobs : job[j].generation \in Nat /\ job[j].attempts \in Nat
    BY <1>a DEF JobRow
  <2>4. \A j \in Jobs :
          Append(ledger[j], Attempt(j, job[j].generation, RecoveryTarget(j), TRUE))
            \in Seq(AttemptRow)
    BY <2>1, <2>3, AttemptTypes
  <2>5. Typed
    <3>1. job' \in [Jobs -> JobRow] BY <1>7, <1>a, <2>2 DEF RecoverExpired
    <3>2. ledger' \in [Jobs -> Seq(AttemptRow)] BY <1>7, <1>a, <2>4 DEF RecoverExpired
    <3>3. deadLetters' \subseteq Jobs \X Nat BY <1>7, <1>a, <2>3 DEF RecoverExpired
    <3> QED BY <3>1, <3>2, <3>3
  <2>6. ASSUME NEW i \in Jobs, i \notin S PROVE OldRowStep(i)
    <3>1. RowStays(i) BY <2>6, <1>7, <1>a DEF RecoverExpired, RowStays, NoAttemptEnds
    <3> QED BY <3>1
  <2>7. ASSUME NEW i \in S PROVE OldRowStep(i)
    <3>1. Running(i) /\ job[i].ttl + lag <= 0 /\ job[i].ttl \in Int
      BY <2>7, <1>7, <1>a DEF RecoverExpired, Expired, Running, RowInv, JobRow
    <3>2. job[i].ttl <= 0 BY <3>1 DEF Lags
    <3>3. Limit(i) \in Nat
      BY <1>a, JobsAssumption, <3>1 DEF RowInv, Limit, JobRow, Running
    <3>4. IF RecoveryTarget(i) = "RETRY_SCHEDULED"
          THEN job[i].attempts < Limit(i) /\ next(i) # None
          ELSE next(i) = None
      BY <3>3, <2>3, JobsAssumption DEF RecoveryTarget, Exhausted, Lags
    <3>5. \A n \in Nat : <<i, n>> \in deadLetters'
                            <=> \/ <<i, n>> \in deadLetters
                                \/ RecoveryTarget(i) = "DEAD_LETTER" /\ n = job[i].attempts
      BY <2>7, <1>7 DEF RecoverExpired, RecoveryTarget
    <3>6. /\ job'[i] = Released(job[i], RecoveryTarget(i), next(i))
          /\ ledger'[i] = Append(ledger[i], Attempt(i, job[i].generation, RecoveryTarget(i), TRUE))
      BY <2>7, <1>7, <1>a DEF RecoverExpired
    <3> HIDE DEF next
    <3>7. RowEndsAttempt(i)
      BY <3>1, <3>2, <3>4, <3>5, <3>6, <2>1 DEF RowEndsAttempt
    <3> QED BY <3>7
  <2> QED BY <2>5, <2>6, <2>7
<1>8. ASSUME Tick PROVE Typed /\ \A i \in Jobs : OldRowStep(i)
  <2>1. \A j \in Jobs : Later(job[j]) \in JobRow BY <1>a, RowTypes
  <2>2. Typed BY <2>1, <1>8, <1>a DEF Tick
  <2>3. \A i \in Jobs : RowAges(i) BY <1>8 DEF Tick, RowAges, NoAttemptEnds
  <2> QED BY <2>2, <2>3
<1> QED BY <1>1, <1>2, <1>5, <1>6, <1>7, <1>8 DEF Next

\* An admission changes one absent row, and only that row.
LEMMA NewRow ==
  ASSUME TypeOK, NEW r \in Requests, EnqueueWithResult(r)
  PROVE  /\ Typed
         /\ \E k \in Jobs :
              /\ RowAdmitted(k) /\ job'[k].request = r
              /\ \A i \in Jobs : i # k => RowStays(i)
<1>a. /\ job \in [Jobs -> JobRow]
      /\ ledger \in [Jobs -> Seq(AttemptRow)]
      /\ deadLetters \subseteq Jobs \X Nat
  BY DEF TypeOK
<1>1. PICK k \in Jobs :
           /\ job[k].state = "ABSENT"
           /\ job' = [job EXCEPT ![k] = [NoJob EXCEPT !.request = r, !.state = "QUEUED"]]
  BY DEF EnqueueWithResult
<1>2. ledger' = ledger /\ deadLetters' = deadLetters BY DEF EnqueueWithResult
<1>3. [NoJob EXCEPT !.request = r, !.state = "QUEUED"] \in JobRow BY RowTypes
<1>4. Typed BY <1>1, <1>2, <1>3, <1>a DEF Typed
<1>5. RowAdmitted(k) BY <1>1, <1>2, <1>a DEF RowAdmitted, NoAttemptEnds
<1>6. job'[k].request = r BY <1>1, <1>a DEF NoJob
<1>7. \A i \in Jobs : i # k => RowStays(i)
  BY <1>1, <1>2, <1>a DEF RowStays, NoAttemptEnds
<1> QED BY <1>4, <1>5, <1>6, <1>7

\* The invariant of a row survives whatever a step does to it.
LEMMA RowStepKeepsRowInv ==
  ASSUME TypeOK, TypeOK', NEW j \in Jobs, RowInv(j), RowStep(j)
  PROVE  RowInv(j)'
<1>a. job[j] \in JobRow /\ job'[j] \in JobRow /\ ledger[j] \in Seq(AttemptRow)
  BY DEF TypeOK
<1>b. None \notin Int /\ None \notin Requests /\ (\A r \in Requests : MaxAttempts[r] \in Nat \ {0})
  BY JobsAssumption
<1>c. \A lag \in Lags : LeaseFor - lag \in Int BY JobsAssumption DEF Lags
<1> USE DEF RowInv, Running, Final, Limit, JobRow
<1>1. CASE RowStays(j) BY <1>1 DEF RowStays, NoAttemptEnds
<1>2. CASE RowAges(j)
  <2>1. \A t \in Int \cup {None} : Sooner(t) = None <=> t = None
    BY <1>b, JobsAssumption DEF Sooner
  <2>2. /\ job'[j].state = job[j].state /\ job'[j].request = job[j].request
        /\ job'[j].attempts = job[j].attempts /\ job'[j].generation = job[j].generation
        /\ job'[j].token = job[j].token /\ job'[j].completed = job[j].completed
        /\ job'[j].ttl = Sooner(job[j].ttl) /\ job'[j].wait = Sooner(job[j].wait)
    BY <1>2, <1>a DEF RowAges, Later
  <2>3. job[j] = NoJob => job'[j] = NoJob
    <3>1. Sooner(None) = None BY DEF Sooner
    <3>2. job[j] = NoJob => job[j].ttl = None /\ job[j].wait = None BY DEF NoJob
    <3>3. job'[j] = [job[j] EXCEPT !.ttl = Sooner(job[j].ttl), !.wait = Sooner(job[j].wait)]
      BY <1>2 DEF RowAges, Later
    <3> HAVE job[j] = NoJob
    <3>4. job'[j] = [NoJob EXCEPT !.ttl = None, !.wait = None] BY <3>1, <3>2, <3>3
    <3> QED BY <3>4 DEF NoJob
  <2> QED BY <1>2, <2>1, <2>2, <2>3, <1>a DEF RowAges, NoAttemptEnds
<1>3. CASE RowAdmitted(j)
  BY <1>3, <1>a, <1>b DEF RowAdmitted, NoAttemptEnds, NoJob, FinalStates
<1>4. CASE RowClaimed(j)
  BY <1>4, <1>a, <1>b, <1>c DEF RowClaimed, NoAttemptEnds, Claimed, FinalStates
<1>5. CASE RowRenewed(j)
  BY <1>5, <1>a, <1>b, <1>c DEF RowRenewed, NoAttemptEnds, Renewed, FinalStates
<1>6. CASE RowCancelled(j)
  BY <1>6, <1>a, <1>b DEF RowCancelled, NoAttemptEnds, Cancelled, FinalStates
<1>7. CASE RowRequeued(j)
  BY <1>7, <1>a, <1>b DEF RowRequeued, NoAttemptEnds, Requeued, FinalStates
<1>8. CASE RowEndsAttempt(j)
  <2>1. PICK outcome \in Outcomes, next \in Int \cup {None}, expired \in BOOLEAN :
          /\ Running(j)
          /\ IF outcome = "RETRY_SCHEDULED" THEN job[j].attempts < Limit(j) /\ next # None
                                            ELSE next = None
          /\ job'[j] = Released(job[j], outcome, next)
          /\ ledger'[j] = Append(ledger[j], Attempt(j, job[j].generation, outcome, expired))
          /\ \A n \in Nat : <<j, n>> \in deadLetters'
                              <=> \/ <<j, n>> \in deadLetters
                                  \/ outcome = "DEAD_LETTER" /\ n = job[j].attempts
    BY <1>8 DEF RowEndsAttempt
  <2>2. /\ job'[j].state = outcome /\ job'[j].request = job[j].request
        /\ job'[j].attempts = job[j].attempts /\ job'[j].generation = job[j].generation
        /\ job'[j].token = None /\ job'[j].ttl = None /\ job'[j].wait = next
        /\ job'[j].completed = (outcome \in FinalStates)
    BY <2>1, <1>a DEF Released
  <2>3. /\ job[j].request \in Requests /\ job[j].request # None
        /\ job[j].attempts > 0 /\ job[j].generation = job[j].attempts
        /\ Len(ledger[j]) = job[j].attempts - 1
    BY <2>1, <1>b
  <2>4. \A n \in 1..Len(ledger[j]) : ledger[j][n].outcome = "RETRY_SCHEDULED"
    BY <2>1 DEF FinalStates
  <2> DEFINE row == Attempt(j, job[j].generation, outcome, expired)
  <2>a. ledger[j] \in Seq(AttemptRow) /\ ledger'[j] = Append(ledger[j], row)
    BY <2>1, <1>a
  <2>5. row.number = job[j].attempts /\ row.generation = job[j].attempts /\ row.outcome = outcome
    BY <2>3 DEF Attempt
  <2> HIDE DEF row
  <2>6. /\ Len(ledger'[j]) = Len(ledger[j]) + 1 /\ Len(ledger[j]) \in Nat
        /\ \A n \in 1..Len(ledger[j]) : ledger'[j][n] = ledger[j][n]
        /\ ledger'[j][Len(ledger[j]) + 1] = row
    BY <2>a
  <2>7. /\ Len(ledger'[j]) = job[j].attempts
        /\ \A n \in 1..Len(ledger'[j]) :
             /\ ledger'[j][n].number = n /\ ledger'[j][n].generation = n
             /\ ledger'[j][n].outcome = IF n = job[j].attempts THEN outcome ELSE "RETRY_SCHEDULED"
    <3> SUFFICES ASSUME NEW n \in 1..Len(ledger'[j])
                 PROVE  /\ ledger'[j][n].number = n /\ ledger'[j][n].generation = n
                        /\ ledger'[j][n].outcome
                             = IF n = job[j].attempts THEN outcome ELSE "RETRY_SCHEDULED"
      BY <2>3, <2>6, <1>a
    <3>1. CASE n = Len(ledger[j]) + 1
      <4>1. n = job[j].attempts BY <3>1, <2>3, <1>a
      <4>2. ledger'[j][n] = row BY <3>1, <2>6
      <4> QED BY <4>1, <4>2, <2>5
    <3>2. CASE n \in 1..Len(ledger[j])
      <4>1. ledger'[j][n] = ledger[j][n] /\ n # job[j].attempts BY <3>2, <2>3, <2>6, <1>a
      <4>2. ledger[j][n].number = n /\ ledger[j][n].generation = n BY <3>2
      <4> QED BY <4>1, <4>2, <3>2, <2>4
    <3> QED BY <3>1, <3>2, <2>6
  <2>8. outcome \in FinalStates \/ outcome = "RETRY_SCHEDULED" BY DEF Outcomes, FinalStates
  <2>9. outcome # "CANCELLED" /\ outcome # "RUNNING" /\ outcome # "QUEUED" /\ outcome # "ABSENT"
    BY DEF Outcomes
  <2>10. \A n \in Nat : <<j, n>> \in deadLetters'
                          <=> outcome = "DEAD_LETTER" /\ n = job[j].attempts
    BY <2>1
  <2>11. \A n \in 1..Len(ledger'[j]) :
           \/ ledger'[j][n].outcome = "RETRY_SCHEDULED"
           \/ n = Len(ledger'[j]) /\ outcome \in FinalStates /\ ledger'[j][n].outcome = outcome
    BY <2>7, <2>8
  <2>12. Len(ledger'[j]) > 0 /\ ledger'[j][Len(ledger'[j])].outcome = outcome
    <3>1. Len(ledger'[j]) \in 1..Len(ledger'[j]) BY <2>7, <2>3, <1>a
    <3> QED BY <3>1, <2>7, <2>3
  <2>13. outcome = "RETRY_SCHEDULED" <=> next # None BY <2>1
  <2>14. "RETRY_SCHEDULED" \notin FinalStates BY DEF FinalStates
  <2> QED BY <2>1, <2>2, <2>3, <2>7, <2>8, <2>9, <2>10, <2>11, <2>12, <2>13, <2>14, <1>a
<1> QED BY <1>1, <1>2, <1>3, <1>4, <1>5, <1>6, <1>7, <1>8 DEF RowStep, OldRowStep

\* No row step but an admission makes a row active, or changes its request.
LEMMA OldRowStepActive ==
  ASSUME TypeOK, NEW j \in Jobs, OldRowStep(j), Active(j)'
  PROVE  Active(j) /\ job'[j].request = job[j].request
<1>a. job[j] \in JobRow BY DEF TypeOK
<1> USE <1>a DEF Active, ActiveStates, JobRow
<1>1. CASE RowStays(j) BY <1>1 DEF RowStays
<1>2. CASE RowAges(j) BY <1>2 DEF RowAges, Later
<1>3. CASE RowClaimed(j) BY <1>3 DEF RowClaimed, Claimed
<1>4. CASE RowRenewed(j) BY <1>4 DEF RowRenewed, Renewed, Running
<1>5. CASE RowCancelled(j) BY <1>5 DEF RowCancelled, Cancelled
<1>6. CASE RowRequeued(j) BY <1>6 DEF RowRequeued, Requeued
<1>7. CASE RowEndsAttempt(j) BY <1>7 DEF RowEndsAttempt, Released, Running
<1> QED BY <1>1, <1>2, <1>3, <1>4, <1>5, <1>6, <1>7 DEF OldRowStep

-----------------------------------------------------------------------------
\* The invariant holds of the empty queue.
LEMMA InitIInv == Init => IInv
<1> SUFFICES ASSUME Init PROVE IInv
  OBVIOUS
<1>1. TypeOK
  <2>1. NoJob \in JobRow BY RowTypes
  <2>2. <<>> \in Seq(AttemptRow) OBVIOUS
  <2> QED BY <2>1, <2>2 DEF Init, TypeOK
<1>2. OneActivePerRequest
  BY DEF Init, OneActivePerRequest, Active, ActiveStates, NoJob
<1>3. ASSUME NEW j \in Jobs PROVE RowInv(j)
  <2>1. job[j] = NoJob /\ ledger[j] = <<>> /\ deadLetters = {} BY DEF Init
  <2>2. /\ job[j].state = "ABSENT" /\ job[j].request = None /\ job[j].attempts = 0
        /\ job[j].generation = 0 /\ job[j].token = None /\ job[j].ttl = None
        /\ job[j].wait = None /\ job[j].completed = FALSE
    BY <2>1 DEF NoJob
  <2>3. Len(ledger[j]) = 0 BY <2>1
  <2> QED BY <2>1, <2>2, <2>3 DEF RowInv, Running, Final, FinalStates
<1> QED BY <1>1, <1>2, <1>3 DEF IInv

\* Every step of the queue changes each row by a RowStep and keeps the invariant.
LEMMA NextIInv == IInv /\ [Next]_vars => IInv'
<1> SUFFICES ASSUME IInv, [Next]_vars PROVE IInv'
  OBVIOUS
<1>1. TypeOK /\ OneActivePerRequest /\ \A j \in Jobs : RowInv(j) BY DEF IInv
<1>2. CASE UNCHANGED vars
  <2>1. UNCHANGED <<job, ledger, deadLetters>> BY <1>2 DEF vars
  <2>2. TypeOK' BY <1>1, <2>1 DEF TypeOK
  <2>3. OneActivePerRequest' BY <1>1, <2>1 DEF OneActivePerRequest, Active
  <2>4. \A j \in Jobs : RowInv(j)'
    BY <1>1, <2>1 DEF RowInv, Running, Final, Limit
  <2> QED BY <2>2, <2>3, <2>4 DEF IInv
<1>3. ASSUME NEW r \in Requests, EnqueueWithResult(r) PROVE IInv'
  <2>1. Typed BY <1>3, <1>1, NewRow
  <2>2. PICK k \in Jobs : /\ RowAdmitted(k) /\ job'[k].request = r
                          /\ \A i \in Jobs : i # k => RowStays(i)
    BY <1>3, <1>1, NewRow
  <2>3. TypeOK' BY <2>1 DEF Typed, TypeOK
  <2>4. \A j \in Jobs : RowInv(j)'
    BY <1>1, <2>2, <2>3, RowStepKeepsRowInv DEF RowStep, OldRowStep
  <2>5. OneActivePerRequest'
    <3>1. \A i \in Jobs : i # k => job'[i] = job[i] BY <2>2 DEF RowStays
    <3>2. \A i \in Jobs : i # k /\ Active(i)' => job'[i].request # r
      BY <3>1, <1>3 DEF EnqueueWithResult, Existing, Active
    <3> QED BY <1>1, <2>2, <3>1, <3>2 DEF OneActivePerRequest, Active
  <2> QED BY <2>3, <2>4, <2>5 DEF IInv
<1>4. ASSUME Next, ~ \E r \in Requests : EnqueueWithResult(r) PROVE IInv'
  <2>1. Typed /\ \A j \in Jobs : OldRowStep(j) BY <1>1, <1>4, OldRows
  <2>2. TypeOK' BY <2>1 DEF Typed, TypeOK
  <2>3. \A j \in Jobs : RowInv(j)' BY <1>1, <2>1, <2>2, RowStepKeepsRowInv DEF RowStep
  <2>4. OneActivePerRequest'
    <3>1. \A j \in Jobs : Active(j)' => Active(j) /\ job'[j].request = job[j].request
      BY <1>1, <2>1, OldRowStepActive
    <3> QED BY <1>1, <3>1 DEF OneActivePerRequest, Active
  <2> QED BY <2>2, <2>3, <2>4 DEF IInv
<1> QED BY <1>2, <1>3, <1>4

\* The inductive invariant implies each of the properties TLC checks.
LEMMA IInvImplies ==
  IInv => /\ TypeOK
          /\ RowConstraints
          /\ OneActivePerRequest
          /\ NoStrandedJob
          /\ AttemptsAccounted
          /\ DeadLettersAccounted
          /\ HistoryMatchesState
<1> SUFFICES ASSUME IInv
             PROVE  /\ RowConstraints
                    /\ NoStrandedJob
                    /\ AttemptsAccounted
                    /\ DeadLettersAccounted
                    /\ HistoryMatchesState
  BY DEF IInv
<1>a. TypeOK /\ \A j \in Jobs : RowInv(j) BY DEF IInv
<1>b. \A j \in Jobs : job[j] \in JobRow /\ ledger[j] \in Seq(AttemptRow) BY <1>a DEF TypeOK
<1>c. None \notin Int BY JobsAssumption
<1>1. RowConstraints
  <2> SUFFICES ASSUME NEW j \in Jobs
               PROVE  /\ job[j].request # None => job[j].attempts <= Limit(j)
                      /\ Running(j) <=> job[j].token # None
                      /\ Running(j) <=> job[j].ttl # None
                      /\ job[j].state = "RETRY_SCHEDULED" <=> job[j].wait # None
                      /\ Final(j) <=> job[j].completed
    BY DEF RowConstraints
  <2>1. job[j].generation # None BY <1>b, <1>c DEF JobRow
  <2>2. Running(j) <=> job[j].token # None BY <1>a, <2>1 DEF RowInv
  <2>3. Running(j) <=> job[j].ttl # None BY <1>a DEF RowInv
  <2> QED BY <1>a, <2>2, <2>3 DEF RowInv
<1>2. NoStrandedJob BY <1>a DEF NoStrandedJob, RowInv
<1>3. AttemptsAccounted BY <1>a DEF AttemptsAccounted, RowInv
<1>4. DeadLettersAccounted
  <2>1. deadLetters \subseteq Jobs \X Nat BY <1>a DEF TypeOK
  <2>2. \A j \in Jobs, n \in Nat : <<j, n>> \in deadLetters
                                    <=> job[j].state = "DEAD_LETTER" /\ n = job[j].attempts
    BY <1>a DEF RowInv
  <2>3. \A j \in Jobs : job[j].attempts \in Nat BY <1>b DEF JobRow
  <2> QED BY <2>1, <2>2, <2>3 DEF DeadLettersAccounted
<1>5. HistoryMatchesState
  <2> SUFFICES ASSUME NEW j \in Jobs
               PROVE  /\ \A n \in 1..Len(ledger[j]) - 1 :
                             ledger[j][n].outcome = "RETRY_SCHEDULED"
                      /\ Final(j) /\ job[j].state # "CANCELLED" =>
                           /\ Len(ledger[j]) > 0
                           /\ ledger[j][Len(ledger[j])].outcome = job[j].state
    BY DEF HistoryMatchesState
  <2>1. Len(ledger[j]) \in Nat BY <1>b
  <2> QED BY <2>1, <1>a DEF RowInv
<1> QED BY <1>1, <1>2, <1>3, <1>4, <1>5

-----------------------------------------------------------------------------
\* The job, attempt and dead-letter tables are consistent in every reachable state.
LEMMA StoreIInv == Spec => []IInv
BY InitIInv, NextIInv, PTL DEF Spec

\* Every column keeps its type, whatever leases and clocks the callers present.
THEOREM StoreTypeOK == Spec => []TypeOK
BY StoreIInv, IInvImplies, PTL

\* No method of the store writes a row that a CHECK constraint of ingestion_job
\* rejects, and a request never has two active jobs.
THEOREM StoreTableConstraints == Spec => []TableConstraints
<1>1. IInv => TableConstraints BY IInvImplies DEF TableConstraints
<1> QED BY <1>1, StoreIInv, PTL

\* A job that waits for a worker has an attempt left for it.
THEOREM StoreNoStrandedJob == Spec => []NoStrandedJob
BY StoreIInv, IInvImplies, PTL

\* The history tables tell what happened to a job: every ended attempt has one
\* row, only the last ends in anything but a retry, and the dead letters are the
\* last attempts of the dead-lettered jobs.
THEOREM StoreLedgerAccounts == Spec => []LedgerAccounts
<1>1. IInv => LedgerAccounts BY IInvImplies DEF LedgerAccounts
<1> QED BY <1>1, StoreIInv, PTL

\* Workers, recovery, cancellation and dispatch together keep the three tables
\* within their constraints, no job stranded and every ended attempt accounted for.
THEOREM StoreIsSound == Spec => []StoreSound
BY StoreTypeOK, StoreTableConstraints, StoreNoStrandedJob, StoreLedgerAccounts, PTL DEF StoreSound

-----------------------------------------------------------------------------
(* Steps: recovery and the lifecycle. *)

\* Every step that changes the tables changes each row by a RowStep.
LEMMA StepRows ==
  ASSUME IInv, [Next]_vars
  PROVE  \A j \in Jobs : RowStep(j)
<1>a. TypeOK /\ \A j \in Jobs : RowInv(j) BY DEF IInv
<1>1. CASE UNCHANGED vars
  BY <1>1 DEF vars, RowStep, OldRowStep, RowStays, NoAttemptEnds
<1>2. ASSUME NEW r \in Requests, EnqueueWithResult(r) PROVE \A j \in Jobs : RowStep(j)
  BY <1>a, <1>2, NewRow DEF RowStep, OldRowStep
<1>3. CASE Next /\ ~ \E r \in Requests : EnqueueWithResult(r)
  BY <1>a, <1>3, OldRows DEF RowStep
<1> QED BY <1>1, <1>2, <1>3

\* The steps that lengthen a job's history by an expired attempt find no lease time left.
LEMMA RowStepKeepsLiveLease ==
  ASSUME TypeOK, NEW j \in Jobs, RowStep(j),
         Len(ledger'[j]) > Len(ledger[j]), ledger'[j][Len(ledger'[j])].expired
  PROVE  job[j].ttl <= 0
<1>a. ledger[j] \in Seq(AttemptRow) BY DEF TypeOK
<1>1. CASE RowEndsAttempt(j)
  <2>1. PICK outcome \in Outcomes, next \in Int \cup {None}, expired \in BOOLEAN :
          /\ expired => job[j].ttl <= 0
          /\ ledger'[j] = Append(ledger[j], Attempt(j, job[j].generation, outcome, expired))
    BY <1>1 DEF RowEndsAttempt
  <2>2. ledger'[j][Len(ledger'[j])] = Attempt(j, job[j].generation, outcome, expired)
    BY <2>1, <1>a
  <2> QED BY <2>1, <2>2 DEF Attempt
<1>2. CASE ~RowEndsAttempt(j)
  <2>1. ledger'[j] = ledger[j]
    BY <1>2 DEF RowStep, OldRowStep, RowAdmitted, RowStays, RowAges, RowClaimed, RowRenewed,
                RowCancelled, RowRequeued, NoAttemptEnds
  <2> QED BY <2>1, <1>a
<1> QED BY <1>1, <1>2

\* Recovery ends an attempt only after its lease expired, whatever its clock lags.
THEOREM StoreLiveLeaseIsKept == Spec => LiveLeaseIsKept
<1> DEFINE Kept == \A j \in Jobs :
                     Len(ledger'[j]) > Len(ledger[j]) /\ ledger'[j][Len(ledger'[j])].expired
                       => job[j].ttl <= 0
<1>1. IInv /\ [Next]_vars => [Kept]_vars
  <2> SUFFICES ASSUME IInv, [Next]_vars PROVE Kept
    OBVIOUS
  <2>1. TypeOK BY DEF IInv
  <2> QED BY <2>1, StepRows, RowStepKeepsLiveLease
<1> QED BY <1>1, StoreIInv, PTL DEF Spec, LiveLeaseIsKept

\* A row step is a legal move of the lifecycle.
LEMMA RowStepIsLifecycleStep ==
  ASSUME TypeOK, TypeOK', NEW j \in Jobs, RowInv(j), RowInv(j)', RowStep(j),
         NEW state, NEW left, NEW state2, NEW left2,
         state = job[j].state, state2 = job'[j].state,
         left = IF job[j].request = None THEN 0 ELSE Limit(j) - job[j].attempts,
         left2 = IF job'[j].request = None THEN 0 ELSE Limit(j)' - job'[j].attempts
  PROVE  \/ state = "ABSENT" /\ state2 = "QUEUED" /\ left2 > 0
         \/ /\ state2 \in Lifecycle!LegalTransitions[state]
            /\ \/ state2 = "RUNNING" /\ left2 = left - 1
               \/ /\ state2 # "RUNNING"
                  /\ state2 \in ActiveStates => left > 0
                  /\ left2 = left
         \/ state2 = state /\ left2 = left
<1>a. job[j] \in JobRow /\ job'[j] \in JobRow BY DEF TypeOK
<1>b. /\ None \notin Requests
      /\ \A r \in Requests : MaxAttempts[r] \in Nat \ {0}
  BY JobsAssumption
<1>c. state \in Lifecycle!States
  BY <1>a DEF JobRow, States, ActiveStates, FinalStates, Lifecycle!States, Lifecycle!ActiveStates,
              Lifecycle!FinalStates
<1> USE <1>a, <1>b DEF JobRow, Limit
<1>1. CASE RowStays(j) BY <1>1 DEF RowStays
<1>2. CASE RowAges(j) BY <1>2 DEF RowAges, Later
<1>3. CASE RowAdmitted(j) BY <1>3 DEF RowAdmitted, NoJob
<1>4. CASE RowClaimed(j)
  <2>1. /\ job'[j].state = "RUNNING" /\ job'[j].request = job[j].request
        /\ job'[j].attempts = job[j].attempts + 1 /\ job[j].state = "QUEUED"
    BY <1>4 DEF RowClaimed, Claimed
  <2>2. state2 \in Lifecycle!LegalTransitions[state]
    BY <2>1, <1>c DEF Lifecycle!LegalTransitions
  <2>3. job[j].request # None BY <2>1, <1>b DEF RowInv
  <2> QED BY <2>1, <2>2, <2>3
<1>5. CASE RowRenewed(j) BY <1>5 DEF RowRenewed, Renewed
<1>6. CASE RowCancelled(j)
  <2>1. /\ job'[j].state = "CANCELLED" /\ job'[j].request = job[j].request
        /\ job'[j].attempts = job[j].attempts
        /\ job[j].state \in {"QUEUED", "RETRY_SCHEDULED"}
    BY <1>6 DEF RowCancelled, Cancelled
  <2>2. state2 \in Lifecycle!LegalTransitions[state]
    BY <2>1, <1>c DEF Lifecycle!LegalTransitions
  <2> QED BY <2>1, <2>2 DEF ActiveStates
<1>7. CASE RowRequeued(j)
  <2>1. /\ job'[j].state = "QUEUED" /\ job'[j].request = job[j].request
        /\ job'[j].attempts = job[j].attempts /\ job[j].attempts < Limit(j)
        /\ job[j].state = "RETRY_SCHEDULED"
    BY <1>7 DEF RowRequeued, Requeued
  <2>2. state2 \in Lifecycle!LegalTransitions[state]
    BY <2>1, <1>c DEF Lifecycle!LegalTransitions
  <2>3. job[j].request # None /\ Limit(j) \in Nat BY <2>1, <1>b DEF RowInv
  <2> QED BY <2>1, <2>2, <2>3
<1>8. CASE RowEndsAttempt(j)
  <2>1. PICK outcome \in Outcomes, next \in Int \cup {None} :
          /\ Running(j)
          /\ outcome = "RETRY_SCHEDULED" => job[j].attempts < Limit(j)
          /\ job'[j] = Released(job[j], outcome, next)
    BY <1>8 DEF RowEndsAttempt
  <2>2. /\ job'[j].state = outcome /\ job'[j].request = job[j].request
        /\ job'[j].attempts = job[j].attempts /\ job[j].state = "RUNNING"
    BY <2>1 DEF Released, Running
  <2>3. state2 \in Lifecycle!LegalTransitions[state]
    BY <2>2, <1>c DEF Lifecycle!LegalTransitions, Lifecycle!FinalStates, Outcomes
  <2>4. job[j].request # None /\ Limit(j) \in Nat BY <2>2, <1>b DEF RowInv
  <2>5. outcome \in ActiveStates => outcome = "RETRY_SCHEDULED" BY DEF Outcomes, ActiveStates
  <2>6. outcome # "RUNNING" BY DEF Outcomes
  <2> QED BY <2>1, <2>2, <2>3, <2>4, <2>5, <2>6
<1> QED BY <1>1, <1>2, <1>3, <1>4, <1>5, <1>6, <1>7, <1>8 DEF RowStep, OldRowStep

\* The job store implements the lifecycle of an ingestion job.
THEOREM StoreImplementsLifecycle == Spec => LifecycleSpec
<1> DEFINE left(j) == IF job[j].request = None THEN 0 ELSE Limit(j) - job[j].attempts
<1>1. Init => Lifecycle!Init BY DEF Init, Lifecycle!Init, NoJob
<1>2. IInv /\ IInv' /\ [Next]_vars => [Lifecycle!Next]_(Lifecycle!vars)
  <2> SUFFICES ASSUME IInv, IInv', [Next]_vars PROVE Lifecycle!Next
    OBVIOUS
  <2>a. TypeOK /\ \A j \in Jobs : RowInv(j) BY DEF IInv
  <2>b. TypeOK' /\ \A j \in Jobs : RowInv(j)' BY DEF IInv
  <2>c. \A j \in Jobs : RowStep(j) BY StepRows
  <2>1. \A j \in Jobs : job'[j].state \in Lifecycle!States
    BY <2>b DEF TypeOK, JobRow, States, ActiveStates, FinalStates, Lifecycle!States,
                Lifecycle!ActiveStates, Lifecycle!FinalStates
  <2>2. ASSUME NEW j \in Jobs PROVE left(j)' \in Nat
    <3>1. job'[j] \in JobRow BY <2>b DEF TypeOK
    <3>2. CASE job'[j].request # None
      <4>1. MaxAttempts[job'[j].request] \in Nat BY <3>1, <3>2, JobsAssumption DEF JobRow
      <4>2. job'[j].attempts <= MaxAttempts[job'[j].request] BY <2>b, <3>2 DEF RowInv, Limit
      <4> QED BY <4>1, <4>2, <3>1, <3>2 DEF Limit, JobRow
    <3> QED BY <3>2
  <2>3. ASSUME NEW j \in Jobs
        PROVE  Lifecycle!Admit(j) \/ Lifecycle!Transition(j) \/ Lifecycle!Stay(j)
    <3>1. \/ job[j].state = "ABSENT" /\ job'[j].state = "QUEUED" /\ left(j)' > 0
          \/ /\ job'[j].state \in Lifecycle!LegalTransitions[job[j].state]
             /\ \/ job'[j].state = "RUNNING" /\ left(j)' = left(j) - 1
                \/ /\ job'[j].state # "RUNNING"
                   /\ job'[j].state \in ActiveStates => left(j) > 0
                   /\ left(j)' = left(j)
          \/ job'[j].state = job[j].state /\ left(j)' = left(j)
      BY <2>a, <2>b, <2>c, RowStepIsLifecycleStep
    <3> QED BY <3>1 DEF Lifecycle!Admit, Lifecycle!Transition, Lifecycle!Start, Lifecycle!Leave,
                        Lifecycle!Stay, Lifecycle!ActiveStates, ActiveStates
  <2> QED BY <2>1, <2>2, <2>3 DEF Lifecycle!Next
<1> QED BY <1>1, <1>2, StoreIInv, PTL DEF Spec, LifecycleSpec, Lifecycle!Spec
=============================================================================
