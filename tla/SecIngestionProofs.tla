------------------------- MODULE SecIngestionProofs -------------------------
(***************************************************************************)
(* Proofs about SecIngestion: its workers use the job store as the store's *)
(* specification allows, the lineage of filings and facts stays sound, a   *)
(* job that has ended is not written for again, and one that succeeded has *)
(* stored all it was listed.                                               *)
(***************************************************************************)
EXTENDS SecIngestion, IngestionJobsProofs, SequenceTheorems, FiniteSetTheorems

\* The variables are functions and the executions are records, whatever the
\* sequences of filings and facts in them hold.
Shape ==
  /\ worker = [w \in Workers |-> worker[w]]
  /\ \A w \in Workers :
       worker[w] = [at |-> worker[w].at, job |-> worker[w].job, lease |-> worker[w].lease,
                    page |-> worker[w].page, seen |-> worker[w].seen,
                    observed |-> worker[w].observed, todo |-> worker[w].todo]
  /\ listed = [j \in Jobs |-> listed[j]]
  /\ assessed = [j \in Jobs |-> assessed[j]]

\* An execution works on a job that exists, the calendar's on a calendar job, and
\* the document of the filing it is about to store is stored.
ExecutionInv(w) ==
  /\ worker[w].at # "idle" =>
       worker[w].job \in Jobs /\ job[worker[w].job].state # "ABSENT"
  /\ worker[w].at = "calendar" => job[worker[w].job].request = CalendarRequest
  /\ worker[w].at = "archived" => Current(w) \in documents

SecIInv == /\ IInv
           /\ Shape
           /\ \A w \in Workers : ExecutionInv(w)
           /\ FilingLineage
           /\ FactLineage

-----------------------------------------------------------------------------
\* What earlier days left has no lineage yet.
LEMMA SecInitIInv == SecInit => SecIInv
<1> SUFFICES ASSUME SecInit PROVE SecIInv
  OBVIOUS
<1> USE DEF SecInit
<1>1. IInv BY InitIInv
<1>2. Shape BY DEF Shape, Idle
<1>3. \A w \in Workers : ExecutionInv(w) BY DEF ExecutionInv, Idle
<1>4. PICK fs \in SUBSET (published \ Amendment) : Ingested(fs)
  OBVIOUS
<1>5. FilingLineage BY <1>4 DEF FilingLineage, Ingested
<1>6. FactLineage
  <2>1. \A k \in Sources(fs) \cup Derived(fs) : k[1] \in fs
    BY DEF Sources, Derived
  <2> QED BY <1>4, <2>1 DEF FactLineage, Ingested
<1> QED BY <1>1, <1>2, <1>3, <1>5, <1>6 DEF SecIInv

\* A valid lease was issued, so that it is one the store may be presented with.
LEMMA LeaseIsIssued ==
  ASSUME IInv, NEW j \in Jobs, NEW g, NEW lag \in Lags, LeaseValid(j, g, lag)
  PROVE  g \in 1..job[j].generation
<1>1. job[j] \in JobRow BY DEF IInv, TypeOK
<1>2. RowInv(j) BY DEF IInv
<1>3. Running(j) /\ job[j].generation = g BY DEF LeaseValid, Running
<1>4. job[j].generation = job[j].attempts /\ job[j].attempts > 0
  BY <1>2, <1>3 DEF RowInv
<1>5. job[j].generation \in Nat /\ job[j].attempts \in Nat BY <1>1 DEF JobRow
<1> QED BY <1>3, <1>4, <1>5

\* A completion of these jobs is one of the two the store knows.
LEMMA LeaseStepIsStoreStep ==
  ASSUME IInv, NEW j \in Jobs, NEW g, NEW lag \in Lags,
         \/ Heartbeat(j, g, lag) \/ Succeeds(j, g, lag)
         \/ ScheduleRetry(j, g, lag) \/ DeadLetter(j, g, lag)
  PROVE  Next
<1>1. LeaseValid(j, g, lag)
  BY DEF Heartbeat, Succeeds, ScheduleRetry, DeadLetter, Finish
<1>2. g \in 1..job[j].generation BY <1>1, LeaseIsIssued
<1>3. Succeeds(j, g, lag) => Complete(j, g, lag) BY DEF Succeeds, Complete
<1>4. UseLease(j, g, lag) BY <1>3 DEF UseLease
<1> QED BY <1>2, <1>4 DEF Next

\* Every step of the SEC and Alpha Vantage workers, of their schedules and their
\* dispatchers is a step of the job store or leaves its tables alone.
LEMMA JobsUseStore ==
  ASSUME SecIInv, [SecNext]_allVars
  PROVE  [Next]_vars
<1> USE DEF SecIInv
<1>1. ASSUME NEW w \in Workers, WorkerStep(w) PROVE [Next]_vars
  <2>1. worker[w].at # "idle" => worker[w].job \in Jobs
    BY DEF ExecutionInv
  <2>2. CASE Claims(w)
    BY <2>2 DEF Claims, Next
  <2>3. CASE GuardedTransaction(w) /\ worker[w].at # "idle"
    <3>1. PICK lag \in Lags : Heartbeat(worker[w].job, worker[w].lease, lag)
      BY <2>3 DEF GuardedTransaction
    <3> QED BY <2>1, <2>3, <3>1, LeaseStepIsStoreStep
  <2>4. ASSUME worker[w].at # "idle",
               \E lag \in Lags : \/ Succeeds(worker[w].job, worker[w].lease, lag)
                                 \/ ScheduleRetry(worker[w].job, worker[w].lease, lag)
                                 \/ DeadLetter(worker[w].job, worker[w].lease, lag)
        PROVE  Next
    BY <2>1, <2>4, LeaseStepIsStoreStep
  <2>5. CASE Retries(w) \/ IsRefused(w) \/ DocumentConflict(w) \/ AwaitsLineage(w) \/ Completes(w)
    <3>1. worker[w].at # "idle"
      BY <2>5 DEF Retries, IsRefused, DocumentConflict, AwaitsLineage, Completes
    <3>2. \/ \E lag \in Lags : \/ Succeeds(worker[w].job, worker[w].lease, lag)
                               \/ ScheduleRetry(worker[w].job, worker[w].lease, lag)
                               \/ DeadLetter(worker[w].job, worker[w].lease, lag)
          \/ UNCHANGED jobVars
      BY <2>5 DEF Retries, IsRefused, DocumentConflict, AwaitsLineage, Completes, Reports
    <3> QED BY <3>1, <3>2, <2>4 DEF jobVars, vars
  <2>6. CASE AdmitsFacts(w)
    <3>1. EnqueueWithResult(FactsRequest) \/ UNCHANGED jobVars
      BY <2>6 DEF AdmitsFacts
    <3> QED BY <3>1, SecAssumption DEF Next, jobVars, vars
  <2>7. CASE LosesLease(w) \/ ChecksLineage(w) \/ FetchesCalendar(w) \/ StoresCalendar(w) \/ Vanishes(w)
    BY <2>7 DEF LosesLease, ChecksLineage, FetchesCalendar, StoresCalendar, Vanishes, jobVars, vars
  <2>8. CASE \/ ArchivesSubmissions(w) \/ OpensFiling(w) \/ ArchivesDocument(w)
             \/ PersistsFiling(w) \/ AssessesFilings(w) \/ RenewsLease(w)
             \/ FetchesFacts(w) \/ PersistsFact(w) \/ AssessesFacts(w)
    BY <2>8, <2>3 DEF ArchivesSubmissions, OpensFiling, ArchivesDocument, PersistsFiling,
       AssessesFilings, RenewsLease, FetchesFacts, PersistsFact, AssessesFacts, ArchivesBatch, Works
  <2> QED BY <1>1, <2>2, <2>5, <2>6, <2>7, <2>8 DEF WorkerStep
<1>2. CASE StoreStep
  BY <1>2, SecAssumption DEF StoreStep, AdmitsDaily, Dispatches, Next
<1>3. CASE Publishes
  BY <1>3 DEF Publishes, jobVars, vars
<1>4. CASE UNCHANGED allVars
  BY <1>4 DEF allVars, jobVars, vars
<1> QED BY <1>1, <1>2, <1>3, <1>4 DEF SecNext

\* A job that exists stays, with its request.
LEMMA RequestStays ==
  ASSUME IInv, [Next]_vars, NEW j \in Jobs, job[j].state # "ABSENT"
  PROVE  job'[j].state # "ABSENT" /\ job'[j].request = job[j].request
<1>1. job[j] \in JobRow BY DEF IInv, TypeOK
<1>2. RowStep(j) BY StepRows
<1> USE <1>1 DEF JobRow
<1>3. CASE RowAdmitted(j) BY <1>3 DEF RowAdmitted
<1>4. CASE RowStays(j) BY <1>4 DEF RowStays
<1>5. CASE RowAges(j) BY <1>5 DEF RowAges, Later
<1>6. CASE RowClaimed(j) BY <1>6 DEF RowClaimed, Claimed
<1>7. CASE RowRenewed(j) BY <1>7 DEF RowRenewed, Renewed
<1>8. CASE RowCancelled(j) BY <1>8 DEF RowCancelled, Cancelled
<1>9. CASE RowRequeued(j) BY <1>9 DEF RowRequeued, Requeued
<1>10. CASE RowEndsAttempt(j)
  BY <1>10 DEF RowEndsAttempt, Released, Outcomes
<1> QED BY <1>2, <1>3, <1>4, <1>5, <1>6, <1>7, <1>8, <1>9, <1>10 DEF RowStep, OldRowStep

-----------------------------------------------------------------------------
(* What a step does to the tables. *)

\* The tables only ever change by the statements named here.
LEMMA ShapeStays == SecIInv /\ [SecNext]_allVars => Shape'
<1> SUFFICES ASSUME SecIInv, [SecNext]_allVars PROVE Shape'
  OBVIOUS
<1>a. Shape BY DEF SecIInv
<1>1. CASE UNCHANGED allVars
  BY <1>a, <1>1 DEF Shape, allVars, tables
<1>2. CASE StoreStep \/ Publishes
  BY <1>a, <1>2 DEF Shape, StoreStep, Publishes, tables
<1>3. ASSUME NEW w \in Workers, WorkerStep(w) PROVE Shape'
  <2>1. CASE \/ LosesLease(w) \/ Retries(w) \/ IsRefused(w) \/ DocumentConflict(w)
             \/ AwaitsLineage(w) \/ Completes(w) \/ Vanishes(w)
    <3>1. worker' = [worker EXCEPT ![w] = Idle] /\ UNCHANGED <<listed, assessed>>
      BY <2>1 DEF LosesLease, Retries, IsRefused, DocumentConflict, AwaitsLineage, Completes,
                  Vanishes, Reports, Leaves, tables
    <3> QED BY <1>a, <3>1 DEF Shape, Idle
  <2>2. CASE Claims(w)
    BY <1>a, <2>2 DEF Shape, Claims, Idle, tables
  <2>3. CASE ArchivesSubmissions(w) \/ FetchesFacts(w)
    <3>1. PICK fs : listed' = [listed EXCEPT ![worker[w].job] = @ \cup fs]
      BY <2>3 DEF ArchivesSubmissions, FetchesFacts, ArchivesBatch
    <3>2. listed' = [j \in Jobs |-> listed'[j]] BY <1>a, <3>1 DEF Shape
    <3>3. assessed' = assessed BY <2>3 DEF ArchivesSubmissions, FetchesFacts
    <3>4. CASE ArchivesSubmissions(w)
      <4>1. PICK todo, at : worker' = [worker EXCEPT ![w].todo = todo, ![w].page = 2, ![w].at = at]
        BY <3>4 DEF ArchivesSubmissions
      <4> QED BY <1>a, <3>2, <3>3, <4>1 DEF Shape
    <3>5. CASE FetchesFacts(w)
      <4>1. PICK seen, observed :
              worker' = [worker EXCEPT ![w].at = "lineage", ![w].seen = seen,
                                       ![w].observed = observed]
        BY <3>5 DEF FetchesFacts
      <4> QED BY <1>a, <3>2, <3>3, <4>1 DEF Shape
    <3> QED BY <2>3, <3>4, <3>5
  <2>4. CASE OpensFiling(w) \/ ArchivesDocument(w) \/ PersistsFiling(w)
    BY <1>a, <2>4 DEF Shape, OpensFiling, ArchivesDocument, PersistsFiling, tables
  <2>5. CASE AssessesFilings(w) \/ AssessesFacts(w) \/ StoresCalendar(w)
    BY <1>a, <2>5 DEF Shape, AssessesFilings, AssessesFacts, StoresCalendar
  <2>6. CASE \/ RenewsLease(w) \/ AdmitsFacts(w) \/ ChecksLineage(w)
             \/ PersistsFact(w) \/ FetchesCalendar(w)
    BY <1>a, <2>6 DEF Shape, RenewsLease, AdmitsFacts, ChecksLineage, PersistsFact,
                      FetchesCalendar, tables
  <2> QED BY <1>3, <2>1, <2>2, <2>3, <2>4, <2>5, <2>6 DEF WorkerStep
<1> QED BY <1>1, <1>2, <1>3 DEF SecNext

\* An execution that does not move has the same job and the same filing before it.
LEMMA StandsStill ==
  ASSUME SecIInv, [Next]_vars, NEW w \in Workers, worker'[w] = worker[w],
         documents \subseteq documents'
  PROVE  ExecutionInv(w)'
<1>1. IInv /\ ExecutionInv(w) BY DEF SecIInv
<1>2. worker[w].at # "idle" => /\ worker[w].job \in Jobs
                               /\ job'[worker[w].job].state # "ABSENT"
                               /\ job'[worker[w].job].request = job[worker[w].job].request
  BY <1>1, RequestStays DEF ExecutionInv
<1> QED BY <1>1, <1>2 DEF ExecutionInv, Current

\* Documents are never deleted.
LEMMA DocumentsStay == [SecNext]_allVars => documents \subseteq documents'
<1> SUFFICES ASSUME [SecNext]_allVars PROVE documents \subseteq documents'
  OBVIOUS
<1>1. CASE UNCHANGED allVars \/ StoreStep \/ Publishes
  BY <1>1 DEF allVars, tables, StoreStep, Publishes
<1>2. ASSUME NEW w \in Workers, WorkerStep(w) PROVE documents \subseteq documents'
  <2>1. CASE ArchivesDocument(w) BY <2>1 DEF ArchivesDocument
  <2>2. CASE \/ LosesLease(w) \/ Retries(w) \/ IsRefused(w) \/ DocumentConflict(w)
             \/ AwaitsLineage(w) \/ Completes(w) \/ Vanishes(w) \/ Claims(w) \/ RenewsLease(w)
             \/ AdmitsFacts(w) \/ ChecksLineage(w) \/ FetchesCalendar(w) \/ OpensFiling(w)
    BY <2>2 DEF LosesLease, Retries, IsRefused, DocumentConflict, AwaitsLineage, Completes,
                Vanishes, Claims, RenewsLease, AdmitsFacts, ChecksLineage, FetchesCalendar,
                OpensFiling, Reports, tables
  <2>3. CASE \/ ArchivesSubmissions(w) \/ FetchesFacts(w) \/ PersistsFiling(w)
             \/ PersistsFact(w) \/ AssessesFilings(w) \/ AssessesFacts(w) \/ StoresCalendar(w)
    BY <2>3 DEF ArchivesSubmissions, FetchesFacts, PersistsFiling, PersistsFact,
                AssessesFilings, AssessesFacts, StoresCalendar
  <2> QED BY <1>2, <2>1, <2>2, <2>3 DEF WorkerStep
<1> QED BY <1>1, <1>2 DEF SecNext

\* A step of execution w takes it to a stage it may be in.
LEMMA ExecutionMoves ==
  ASSUME SecIInv, [Next]_vars, NEW w \in Workers, WorkerStep(w)
  PROVE  ExecutionInv(w)'
<1>a. IInv /\ Shape /\ ExecutionInv(w) BY DEF SecIInv
<1>b. worker[w].at # "idle" => /\ worker[w].job \in Jobs
                               /\ job'[worker[w].job].state # "ABSENT"
                               /\ job'[worker[w].job].request = job[worker[w].job].request
  BY <1>a, RequestStays DEF ExecutionInv
<1>1. CASE \/ LosesLease(w) \/ Retries(w) \/ IsRefused(w) \/ DocumentConflict(w)
           \/ AwaitsLineage(w) \/ Completes(w) \/ Vanishes(w)
  <2>1. worker' = [worker EXCEPT ![w] = Idle]
    BY <1>1 DEF LosesLease, Retries, IsRefused, DocumentConflict, AwaitsLineage, Completes,
                Vanishes, Reports, Leaves
  <2>2. worker'[w] = Idle BY <1>a, <2>1 DEF Shape
  <2> QED BY <2>2 DEF ExecutionInv, Idle
<1>2. CASE Claims(w)
  <2>1. PICK j \in Jobs, lag \in Lags :
          /\ Claim(j, lag)
          /\ worker' = [worker EXCEPT ![w] = [Idle EXCEPT !.at = "claimed", !.job = j,
                                                          !.lease = job[j].generation + 1]]
    BY <1>2 DEF Claims
  <2>2. worker'[w].at = "claimed" /\ worker'[w].job = j
    BY <1>a, <2>1 DEF Shape, Idle
  <2>3. job[j] \in JobRow /\ job \in [Jobs -> JobRow] BY <1>a DEF IInv, TypeOK
  <2>4. job'[j].state # "ABSENT" BY <2>1, <2>3, RequestStays, <1>a DEF Claim
  <2> QED BY <2>2, <2>4 DEF ExecutionInv
<1>3. CASE FetchesCalendar(w)
  <2>1. /\ worker[w].at = "claimed" /\ job[worker[w].job].request = CalendarRequest
        /\ worker'[w].at = "calendar" /\ worker'[w].job = worker[w].job
    BY <1>a, <1>3 DEF FetchesCalendar, Works, Shape
  <2> QED BY <1>b, <2>1 DEF ExecutionInv
<1>4. CASE ArchivesDocument(w)
  <2>1. /\ worker[w].at # "idle" /\ worker'[w].at = "archived"
        /\ worker'[w].job = worker[w].job /\ worker'[w].todo = worker[w].todo
        /\ Current(w) \in documents'
    BY <1>a, <1>4 DEF ArchivesDocument, Shape
  <2> QED BY <1>b, <2>1 DEF ExecutionInv, Current
<1>5. CASE \/ ArchivesSubmissions(w) \/ OpensFiling(w) \/ PersistsFiling(w) \/ AssessesFilings(w)
           \/ RenewsLease(w) \/ AdmitsFacts(w) \/ FetchesFacts(w) \/ ChecksLineage(w)
           \/ PersistsFact(w) \/ AssessesFacts(w) \/ StoresCalendar(w)
  <2>1. /\ worker[w].at # "idle" /\ worker'[w].at \notin {"calendar", "archived"}
        /\ worker'[w].job = worker[w].job
    <3>1. CASE ArchivesSubmissions(w)
      <4>1. PICK order \in InOrder(FilingsOnPage(worker[w].page)) :
              /\ worker[w].at = "claimed"
              /\ worker' = [worker EXCEPT ![w].todo = @ \o order, ![w].page = 2,
                                          ![w].at = IF worker[w].page = 1 THEN "claimed" ELSE "filing"]
        BY <3>1 DEF ArchivesSubmissions, Works
      <4>2. worker[w].at # "idle" BY <4>1
      <4>3. worker'[w].at \in {"claimed", "filing"} BY <1>a, <4>1 DEF Shape
      <4>4. worker'[w].job = worker[w].job BY <1>a, <4>1 DEF Shape
      <4> QED BY <4>2, <4>3, <4>4
    <3>4. CASE FetchesFacts(w)
      BY <1>a, <3>4 DEF FetchesFacts, Works, Shape
    <3>2. CASE OpensFiling(w) \/ PersistsFiling(w) \/ AssessesFilings(w) \/ RenewsLease(w)
      BY <1>a, <3>2 DEF OpensFiling, PersistsFiling, AssessesFilings, RenewsLease, Shape
    <3>3. CASE AdmitsFacts(w)
      BY <1>a, <3>3 DEF AdmitsFacts, Shape
    <3>5. CASE ChecksLineage(w)
      BY <1>a, <3>5 DEF ChecksLineage, Shape
    <3>6. CASE PersistsFact(w) \/ AssessesFacts(w) \/ StoresCalendar(w)
      BY <1>a, <3>6 DEF PersistsFact, AssessesFacts, StoresCalendar, Shape
    <3> QED BY <1>5, <3>1, <3>2, <3>3, <3>4, <3>5, <3>6
  <2> QED BY <1>b, <2>1 DEF ExecutionInv
<1> QED BY <1>1, <1>2, <1>3, <1>4, <1>5 DEF WorkerStep

\* A step of one execution leaves the others where they are.
LEMMA OthersStandStill ==
  ASSUME SecIInv, NEW w \in Workers, WorkerStep(w), NEW v \in Workers, v # w
  PROVE  worker'[v] = worker[v]
<1>1. Shape BY DEF SecIInv
<1> QED
  BY <1>1 DEF Shape, WorkerStep, Claims, LosesLease, Retries, IsRefused,
    ArchivesSubmissions, OpensFiling, ArchivesDocument, DocumentConflict,
    PersistsFiling, AssessesFilings, RenewsLease, AdmitsFacts, FetchesFacts, ChecksLineage,
    AwaitsLineage, PersistsFact, AssessesFacts, FetchesCalendar, StoresCalendar, Completes,
    Vanishes, Reports, Leaves

-----------------------------------------------------------------------------
(* Lineage. *)

\* Only persist_filing writes sec_filing, and a filing's supersession stays right
\* when more filings and documents come.
LEMMA FilingLineageStays ==
  ASSUME SecIInv, [SecNext]_allVars
  PROVE  FilingLineage'
<1>a. FilingLineage /\ documents \subseteq documents' BY DocumentsStay DEF SecIInv
<1>1. CASE UNCHANGED filing
  BY <1>a, <1>1 DEF FilingLineage
<1>2. ASSUME NEW w \in Workers, PersistsFiling(w) PROVE FilingLineage'
  <2> DEFINE f == Current(w)
  <2>1. f \in documents /\ UNCHANGED documents
    BY <1>2 DEF SecIInv, ExecutionInv, PersistsFiling
  <2>2. PICK g \in OneOrNone(IF f \in Amendment THEN Latest(Superseded(f)) ELSE {}) :
          filing' = WithRow(filing, f, g)
    BY <1>2 DEF PersistsFiling
  <2>3. /\ DOMAIN filing' = DOMAIN filing \cup {f}
        /\ \A h \in DOMAIN filing' : filing'[h] = IF h = f THEN g ELSE filing[h]
    BY <2>2 DEF WithRow
  <2>4. g # None => f \in Amendment /\ g \in DOMAIN filing /\ Accepted[g] < Accepted[f]
    BY <2>2 DEF OneOrNone, Latest, Superseded
  <2> HIDE DEF f
  <2> QED BY <1>a, <2>1, <2>3, <2>4 DEF FilingLineage
<1>3. (\E w \in Workers : PersistsFiling(w)) \/ UNCHANGED filing
  BY DEF SecNext, WorkerStep, StoreStep, Publishes, Claims, LosesLease, Retries, IsRefused,
    ArchivesSubmissions, ArchivesBatch, OpensFiling, ArchivesDocument, DocumentConflict,
    AssessesFilings, RenewsLease, AdmitsFacts, FetchesFacts, ChecksLineage,
    AwaitsLineage, PersistsFact, AssessesFacts, FetchesCalendar, StoresCalendar, Completes,
    Vanishes, Reports, allVars, tables
<1> QED BY <1>1, <1>2, <1>3

\* No filing is ever deleted.
LEMMA FilingsStay == [SecNext]_allVars => DOMAIN filing \subseteq DOMAIN filing'
<1> SUFFICES ASSUME [SecNext]_allVars PROVE DOMAIN filing \subseteq DOMAIN filing'
  OBVIOUS
<1>1. ASSUME NEW w \in Workers, PersistsFiling(w) PROVE DOMAIN filing \subseteq DOMAIN filing'
  BY <1>1 DEF PersistsFiling, WithRow
<1>2. (\E w \in Workers : PersistsFiling(w)) \/ UNCHANGED filing
  BY DEF SecNext, WorkerStep, StoreStep, Publishes, Claims, LosesLease, Retries, IsRefused,
    ArchivesSubmissions, ArchivesBatch, OpensFiling, ArchivesDocument, DocumentConflict,
    AssessesFilings, RenewsLease, AdmitsFacts, FetchesFacts, ChecksLineage,
    AwaitsLineage, PersistsFact, AssessesFacts, FetchesCalendar, StoresCalendar, Completes,
    Vanishes, Reports, allVars, tables
<1> QED BY <1>1, <1>2

FactsHaveLineage ==
  \A k \in DOMAIN fact :
    /\ k[1] \in DOMAIN filing
    /\ LET s == fact[k].supersedes
       IN s # None => s \in DOMAIN fact /\ s[2] = k[2] /\ fact[s].available < fact[k].available

EventsHaveLineage == \A e \in calendar : e.supersedes # None => e.supersedes < e.available

\* persist_fact looks for what became available before its own row.
LEMMA FactLineageStays ==
  ASSUME SecIInv, [SecNext]_allVars
  PROVE  FactsHaveLineage'
<1>a. FactsHaveLineage /\ DOMAIN filing \subseteq DOMAIN filing'
  BY FilingsStay DEF SecIInv, FactLineage, FactsHaveLineage
<1>1. CASE UNCHANGED fact
  BY <1>a, <1>1 DEF FactsHaveLineage
<1>2. ASSUME NEW w \in Workers, PersistsFact(w), ~ UNCHANGED fact PROVE FactsHaveLineage'
  <2> DEFINE k == Current(w)
             time == worker[w].observed
  <2>1. k[1] \in DOMAIN filing /\ k \notin DOMAIN fact
    BY <1>2 DEF PersistsFact
  <2>2. PICK s \in OneOrNone(LatestFacts(EarlierFacts(k, time))) :
          fact' = WithRow(fact, k, [available |-> time, supersedes |-> s])
    BY <1>2 DEF PersistsFact
  <2>3. /\ DOMAIN fact' = DOMAIN fact \cup {k}
        /\ fact'[k] = [available |-> time, supersedes |-> s]
        /\ \A i \in DOMAIN fact : i # k => fact'[i] = fact[i]
    BY <2>2 DEF WithRow
  <2>4. s # None => s \in DOMAIN fact /\ s[2] = k[2] /\ fact[s].available < time
    BY <2>2 DEF OneOrNone, LatestFacts, EarlierFacts
  <2> HIDE DEF k, time
  <2> QED BY <1>a, <2>1, <2>3, <2>4 DEF FactsHaveLineage
<1>3. (\E w \in Workers : PersistsFact(w)) \/ UNCHANGED fact
  BY DEF SecNext, WorkerStep, StoreStep, Publishes, Claims, LosesLease, Retries, IsRefused,
    ArchivesSubmissions, ArchivesBatch, OpensFiling, ArchivesDocument, DocumentConflict,
    PersistsFiling, AssessesFilings, RenewsLease, AdmitsFacts, FetchesFacts, ChecksLineage,
    AwaitsLineage, AssessesFacts, FetchesCalendar, StoresCalendar, Completes,
    Vanishes, Reports, allVars, tables
<1> QED BY <1>1, <1>2, <1>3

\* So does persist_event.
LEMMA EventLineageStays ==
  ASSUME SecIInv, [SecNext]_allVars
  PROVE  EventsHaveLineage'
<1>a. EventsHaveLineage BY DEF SecIInv, FactLineage, EventsHaveLineage
<1>1. CASE UNCHANGED calendar
  BY <1>a, <1>1 DEF EventsHaveLineage
<1>2. ASSUME NEW w \in Workers, StoresCalendar(w) PROVE EventsHaveLineage'
  <2> DEFINE time == worker[w].observed
  <2>1. PICK s \in OneOrNone({t \in EarlierEvents(time) : \A u \in EarlierEvents(time) : u <= t}) :
          calendar' = calendar \cup {[available |-> time, supersedes |-> s]}
    BY <1>2 DEF StoresCalendar, PersistsEvent
  <2>2. s # None => s < time
    BY <2>1 DEF OneOrNone, EarlierEvents
  <2> HIDE DEF time
  <2> QED BY <1>a, <2>1, <2>2 DEF EventsHaveLineage
<1>3. (\E w \in Workers : StoresCalendar(w)) \/ UNCHANGED calendar
  BY DEF SecNext, WorkerStep, StoreStep, Publishes, Claims, LosesLease, Retries, IsRefused,
    ArchivesSubmissions, ArchivesBatch, OpensFiling, ArchivesDocument, DocumentConflict,
    PersistsFiling, AssessesFilings, RenewsLease, AdmitsFacts, FetchesFacts, ChecksLineage,
    AwaitsLineage, PersistsFact, AssessesFacts, FetchesCalendar, Completes,
    Vanishes, Reports, allVars, tables
<1> QED BY <1>1, <1>2, <1>3

-----------------------------------------------------------------------------
\* Every step keeps the invariant.
LEMMA SecNextIInv == SecIInv /\ [SecNext]_allVars => SecIInv'
<1> SUFFICES ASSUME SecIInv, [SecNext]_allVars PROVE SecIInv'
  OBVIOUS
<1>1. [Next]_vars BY JobsUseStore
<1>2. IInv' BY <1>1, NextIInv DEF SecIInv
<1>3. documents \subseteq documents' BY DocumentsStay
<1>4. ASSUME NEW v \in Workers PROVE ExecutionInv(v)'
  <2>1. CASE worker'[v] = worker[v]
    BY <1>1, <1>3, <2>1, StandsStill
  <2>2. CASE WorkerStep(v)
    BY <1>1, <2>2, ExecutionMoves
  <2>3. ASSUME NEW w \in Workers, WorkerStep(w), w # v PROVE worker'[v] = worker[v]
    BY <2>3, OthersStandStill
  <2>4. CASE StoreStep \/ Publishes \/ UNCHANGED allVars
    BY <2>1, <2>4 DEF StoreStep, Publishes, allVars
  <2> QED BY <2>1, <2>2, <2>3, <2>4 DEF SecNext
<1>5. Shape' BY ShapeStays
<1>6. FilingLineage' BY FilingLineageStays
<1>7. FactLineage'
  BY FactLineageStays, EventLineageStays DEF FactLineage, FactsHaveLineage, EventsHaveLineage
<1> QED BY <1>2, <1>4, <1>5, <1>6, <1>7 DEF SecIInv

\* The invariant holds in every reachable state.
LEMMA SecJobsIInv == SecSpec => []SecIInv
BY SecInitIInv, SecNextIInv, PTL DEF SecSpec

\* A filing has its document, an amendment supersedes an older filing that is on
\* record, a fact has its filing and supersedes an older one of its concept,
\* whatever jobs, attempts and losses wrote them.
THEOREM SecLineageIsSound == SecSpec => [](FilingLineage /\ FactLineage)
<1>1. SecIInv => FilingLineage /\ FactLineage BY DEF SecIInv
<1> QED BY <1>1, SecJobsIInv, PTL

\* A SEC job writes nothing once it has ended, whatever its late attempts hold.
THEOREM SecFinalArchiveIsClosed == SecSpec => FinalArchiveIsClosed
<1> DEFINE Closed == \A j \in Jobs : Final(j) /\ job[j].request # CalendarRequest =>
                       listed'[j] = listed[j] /\ assessed'[j] = assessed[j]
<1>1. SecIInv /\ [SecNext]_allVars => [Closed]_allVars
  <2> SUFFICES ASSUME SecIInv, [SecNext]_allVars, NEW j \in Jobs, Final(j),
                      job[j].request # CalendarRequest
               PROVE  listed'[j] = listed[j] /\ assessed'[j] = assessed[j]
    OBVIOUS
  <2>1. CASE UNCHANGED <<listed, assessed>>
    BY <2>1
  <2>2. ASSUME NEW w \in Workers, GuardedTransaction(w) PROVE worker[w].job # j
    BY <2>2 DEF GuardedTransaction, Heartbeat, LeaseValid, Final, FinalStates
  <2>3. ASSUME NEW w \in Workers, StoresCalendar(w) PROVE worker[w].job # j
    BY <2>3 DEF StoresCalendar, SecIInv, ExecutionInv
  <2>4. ASSUME NEW w \in Workers, \/ ArchivesSubmissions(w) \/ FetchesFacts(w)
                                  \/ AssessesFilings(w) \/ AssessesFacts(w)
        PROVE  listed'[j] = listed[j] /\ assessed'[j] = assessed[j]
    <3>1. worker[w].job # j
      BY <2>2, <2>4 DEF ArchivesSubmissions, FetchesFacts, AssessesFilings, AssessesFacts,
                        ArchivesBatch
    <3> QED BY <2>4, <3>1 DEF ArchivesSubmissions, FetchesFacts, AssessesFilings,
               AssessesFacts, ArchivesBatch, SecIInv, Shape
  <2>5. ASSUME NEW w \in Workers, StoresCalendar(w)
        PROVE  listed'[j] = listed[j] /\ assessed'[j] = assessed[j]
    BY <2>3, <2>5 DEF StoresCalendar, SecIInv, Shape
  <2>6. \/ \E w \in Workers : \/ ArchivesSubmissions(w) \/ FetchesFacts(w)
                              \/ AssessesFilings(w) \/ AssessesFacts(w) \/ StoresCalendar(w)
        \/ UNCHANGED <<listed, assessed>>
    <3>1. CASE UNCHANGED allVars \/ StoreStep \/ Publishes
      BY <3>1 DEF allVars, tables, StoreStep, Publishes
    <3>2. ASSUME NEW w \in Workers, WorkerStep(w)
          PROVE  \/ ArchivesSubmissions(w) \/ FetchesFacts(w) \/ AssessesFilings(w)
                 \/ AssessesFacts(w) \/ StoresCalendar(w) \/ UNCHANGED <<listed, assessed>>
      <4>1. CASE \/ LosesLease(w) \/ Retries(w) \/ IsRefused(w) \/ DocumentConflict(w)
                 \/ AwaitsLineage(w) \/ Completes(w) \/ Vanishes(w)
        BY <4>1 DEF LosesLease, Retries, IsRefused, DocumentConflict, AwaitsLineage, Completes,
                    Vanishes, Reports, tables
      <4>2. CASE \/ Claims(w) \/ RenewsLease(w) \/ AdmitsFacts(w) \/ ChecksLineage(w)
                 \/ FetchesCalendar(w) \/ OpensFiling(w) \/ ArchivesDocument(w)
                 \/ PersistsFiling(w) \/ PersistsFact(w)
        BY <4>2 DEF Claims, RenewsLease, AdmitsFacts, ChecksLineage, FetchesCalendar,
                    OpensFiling, ArchivesDocument, PersistsFiling, PersistsFact, tables
      <4> QED BY <3>2, <4>1, <4>2 DEF WorkerStep
    <3> QED BY <3>1, <3>2 DEF SecNext
  <2> QED BY <2>1, <2>4, <2>5, <2>6
<1> QED BY <1>1, SecJobsIInv, PTL DEF SecSpec, FinalArchiveIsClosed

\* With the SEC and Alpha Vantage workers around it the job store does what it
\* does alone: all that is proved of the store holds of the composition.
THEOREM SecJobsImplementStore == SecSpec => Spec
<1>1. SecInit => Init BY DEF SecInit
<1>2. SecIInv /\ [SecNext]_allVars => [Next]_vars BY JobsUseStore
<1> QED BY <1>1, <1>2, SecJobsIInv, PTL DEF SecSpec, Spec
-----------------------------------------------------------------------------
(* Completeness.  A worker that holds its job's lease has stored, or has yet  *)
(* to do, all that the job was listed.                                        *)

\* What an execution has yet to do: filings, or facts.
Queued(s) == {s[n] : n \in 1..Len(s)}

QueueInv(w) ==
  /\ worker[w].at \in {"claimed", "filing", "document", "archived"} => worker[w].todo \in Seq(Filings)
  /\ worker[w].at = "facts" => worker[w].todo \in Seq(FactKeys)
  /\ worker[w].at \in {"document", "archived"} => worker[w].todo # <<>>

TypesInv == SecTypeOK /\ fetches \in Nat /\ \A w \in Workers : QueueInv(w)

\* A listing is a sequence of exactly the elements listed.
LEMMA ListingsList ==
  ASSUME NEW xs, IsFiniteSet(xs), NEW s \in Listings(xs)
  PROVE  s \in Seq(xs) /\ Queued(s) = xs
<1>1. s \in [1..Cardinality(xs) -> xs] /\ \A x \in xs : \E n \in DOMAIN s : s[n] = x
  BY DEF Listings
<1>2. Cardinality(xs) \in Nat BY FS_CardinalityType
<1>3. s \in Seq(xs) /\ Len(s) = Cardinality(xs) BY <1>1, <1>2
<1> QED BY <1>1, <1>3 DEF Queued

\* The facts a response holds are finitely many.
LEMMA FactsAreFinite ==
  ASSUME NEW fs \in SUBSET Filings
  PROVE  /\ IsFiniteSet(Sources(fs)) /\ Sources(fs) \subseteq FactKeys
         /\ IsFiniteSet(Derived(fs)) /\ Derived(fs) \subseteq FactKeys
<1>1. IsFiniteSet(Filings \X Concepts) /\ IsFiniteSet(Filings \X {"derived"})
  BY SecAssumption, FS_Product, FS_Singleton
<1>2. Sources(fs) \subseteq Filings \X Concepts /\ Derived(fs) \subseteq Filings \X {"derived"}
  BY DEF Sources, Derived, Concepts
<1>3. Sources(fs) \subseteq FactKeys /\ Derived(fs) \subseteq FactKeys
  BY <1>2 DEF FactKeys
<1> QED BY <1>1, <1>2, <1>3, FS_Subset

\* What is before and what is after both stay to do when lists are joined.
LEMMA JoinedQueues ==
  ASSUME NEW T, NEW s \in Seq(T), NEW t \in Seq(T)
  PROVE  s \o t \in Seq(T) /\ Queued(s \o t) = Queued(s) \cup Queued(t)
<1>1. /\ s \o t \in Seq(T) /\ Len(s \o t) = Len(s) + Len(t)
      /\ \A i \in 1..Len(s) + Len(t) :
           (s \o t)[i] = IF i <= Len(s) THEN s[i] ELSE t[i - Len(s)]
  BY ConcatProperties
<1>2. Len(s) \in Nat /\ Len(t) \in Nat OBVIOUS
<1>3. Queued(s) \subseteq Queued(s \o t)
  BY <1>1, <1>2 DEF Queued
<1>4. ASSUME NEW n \in 1..Len(t) PROVE t[n] \in Queued(s \o t)
  <2>1. n + Len(s) \in 1..Len(s) + Len(t) /\ ~(n + Len(s) <= Len(s)) /\ n + Len(s) - Len(s) = n
    BY <1>2
  <2> QED BY <1>1, <2>1 DEF Queued
<1>5. ASSUME NEW n \in 1..Len(s) + Len(t) PROVE (s \o t)[n] \in Queued(s) \cup Queued(t)
  <2>1. CASE n <= Len(s) BY <1>1, <1>2, <2>1 DEF Queued
  <2>2. CASE ~(n <= Len(s))
    <3>1. n - Len(s) \in 1..Len(t) BY <1>2, <2>2
    <3> QED BY <1>1, <2>2, <3>1 DEF Queued
  <2> QED BY <2>1, <2>2
<1> QED BY <1>1, <1>3, <1>4, <1>5 DEF Queued

\* Only the head is done when the list moves on.
LEMMA ShorterQueue ==
  ASSUME NEW T, NEW s \in Seq(T), s # <<>>
  PROVE  /\ Head(s) \in T /\ Tail(s) \in Seq(T)
         /\ Queued(s) = {Head(s)} \cup Queued(Tail(s))
<1>1. /\ Head(s) \in T /\ Tail(s) \in Seq(T) /\ Len(Tail(s)) = Len(s) - 1
      /\ \A i \in 1..Len(Tail(s)) : Tail(s)[i] = s[i + 1]
  BY HeadTailProperties
<1>2. Len(s) \in Nat \ {0} /\ Head(s) = s[1] BY EmptySeq
<1>3. ASSUME NEW n \in 1..Len(s) PROVE s[n] \in {Head(s)} \cup Queued(Tail(s))
  <2>1. CASE n = 1 BY <1>2, <2>1
  <2>2. CASE n # 1
    <3>1. n - 1 \in 1..Len(Tail(s)) /\ n - 1 + 1 = n BY <1>1, <1>2, <2>2
    <3> QED BY <1>1, <3>1 DEF Queued
  <2> QED BY <2>1, <2>2
<1>4. ASSUME NEW n \in 1..Len(Tail(s)) PROVE Tail(s)[n] \in Queued(s)
  <2>1. n + 1 \in 1..Len(s) BY <1>1, <1>2
  <2> QED BY <1>1, <2>1 DEF Queued
<1>5. Head(s) \in Queued(s) BY <1>2 DEF Queued
<1> QED BY <1>1, <1>3, <1>4, <1>5 DEF Queued

\* A list of filings, and a list of facts, is a list of work.
LEMMA ListsAreWork ==
  /\ \A s \in Seq(Filings) : s \in Seq(Filings \cup FactKeys)
  /\ \A s \in Seq(FactKeys) : s \in Seq(Filings \cup FactKeys)
BY SeqMonotonic
\* Nothing of earlier days is left of another type.
LEMMA InitTypes == SecInit => TypesInv
<1> SUFFICES ASSUME SecInit PROVE TypesInv
  OBVIOUS
<1> USE DEF SecInit
<1>1. PICK fs \in SUBSET (published \ Amendment) : Ingested(fs)
  OBVIOUS
<1>2. DOMAIN fact \subseteq FactKeys /\ \A k \in DOMAIN fact : fact[k] \in FactRow
  BY <1>1, FactsAreFinite DEF Ingested, FactRow
<1>3. worker \in [Workers -> Worker]
  <2>1. <<>> \in Seq(Filings \cup FactKeys) OBVIOUS
  <2>2. Idle \in Worker BY <2>1 DEF Idle, Worker, Stages
  <2> QED BY <2>2
<1>4. \A w \in Workers : QueueInv(w) BY DEF QueueInv, Idle
<1> QED BY <1>1, <1>2, <1>3, <1>4 DEF TypesInv, SecTypeOK, Ingested

\* Every step of an execution leaves it a worker's record with the right queue.
LEMMA WorkersStayTyped ==
  ASSUME SecIInv, TypesInv, NEW w \in Workers, WorkerStep(w)
  PROVE  worker'[w] \in Worker /\ QueueInv(w)'
<1>a. Shape /\ ExecutionInv(w) /\ IInv BY DEF SecIInv
<1>b. worker[w] \in Worker /\ QueueInv(w) /\ fetches \in Nat /\ published \subseteq Filings
  BY DEF TypesInv, SecTypeOK
<1> DEFINE Work == Filings \cup FactKeys
<1>1. CASE \/ LosesLease(w) \/ Retries(w) \/ IsRefused(w) \/ DocumentConflict(w)
           \/ AwaitsLineage(w) \/ Completes(w) \/ Vanishes(w)
  <2>1. worker' = [worker EXCEPT ![w] = Idle]
    BY <1>1 DEF LosesLease, Retries, IsRefused, DocumentConflict, AwaitsLineage, Completes,
                Vanishes, Reports, Leaves
  <2>2. worker'[w] = Idle BY <1>a, <2>1 DEF Shape
  <2>3. <<>> \in Seq(Work) OBVIOUS
  <2> QED BY <2>2, <2>3 DEF Worker, QueueInv, Idle, Stages
<1>2. CASE Claims(w)
  <2>1. PICK j \in Jobs, lag \in Lags :
          worker' = [worker EXCEPT ![w] = [Idle EXCEPT !.at = "claimed", !.job = j,
                                                       !.lease = job[j].generation + 1]]
    BY <1>2 DEF Claims
  <2>2. worker'[w] = [at |-> "claimed", job |-> j, lease |-> job[j].generation + 1, page |-> 1,
                      seen |-> {}, observed |-> 0, todo |-> <<>>]
    BY <1>a, <2>1 DEF Shape, Idle
  <2>3. job[j].generation + 1 \in Nat
    <3>1. job[j].generation \in Nat BY <1>a DEF IInv, TypeOK, JobRow
    <3> QED BY <3>1
  <2>4. <<>> \in Seq(Work) /\ <<>> \in Seq(Filings) OBVIOUS
  <2> QED BY <2>2, <2>3, <2>4 DEF Worker, QueueInv, Stages
<1>3. CASE ArchivesSubmissions(w)
  <2>1. PICK order \in InOrder(FilingsOnPage(worker[w].page)) :
          worker' = [worker EXCEPT ![w].todo = @ \o order, ![w].page = 2,
                                   ![w].at = IF worker[w].page = 1 THEN "claimed" ELSE "filing"]
    BY <1>3 DEF ArchivesSubmissions
  <2>2. worker[w].todo \in Seq(Filings) BY <1>b, <1>3 DEF ArchivesSubmissions, Works, QueueInv
  <2>3. order \in Seq(Filings)
    <3>1. FilingsOnPage(worker[w].page) \subseteq Filings /\ IsFiniteSet(FilingsOnPage(worker[w].page))
      BY <1>b, SecAssumption, FS_Subset DEF FilingsOnPage
    <3>2. order \in Seq(FilingsOnPage(worker[w].page)) BY <2>1, <3>1, ListingsList DEF InOrder
    <3> QED BY <3>1, <3>2, SeqMonotonic
  <2>4. worker[w].todo \o order \in Seq(Filings) BY <2>2, <2>3, JoinedQueues
  <2>5. worker[w].todo \o order \in Seq(Work) BY <2>4, ListsAreWork
  <2>6. worker'[w] = [worker[w] EXCEPT !.todo = worker[w].todo \o order, !.page = 2,
                        !.at = IF worker[w].page = 1 THEN "claimed" ELSE "filing"]
    BY <1>a, <2>1 DEF Shape
  <2> QED BY <1>b, <2>4, <2>5, <2>6 DEF Worker, QueueInv, Stages
<1>4. CASE OpensFiling(w) \/ PersistsFiling(w)
  <2>1. worker[w].at \in {"filing", "archived"} /\ worker[w].todo # <<>>
    BY <1>b, <1>4 DEF OpensFiling, PersistsFiling, QueueInv
  <2>2. Tail(worker[w].todo) \in Seq(Filings) BY <1>b, <2>1, ShorterQueue DEF QueueInv
  <2>3. Tail(worker[w].todo) \in Seq(Work) BY <2>2, ListsAreWork
  <2>4. \/ worker[w].at = "filing" /\ worker'[w] = [worker[w] EXCEPT !.todo = Tail(worker[w].todo)]
        \/ worker[w].at = "filing" /\ worker'[w] = [worker[w] EXCEPT !.at = "document"]
        \/ worker'[w] = [worker[w] EXCEPT !.at = "filing", !.todo = Tail(worker[w].todo)]
    BY <1>a, <1>4 DEF Shape, OpensFiling, PersistsFiling
  <2>5. CASE worker'[w] = [worker[w] EXCEPT !.todo = Tail(worker[w].todo)] /\ worker[w].at = "filing"
    BY <1>b, <2>2, <2>3, <2>5 DEF Worker, QueueInv, Stages
  <2>6. CASE worker[w].at = "filing" /\ worker'[w] = [worker[w] EXCEPT !.at = "document"]
    BY <1>b, <2>1, <2>6 DEF Worker, QueueInv, Stages
  <2>7. CASE worker'[w] = [worker[w] EXCEPT !.at = "filing", !.todo = Tail(worker[w].todo)]
    BY <1>b, <2>2, <2>3, <2>7 DEF Worker, QueueInv, Stages
  <2> QED BY <2>4, <2>5, <2>6, <2>7
<1>5. CASE ArchivesDocument(w)
  <2>1. worker[w].at = "document" /\ worker'[w] = [worker[w] EXCEPT !.at = "archived"]
    BY <1>a, <1>5 DEF Shape, ArchivesDocument
  <2> QED BY <1>b, <2>1 DEF Worker, QueueInv, Stages
<1>6. CASE \/ AssessesFilings(w) \/ RenewsLease(w) \/ AdmitsFacts(w) \/ AssessesFacts(w) \/ StoresCalendar(w)
  <2>1. PICK stage \in {"filed", "admit", "done"} : worker'[w] = [worker[w] EXCEPT !.at = stage]
    BY <1>a, <1>6 DEF Shape, AssessesFilings, RenewsLease, AdmitsFacts, AssessesFacts, StoresCalendar
  <2> QED BY <1>b, <2>1 DEF Worker, QueueInv, Stages
<1>7. CASE FetchesFacts(w) \/ FetchesCalendar(w)
  <2>1. \/ worker'[w] = [worker[w] EXCEPT !.at = "lineage", !.seen = published, !.observed = fetches + 1]
        \/ worker'[w] = [worker[w] EXCEPT !.at = "calendar", !.observed = fetches + 1]
    BY <1>a, <1>7 DEF Shape, FetchesFacts, FetchesCalendar
  <2>2. fetches + 1 \in Nat BY <1>b
  <2> QED BY <1>b, <2>1, <2>2 DEF Worker, QueueInv, Stages
<1>8. CASE ChecksLineage(w)
  <2>1. PICK order \in FactList(worker[w].seen) :
          worker' = [worker EXCEPT ![w].at = "facts", ![w].todo = order]
    BY <1>8 DEF ChecksLineage
  <2>2. worker[w].seen \in SUBSET Filings BY <1>b DEF Worker
  <2>3. PICK s \in Listings(Sources(worker[w].seen)), d \in Listings(Derived(worker[w].seen)) :
          order = s \o d
    BY <2>1 DEF FactList
  <2>4. s \in Seq(FactKeys) /\ d \in Seq(FactKeys)
    BY <2>2, <2>3, FactsAreFinite, ListingsList, SeqMonotonic
  <2>5. order \in Seq(FactKeys) BY <2>3, <2>4, JoinedQueues
  <2>6. order \in Seq(Work) BY <2>5, ListsAreWork
  <2>7. worker'[w] = [worker[w] EXCEPT !.at = "facts", !.todo = order]
    BY <1>a, <2>1 DEF Shape
  <2> QED BY <1>b, <2>5, <2>6, <2>7 DEF Worker, QueueInv, Stages
<1>9. CASE PersistsFact(w)
  <2>1. worker[w].at = "facts" /\ worker[w].todo # <<>>
        /\ worker'[w] = [worker[w] EXCEPT !.todo = Tail(worker[w].todo)]
    BY <1>a, <1>9 DEF Shape, PersistsFact
  <2>2. Tail(worker[w].todo) \in Seq(FactKeys) BY <1>b, <2>1, ShorterQueue DEF QueueInv
  <2>3. Tail(worker[w].todo) \in Seq(Work) BY <2>2, ListsAreWork
  <2> QED BY <1>b, <2>1, <2>2, <2>3 DEF Worker, QueueInv, Stages
<1> QED BY <1>1, <1>2, <1>3, <1>4, <1>5, <1>6, <1>7, <1>8, <1>9 DEF WorkerStep
\* Only the end of a claimed stage lists anything, and the filings are published ones.
LEMMA ArchivesStayTyped ==
  ASSUME SecIInv, TypesInv, [SecNext]_allVars
  PROVE  /\ published \subseteq published' /\ published' \subseteq Filings
         /\ listed' \in [Jobs -> SUBSET Filings]
         /\ assessed' \in [Jobs -> SUBSET {"filings", "facts", "calendar"}]
<1>a. /\ published \subseteq Filings /\ listed \in [Jobs -> SUBSET Filings]
      /\ assessed \in [Jobs -> SUBSET {"filings", "facts", "calendar"}]
      /\ \A w \in Workers : worker[w].at # "idle" => worker[w].job \in Jobs
  BY DEF TypesInv, SecTypeOK, SecIInv, ExecutionInv
<1>1. CASE UNCHANGED allVars BY <1>a, <1>1 DEF allVars, tables
<1>2. CASE StoreStep BY <1>a, <1>2 DEF StoreStep, tables
<1>3. CASE Publishes BY <1>a, <1>3 DEF Publishes, tables
<1>4. ASSUME NEW w \in Workers, WorkerStep(w)
      PROVE  /\ published \subseteq published' /\ published' \subseteq Filings
             /\ listed' \in [Jobs -> SUBSET Filings]
             /\ assessed' \in [Jobs -> SUBSET {"filings", "facts", "calendar"}]
  <2>1. CASE \/ LosesLease(w) \/ Retries(w) \/ IsRefused(w) \/ DocumentConflict(w)
             \/ AwaitsLineage(w) \/ Completes(w) \/ Vanishes(w) \/ Claims(w) \/ OpensFiling(w)
             \/ ArchivesDocument(w) \/ PersistsFiling(w) \/ RenewsLease(w) \/ AdmitsFacts(w)
             \/ ChecksLineage(w) \/ PersistsFact(w) \/ FetchesCalendar(w)
    <3>1. UNCHANGED <<published, listed, assessed>>
      BY <2>1 DEF LosesLease, Retries, IsRefused, DocumentConflict, AwaitsLineage, Completes,
                  Vanishes, Reports, Claims, OpensFiling, ArchivesDocument, PersistsFiling,
                  RenewsLease, AdmitsFacts, ChecksLineage, PersistsFact, FetchesCalendar, tables
    <3> QED BY <1>a, <3>1
  <2>2. CASE ArchivesSubmissions(w) \/ FetchesFacts(w)
    <3>1. PICK fs \in SUBSET Filings : listed' = [listed EXCEPT ![worker[w].job] = @ \cup fs]
      BY <1>a, <2>2 DEF ArchivesSubmissions, FetchesFacts, ArchivesBatch
    <3>2. UNCHANGED <<published, assessed>>
      BY <2>2 DEF ArchivesSubmissions, FetchesFacts
    <3> QED BY <1>a, <3>1, <3>2
  <2>3. CASE AssessesFilings(w) \/ AssessesFacts(w) \/ StoresCalendar(w)
    <3>1. PICK x \in {"filings", "facts", "calendar"} :
            assessed' = [assessed EXCEPT ![worker[w].job] = @ \cup {x}]
      BY <2>3 DEF AssessesFilings, AssessesFacts, StoresCalendar
    <3>2. UNCHANGED <<published, listed>>
      BY <2>3 DEF AssessesFilings, AssessesFacts, StoresCalendar
    <3> QED BY <1>a, <3>1, <3>2
  <2> QED BY <1>4, <2>1, <2>2, <2>3 DEF WorkerStep
<1> QED BY <1>1, <1>2, <1>3, <1>4 DEF SecNext

\* The rows that are written are of the tables' types.
LEMMA RowsStayTyped ==
  ASSUME SecIInv, TypesInv, NEW w \in Workers, WorkerStep(w)
  PROVE  /\ documents' \subseteq Filings /\ DOMAIN filing' \subseteq Filings
         /\ DOMAIN fact' \subseteq FactKeys /\ \A k \in DOMAIN fact' : fact'[k] \in FactRow
         /\ calendar' \subseteq EventRow
         /\ fetches' \in Nat
<1>a. /\ documents \subseteq Filings /\ DOMAIN filing \subseteq Filings
      /\ DOMAIN fact \subseteq FactKeys /\ \A k \in DOMAIN fact : fact[k] \in FactRow
      /\ calendar \subseteq EventRow
      /\ worker[w] \in Worker /\ QueueInv(w) /\ fetches \in Nat
  BY DEF TypesInv, SecTypeOK
<1>1. CASE \/ LosesLease(w) \/ Retries(w) \/ IsRefused(w) \/ DocumentConflict(w)
           \/ AwaitsLineage(w) \/ Completes(w) \/ Vanishes(w) \/ Claims(w) \/ OpensFiling(w)
           \/ ArchivesSubmissions(w) \/ AssessesFilings(w) \/ RenewsLease(w) \/ AdmitsFacts(w)
           \/ ChecksLineage(w) \/ AssessesFacts(w)
  <2>1. UNCHANGED <<documents, filing, fact, calendar, fetches>>
    BY <1>1 DEF LosesLease, Retries, IsRefused, DocumentConflict, AwaitsLineage, Completes,
                Vanishes, Reports, Claims, OpensFiling, ArchivesSubmissions, AssessesFilings,
                RenewsLease, AdmitsFacts, ChecksLineage, AssessesFacts, tables
  <2> QED BY <1>a, <2>1
<1>2. CASE FetchesFacts(w) \/ FetchesCalendar(w)
  <2>1. UNCHANGED <<documents, filing, fact, calendar>> /\ fetches' = fetches + 1
    BY <1>2 DEF FetchesFacts, FetchesCalendar, tables
  <2>2. fetches + 1 \in Nat BY <1>a
  <2> QED BY <1>a, <2>1, <2>2
<1>3. CASE ArchivesDocument(w) \/ PersistsFiling(w)
  <2>1. worker[w].at \in {"document", "archived"} BY <1>3 DEF ArchivesDocument, PersistsFiling
  <2>2. Current(w) \in Filings BY <1>a, <2>1, ShorterQueue DEF QueueInv, Current
  <2>3. /\ documents' \subseteq documents \cup {Current(w)}
        /\ DOMAIN filing' \subseteq DOMAIN filing \cup {Current(w)}
        /\ UNCHANGED <<fact, calendar, fetches>>
    BY <1>3 DEF ArchivesDocument, PersistsFiling, WithRow
  <2> QED BY <1>a, <2>2, <2>3
<1>4. CASE PersistsFact(w)
  <2> DEFINE k == Current(w)
             time == worker[w].observed
  <2>1. worker[w].at = "facts" /\ worker[w].todo # <<>> BY <1>4 DEF PersistsFact
  <2>2. k \in FactKeys BY <1>a, <2>1, ShorterQueue DEF QueueInv, Current
  <2>3. UNCHANGED <<documents, filing, calendar, fetches>> BY <1>4 DEF PersistsFact
  <2>4. CASE UNCHANGED fact BY <1>a, <2>3, <2>4
  <2>5. CASE ~ UNCHANGED fact
    <3>1. PICK s \in OneOrNone(LatestFacts(EarlierFacts(k, time))) :
            fact' = WithRow(fact, k, [available |-> time, supersedes |-> s])
      BY <1>4, <2>5 DEF PersistsFact
    <3>2. s \in FactKeys \cup {None} BY <1>a, <3>1 DEF OneOrNone, LatestFacts, EarlierFacts
    <3>3. time \in Nat BY <1>a DEF Worker
    <3>4. [available |-> time, supersedes |-> s] \in FactRow BY <3>2, <3>3 DEF FactRow
    <3>5. /\ DOMAIN fact' = DOMAIN fact \cup {k}
          /\ fact'[k] = [available |-> time, supersedes |-> s]
          /\ \A i \in DOMAIN fact : i # k => fact'[i] = fact[i]
      BY <3>1 DEF WithRow
    <3> HIDE DEF k, time
    <3> QED BY <1>a, <2>2, <2>3, <3>4, <3>5
  <2> QED BY <2>4, <2>5
<1>5. CASE StoresCalendar(w)
  <2> DEFINE time == worker[w].observed
  <2>1. PICK s \in OneOrNone({t \in EarlierEvents(time) : \A u \in EarlierEvents(time) : u <= t}) :
          calendar' = calendar \cup {[available |-> time, supersedes |-> s]}
    BY <1>5 DEF StoresCalendar, PersistsEvent
  <2>2. EarlierEvents(time) \subseteq Nat BY <1>a DEF EarlierEvents, EventRow
  <2>3. s \in Nat \cup {None} BY <2>1, <2>2 DEF OneOrNone
  <2>4. time \in Nat BY <1>a DEF Worker
  <2>5. [available |-> time, supersedes |-> s] \in EventRow BY <2>3, <2>4 DEF EventRow
  <2>6. UNCHANGED <<documents, filing, fact, fetches>> BY <1>5 DEF StoresCalendar
  <2> HIDE DEF time
  <2> QED BY <1>a, <2>1, <2>5, <2>6
<1> QED BY <1>1, <1>2, <1>3, <1>4, <1>5 DEF WorkerStep

\* Every step keeps the types.
LEMMA TypesStay == SecIInv /\ TypesInv /\ [SecNext]_allVars => TypesInv'
<1> SUFFICES ASSUME SecIInv, TypesInv, [SecNext]_allVars PROVE TypesInv'
  OBVIOUS
<1>a. /\ published' \subseteq Filings
      /\ listed' \in [Jobs -> SUBSET Filings]
      /\ assessed' \in [Jobs -> SUBSET {"filings", "facts", "calendar"}]
  BY ArchivesStayTyped
<1>b. SecTypeOK /\ \A w \in Workers : QueueInv(w) BY DEF TypesInv
<1>1. ASSUME NEW w \in Workers, WorkerStep(w) PROVE TypesInv'
  <2>1. /\ documents' \subseteq Filings /\ DOMAIN filing' \subseteq Filings
        /\ DOMAIN fact' \subseteq FactKeys /\ \A k \in DOMAIN fact' : fact'[k] \in FactRow
        /\ calendar' \subseteq EventRow /\ fetches' \in Nat
    BY <1>1, RowsStayTyped
  <2>2. worker'[w] \in Worker /\ QueueInv(w)' BY <1>1, WorkersStayTyped
  <2>3. ASSUME NEW v \in Workers, v # w PROVE worker'[v] \in Worker /\ QueueInv(v)'
    <3>1. worker'[v] = worker[v] BY <1>1, <2>3, OthersStandStill
    <3>2. worker[v] \in Worker /\ QueueInv(v) BY <1>b DEF SecTypeOK
    <3> QED BY <3>1, <3>2 DEF QueueInv
  <2>4. worker' = [v \in Workers |-> worker'[v]] BY ShapeStays DEF Shape
  <2>5. worker' \in [Workers -> Worker]
    <3>1. \A v \in Workers : worker'[v] \in Worker BY <2>2, <2>3
    <3> QED BY <2>4, <3>1
  <2> QED BY <1>a, <2>1, <2>2, <2>3, <2>5 DEF TypesInv, SecTypeOK
<1>2. CASE StoreStep \/ Publishes \/ UNCHANGED allVars
  <2>1. UNCHANGED <<documents, filing, fact, calendar, fetches, worker>>
    BY <1>2 DEF StoreStep, Publishes, allVars, tables
  <2>2. \A w \in Workers : QueueInv(w)' BY <1>b, <2>1 DEF QueueInv
  <2> QED BY <1>a, <1>b, <2>1, <2>2 DEF TypesInv, SecTypeOK
<1> QED BY <1>1, <1>2 DEF SecNext
-----------------------------------------------------------------------------
\* The worker's lease is the one its job is running under.
Holds(w) == /\ worker[w].at # "idle"
            /\ job[worker[w].job].state = "RUNNING"
            /\ job[worker[w].job].generation = worker[w].lease

\* A lease was issued once, to one worker.
LeaseInv ==
  /\ \A w \in Workers : worker[w].at # "idle" => worker[w].lease <= job[worker[w].job].generation
  /\ \A v, w \in Workers :
       /\ worker[v].at # "idle" /\ worker[w].at # "idle"
       /\ worker[v].job = worker[w].job /\ worker[v].lease = worker[w].lease
       => v = w

\* A running row was running before, unless it was just claimed; a final row stays.
LEMMA RunningRows ==
  ASSUME IInv, [Next]_vars, NEW j \in Jobs, job[j].state # "ABSENT"
  PROVE  /\ job[j].generation \in Nat /\ job'[j].generation \in Nat
         /\ job'[j].generation >= job[j].generation
         /\ job'[j].state = "RUNNING" /\ job'[j].generation = job[j].generation
              => job[j].state = "RUNNING"
         /\ Final(j) => job'[j].state = job[j].state
<1>1. job[j] \in JobRow /\ RowInv(j) BY DEF IInv, TypeOK
<1>2. RowStep(j) BY StepRows
<1>3. job[j].generation \in Nat /\ job[j].generation + 1 # job[j].generation
      /\ job[j].generation + 1 \in Nat /\ job[j].generation + 1 >= job[j].generation
      /\ job[j].generation >= job[j].generation
  BY <1>1 DEF JobRow
<1> USE <1>1, <1>3 DEF JobRow, Final, FinalStates
<1>4. CASE RowAdmitted(j) BY <1>4 DEF RowAdmitted
<1>5. CASE RowStays(j) BY <1>5 DEF RowStays
<1>6. CASE RowAges(j) BY <1>6 DEF RowAges, Later
<1>7. CASE RowClaimed(j) BY <1>7 DEF RowClaimed, Claimed
<1>8. CASE RowRenewed(j) BY <1>8 DEF RowRenewed, Renewed, Running
<1>9. CASE RowCancelled(j) BY <1>9 DEF RowCancelled, Cancelled
<1>10. CASE RowRequeued(j) BY <1>10 DEF RowRequeued, Requeued
<1>11. CASE RowEndsAttempt(j) BY <1>11 DEF RowEndsAttempt, Released, Outcomes, Running
<1> QED BY <1>2, <1>4, <1>5, <1>6, <1>7, <1>8, <1>9, <1>10, <1>11 DEF RowStep, OldRowStep

\* A transaction that goes through is one under the lease the job runs under.
LEMMA GuardedHolds ==
  ASSUME NEW w \in Workers, worker[w].at # "idle", GuardedTransaction(w)
  PROVE  Holds(w)
BY DEF GuardedTransaction, Heartbeat, LeaseValid, Holds

\* A claim issues a lease that was not issued before; nothing else issues one.
LEMMA LeasesStayApart ==
  ASSUME SecIInv, TypesInv, LeaseInv, [SecNext]_allVars
  PROVE  LeaseInv'
<1>a. [Next]_vars /\ IInv /\ Shape BY JobsUseStore DEF SecIInv
<1>b. \A w \in Workers : worker[w].at # "idle" =>
        /\ worker[w].job \in Jobs /\ worker[w].lease \in Nat
        /\ job[worker[w].job].generation \in Nat /\ job'[worker[w].job].generation \in Nat
        /\ job'[worker[w].job].generation >= job[worker[w].job].generation
  <2> SUFFICES ASSUME NEW w \in Workers, worker[w].at # "idle"
               PROVE  /\ worker[w].job \in Jobs /\ worker[w].lease \in Nat
                      /\ job[worker[w].job].generation \in Nat
                      /\ job'[worker[w].job].generation \in Nat
                      /\ job'[worker[w].job].generation >= job[worker[w].job].generation
    OBVIOUS
  <2>1. worker[w].job \in Jobs /\ job[worker[w].job].state # "ABSENT"
    BY DEF SecIInv, ExecutionInv
  <2>2. worker[w].lease \in Nat BY DEF TypesInv, SecTypeOK, Worker
  <2> QED BY <1>a, <2>1, <2>2, RunningRows
<1>1. ASSUME \A w \in Workers : \/ worker'[w].at = "idle"
                                \/ /\ worker[w].at # "idle" /\ worker'[w].job = worker[w].job
                                   /\ worker'[w].lease = worker[w].lease
      PROVE  LeaseInv'
  <2>1. ASSUME NEW w \in Workers, worker'[w].at # "idle"
        PROVE  worker'[w].lease <= job'[worker'[w].job].generation
    <3>1. worker[w].at # "idle" /\ worker'[w].job = worker[w].job /\ worker'[w].lease = worker[w].lease
      BY <1>1, <2>1
    <3>2. worker[w].lease <= job[worker[w].job].generation BY <3>1 DEF LeaseInv
    <3> QED BY <1>b, <3>1, <3>2
  <2>2. ASSUME NEW v \in Workers, NEW w \in Workers, worker'[v].at # "idle", worker'[w].at # "idle",
               worker'[v].job = worker'[w].job, worker'[v].lease = worker'[w].lease
        PROVE  v = w
    BY <1>1, <2>2 DEF LeaseInv
  <2> QED BY <2>1, <2>2 DEF LeaseInv
<1>2. ASSUME NEW w \in Workers, Claims(w) PROVE LeaseInv'
  <2>1. PICK j \in Jobs, lag \in Lags :
          /\ Claim(j, lag)
          /\ worker' = [worker EXCEPT ![w] = [Idle EXCEPT !.at = "claimed", !.job = j,
                                                          !.lease = job[j].generation + 1]]
    BY <1>2 DEF Claims
  <2>2. /\ worker'[w].at = "claimed" /\ worker'[w].job = j
        /\ worker'[w].lease = job[j].generation + 1
        /\ \A v \in Workers : v # w => worker'[v] = worker[v]
    BY <1>a, <2>1 DEF Shape, Idle
  <2>3. job'[j].generation = job[j].generation + 1 /\ job[j].generation \in Nat
    BY <1>a, <2>1 DEF Claim, Claimed, IInv, TypeOK, JobRow
  <2>4. ASSUME NEW v \in Workers, v # w, worker'[v].at # "idle"
        PROVE  /\ worker'[v].lease <= job'[worker'[v].job].generation
               /\ worker'[v].job = j => worker'[v].lease # worker'[w].lease
    <3>1. worker'[v] = worker[v] BY <2>2, <2>4
    <3>2. worker[v].lease <= job[worker[v].job].generation BY <2>4, <3>1 DEF LeaseInv
    <3>3. worker'[v].lease <= job'[worker'[v].job].generation BY <1>b, <2>4, <3>1, <3>2
    <3>4. ASSUME worker[v].job = j PROVE worker[v].lease # job[j].generation + 1
      BY <1>b, <2>3, <2>4, <3>1, <3>2, <3>4
    <3> QED BY <2>2, <3>1, <3>3, <3>4
  <2>5. worker'[w].lease <= job'[worker'[w].job].generation BY <2>2, <2>3
  <2>6. ASSUME NEW v \in Workers, NEW u \in Workers, worker'[v].at # "idle", worker'[u].at # "idle",
               worker'[v].job = worker'[u].job, worker'[v].lease = worker'[u].lease
        PROVE  v = u
    <3>1. CASE v = w BY <2>2, <2>4, <2>6, <3>1
    <3>2. CASE u = w BY <2>2, <2>4, <2>6, <3>2
    <3>3. CASE v # w /\ u # w
      <4>1. worker'[v] = worker[v] /\ worker'[u] = worker[u] BY <2>2, <3>3
      <4> QED BY <2>6, <4>1 DEF LeaseInv
    <3> QED BY <3>1, <3>2, <3>3
  <2> QED BY <2>4, <2>5, <2>6 DEF LeaseInv
<1>3. ASSUME NEW w \in Workers, WorkerStep(w), ~ Claims(w)
      PROVE  \/ worker'[w].at = "idle"
             \/ /\ worker[w].at # "idle" /\ worker'[w].job = worker[w].job
                /\ worker'[w].lease = worker[w].lease
  <2>1. CASE \/ LosesLease(w) \/ Retries(w) \/ IsRefused(w) \/ DocumentConflict(w)
             \/ AwaitsLineage(w) \/ Completes(w) \/ Vanishes(w)
    <3>1. worker' = [worker EXCEPT ![w] = Idle]
      BY <2>1 DEF LosesLease, Retries, IsRefused, DocumentConflict, AwaitsLineage, Completes,
                  Vanishes, Reports, Leaves
    <3> QED BY <1>a, <3>1 DEF Shape, Idle
  <2>2. CASE ArchivesSubmissions(w)
    BY <1>a, <2>2 DEF Shape, ArchivesSubmissions, Works
  <2>3. CASE \/ OpensFiling(w) \/ ArchivesDocument(w) \/ PersistsFiling(w) \/ AssessesFilings(w)
             \/ RenewsLease(w) \/ AdmitsFacts(w)
    BY <1>a, <2>3 DEF Shape, OpensFiling, ArchivesDocument, PersistsFiling, AssessesFilings,
                      RenewsLease, AdmitsFacts
  <2>4. CASE FetchesFacts(w) \/ FetchesCalendar(w)
    BY <1>a, <2>4 DEF Shape, FetchesFacts, FetchesCalendar, Works
  <2>5. CASE ChecksLineage(w)
    BY <1>a, <2>5 DEF Shape, ChecksLineage
  <2>6. CASE PersistsFact(w) \/ AssessesFacts(w) \/ StoresCalendar(w)
    BY <1>a, <2>6 DEF Shape, PersistsFact, AssessesFacts, StoresCalendar
  <2> QED BY <1>3, <2>1, <2>2, <2>3, <2>4, <2>5, <2>6 DEF WorkerStep
<1>4. ASSUME NEW w \in Workers, WorkerStep(w), ~ Claims(w) PROVE LeaseInv'
  <2>1. \A v \in Workers : v # w => worker'[v] = worker[v] BY <1>4, OthersStandStill
  <2> QED BY <1>1, <1>3, <1>4, <2>1
<1>5. CASE StoreStep \/ Publishes \/ UNCHANGED allVars
  <2>1. worker' = worker BY <1>5 DEF StoreStep, Publishes, allVars
  <2> QED BY <1>1, <2>1
<1> QED BY <1>2, <1>4, <1>5 DEF SecNext
-----------------------------------------------------------------------------
\* All that a job was to store is stored.
Stored(j) ==
  /\ job[j].request = FilingsRequest =>
       /\ listed[j] \subseteq DOMAIN filing /\ "filings" \in assessed[j]
       /\ \E i \in Jobs : job[i].request = FactsRequest
  /\ job[j].request = FactsRequest =>
       Sources(listed[j]) \cup Derived(listed[j]) \subseteq DOMAIN fact /\ "facts" \in assessed[j]
  /\ job[j].request = CalendarRequest => calendar # {} /\ "calendar" \in assessed[j]

\* The stage tells what the job is for.
StageInv(w) ==
  /\ \/ worker[w].at = "claimed" /\ worker[w].page = 2
     \/ worker[w].at \in {"filing", "document", "archived", "filed", "admit"}
     => job[worker[w].job].request = FilingsRequest
  /\ worker[w].at \in {"lineage", "facts"} => job[worker[w].job].request = FactsRequest

\* What the job was listed so far is stored or has yet to be done.
Progress(w) ==
  LET j == worker[w].job
      todo == Queued(worker[w].todo)
  IN /\ worker[w].at = "claimed" /\ worker[w].page = 2 =>
          \A f \in listed[j] : Page[f] = 1 => f \in DOMAIN filing \cup todo
     /\ worker[w].at \in {"filing", "document", "archived"} => listed[j] \subseteq DOMAIN filing \cup todo
     /\ worker[w].at \in {"filed", "admit"} => listed[j] \subseteq DOMAIN filing /\ "filings" \in assessed[j]
     /\ worker[w].at = "lineage" => listed[j] \subseteq worker[w].seen
     /\ worker[w].at = "facts" => Sources(listed[j]) \cup Derived(listed[j]) \subseteq DOMAIN fact \cup todo
     /\ worker[w].at = "done" => Stored(j)

CompletionInv ==
  /\ LeaseInv
  /\ \A j \in Jobs : listed[j] \subseteq published
  /\ \A w \in Workers : StageInv(w) /\ (Holds(w) => Progress(w))
  /\ \A j \in Jobs : job[j].state = "SUCCEEDED" => Stored(j)

\* Nothing is listed and nobody works at first.
LEMMA InitCompletion == SecInit => CompletionInv
BY DEF SecInit, Init, NoJob, Idle, CompletionInv, LeaseInv, StageInv, Holds

\* The tables only grow.
LEMMA TablesGrow ==
  ASSUME SecIInv, TypesInv, [SecNext]_allVars
  PROVE  /\ DOMAIN filing \subseteq DOMAIN filing' /\ DOMAIN fact \subseteq DOMAIN fact'
         /\ calendar \subseteq calendar' /\ published \subseteq published'
         /\ \A j \in Jobs : assessed[j] \subseteq assessed'[j]
<1>1. DOMAIN filing \subseteq DOMAIN filing' BY FilingsStay
<1>2. published \subseteq published' BY ArchivesStayTyped
<1>3. DOMAIN fact \subseteq DOMAIN fact'
  <2>1. ASSUME NEW w \in Workers, PersistsFact(w) PROVE DOMAIN fact \subseteq DOMAIN fact'
    BY <2>1 DEF PersistsFact, WithRow
  <2>2. (\E w \in Workers : PersistsFact(w)) \/ UNCHANGED fact
    BY DEF SecNext, WorkerStep, StoreStep, Publishes, Claims, LosesLease, Retries, IsRefused,
      ArchivesSubmissions, ArchivesBatch, OpensFiling, ArchivesDocument, DocumentConflict,
      PersistsFiling, AssessesFilings, RenewsLease, AdmitsFacts, FetchesFacts, ChecksLineage,
      AwaitsLineage, AssessesFacts, FetchesCalendar, StoresCalendar, Completes,
      Vanishes, Reports, allVars, tables
  <2> QED BY <2>1, <2>2
<1>4. calendar \subseteq calendar'
  <2>1. ASSUME NEW w \in Workers, StoresCalendar(w) PROVE calendar \subseteq calendar'
    BY <2>1 DEF StoresCalendar, PersistsEvent
  <2>2. (\E w \in Workers : StoresCalendar(w)) \/ UNCHANGED calendar
    BY DEF SecNext, WorkerStep, StoreStep, Publishes, Claims, LosesLease, Retries, IsRefused,
      ArchivesSubmissions, ArchivesBatch, OpensFiling, ArchivesDocument, DocumentConflict,
      PersistsFiling, AssessesFilings, RenewsLease, AdmitsFacts, FetchesFacts, ChecksLineage,
      AwaitsLineage, PersistsFact, AssessesFacts, FetchesCalendar, Completes,
      Vanishes, Reports, allVars, tables
  <2> QED BY <2>1, <2>2
<1>5. \A j \in Jobs : assessed[j] \subseteq assessed'[j]
  <2>1. ASSUME NEW w \in Workers, \/ AssessesFilings(w) \/ AssessesFacts(w) \/ StoresCalendar(w)
        PROVE  \A j \in Jobs : assessed[j] \subseteq assessed'[j]
    <3>1. PICK x : assessed' = [assessed EXCEPT ![worker[w].job] = @ \cup {x}]
      BY <2>1 DEF AssessesFilings, AssessesFacts, StoresCalendar
    <3> QED BY <3>1 DEF TypesInv, SecTypeOK
  <2>2. \/ \E w \in Workers : AssessesFilings(w) \/ AssessesFacts(w) \/ StoresCalendar(w)
        \/ UNCHANGED assessed
    BY DEF SecNext, WorkerStep, StoreStep, Publishes, Claims, LosesLease, Retries, IsRefused,
      ArchivesSubmissions, ArchivesBatch, OpensFiling, ArchivesDocument, DocumentConflict,
      PersistsFiling, RenewsLease, AdmitsFacts, FetchesFacts, ChecksLineage,
      AwaitsLineage, PersistsFact, FetchesCalendar, Completes,
      Vanishes, Reports, allVars, tables
  <2> QED BY <2>1, <2>2
<1> QED BY <1>1, <1>2, <1>3, <1>4, <1>5

\* Only the worker that holds a job's lease lists for it, and what it lists is published.
LEMMA HolderLists ==
  ASSUME SecIInv, TypesInv, [SecNext]_allVars, NEW j \in Jobs
  PROVE  \/ listed'[j] = listed[j]
         \/ \E w \in Workers : /\ WorkerStep(w) /\ Holds(w) /\ worker[w].job = j
                               /\ listed'[j] \subseteq listed[j] \cup published
<1>1. ASSUME NEW w \in Workers, ArchivesSubmissions(w) \/ FetchesFacts(w), worker[w].job = j
      PROVE  WorkerStep(w) /\ Holds(w) /\ listed'[j] \subseteq listed[j] \cup published
  <2>1. worker[w].at # "idle" /\ GuardedTransaction(w)
    BY <1>1 DEF ArchivesSubmissions, FetchesFacts, ArchivesBatch, Works
  <2>2. PICK fs \in SUBSET published : listed' = [listed EXCEPT ![worker[w].job] = @ \cup fs]
    BY <1>1 DEF ArchivesSubmissions, FetchesFacts, ArchivesBatch
  <2>3. listed'[j] \subseteq listed[j] \cup published BY <1>1, <2>2 DEF TypesInv, SecTypeOK
  <2>4. Holds(w) BY <2>1, GuardedHolds
  <2> QED BY <1>1, <2>3, <2>4 DEF WorkerStep
<1>2. ASSUME NEW w \in Workers, ArchivesSubmissions(w) \/ FetchesFacts(w), worker[w].job # j
      PROVE  listed'[j] = listed[j]
  <2>1. PICK fs \in SUBSET published : listed' = [listed EXCEPT ![worker[w].job] = @ \cup fs]
    BY <1>2 DEF ArchivesSubmissions, FetchesFacts, ArchivesBatch
  <2> QED BY <1>2, <2>1 DEF TypesInv, SecTypeOK
<1>3. (\E w \in Workers : ArchivesSubmissions(w) \/ FetchesFacts(w)) \/ UNCHANGED listed
  BY DEF SecNext, WorkerStep, StoreStep, Publishes, Claims, LosesLease, Retries, IsRefused,
    OpensFiling, ArchivesDocument, DocumentConflict, PersistsFiling, AssessesFilings,
    RenewsLease, AdmitsFacts, ChecksLineage, AwaitsLineage, PersistsFact, AssessesFacts,
    FetchesCalendar, StoresCalendar, Completes, Vanishes, Reports, allVars, tables
<1> QED BY <1>1, <1>2, <1>3

\* A job that was admitted stays with its request.
LEMMA AdmittedStays ==
  ASSUME IInv, [Next]_vars, \E i \in Jobs : job[i].request = FactsRequest
  PROVE  \E i \in Jobs : job'[i].request = FactsRequest
<1>1. PICK i \in Jobs : job[i].request = FactsRequest OBVIOUS
<1>2. FactsRequest # None BY SecAssumption, JobsAssumption
<1>3. job[i].state # "ABSENT"
  <2>1. RowInv(i) BY DEF IInv
  <2> QED BY <1>1, <1>2, <2>1 DEF RowInv, NoJob
<1>4. job'[i].request = job[i].request BY <1>3, RequestStays
<1> QED BY <1>1, <1>4

\* What is stored for a job stays stored, as long as nothing more is listed for it.
LEMMA StoredStays ==
  ASSUME SecIInv, TypesInv, [SecNext]_allVars, NEW j \in Jobs, job[j].state # "ABSENT",
         Stored(j), listed'[j] = listed[j]
  PROVE  Stored(j)'
<1>1. [Next]_vars /\ IInv BY JobsUseStore DEF SecIInv
<1>2. job'[j].request = job[j].request BY <1>1, RequestStays
<1>3. /\ DOMAIN filing \subseteq DOMAIN filing' /\ DOMAIN fact \subseteq DOMAIN fact'
      /\ calendar \subseteq calendar' /\ assessed[j] \subseteq assessed'[j]
  BY TablesGrow
<1>4. ASSUME job'[j].request = FilingsRequest
      PROVE  /\ listed'[j] \subseteq DOMAIN filing' /\ "filings" \in assessed'[j]
             /\ \E i \in Jobs : job'[i].request = FactsRequest
  <2>1. /\ listed[j] \subseteq DOMAIN filing /\ "filings" \in assessed[j]
        /\ \E i \in Jobs : job[i].request = FactsRequest
    BY <1>2, <1>4 DEF Stored
  <2>2. \E i \in Jobs : job'[i].request = FactsRequest BY <1>1, <2>1, AdmittedStays
  <2> QED BY <1>3, <2>1, <2>2
<1>5. ASSUME job'[j].request = FactsRequest
      PROVE  /\ Sources(listed'[j]) \cup Derived(listed'[j]) \subseteq DOMAIN fact'
             /\ "facts" \in assessed'[j]
  BY <1>2, <1>3, <1>5 DEF Stored
<1>6. ASSUME job'[j].request = CalendarRequest
      PROVE  calendar' # {} /\ "calendar" \in assessed'[j]
  BY <1>2, <1>3, <1>6 DEF Stored
<1> QED BY <1>4, <1>5, <1>6 DEF Stored
\* The stage keeps telling what the job is for.
LEMMA StagesStay ==
  ASSUME SecIInv, TypesInv, [SecNext]_allVars, NEW w \in Workers, StageInv(w)
  PROVE  StageInv(w)'
<1>a. [Next]_vars /\ IInv /\ Shape BY JobsUseStore DEF SecIInv
<1>b. worker[w].at # "idle" => job'[worker[w].job].request = job[worker[w].job].request
  BY <1>a, RequestStays DEF SecIInv, ExecutionInv
<1>1. CASE worker'[w] = worker[w]
  BY <1>b, <1>1 DEF StageInv
<1>2. CASE WorkerStep(w)
  <2>1. CASE \/ LosesLease(w) \/ Retries(w) \/ IsRefused(w) \/ DocumentConflict(w)
             \/ AwaitsLineage(w) \/ Completes(w) \/ Vanishes(w)
    <3>1. worker' = [worker EXCEPT ![w] = Idle]
      BY <2>1 DEF LosesLease, Retries, IsRefused, DocumentConflict, AwaitsLineage, Completes,
                  Vanishes, Reports, Leaves
    <3>2. worker'[w] = Idle BY <1>a, <3>1 DEF Shape
    <3> QED BY <3>2 DEF Idle, StageInv
  <2>2. CASE Claims(w)
    <3>1. worker'[w].at = "claimed" /\ worker'[w].page = 1
      BY <1>a, <2>2 DEF Claims, Shape, Idle
    <3> QED BY <3>1 DEF StageInv
  <2>3. CASE ArchivesSubmissions(w)
    <3>1. /\ worker[w].at = "claimed" /\ job[worker[w].job].request = FilingsRequest
          /\ worker'[w].job = worker[w].job /\ worker'[w].at \notin {"lineage", "facts"}
      BY <1>a, <2>3 DEF ArchivesSubmissions, Works, Shape
    <3> QED BY <1>b, <3>1 DEF StageInv
  <2>4. CASE \/ OpensFiling(w) \/ ArchivesDocument(w) \/ PersistsFiling(w) \/ AssessesFilings(w)
             \/ RenewsLease(w)
    <3>1. /\ worker[w].at \in {"filing", "document", "archived", "filed"}
          /\ worker'[w].job = worker[w].job /\ worker'[w].at \notin {"lineage", "facts"}
      BY <1>a, <2>4 DEF OpensFiling, ArchivesDocument, PersistsFiling, AssessesFilings, RenewsLease, Shape
    <3> QED BY <1>b, <3>1 DEF StageInv
  <2>5. CASE FetchesFacts(w)
    <3>1. /\ worker[w].at = "claimed" /\ job[worker[w].job].request = FactsRequest
          /\ worker'[w].job = worker[w].job /\ worker'[w].at = "lineage"
      BY <1>a, <2>5 DEF FetchesFacts, Works, Shape
    <3> QED BY <1>b, <3>1 DEF StageInv
  <2>6. CASE ChecksLineage(w) \/ PersistsFact(w)
    <3>1. /\ worker[w].at \in {"lineage", "facts"}
          /\ worker'[w].job = worker[w].job /\ worker'[w].at = "facts"
      <4>1. CASE ChecksLineage(w) BY <1>a, <4>1 DEF ChecksLineage, Shape
      <4>2. CASE PersistsFact(w) BY <1>a, <4>2 DEF PersistsFact, Shape
      <4> QED BY <2>6, <4>1, <4>2
    <3> QED BY <1>b, <3>1 DEF StageInv
  <2>7. CASE AdmitsFacts(w) \/ AssessesFacts(w) \/ FetchesCalendar(w) \/ StoresCalendar(w)
    <3>1. worker'[w].at \in {"calendar", "done"}
      BY <1>a, <2>7 DEF AdmitsFacts, AssessesFacts, FetchesCalendar, StoresCalendar, Shape
    <3> QED BY <3>1 DEF StageInv
  <2> QED BY <1>2, <2>1, <2>2, <2>3, <2>4, <2>5, <2>6, <2>7 DEF WorkerStep
<1>3. ASSUME NEW v \in Workers, WorkerStep(v), v # w PROVE worker'[w] = worker[w]
  BY <1>3, OthersStandStill
<1>4. CASE StoreStep \/ Publishes \/ UNCHANGED allVars
  BY <1>1, <1>4 DEF StoreStep, Publishes, allVars
<1> QED BY <1>1, <1>2, <1>3, <1>4 DEF SecNext

\* Work that is not touched still covers what its job was listed.
LEMMA ProgressStays ==
  ASSUME SecIInv, TypesInv, [SecNext]_allVars, NEW w \in Workers, worker[w].at # "idle",
         Progress(w), worker'[w] = worker[w], listed'[worker[w].job] = listed[worker[w].job]
  PROVE  Progress(w)'
<1> DEFINE j == worker[w].job
<1>1. j \in Jobs /\ job[j].state # "ABSENT" BY DEF SecIInv, ExecutionInv
<1>2. /\ DOMAIN filing \subseteq DOMAIN filing' /\ DOMAIN fact \subseteq DOMAIN fact'
      /\ assessed[j] \subseteq assessed'[j]
  BY <1>1, TablesGrow
<1>3. worker[w].at = "done" => Stored(j)' BY <1>1, StoredStays DEF Progress
<1>4. CASE worker[w].at = "claimed"
  BY <1>2, <1>4 DEF Progress, Queued
<1>5. CASE worker[w].at \in {"filing", "document", "archived"}
  BY <1>2, <1>5 DEF Progress, Queued
<1>6. CASE worker[w].at \in {"filed", "admit", "lineage"}
  BY <1>2, <1>6 DEF Progress, Queued
<1>7. CASE worker[w].at = "facts"
  BY <1>2, <1>7 DEF Progress, Queued
<1>8. CASE worker[w].at \in {"calendar", "done"}
  BY <1>3, <1>8 DEF Progress
<1>9. worker[w].at \in Stages BY DEF TypesInv, SecTypeOK, Worker
<1> QED BY <1>4, <1>5, <1>6, <1>7, <1>8, <1>9 DEF Stages
\* A lease that is held after a step was held before it.
LEMMA HeldBefore ==
  ASSUME SecIInv, TypesInv, LeaseInv, [SecNext]_allVars, NEW w \in Workers,
         worker[w].at # "idle", worker'[w].job = worker[w].job,
         worker'[w].lease = worker[w].lease, Holds(w)'
  PROVE  Holds(w)
<1> DEFINE j == worker[w].job
<1>1. j \in Jobs /\ job[j].state # "ABSENT" /\ [Next]_vars /\ IInv
  BY JobsUseStore DEF SecIInv, ExecutionInv
<1>2. worker[w].lease \in Nat /\ worker[w].lease <= job[j].generation
  BY DEF TypesInv, SecTypeOK, Worker, LeaseInv
<1>3. job'[j].state = "RUNNING" /\ job'[j].generation = worker[w].lease
  BY DEF Holds
<1>4. /\ job[j].generation \in Nat /\ job'[j].generation \in Nat
      /\ job'[j].generation >= job[j].generation
      /\ job'[j].state = "RUNNING" /\ job'[j].generation = job[j].generation
           => job[j].state = "RUNNING"
  BY <1>1, RunningRows
<1> HIDE DEF j
<1>5. job[j].generation = worker[w].lease BY <1>2, <1>3, <1>4
<1>6. job[j].state = "RUNNING" BY <1>3, <1>4, <1>5
<1> QED BY <1>5, <1>6 DEF Holds, j

\* Two pages are all there are.
LEMMA BothPages ==
  ASSUME TypesInv, NEW fs \in SUBSET Filings, NEW xs,
         \A f \in fs : Page[f] = 1 => f \in xs, \A f \in fs : Page[f] = 2 => f \in xs
  PROVE  fs \subseteq xs
BY SecAssumption

\* A page lists all that is published on it, so that it covers what earlier
\* attempts were listed of it.
LEMMA ListingMoves ==
  ASSUME SecIInv, TypesInv, CompletionInv, NEW w \in Workers, ArchivesSubmissions(w)
  PROVE  Progress(w)'
<1> DEFINE j == worker[w].job
           p == worker[w].page
<1>a. Shape /\ worker[w].at = "claimed" /\ j \in Jobs /\ worker[w] \in Worker
  BY DEF ArchivesSubmissions, Works, SecIInv, ExecutionInv, TypesInv, SecTypeOK
<1>1. Holds(w) BY GuardedHolds DEF ArchivesSubmissions, ArchivesBatch, Works
<1>2. Progress(w) /\ listed[j] \subseteq published BY <1>1, <1>a DEF CompletionInv
<1>3. PICK order \in InOrder(FilingsOnPage(p)) :
        worker' = [worker EXCEPT ![w].todo = @ \o order, ![w].page = 2,
                                 ![w].at = IF p = 1 THEN "claimed" ELSE "filing"]
  BY DEF ArchivesSubmissions
<1>4. /\ worker'[w].job = j /\ worker'[w].page = 2
      /\ worker'[w].at = IF p = 1 THEN "claimed" ELSE "filing"
      /\ worker'[w].todo = worker[w].todo \o order
  BY <1>a, <1>3 DEF Shape
<1>5. FilingsOnPage(p) \subseteq Filings /\ IsFiniteSet(FilingsOnPage(p))
  BY SecAssumption, FS_Subset DEF FilingsOnPage, TypesInv, SecTypeOK
<1>6. order \in Seq(FilingsOnPage(p)) /\ Queued(order) = FilingsOnPage(p)
  BY <1>3, <1>5, ListingsList DEF InOrder
<1>7. worker[w].todo \in Seq(Filings) BY <1>a DEF TypesInv, QueueInv
<1>8. order \in Seq(Filings) BY <1>5, <1>6, SeqMonotonic
<1>9. Queued(worker'[w].todo) = Queued(worker[w].todo) \cup FilingsOnPage(p)
  BY <1>4, <1>6, <1>7, <1>8, JoinedQueues
<1>10. listed'[j] = listed[j] \cup FilingsOnPage(p) /\ UNCHANGED filing
  BY <1>a DEF ArchivesSubmissions, ArchivesBatch, FilingsOnPage, Shape
<1>11. listed'[j] \subseteq Filings BY <1>2, <1>5, <1>10 DEF TypesInv, SecTypeOK
<1>12. \A f \in listed'[j] : Page[f] = p => f \in Queued(worker'[w].todo)
  BY <1>2, <1>9, <1>10 DEF FilingsOnPage
<1>13. CASE p = 1
  <2>1. worker'[w].at = "claimed" BY <1>4, <1>13
  <2>2. \A f \in listed'[j] : Page[f] = 1 => f \in DOMAIN filing' \cup Queued(worker'[w].todo)
    BY <1>12, <1>13
  <2> QED BY <1>4, <2>1, <2>2 DEF Progress
<1>14. CASE p = 2
  <2>1. worker'[w].at = "filing" BY <1>4, <1>14
  <2>2. \A f \in listed[j] : Page[f] = 1 => f \in DOMAIN filing \cup Queued(worker[w].todo)
    BY <1>2, <1>a, <1>14 DEF Progress
  <2>3. \A f \in FilingsOnPage(p) : Page[f] # 1 BY <1>14 DEF FilingsOnPage
  <2>4. \A f \in listed'[j] : Page[f] = 1 => f \in DOMAIN filing' \cup Queued(worker'[w].todo)
    BY <1>9, <1>10, <2>2, <2>3
  <2>5. \A f \in listed'[j] : Page[f] = 2 => f \in DOMAIN filing' \cup Queued(worker'[w].todo)
    BY <1>12, <1>14
  <2>6. listed'[j] \subseteq DOMAIN filing' \cup Queued(worker'[w].todo)
    <3> DEFINE xs == DOMAIN filing' \cup Queued(worker'[w].todo)
               fs == listed'[j]
    <3>1. fs \in SUBSET Filings BY <1>11
    <3>2. /\ \A f \in fs : Page[f] = 1 => f \in xs
          /\ \A f \in fs : Page[f] = 2 => f \in xs
      BY <2>4, <2>5
    <3> HIDE DEF xs, fs
    <3>3. fs \subseteq xs BY <3>1, <3>2, BothPages
    <3> QED BY <3>3 DEF xs, fs
  <2> QED BY <1>4, <2>1, <2>6 DEF Progress
<1>15. p \in {1, 2} BY <1>a DEF Worker
<1> QED BY <1>13, <1>14, <1>15

\* A filing that is on record or is stored need not be done again.
LEMMA FilingMoves ==
  ASSUME SecIInv, TypesInv, CompletionInv, NEW w \in Workers,
         OpensFiling(w) \/ ArchivesDocument(w) \/ PersistsFiling(w)
  PROVE  Progress(w)'
<1> DEFINE j == worker[w].job
<1>a. Shape /\ worker[w].at \in {"filing", "document", "archived"} /\ worker[w].todo # <<>>
      /\ GuardedTransaction(w) /\ UNCHANGED listed
  BY DEF OpensFiling, ArchivesDocument, PersistsFiling, SecIInv, TypesInv, QueueInv, tables
<1>1. Holds(w) BY <1>a, GuardedHolds
<1>2. listed[j] \subseteq DOMAIN filing \cup Queued(worker[w].todo)
  BY <1>1, <1>a DEF CompletionInv, Progress
<1>3. Queued(worker[w].todo) = {Current(w)} \cup Queued(Tail(worker[w].todo))
  BY <1>a, ShorterQueue DEF TypesInv, QueueInv, Current
<1>4. /\ worker'[w].job = j /\ worker'[w].at \in {"filing", "document", "archived"}
      /\ \/ worker'[w].todo = worker[w].todo
         \/ worker'[w].todo = Tail(worker[w].todo) /\ Current(w) \in DOMAIN filing'
      /\ DOMAIN filing \subseteq DOMAIN filing'
  <2>1. CASE OpensFiling(w) BY <1>a, <2>1 DEF OpensFiling, Shape, tables
  <2>2. CASE ArchivesDocument(w) BY <1>a, <2>2 DEF ArchivesDocument, Shape
  <2>3. CASE PersistsFiling(w)
    <3>1. PICK g : filing' = WithRow(filing, Current(w), g) BY <2>3 DEF PersistsFiling
    <3>2. DOMAIN filing' = DOMAIN filing \cup {Current(w)} BY <3>1 DEF WithRow
    <3>3. worker' = [worker EXCEPT ![w].at = "filing", ![w].todo = Tail(@)]
      BY <2>3 DEF PersistsFiling
    <3>4. worker'[w] = [worker[w] EXCEPT !.at = "filing", !.todo = Tail(worker[w].todo)]
      BY <1>a, <3>3 DEF Shape
    <3>5. worker[w] \in Worker BY DEF TypesInv, SecTypeOK
    <3>6. worker'[w].job = j /\ worker'[w].at = "filing" /\ worker'[w].todo = Tail(worker[w].todo)
      BY <3>4, <3>5 DEF Worker
    <3> QED BY <3>2, <3>6
  <2> QED BY <2>1, <2>2, <2>3
<1>5. listed'[j] \subseteq DOMAIN filing' \cup Queued(worker'[w].todo)
  BY <1>a, <1>2, <1>3, <1>4
<1> QED BY <1>4, <1>5 DEF Progress

\* Nor does a fact.
LEMMA FactMoves ==
  ASSUME SecIInv, TypesInv, CompletionInv, NEW w \in Workers, PersistsFact(w)
  PROVE  Progress(w)'
<1> DEFINE j == worker[w].job
<1>a. Shape /\ worker[w].at = "facts" /\ worker[w].todo # <<>>
      /\ GuardedTransaction(w) /\ UNCHANGED listed
  BY DEF PersistsFact, SecIInv
<1>1. Holds(w) BY <1>a, GuardedHolds
<1>2. Sources(listed[j]) \cup Derived(listed[j]) \subseteq DOMAIN fact \cup Queued(worker[w].todo)
  BY <1>1, <1>a DEF CompletionInv, Progress
<1>3. Queued(worker[w].todo) = {Current(w)} \cup Queued(Tail(worker[w].todo))
  BY <1>a, ShorterQueue DEF TypesInv, QueueInv, Current
<1>4. worker'[w].job = j /\ worker'[w].at = "facts" /\ worker'[w].todo = Tail(worker[w].todo)
  <2>1. worker' = [worker EXCEPT ![w].todo = Tail(@)] BY DEF PersistsFact
  <2>2. worker'[w] = [worker[w] EXCEPT !.todo = Tail(worker[w].todo)]
    BY <1>a, <2>1 DEF Shape
  <2>3. worker[w] \in Worker BY DEF TypesInv, SecTypeOK
  <2> QED BY <1>a, <2>2, <2>3 DEF Worker
<1>5. DOMAIN fact' = DOMAIN fact \cup {Current(w)}
  <2>1. CASE Current(w) \in DOMAIN fact BY <2>1 DEF PersistsFact
  <2>2. CASE Current(w) \notin DOMAIN fact
    <3>1. PICK row : fact' = WithRow(fact, Current(w), row) BY <2>2 DEF PersistsFact
    <3> QED BY <3>1 DEF WithRow
  <2> QED BY <2>1, <2>2
<1>6. Sources(listed'[j]) \cup Derived(listed'[j]) \subseteq DOMAIN fact' \cup Queued(worker'[w].todo)
  BY <1>a, <1>2, <1>3, <1>4, <1>5
<1> QED BY <1>4, <1>6 DEF Progress
\* A response is read for all that its job was listed, its facts are queued, and
\* the earlier days' listings of the job are among them.
LEMMA ResponseMoves ==
  ASSUME SecIInv, TypesInv, CompletionInv, NEW w \in Workers, Holds(w),
         FetchesFacts(w) \/ ChecksLineage(w) \/ FetchesCalendar(w)
  PROVE  Progress(w)'
<1> DEFINE j == worker[w].job
<1>a. Shape /\ j \in Jobs /\ listed[j] \subseteq published /\ published \subseteq Filings
  BY DEF Holds, SecIInv, ExecutionInv, CompletionInv, TypesInv, SecTypeOK
<1>1. CASE FetchesFacts(w)
  <2>1. /\ worker'[w].at = "lineage" /\ worker'[w].seen = published /\ worker'[w].job = j
    BY <1>a, <1>1 DEF FetchesFacts, Shape
  <2>2. listed'[j] = listed[j] \cup published
    BY <1>a, <1>1 DEF FetchesFacts, ArchivesBatch, Shape
  <2> QED BY <1>a, <2>1, <2>2 DEF Progress
<1>2. CASE ChecksLineage(w)
  <2>1. PICK order \in FactList(worker[w].seen) :
          worker' = [worker EXCEPT ![w].at = "facts", ![w].todo = order]
    BY <1>2 DEF ChecksLineage
  <2>2. worker[w].seen \in SUBSET Filings BY DEF TypesInv, SecTypeOK, Worker
  <2>3. PICK s \in Listings(Sources(worker[w].seen)), d \in Listings(Derived(worker[w].seen)) :
          order = s \o d
    BY <2>1 DEF FactList
  <2>4. /\ s \in Seq(FactKeys) /\ Queued(s) = Sources(worker[w].seen)
        /\ d \in Seq(FactKeys) /\ Queued(d) = Derived(worker[w].seen)
    BY <2>2, <2>3, FactsAreFinite, ListingsList, SeqMonotonic
  <2>5. Queued(order) = Sources(worker[w].seen) \cup Derived(worker[w].seen)
    BY <2>3, <2>4, JoinedQueues
  <2>a. worker'[w] = [worker[w] EXCEPT !.at = "facts", !.todo = order]
    BY <1>a, <2>1 DEF Shape
  <2>6. worker'[w].at = "facts" /\ worker'[w].todo = order /\ worker'[w].job = j
    BY <2>a DEF TypesInv, SecTypeOK, Worker
  <2>7. listed[j] \subseteq worker[w].seen /\ UNCHANGED listed
    BY <1>2 DEF CompletionInv, Progress, ChecksLineage, tables
  <2>8. Sources(listed[j]) \subseteq Sources(worker[w].seen) BY <2>7 DEF Sources
  <2>9. Derived(listed[j]) \subseteq Derived(worker[w].seen) BY <2>7 DEF Derived
  <2>10. Sources(listed'[j]) \cup Derived(listed'[j]) \subseteq DOMAIN fact' \cup Queued(worker'[w].todo)
    BY <2>5, <2>6, <2>7, <2>8, <2>9
  <2> QED BY <2>6, <2>10 DEF Progress
<1>3. CASE FetchesCalendar(w)
  <2>1. worker'[w].at = "calendar" BY <1>a, <1>3 DEF FetchesCalendar, Shape
  <2> QED BY <2>1 DEF Progress
<1> QED BY <1>1, <1>2, <1>3

\* With its list at the end a filings job has stored all it was listed.
LEMMA AssessmentMoves ==
  ASSUME SecIInv, TypesInv, CompletionInv, NEW w \in Workers, Holds(w),
         AssessesFilings(w) \/ RenewsLease(w)
  PROVE  Progress(w)'
<1> DEFINE j == worker[w].job
<1>a. Shape /\ j \in Jobs /\ Progress(w) /\ UNCHANGED <<listed, filing>>
  BY DEF Holds, SecIInv, ExecutionInv, CompletionInv, AssessesFilings, RenewsLease, tables
<1>1. worker'[w].job = j /\ worker'[w].at \in {"filed", "admit"}
  BY <1>a DEF AssessesFilings, RenewsLease, Shape
<1>2. listed[j] \subseteq DOMAIN filing /\ "filings" \in assessed'[j]
  <2>1. CASE AssessesFilings(w)
    <3>1. Queued(<<>>) = {} BY DEF Queued
    <3>2. listed[j] \subseteq DOMAIN filing BY <1>a, <2>1, <3>1 DEF AssessesFilings, Progress
    <3>3. "filings" \in assessed'[j] BY <1>a, <2>1 DEF AssessesFilings, Shape
    <3> QED BY <3>2, <3>3
  <2>2. CASE RenewsLease(w) BY <1>a, <2>2 DEF RenewsLease, Progress, tables
  <2> QED BY <2>1, <2>2
<1> QED BY <1>a, <1>1, <1>2 DEF Progress

\* The last step of an execution finds all of its job's work stored.
LEMMA LastStepStores ==
  ASSUME SecIInv, TypesInv, CompletionInv, [Next]_vars, NEW w \in Workers, Holds(w),
         AdmitsFacts(w) \/ AssessesFacts(w) \/ StoresCalendar(w)
  PROVE  Progress(w)'
<1>j. PICK j \in Jobs : j = worker[w].job
  BY DEF Holds, SecIInv, ExecutionInv
<1>a. Shape /\ IInv /\ j \in Jobs /\ job[j].state # "ABSENT" /\ Progress(w) /\ StageInv(w) /\ ExecutionInv(w)
  BY <1>j DEF Holds, SecIInv, ExecutionInv, CompletionInv
<1>b. /\ FilingsRequest # FactsRequest /\ CalendarRequest # FactsRequest
      /\ CalendarRequest # FilingsRequest
  BY SecAssumption
<1>1. job'[j].request = job[j].request BY <1>a, RequestStays
<1>2. worker'[w].job = j /\ worker'[w].at = "done"
  BY <1>a, <1>j DEF AdmitsFacts, AssessesFacts, StoresCalendar, Shape
<1>3. CASE AdmitsFacts(w)
  <2>1. job[j].request = FilingsRequest /\ listed[j] \subseteq DOMAIN filing /\ "filings" \in assessed[j]
    BY <1>a, <1>j, <1>3 DEF AdmitsFacts, StageInv, Progress
  <2>2. UNCHANGED <<listed, filing, assessed>> BY <1>3 DEF AdmitsFacts, tables
  <2>3. \E i \in Jobs : job'[i].request = FactsRequest
    <3>1. CASE EnqueueWithResult(FactsRequest)
      BY <1>a, <3>1 DEF EnqueueWithResult, NoJob, IInv, TypeOK
    <3>2. CASE Existing(FactsRequest) # {} /\ UNCHANGED jobVars
      BY <3>2 DEF Existing, jobVars
    <3> QED BY <1>3, <3>1, <3>2 DEF AdmitsFacts
  <2>4. Stored(j)' BY <1>b, <1>1, <2>1, <2>2, <2>3 DEF Stored
  <2> QED BY <1>2, <2>4 DEF Progress
<1>4. CASE AssessesFacts(w)
  <2>1. Queued(<<>>) = {} BY DEF Queued
  <2>2. /\ job[j].request = FactsRequest
        /\ Sources(listed[j]) \cup Derived(listed[j]) \subseteq DOMAIN fact
    BY <1>a, <1>j, <1>4, <2>1 DEF AssessesFacts, StageInv, Progress
  <2>3. "facts" \in assessed'[j] /\ UNCHANGED <<listed, fact>>
    BY <1>a, <1>j, <1>4 DEF AssessesFacts, Shape
  <2>4. Stored(j)' BY <1>b, <1>1, <2>2, <2>3 DEF Stored
  <2> QED BY <1>2, <2>4 DEF Progress
<1>5. CASE StoresCalendar(w)
  <2>1. job[j].request = CalendarRequest BY <1>a, <1>j, <1>5 DEF StoresCalendar, ExecutionInv
  <2>2. "calendar" \in assessed'[j] BY <1>a, <1>j, <1>5 DEF StoresCalendar, Shape
  <2>3. calendar' # {} BY <1>5 DEF StoresCalendar, PersistsEvent, OneOrNone
  <2>4. Stored(j)' BY <1>b, <1>1, <2>1, <2>2, <2>3 DEF Stored
  <2> QED BY <1>2, <2>4 DEF Progress
<1> QED BY <1>3, <1>4, <1>5
\* Only a completion ends a job as SUCCEEDED, and only under its lease.
LEMMA CompletionSucceeds ==
  ASSUME SecIInv, TypesInv, [SecNext]_allVars, NEW j \in Jobs,
         job[j].state # "SUCCEEDED", job'[j].state = "SUCCEEDED"
  PROVE  \E w \in Workers : Completes(w) /\ Holds(w) /\ worker[w].job = j
<1>a. job \in [Jobs -> JobRow] /\ IInv BY DEF SecIInv, IInv, TypeOK
<1>b. ~ UNCHANGED job OBVIOUS
<1>1. ASSUME NEW i, NEW g, NEW lag, \/ Heartbeat(i, g, lag) \/ ScheduleRetry(i, g, lag)
                                    \/ DeadLetter(i, g, lag)
      PROVE  FALSE
  <2>1. CASE Heartbeat(i, g, lag)
    BY <1>a, <2>1 DEF Heartbeat, Renewed, JobRow
  <2>2. ASSUME NEW target \in {"RETRY_SCHEDULED", "DEAD_LETTER"}, NEW next, Finish(i, g, lag, target, next)
        PROVE  FALSE
    <3>1. PICK outcome \in {"RETRY_SCHEDULED", "DEAD_LETTER"} :
            \E wait : job' = [job EXCEPT ![i] = Released(job[i], outcome, wait)]
      BY <2>2 DEF Finish
    <3>2. i # j => job'[j] = job[j] BY <1>a, <3>1
    <3>3. i = j => job'[j].state = outcome BY <1>a, <3>1 DEF Released, JobRow
    <3> QED BY <3>2, <3>3
  <2> QED BY <1>1, <2>1, <2>2 DEF ScheduleRetry, DeadLetter
<1>2. ASSUME NEW r, EnqueueWithResult(r) PROVE FALSE
  BY <1>a, <1>2 DEF EnqueueWithResult, NoJob
<1>3. ASSUME NEW i \in Jobs, NEW lag, Claim(i, lag) PROVE FALSE
  BY <1>a, <1>3 DEF Claim, Claimed, JobRow
<1>4. CASE StoreStep
  <2>1. CASE AdmitsDaily BY <1>2, <2>1 DEF AdmitsDaily
  <2>2. ASSUME NEW lag \in Lags, RequeueDue(lag) PROVE FALSE
    BY <1>a, <2>2 DEF RequeueDue, Requeued, JobRow
  <2>3. ASSUME NEW R \in SUBSET Jobs, NEW lag \in Lags, RecoverExpired(R, lag) PROVE FALSE
    <3>1. job'[j] = IF j \in R
                    THEN Released(job[j], RecoveryTarget(j), IF Exhausted(j) THEN None ELSE -lag)
                    ELSE job[j]
      BY <2>3 DEF RecoverExpired
    <3>2. j \in R => job'[j].state = RecoveryTarget(j) BY <1>a, <3>1 DEF Released, JobRow
    <3> QED BY <3>1, <3>2 DEF RecoveryTarget
  <2>4. CASE Tick BY <1>a, <2>4 DEF Tick, Later, JobRow
  <2> QED BY <1>4, <2>1, <2>2, <2>3, <2>4 DEF StoreStep, Dispatches
<1>5. CASE Publishes \/ UNCHANGED allVars
  BY <1>b, <1>5 DEF Publishes, allVars, jobVars
<1>6. ASSUME NEW w \in Workers, WorkerStep(w) PROVE Completes(w) /\ Holds(w) /\ worker[w].job = j
  <2>1. CASE LosesLease(w) \/ ChecksLineage(w) \/ FetchesCalendar(w) \/ StoresCalendar(w) \/ Vanishes(w)
    BY <1>b, <2>1 DEF LosesLease, ChecksLineage, FetchesCalendar, StoresCalendar, Vanishes, jobVars
  <2>2. CASE Claims(w) BY <1>3, <2>2 DEF Claims
  <2>3. CASE \/ ArchivesSubmissions(w) \/ OpensFiling(w) \/ ArchivesDocument(w) \/ PersistsFiling(w)
             \/ AssessesFilings(w) \/ RenewsLease(w) \/ FetchesFacts(w) \/ PersistsFact(w)
             \/ AssessesFacts(w)
    <3>1. GuardedTransaction(w)
      BY <2>3 DEF ArchivesSubmissions, OpensFiling, ArchivesDocument, PersistsFiling,
         AssessesFilings, RenewsLease, FetchesFacts, PersistsFact, AssessesFacts, ArchivesBatch
    <3> QED BY <1>1, <3>1 DEF GuardedTransaction
  <2>4. CASE Retries(w) \/ AwaitsLineage(w) \/ IsRefused(w) \/ DocumentConflict(w)
    <3>1. \/ \E lag \in Lags : \/ ScheduleRetry(worker[w].job, worker[w].lease, lag)
                               \/ DeadLetter(worker[w].job, worker[w].lease, lag)
          \/ UNCHANGED jobVars
      BY <2>4 DEF Retries, AwaitsLineage, IsRefused, DocumentConflict, Reports
    <3> QED BY <1>1, <1>b, <3>1 DEF jobVars
  <2>5. CASE AdmitsFacts(w)
    <3>1. EnqueueWithResult(FactsRequest) \/ UNCHANGED jobVars BY <2>5 DEF AdmitsFacts
    <3> QED BY <1>2, <1>b, <3>1 DEF jobVars
  <2>6. CASE Completes(w)
    <3>1. worker[w].at = "done" /\ Reports(w, Succeeds) BY <2>6 DEF Completes
    <3>2. PICK lag \in Lags : Succeeds(worker[w].job, worker[w].lease, lag)
      BY <1>b, <2>6 DEF Completes, Reports, jobVars
    <3>3. Holds(w) BY <3>1, <3>2 DEF Succeeds, Finish, LeaseValid, Holds
    <3>4. \A i \in Jobs : i # worker[w].job => job'[i] = job[i]
      <4>1. PICK row : job' = [job EXCEPT ![worker[w].job] = row]
        BY <3>2 DEF Succeeds, Finish
      <4> QED BY <1>a, <4>1
    <3> QED BY <2>6, <3>3, <3>4
  <2> QED BY <1>6, <2>1, <2>2, <2>3, <2>4, <2>5, <2>6 DEF WorkerStep
<1> QED BY <1>4, <1>5, <1>6 DEF SecNext

\* A worker that holds its lease after a step has its job's work covered after it.
LEMMA ProgressIsKept ==
  ASSUME SecIInv, TypesInv, CompletionInv, [SecNext]_allVars, NEW w \in Workers, Holds(w)'
  PROVE  Progress(w)'
<1>a. Shape /\ LeaseInv /\ [Next]_vars BY JobsUseStore DEF SecIInv, CompletionInv
<1>1. CASE worker'[w] = worker[w]
  <2>1. worker[w].at # "idle" BY <1>1 DEF Holds
  <2>2. Holds(w) BY <1>a, <1>1, <2>1, HeldBefore
  <2>3. Progress(w) BY <2>2 DEF CompletionInv
  <2>4. CASE listed'[worker[w].job] = listed[worker[w].job]
    BY <1>1, <2>1, <2>3, <2>4, ProgressStays
  <2>5. CASE listed'[worker[w].job] # listed[worker[w].job]
    <3>1. worker[w].job \in Jobs BY <2>1 DEF SecIInv, ExecutionInv
    <3>2. PICK v \in Workers : WorkerStep(v) /\ Holds(v) /\ worker[v].job = worker[w].job
      BY <2>5, <3>1, HolderLists
    <3>3. v = w BY <1>a, <2>2, <3>2 DEF LeaseInv, Holds
    <3>4. listed'[worker[w].job] = listed[worker[w].job] \/ worker'[w].at # worker[w].at
          \/ worker'[w].page # worker[w].page
      <4>1. CASE ArchivesSubmissions(w)
        <5>1. PICK order : worker' = [worker EXCEPT ![w].todo = @ \o order, ![w].page = 2,
                             ![w].at = IF worker[w].page = 1 THEN "claimed" ELSE "filing"]
          BY <4>1 DEF ArchivesSubmissions
        <5>2. worker[w].at = "claimed" BY <4>1 DEF ArchivesSubmissions, Works
        <5>3. worker'[w].page = 2 /\ worker'[w].at = IF worker[w].page = 1 THEN "claimed" ELSE "filing"
          BY <1>a, <5>1 DEF Shape
        <5> QED BY <5>2, <5>3
      <4>2. CASE FetchesFacts(w) BY <1>a, <4>2 DEF FetchesFacts, Works, Shape
      <4>3. CASE ~ ArchivesSubmissions(w) /\ ~ FetchesFacts(w)
        BY <3>2, <3>3, <4>3 DEF WorkerStep, Claims, LosesLease, Retries, IsRefused,
          OpensFiling, ArchivesDocument, DocumentConflict, PersistsFiling, AssessesFilings,
          RenewsLease, AdmitsFacts, ChecksLineage, AwaitsLineage, PersistsFact, AssessesFacts,
          FetchesCalendar, StoresCalendar, Completes, Vanishes, Reports, tables
      <4> QED BY <4>1, <4>2, <4>3
    <3> QED BY <1>1, <2>5, <3>4
  <2> QED BY <2>4, <2>5
<1>2. CASE WorkerStep(w)
  <2>1. CASE \/ LosesLease(w) \/ Retries(w) \/ IsRefused(w) \/ DocumentConflict(w)
             \/ AwaitsLineage(w) \/ Completes(w) \/ Vanishes(w)
    <3>1. worker' = [worker EXCEPT ![w] = Idle]
      BY <2>1 DEF LosesLease, Retries, IsRefused, DocumentConflict, AwaitsLineage, Completes,
                  Vanishes, Reports, Leaves
    <3>2. worker'[w].at = "idle" BY <1>a, <3>1 DEF Shape, Idle
    <3> QED BY <3>2 DEF Holds
  <2>2. CASE Claims(w)
    <3>1. worker'[w].at = "claimed" /\ worker'[w].page = 1
      BY <1>a, <2>2 DEF Claims, Shape, Idle
    <3> QED BY <3>1 DEF Progress
  <2>3. CASE ArchivesSubmissions(w) BY <2>3, ListingMoves
  <2>4. CASE OpensFiling(w) \/ ArchivesDocument(w) \/ PersistsFiling(w) BY <2>4, FilingMoves
  <2>5. CASE PersistsFact(w) BY <2>5, FactMoves
  <2>6. ASSUME worker[w].at # "idle", worker'[w].job = worker[w].job, worker'[w].lease = worker[w].lease
        PROVE  Holds(w)
    BY <1>a, <2>6, HeldBefore
  <2>7. CASE FetchesFacts(w) \/ ChecksLineage(w) \/ FetchesCalendar(w)
    <3>1. /\ worker[w].at # "idle" /\ worker'[w].job = worker[w].job
          /\ worker'[w].lease = worker[w].lease
      <4>1. CASE FetchesFacts(w) BY <1>a, <4>1 DEF Shape, FetchesFacts, Works
      <4>2. CASE ChecksLineage(w) BY <1>a, <4>2 DEF Shape, ChecksLineage
      <4>3. CASE FetchesCalendar(w) BY <1>a, <4>3 DEF Shape, FetchesCalendar, Works
      <4> QED BY <2>7, <4>1, <4>2, <4>3
    <3> QED BY <2>6, <2>7, <3>1, ResponseMoves
  <2>8. CASE \/ AssessesFilings(w) \/ RenewsLease(w) \/ AdmitsFacts(w) \/ AssessesFacts(w)
             \/ StoresCalendar(w)
    <3>1. /\ worker[w].at # "idle" /\ worker'[w].job = worker[w].job
          /\ worker'[w].lease = worker[w].lease
      BY <1>a, <2>8 DEF Shape, AssessesFilings, RenewsLease, AdmitsFacts, AssessesFacts, StoresCalendar
    <3> QED BY <1>a, <2>6, <2>8, <3>1, AssessmentMoves, LastStepStores
  <2> QED BY <1>2, <2>1, <2>2, <2>3, <2>4, <2>5, <2>7, <2>8 DEF WorkerStep
<1>3. ASSUME NEW v \in Workers, WorkerStep(v), v # w PROVE worker'[w] = worker[w]
  BY <1>3, OthersStandStill
<1>4. CASE StoreStep \/ Publishes \/ UNCHANGED allVars
  BY <1>1, <1>4 DEF StoreStep, Publishes, allVars
<1> QED BY <1>1, <1>2, <1>3, <1>4 DEF SecNext

\* Every step keeps it: what a job that succeeded was listed is stored, and
\* nothing more is listed for it.
LEMMA CompletionStays == SecIInv /\ TypesInv /\ CompletionInv /\ [SecNext]_allVars => CompletionInv'
<1> SUFFICES ASSUME SecIInv, TypesInv, CompletionInv, [SecNext]_allVars PROVE CompletionInv'
  OBVIOUS
<1>a. [Next]_vars /\ IInv BY JobsUseStore DEF SecIInv
<1>1. LeaseInv' BY LeasesStayApart DEF CompletionInv
<1>2. ASSUME NEW j \in Jobs PROVE listed'[j] \subseteq published'
  BY HolderLists, TablesGrow DEF CompletionInv
<1>3. ASSUME NEW w \in Workers PROVE StageInv(w)' /\ (Holds(w)' => Progress(w)')
  BY StagesStay, ProgressIsKept DEF CompletionInv
<1>4. ASSUME NEW j \in Jobs, job'[j].state = "SUCCEEDED" PROVE Stored(j)'
  <2>1. CASE job[j].state = "SUCCEEDED"
    <3>1. Stored(j) BY <2>1 DEF CompletionInv
    <3>2. listed'[j] = listed[j] BY <2>1, HolderLists DEF Holds
    <3> QED BY <2>1, <3>1, <3>2, StoredStays
  <2>2. CASE job[j].state # "SUCCEEDED"
    <3>1. PICK w \in Workers : Completes(w) /\ Holds(w) /\ worker[w].job = j
      BY <1>4, <2>2, CompletionSucceeds
    <3>2. Stored(j) BY <3>1 DEF Completes, CompletionInv, Progress
    <3>3. listed'[j] = listed[j] BY <3>1 DEF Completes, Reports, tables
    <3>4. job[j].state # "ABSENT" BY <3>1 DEF Holds
    <3> QED BY <3>2, <3>3, <3>4, StoredStays
  <2> QED BY <2>1, <2>2
<1> QED BY <1>1, <1>2, <1>3, <1>4 DEF CompletionInv

\* The types and the coverage hold in every reachable state.
LEMMA SecCompletion == SecSpec => [](SecIInv /\ TypesInv /\ CompletionInv)
<1>1. SecInit => SecIInv /\ TypesInv /\ CompletionInv
  BY SecInitIInv, InitTypes, InitCompletion
<1>2. SecIInv /\ TypesInv /\ CompletionInv /\ [SecNext]_allVars
        => SecIInv' /\ TypesInv' /\ CompletionInv'
  BY SecNextIInv, TypesStay, CompletionStays
<1> QED BY <1>1, <1>2, PTL DEF SecSpec

\* Whatever jobs, attempts and losses wrote them, the tables of filings, facts and
\* events have their types and their lineage.
THEOREM SecIsSound == SecSpec => []SecSound
<1>1. SecIInv /\ TypesInv => SecSound BY DEF SecIInv, TypesInv, SecSound
<1> QED BY <1>1, SecCompletion, PTL

\* A SEC job that succeeded has stored every filing it was listed, or every fact it
\* fetched, over all its attempts, whoever else worked on the same tables meanwhile.
THEOREM SecSuccessMeansStored == SecSpec => []SecSuccessIsComplete
<1>1. CompletionInv => SecSuccessIsComplete
  BY DEF CompletionInv, SecSuccessIsComplete, Stored
<1> QED BY <1>1, SecCompletion, PTL
=============================================================================
