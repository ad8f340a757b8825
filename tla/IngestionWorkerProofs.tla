------------------------ MODULE IngestionWorkerProofs ------------------------
(***************************************************************************)
(* Proofs about IngestionWorker: the workers use the job store as its      *)
(* specification allows, pages are committed before the cursor passes      *)
(* them, and only the holder of a lease moves the cursor.                  *)
(*                                                                         *)
(* And about WatchlistRefresh, the other composition with the job store:   *)
(* schedules and operators use the store as its specification allows, they *)
(* have the same bars asked once at a time, and the quote shown is the     *)
(* newest known.                                                           *)
(***************************************************************************)
EXTENDS IngestionWorker, WatchlistRefresh, IngestionJobsProofs, FiniteSetTheorems,
        WellFoundedInduction

Succeeded(j) == job[j].state \in {"SUCCEEDED", "COMPLETED_WITH_GAPS"}

\* archive[j] has one entry for each page of the window, of which there may be
\* another number for each job.
ArchiveType == /\ archive = [j \in Jobs |-> archive[j]]
               /\ \A j \in Jobs : archive[j] \in [1..Pages[j] -> SUBSET Facets]

CursorType == /\ cursor \in [Jobs -> Cursor]
              /\ \A j \in Jobs : cursor[j].page \in 1..Pages[j]
              /\ \A j \in Jobs : cursor[j].generation = 0 => cursor[j].page = 1

\* What an execution w has behind it is committed: the pages before its own, the
\* facets of its own page up to its stage, and the whole window when it is done.
ExecutionInv(w) ==
  /\ worker[w].at = "idle" => worker[w].page = 1
  /\ worker[w].at # "idle" =>
       LET j == worker[w].job
           p == worker[w].page
       IN /\ j \in Jobs
          /\ p \in 1..Pages[j]
          /\ \A q \in 1..Pages[j] : q < p => Stored(j, q)
          /\ worker[w].at \in {"stored", "normalized", "assessed"} => "raw" \in archive[j][p]
          /\ worker[w].at \in {"normalized", "assessed"} => "facts" \in archive[j][p]
          /\ worker[w].at = "assessed" => Stored(j, p)
          /\ worker[w].at = "done" => \A q \in 1..Pages[j] : Stored(j, q)

WorkerIInv == /\ IInv
              /\ ArchiveType
              /\ CursorType
              /\ worker \in [Workers -> Worker]
              /\ \A w \in Workers : ExecutionInv(w)
              /\ ProgressIsCommitted

-----------------------------------------------------------------------------
\* At the start nothing is committed and no cursor was moved.
LEMMA WorkerInitIInv == WorkerInit => WorkerIInv
<1> SUFFICES ASSUME WorkerInit PROVE WorkerIInv
  OBVIOUS
<1> USE DEF WorkerInit
<1>1. IInv BY InitIInv
<1>2. ArchiveType BY DEF ArchiveType
<1>3. CursorType BY WorkerAssumption DEF CursorType, Cursor, NoCursor
<1>4. worker \in [Workers -> Worker] BY DEF Worker, Idle, Stages
<1>5. \A w \in Workers : ExecutionInv(w) BY DEF ExecutionInv, Idle
<1>6. ProgressIsCommitted
  BY DEF ProgressIsCommitted, CursorCoversPages, SuccessIsComplete, NoCursor, Init, NoJob
<1> QED BY <1>1, <1>2, <1>3, <1>4, <1>5, <1>6 DEF WorkerIInv

\* A valid lease was issued, so that it is one the store may be presented with.
LEMMA LeaseIsIssued ==
  ASSUME IInv, NEW j \in Jobs, NEW g, NEW lag \in Lags, LeaseValid(j, g, lag)
  PROVE  g \in 1..job[j].generation
<1>1. job[j] \in JobRow BY DEF IInv, TypeOK
<1>2. RowInv(j) BY DEF IInv
<1>3. Running(j) /\ job[j].generation = g BY DEF LeaseValid, Running
<1>4. job[j].generation = job[j].attempts /\ job[j].attempts > 0
  BY <1>2, <1>3 DEF RowInv
<1>5. job[j].generation \in Nat /\ job[j].attempts \in Nat BY <1>1 DEF JobRow
<1> QED BY <1>3, <1>4, <1>5

\* The end of an attempt a worker reports is a step of the store, or none.
LEMMA ReportsIsStoreStep ==
  ASSUME IInv, NEW j \in Jobs, NEW g, NEW lag \in Lags,
         \/ Fail(j, g, lag) \/ ScheduleRetry(j, g, lag) \/ DeadLetter(j, g, lag)
         \/ Complete(j, g, lag) \/ Heartbeat(j, g, lag)
  PROVE  Next
<1>1. LeaseValid(j, g, lag)
  BY DEF Fail, ScheduleRetry, DeadLetter, Complete, Heartbeat, Finish
<1>2. g \in 1..job[j].generation BY <1>1, LeaseIsIssued
<1>3. UseLease(j, g, lag) BY DEF UseLease
<1> QED BY <1>2, <1>3 DEF Next

\* Every step of the workers, the dispatcher and the outbox is a step of the job
\* store or leaves its tables alone.
LEMMA WorkersUseStore ==
  ASSUME WorkerIInv, [WorkerNext]_allVars
  PROVE  [Next]_vars
<1> USE DEF WorkerIInv
<1>1. ASSUME NEW w \in Workers, WorkerStep(w) PROVE [Next]_vars
  <2> DEFINE j == worker[w].job
             g == worker[w].lease
  <2>1. CASE Claims(w)
    BY <2>1 DEF Claims, Next
  <2>2. worker[w].at # "idle" => j \in Jobs
    BY DEF ExecutionInv
  <2>3. CASE RenewsLease(w)
    <3>1. PICK lag \in Lags : worker[w].at = "fetched" /\ Heartbeat(j, g, lag)
      BY <2>3 DEF RenewsLease, Goes
    <3> QED BY <3>1, <2>2, ReportsIsStoreStep
  <2>4. CASE Refuses(w)
    <3>1. PICK lag \in Lags : Fail(j, g, lag) \/ UNCHANGED jobVars
      BY <2>4 DEF Refuses, Reports
    <3>2. worker[w].at # "idle" BY <2>4 DEF Refuses
    <3> QED BY <3>1, <3>2, <2>2, ReportsIsStoreStep DEF jobVars, vars
  <2>5. CASE FetchFails(w) \/ PersistFails(w) \/ MisreadsHeader(w)
    <3>1. PICK lag \in Lags : \/ Fail(j, g, lag) \/ ScheduleRetry(j, g, lag)
                              \/ DeadLetter(j, g, lag) \/ UNCHANGED jobVars
      BY <2>5 DEF FetchFails, PersistFails, MisreadsHeader, Reports
    <3>2. worker[w].at # "idle" BY <2>5 DEF FetchFails, PersistFails, MisreadsHeader
    <3> QED BY <3>1, <3>2, <2>2, ReportsIsStoreStep DEF jobVars, vars
  <2>6. CASE Completes(w)
    <3>1. PICK lag \in Lags : Complete(j, g, lag) \/ UNCHANGED jobVars
      BY <2>6 DEF Completes, Reports
    <3>2. worker[w].at # "idle" BY <2>6 DEF Completes
    <3> QED BY <3>1, <3>2, <2>2, ReportsIsStoreStep DEF jobVars, vars
  <2>7. CASE \/ ReadsCursor(w) \/ Fetches(w) \/ LosesLease(w) \/ StoresRaw(w) \/ Normalizes(w)
             \/ AssessesQuality(w) \/ AdvancesCursor(w) \/ Vanishes(w)
    BY <2>7 DEF ReadsCursor, Fetches, LosesLease, StoresRaw, Normalizes, AssessesQuality,
                Commits, AdvancesCursor, Vanishes, jobVars, vars
  <2> QED BY <1>1, <2>1, <2>3, <2>4, <2>5, <2>6, <2>7 DEF WorkerStep
<1>2. CASE StoreStep
  BY <1>2 DEF StoreStep, Next
<1>3. CASE \E j \in Jobs : \E p \in 1..Pages[j] : NormalizedByOutbox(j, p)
  BY <1>3 DEF NormalizedByOutbox, jobVars, vars
<1>4. CASE UNCHANGED allVars
  BY <1>4 DEF allVars, vars
<1> QED BY <1>1, <1>2, <1>3, <1>4 DEF WorkerNext

-----------------------------------------------------------------------------
(* What a step does to the archive, to the cursors and to the end of jobs. *)

ArchiveGrows ==
  /\ ArchiveType'
  /\ \A j \in Jobs : \A p \in 1..Pages[j] : archive[j][p] \subseteq archive'[j][p]

\* One facet more of one page.
LEMMA FacetAdded ==
  ASSUME ArchiveType, NEW j \in Jobs, NEW p \in 1..Pages[j], NEW facet \in Facets,
         archive' = [archive EXCEPT ![j][p] = @ \cup {facet}]
  PROVE  ArchiveGrows /\ facet \in archive'[j][p]
<1> USE DEF ArchiveType
<1>1. archive' = [archive EXCEPT ![j] = [archive[j] EXCEPT ![p] = archive[j][p] \cup {facet}]]
  OBVIOUS
<1>2. \A i \in Jobs :
        archive'[i] = IF i = j THEN [archive[j] EXCEPT ![p] = archive[j][p] \cup {facet}]
                               ELSE archive[i]
  BY <1>1
<1>3. \A i \in Jobs : archive'[i] \in [1..Pages[i] -> SUBSET Facets]
  BY <1>2
<1>4. archive' = [i \in Jobs |-> archive'[i]]
  BY <1>1
<1>5. \A i \in Jobs : \A q \in 1..Pages[i] : archive[i][q] \subseteq archive'[i][q]
  BY <1>2
<1>6. facet \in archive'[j][p]
  BY <1>2
<1> QED BY <1>3, <1>4, <1>5, <1>6 DEF ArchiveGrows

\* Nothing that is committed is ever taken back.
LEMMA ArchiveOnlyGrows ==
  ASSUME WorkerIInv, [WorkerNext]_allVars
  PROVE  ArchiveGrows
<1> USE DEF WorkerIInv
<1>1. ASSUME NEW w \in Workers, NEW from, NEW to, NEW facet \in Facets,
             Commits(w, from, to, facet), from # "idle"
      PROVE  ArchiveGrows
  BY <1>1, FacetAdded DEF Commits, Goes, ExecutionInv
<1>2. ASSUME NEW w \in Workers, StoresRaw(w) \/ Normalizes(w) \/ AssessesQuality(w)
      PROVE  ArchiveGrows
  BY <1>1, <1>2 DEF StoresRaw, Normalizes, AssessesQuality, Facets
<1>3. ASSUME NEW j \in Jobs, NEW p \in 1..Pages[j], NormalizedByOutbox(j, p)
      PROVE  ArchiveGrows
  BY <1>3, FacetAdded DEF NormalizedByOutbox, Facets
<1>4. ASSUME UNCHANGED archive PROVE ArchiveGrows
  BY <1>4 DEF ArchiveGrows, ArchiveType
<1>5. ASSUME NEW w \in Workers, WorkerStep(w) PROVE ArchiveGrows
  <2>1. StoresRaw(w) \/ Normalizes(w) \/ AssessesQuality(w) \/ UNCHANGED archive
    BY <1>5 DEF WorkerStep, Claims, Refuses, ReadsCursor, Fetches, FetchFails, MisreadsHeader,
                RenewsLease, LosesLease, PersistFails, AdvancesCursor, Completes, Vanishes, Reports
  <2> QED BY <1>2, <1>4, <2>1
<1>6. CASE StoreStep \/ UNCHANGED allVars
  BY <1>4, <1>6 DEF StoreStep, allVars
<1> QED BY <1>3, <1>5, <1>6 DEF WorkerNext

\* So pages once complete stay complete.
LEMMA StoredStays ==
  ASSUME ArchiveType, ArchiveGrows, NEW j \in Jobs, NEW p \in 1..Pages[j], Stored(j, p)
  PROVE  Stored(j, p)'
<1>1. archive'[j] \in [1..Pages[j] -> SUBSET Facets] BY DEF ArchiveGrows, ArchiveType
<1>2. archive'[j][p] \subseteq Facets BY <1>1
<1>3. Facets \subseteq archive'[j][p] BY DEF ArchiveGrows, Stored
<1> QED BY <1>2, <1>3 DEF Stored

\* A job's state changes to a success only if its worker, done with the window,
\* completes it.
LEMMA SuccessByCompletion ==
  ASSUME WorkerIInv, [WorkerNext]_allVars, NEW j \in Jobs, ~ Succeeded(j), Succeeded(j)'
  PROVE  \E w \in Workers : worker[w].at = "done" /\ worker[w].job = j
<1> USE DEF WorkerIInv
<1>t. job \in [Jobs -> JobRow] BY DEF IInv, TypeOK
<1>1. ASSUME NEW r \in Requests, EnqueueWithResult(r) PROVE FALSE
  BY <1>1, <1>t DEF EnqueueWithResult, Succeeded, NoJob, JobRow
<1>2. ASSUME NEW i \in Jobs, Cancel(i) PROVE FALSE
  BY <1>2, <1>t DEF Cancel, Cancelled, Succeeded, JobRow
<1>3. ASSUME NEW lag \in Lags, RequeueDue(lag) PROVE FALSE
  BY <1>3, <1>t DEF RequeueDue, Requeued, Succeeded, JobRow
<1>4. ASSUME NEW S \in SUBSET Jobs, NEW lag \in Lags, RecoverExpired(S, lag) PROVE FALSE
  BY <1>4, <1>t DEF RecoverExpired, Released, RecoveryTarget, Succeeded, JobRow
<1>5. CASE Tick
  BY <1>5, <1>t DEF Tick, Later, Succeeded, JobRow
<1>6. ~ UNCHANGED job
  BY DEF Succeeded
<1>7. ASSUME NEW w \in Workers, WorkerStep(w), ~ Completes(w) PROVE FALSE
  <2> DEFINE k == worker[w].job
             g == worker[w].lease
  <2>1. ASSUME NEW i \in Jobs, NEW lag \in Lags, Claim(i, lag) PROVE FALSE
    BY <2>1, <1>t DEF Claim, Claimed, Succeeded, JobRow
  <2>2. ASSUME NEW lag \in Lags, Heartbeat(k, g, lag) PROVE FALSE
    BY <2>2, <1>t DEF Heartbeat, Renewed, Succeeded, JobRow
  <2>3. ASSUME NEW lag \in Lags, NEW target \in {"FAILED", "DEAD_LETTER", "RETRY_SCHEDULED"},
               NEW next, Finish(k, g, lag, target, next)
        PROVE  FALSE
    BY <2>3, <1>t DEF Finish, Released, Succeeded, JobRow
  <2>4. ASSUME NEW lag \in Lags, Fail(k, g, lag) \/ ScheduleRetry(k, g, lag) \/ DeadLetter(k, g, lag)
        PROVE FALSE
    BY <2>3, <2>4 DEF Fail, ScheduleRetry, DeadLetter
  <2>5. CASE Claims(w)
    BY <2>1, <2>5 DEF Claims
  <2>6. CASE RenewsLease(w)
    BY <2>2, <2>6 DEF RenewsLease
  <2>7. CASE Refuses(w) \/ FetchFails(w) \/ PersistFails(w) \/ MisreadsHeader(w)
    <3>1. PICK lag \in Lags : \/ Fail(k, g, lag) \/ ScheduleRetry(k, g, lag)
                              \/ DeadLetter(k, g, lag) \/ UNCHANGED jobVars
      BY <2>7 DEF Refuses, FetchFails, PersistFails, MisreadsHeader, Reports
    <3> QED BY <1>6, <2>4, <3>1 DEF jobVars
  <2>8. CASE \/ ReadsCursor(w) \/ Fetches(w) \/ LosesLease(w) \/ StoresRaw(w) \/ Normalizes(w)
             \/ AssessesQuality(w) \/ AdvancesCursor(w) \/ Vanishes(w)
    BY <1>6, <2>8 DEF ReadsCursor, Fetches, LosesLease, StoresRaw, Normalizes, AssessesQuality,
                Commits, AdvancesCursor, Vanishes, jobVars
  <2> QED BY <1>7, <2>5, <2>6, <2>7, <2>8 DEF WorkerStep
<1>8. ASSUME NEW w \in Workers, Completes(w)
      PROVE  worker[w].at = "done" /\ worker[w].job = j
  <2>1. worker[w].at = "done" /\ worker[w].job \in Jobs
    BY <1>8 DEF Completes, ExecutionInv
  <2>2. PICK lag \in Lags : Complete(worker[w].job, worker[w].lease, lag) \/ UNCHANGED jobVars
    BY <1>8 DEF Completes, Reports
  <2>3. job'[j] # job[j]
    BY DEF Succeeded
  <2>4. worker[w].job = j
    BY <2>1, <2>2, <2>3, <1>t DEF Complete, Finish, jobVars
  <2> QED BY <2>1, <2>4
<1>9. CASE \E i \in Jobs : \E p \in 1..Pages[i] : NormalizedByOutbox(i, p)
  BY <1>6, <1>9 DEF NormalizedByOutbox, jobVars
<1> QED
  BY <1>1, <1>2, <1>3, <1>4, <1>5, <1>6, <1>7, <1>8, <1>9 DEF WorkerNext, StoreStep, allVars

-----------------------------------------------------------------------------
(* The cursor and the executions. *)

\* A cursor moves only for an execution that has assessed its page and holds a
\* valid lease of the running job.
LEMMA CursorSteps ==
  ASSUME WorkerIInv, [WorkerNext]_allVars, NEW j \in Jobs, cursor'[j] # cursor[j]
  PROVE  \E w \in Workers, lag \in Lags :
           /\ worker[w].job = j /\ worker[w].at = "assessed"
           /\ LeaseValid(j, worker[w].lease, lag)
           /\ cursor'[j] = [generation |-> cursor[j].generation + 1, page |-> PageAfter(w)]
           /\ worker'[w].at = IF LastPage(w) THEN "done" ELSE "fetching"
<1> USE DEF WorkerIInv
<1>1. ASSUME NEW w \in Workers, WorkerStep(w) PROVE AdvancesCursor(w)
  BY <1>1 DEF WorkerStep, Claims, Refuses, ReadsCursor, Fetches, FetchFails, MisreadsHeader,
              RenewsLease, LosesLease, StoresRaw, Normalizes, AssessesQuality, Commits,
              PersistFails, Completes, Vanishes, Reports
<1>2. PICK w \in Workers : AdvancesCursor(w)
  BY <1>1 DEF WorkerNext, StoreStep, NormalizedByOutbox, allVars
<1>3. worker[w].at = "assessed" /\ worker[w].job \in Jobs
  BY <1>2 DEF AdvancesCursor, ExecutionInv
<1>4. PICK lag \in Lags :
        /\ MayAdvance(w, lag)
        /\ cursor' = [cursor EXCEPT ![worker[w].job] =
                        [generation |-> @.generation + 1, page |-> PageAfter(w)]]
        /\ worker' = [worker EXCEPT ![w].at = IF LastPage(w) THEN "done" ELSE "fetching",
                                    ![w].generation = @ + 1, ![w].page = PageAfter(w)]
  BY <1>2 DEF AdvancesCursor
<1>5. worker[w].job = j
  BY <1>3, <1>4 DEF CursorType
<1>6. cursor'[j] = [generation |-> cursor[j].generation + 1, page |-> PageAfter(w)]
  BY <1>4, <1>5 DEF CursorType
<1>7. worker'[w].at = IF LastPage(w) THEN "done" ELSE "fetching"
  BY <1>4 DEF Worker
<1> QED BY <1>3, <1>4, <1>5, <1>6, <1>7 DEF MayAdvance

\* The page after is a page of the window.
LEMMA PageAfterInWindow ==
  ASSUME WorkerIInv, NEW w \in Workers, worker[w].at # "idle"
  PROVE  /\ PageAfter(w) \in 1..Pages[worker[w].job]
         /\ worker[w].page \in 1..Pages[worker[w].job]
         /\ worker[w].job \in Jobs
         /\ Pages[worker[w].job] \in Nat \ {0}
BY WorkerAssumption DEF WorkerIInv, ExecutionInv, PageAfter, LastPage

\* The cursor stays on a page of the window.
LEMMA CursorKeepsType ==
  ASSUME WorkerIInv, [WorkerNext]_allVars
  PROVE  CursorType'
<1> USE DEF WorkerIInv
<1> DEFINE OneCursor(j) == /\ cursor'[j] \in Cursor
                           /\ cursor'[j].page \in 1..Pages[j]
                           /\ cursor'[j].generation = 0 => cursor'[j].page = 1
<1>1. \A j \in Jobs : OneCursor(j)
  <2> SUFFICES ASSUME NEW j \in Jobs, cursor'[j] # cursor[j]
               PROVE  OneCursor(j)
    BY DEF CursorType
  <2>1. PICK w \in Workers :
          /\ worker[w].job = j /\ worker[w].at = "assessed"
          /\ cursor'[j] = [generation |-> cursor[j].generation + 1, page |-> PageAfter(w)]
    BY CursorSteps
  <2>2. PageAfter(w) \in 1..Pages[j] /\ Pages[j] \in Nat
    BY <2>1, PageAfterInWindow
  <2>3. cursor[j].generation \in Nat
    BY DEF CursorType, Cursor
  <2> QED BY <2>1, <2>2, <2>3 DEF Cursor
<1>2. cursor' = [j \in Jobs |-> cursor'[j]]
  <2>1. ASSUME NEW w \in Workers, AdvancesCursor(w) PROVE cursor' = [j \in Jobs |-> cursor'[j]]
    <3>1. \/ UNCHANGED cursor
          \/ cursor' = [cursor EXCEPT ![worker[w].job] =
               [generation |-> cursor[worker[w].job].generation + 1, page |-> PageAfter(w)]]
      BY <2>1 DEF AdvancesCursor
    <3> QED BY <3>1 DEF CursorType
  <2>2. UNCHANGED cursor \/ \E w \in Workers : AdvancesCursor(w)
    BY DEF WorkerNext, WorkerStep, Claims, Refuses, ReadsCursor, Fetches, FetchFails,
           MisreadsHeader, RenewsLease, LosesLease, StoresRaw, Normalizes, AssessesQuality,
           Commits, PersistFails, Completes, Vanishes, Reports, StoreStep, NormalizedByOutbox,
           allVars
  <2> QED BY <2>1, <2>2 DEF CursorType
<1> QED BY <1>1, <1>2 DEF CursorType

\* An execution that stands still keeps what it has behind it.
LEMMA StandsStill ==
  ASSUME WorkerIInv, ArchiveGrows, NEW v \in Workers, worker'[v] = worker[v]
  PROVE  ExecutionInv(v)'
<1>a. ExecutionInv(v) /\ ArchiveType BY DEF WorkerIInv
<1>1. CASE worker[v].at = "idle"
  BY <1>a, <1>1 DEF ExecutionInv
<1>2. CASE worker[v].at # "idle"
  <2>1. PICK j, p : j = worker[v].job /\ p = worker[v].page
    OBVIOUS
  <2>2. j \in Jobs /\ p \in 1..Pages[j] BY <1>a, <1>2, <2>1 DEF ExecutionInv
  <2>3. \A q \in 1..Pages[j] : Stored(j, q) => Stored(j, q)'
    BY <1>a, <2>2, StoredStays
  <2>4. archive[j][p] \subseteq archive'[j][p]
    BY <2>2 DEF ArchiveGrows
  <2>5. /\ \A q \in 1..Pages[j] : q < p => Stored(j, q)
        /\ worker[v].at \in {"stored", "normalized", "assessed"} => "raw" \in archive[j][p]
        /\ worker[v].at \in {"normalized", "assessed"} => "facts" \in archive[j][p]
        /\ worker[v].at = "assessed" => Stored(j, p)
        /\ worker[v].at = "done" => \A q \in 1..Pages[j] : Stored(j, q)
    BY <1>a, <1>2, <2>1 DEF ExecutionInv
  <2>6. /\ \A q \in 1..Pages[j] : q < p => Stored(j, q)'
        /\ worker[v].at \in {"stored", "normalized", "assessed"} => "raw" \in archive'[j][p]
        /\ worker[v].at \in {"normalized", "assessed"} => "facts" \in archive'[j][p]
        /\ worker[v].at = "assessed" => Stored(j, p)'
        /\ worker[v].at = "done" => \A q \in 1..Pages[j] : Stored(j, q)'
    BY <2>2, <2>3, <2>4, <2>5
  <2> QED BY <1>2, <2>1, <2>2, <2>6 DEF ExecutionInv, Stored
<1> QED BY <1>1, <1>2

\* A step of execution w leaves it where its own pages are committed.
LEMMA ExecutionMoves ==
  ASSUME WorkerIInv, ArchiveGrows, NEW w \in Workers, WorkerStep(w)
  PROVE  /\ \A v \in Workers \ {w} : worker'[v] = worker[v]
         /\ worker'[w] \in Worker
         /\ worker' = [v \in Workers |-> worker'[v]]
         /\ ExecutionInv(w)'
<1>p. PICK j, p : j = worker[w].job /\ p = worker[w].page
  OBVIOUS
<1> DEFINE Moved == /\ \A v \in Workers \ {w} : worker'[v] = worker[v]
                    /\ worker'[w] \in Worker
                    /\ worker' = [v \in Workers |-> worker'[v]]
                    /\ ExecutionInv(w)'
<1>t. worker \in [Workers -> Worker] /\ worker[w] \in Worker BY DEF WorkerIInv
<1>a. ArchiveType /\ CursorType /\ ProgressIsCommitted /\ ExecutionInv(w) BY DEF WorkerIInv
<1>b. worker[w].at # "idle" => /\ j \in Jobs /\ p \in 1..Pages[j]
                               /\ Pages[j] \in Nat \ {0}
                               /\ \A q \in 1..Pages[j] : Stored(j, q) => Stored(j, q)'
                               /\ archive[j][p] \subseteq archive'[j][p]
  <2> SUFFICES ASSUME worker[w].at # "idle"
               PROVE  /\ j \in Jobs /\ p \in 1..Pages[j]
                      /\ Pages[j] \in Nat \ {0}
                      /\ \A q \in 1..Pages[j] : Stored(j, q) => Stored(j, q)'
                      /\ archive[j][p] \subseteq archive'[j][p]
    OBVIOUS
  <2>1. j \in Jobs /\ p \in 1..Pages[j] BY <1>a, <1>p DEF ExecutionInv
  <2>2. Pages[j] \in Nat \ {0} BY <2>1, WorkerAssumption
  <2>3. \A q \in 1..Pages[j] : Stored(j, q) => Stored(j, q)' BY <2>1, <1>a, StoredStays
  <2>4. archive[j][p] \subseteq archive'[j][p] BY <2>1 DEF ArchiveGrows
  <2> QED BY <2>1, <2>2, <2>3, <2>4
<1>1. ASSUME Leaves(w) PROVE Moved
  <2>1. worker' = [worker EXCEPT ![w] = Idle] BY <1>1 DEF Leaves
  <2>2. worker'[w] = Idle BY <2>1, <1>t
  <2>3. Idle \in Worker BY DEF Idle, Worker, Stages
  <2>4. ExecutionInv(w)' BY <2>2 DEF ExecutionInv, Idle
  <2> QED BY <2>1, <2>2, <2>3, <2>4, <1>t
<1>2. CASE Claims(w)
  <2>1. PICK i \in Jobs : worker' = [worker EXCEPT ![w].at = "claimed", ![w].job = i,
                                                   ![w].lease = job[i].generation + 1]
    BY <1>2 DEF Claims
  <2>2. job[i].generation \in Nat BY DEF WorkerIInv, IInv, TypeOK, JobRow
  <2>3. worker'[w] \in Worker
    <3>1. worker'[w] = [worker[w] EXCEPT !.at = "claimed", !.job = i, !.lease = job[i].generation + 1]
      BY <2>1, <1>t
    <3>2. job[i].generation + 1 \in Nat BY <2>2
    <3> QED BY <3>1, <3>2, <1>t DEF Worker, Stages
  <2>4. worker'[w].at = "claimed" /\ worker'[w].job = i /\ worker'[w].page = 1
    BY <2>1, <1>t, <1>a, <1>2 DEF Claims, ExecutionInv, Worker
  <2>5. ExecutionInv(w)'
    BY <2>4, WorkerAssumption DEF ExecutionInv
  <2> QED BY <2>1, <2>3, <2>5, <1>t
<1>3. CASE ReadsCursor(w)
  <2>1. worker[w].at # "idle" BY <1>3 DEF ReadsCursor
  <2>2. cursor[j] \in Cursor /\ cursor[j].page \in 1..Pages[j]
    BY <2>1, <1>a, <1>b DEF CursorType
  <2>3. worker' = [worker EXCEPT ![w].at = "fetching", ![w].generation = cursor[j].generation,
                                 ![w].page = cursor[j].page]
    BY <1>3, <1>p DEF ReadsCursor
  <2>4. worker'[w] \in Worker
    BY <2>2, <2>3, <1>t DEF Worker, Stages, Cursor
  <2>5. worker'[w].at = "fetching" /\ worker'[w].job = j /\ worker'[w].page = cursor[j].page
    BY <2>3, <1>t, <1>p DEF Worker
  <2>6. \A q \in 1..Pages[j] : q < cursor[j].page => Stored(j, q)
    <3>1. cursor[j].generation = 0 => cursor[j].page = 1
      BY <2>1, <1>a, <1>b DEF CursorType
    <3>2. cursor[j].generation \in Nat BY <2>2 DEF Cursor
    <3> QED BY <3>1, <3>2, <2>1, <2>2, <1>a, <1>b DEF ProgressIsCommitted, CursorCoversPages
  <2>7. \A q \in 1..Pages[j] : q < cursor[j].page => Stored(j, q)'
    BY <2>1, <2>6, <1>b
  <2>8. j \in Jobs BY <2>1, <1>b
  <2>9. ExecutionInv(w)'
    BY <2>2, <2>5, <2>7, <2>8 DEF ExecutionInv, Stored
  <2> QED BY <2>3, <2>4, <2>9, <1>t
<1>4. ASSUME NEW from \in Stages \ {"idle"}, NEW to \in Stages \ {"idle"}, Goes(w, from, to),
             to \in {"stored", "normalized", "assessed"} => "raw" \in archive'[j][p],
             to \in {"normalized", "assessed"} => "facts" \in archive'[j][p],
             to = "assessed" => Stored(j, p)',
             to # "done"
      PROVE  Moved
  <2>1. worker[w].at = from /\ worker' = [worker EXCEPT ![w].at = to]
    BY <1>4 DEF Goes
  <2>2. worker'[w].at = to /\ worker'[w].job = j /\ worker'[w].page = p
    BY <2>1, <1>t, <1>p DEF Worker
  <2>3. \A q \in 1..Pages[j] : q < p => Stored(j, q)'
    BY <2>1, <1>4, <1>a, <1>b, <1>p DEF ExecutionInv
  <2>4. j \in Jobs /\ p \in 1..Pages[j] BY <2>1, <1>4, <1>b
  <2>5. worker'[w] \in Worker BY <2>1, <1>t DEF Worker
  <2>6. \A v \in Workers \ {w} : worker'[v] = worker[v] BY <2>1, <1>t
  <2>7. worker' = [v \in Workers |-> worker'[v]] BY <2>1, <1>t
  <2>8. ExecutionInv(w)'
    BY <2>2, <2>3, <2>4, <1>4 DEF ExecutionInv, Stored
  <2> QED BY <2>5, <2>6, <2>7, <2>8
<1>5. CASE Fetches(w)
  BY <1>4, <1>5 DEF Fetches, Stages
<1>6. CASE RenewsLease(w)
  BY <1>4, <1>6 DEF RenewsLease, Stages
<1>7. ASSUME NEW facet \in Facets, NEW from \in Stages \ {"idle"}, NEW to,
             Commits(w, from, to, facet)
      PROVE  facet \in archive'[j][p]
  <2>1. worker[w].at # "idle" BY <1>7 DEF Commits, Goes
  <2>2. archive' = [archive EXCEPT ![j][p] = @ \cup {facet}] BY <1>7, <1>p DEF Commits
  <2> QED BY <2>1, <2>2, <1>a, <1>b, FacetAdded
<1>8. CASE StoresRaw(w)
  <2>1. "raw" \in archive'[j][p] BY <1>7, <1>8 DEF StoresRaw, Stages, Facets
  <2> QED BY <1>4, <1>8, <2>1 DEF StoresRaw, Commits, Stages
<1>9. CASE Normalizes(w)
  <2>1. "facts" \in archive'[j][p] BY <1>7, <1>9 DEF Normalizes, Stages, Facets
  <2>2. worker[w].at = "stored" BY <1>9 DEF Normalizes, Commits, Goes
  <2>3. "raw" \in archive'[j][p] BY <2>2, <1>a, <1>b, <1>p DEF ExecutionInv
  <2> QED BY <1>4, <1>9, <2>1, <2>3 DEF Normalizes, Commits, Stages
<1>10. CASE AssessesQuality(w)
  <2>1. "quality" \in archive'[j][p] BY <1>7, <1>10 DEF AssessesQuality, Stages, Facets
  <2>2. worker[w].at = "normalized" BY <1>10 DEF AssessesQuality, Commits, Goes
  <2>3. "raw" \in archive'[j][p] /\ "facts" \in archive'[j][p]
    BY <2>2, <1>a, <1>b, <1>p DEF ExecutionInv
  <2>4. archive'[j][p] \subseteq Facets
    BY <2>2, <1>b DEF ArchiveGrows, ArchiveType
  <2>5. Stored(j, p)' BY <2>1, <2>3, <2>4 DEF Stored, Facets
  <2> QED BY <1>4, <1>10, <2>3, <2>5 DEF AssessesQuality, Commits, Stages
<1>11. CASE AdvancesCursor(w) /\ ~ Leaves(w)
  <2>1. worker[w].at = "assessed" BY <1>11 DEF AdvancesCursor
  <2>2. worker' = [worker EXCEPT ![w].at = IF LastPage(w) THEN "done" ELSE "fetching",
                                 ![w].generation = @ + 1, ![w].page = PageAfter(w)]
    BY <1>11 DEF AdvancesCursor
  <2>3. PageAfter(w) \in 1..Pages[j] BY <2>1, <1>p, PageAfterInWindow
  <2>4. worker'[w] \in Worker BY <2>2, <2>3, <1>t DEF Worker, Stages
  <2>5. /\ worker'[w].at = (IF LastPage(w) THEN "done" ELSE "fetching")
        /\ worker'[w].job = j /\ worker'[w].page = PageAfter(w)
    BY <2>2, <1>t, <1>p DEF Worker
  <2>6. j \in Jobs /\ p \in 1..Pages[j] /\ Pages[j] \in Nat BY <2>1, <1>b
  <2>7. \A q \in 1..Pages[j] : q <= p => Stored(j, q)'
    <3>1. \A q \in 1..Pages[j] : q < p \/ q = p => Stored(j, q)
      BY <2>1, <1>a, <1>p DEF ExecutionInv
    <3> QED BY <3>1, <2>1, <2>6, <1>b
  <2>8. LastPage(w) => \A q \in 1..Pages[j] : Stored(j, q)'
    BY <2>6, <2>7, <1>p DEF LastPage
  <2>9. \A q \in 1..Pages[j] : q < PageAfter(w) => Stored(j, q)'
    BY <2>6, <2>7, <1>p DEF PageAfter
  <2>10. \A v \in Workers \ {w} : worker'[v] = worker[v] BY <2>2, <1>t
  <2>11. worker' = [v \in Workers |-> worker'[v]] BY <2>2, <1>t
  <2>12. ExecutionInv(w)'
    BY <2>3, <2>5, <2>6, <2>8, <2>9 DEF ExecutionInv, Stored
  <2> QED BY <2>4, <2>10, <2>11, <2>12
<1> QED
  BY <1>1, <1>2, <1>3, <1>5, <1>6, <1>8, <1>9, <1>10, <1>11
  DEF WorkerStep, Refuses, FetchFails, MisreadsHeader, LosesLease, PersistFails, Completes,
      Vanishes, Reports

-----------------------------------------------------------------------------
(* Theorems *)

\* The cursor and a success need pages that are stored, and stay so.
LEMMA ProgressStaysCommitted ==
  ASSUME WorkerIInv, [WorkerNext]_allVars, ArchiveGrows
  PROVE  ProgressIsCommitted'
<1>a. ArchiveType /\ CursorType /\ ProgressIsCommitted BY DEF WorkerIInv
<1>1. CursorCoversPages'
  <2> SUFFICES ASSUME NEW j \in Jobs, cursor'[j].generation > 0, NEW p \in 1..Pages[j],
                      cursor'[j].page = 1 \/ p < cursor'[j].page
               PROVE  Stored(j, p)'
    BY DEF CursorCoversPages, Stored
  <2>1. CASE cursor'[j] = cursor[j]
    <3>1. Stored(j, p) BY <1>a, <2>1 DEF ProgressIsCommitted, CursorCoversPages
    <3> QED BY <3>1, <1>a, StoredStays
  <2>2. CASE cursor'[j] # cursor[j]
    <3>1. PICK w \in Workers :
            /\ worker[w].job = j /\ worker[w].at = "assessed"
            /\ cursor'[j] = [generation |-> cursor[j].generation + 1, page |-> PageAfter(w)]
      BY <2>2, CursorSteps
    <3>2. /\ \A q \in 1..Pages[j] : q < worker[w].page => Stored(j, q)
          /\ Stored(j, worker[w].page)
      BY <3>1 DEF WorkerIInv, ExecutionInv
    <3>3. worker[w].page \in 1..Pages[j] /\ Pages[j] \in Nat
      BY <3>1, PageAfterInWindow
    <3>4. p <= worker[w].page
      BY <3>1, <3>3 DEF PageAfter, LastPage
    <3>5. Stored(j, p)
      BY <3>2, <3>3, <3>4
    <3> QED BY <3>5, <1>a, StoredStays
  <2> QED BY <2>1, <2>2
<1>2. SuccessIsComplete'
  <2> SUFFICES ASSUME NEW j \in Jobs, Succeeded(j)', NEW p \in 1..Pages[j]
               PROVE  Stored(j, p)'
    BY DEF SuccessIsComplete, Succeeded, Stored
  <2>1. Stored(j, p)
    <3>1. CASE Succeeded(j)
      BY <3>1, <1>a DEF ProgressIsCommitted, SuccessIsComplete, Succeeded
    <3>2. CASE ~ Succeeded(j)
      <4>1. PICK w \in Workers : worker[w].at = "done" /\ worker[w].job = j
        BY <3>2, SuccessByCompletion
      <4> QED BY <4>1 DEF WorkerIInv, ExecutionInv
    <3> QED BY <3>1, <3>2
  <2> QED BY <2>1, <1>a, StoredStays
<1> QED BY <1>1, <1>2 DEF ProgressIsCommitted

\* Every step keeps the invariant.
LEMMA WorkerNextIInv == WorkerIInv /\ [WorkerNext]_allVars => WorkerIInv'
<1> SUFFICES ASSUME WorkerIInv, [WorkerNext]_allVars PROVE WorkerIInv'
  OBVIOUS
<1>1. IInv'
  BY WorkersUseStore, NextIInv DEF WorkerIInv
<1>2. ArchiveGrows
  BY ArchiveOnlyGrows
<1>3. CursorType'
  BY CursorKeepsType
<1>4. ProgressIsCommitted'
  BY <1>2, ProgressStaysCommitted
<1>5. worker' \in [Workers -> Worker] /\ \A w \in Workers : ExecutionInv(w)'
  <2>1. ASSUME NEW w \in Workers, WorkerStep(w)
        PROVE  worker' \in [Workers -> Worker] /\ \A v \in Workers : ExecutionInv(v)'
    <3>1. /\ \A v \in Workers \ {w} : worker'[v] = worker[v]
          /\ worker'[w] \in Worker
          /\ worker' = [v \in Workers |-> worker'[v]]
          /\ ExecutionInv(w)'
      BY <1>2, <2>1, ExecutionMoves
    <3>2. \A v \in Workers \ {w} : ExecutionInv(v)'
      BY <1>2, <3>1, StandsStill
    <3>3. \A v \in Workers : worker'[v] \in Worker
      BY <3>1 DEF WorkerIInv
    <3> QED BY <3>1, <3>2, <3>3
  <2>2. CASE UNCHANGED worker
    <3>1. \A v \in Workers : ExecutionInv(v)'
      BY <1>2, <2>2, StandsStill
    <3> QED BY <3>1, <2>2 DEF WorkerIInv
  <2> QED BY <2>1, <2>2 DEF WorkerNext, StoreStep, NormalizedByOutbox, allVars
<1>6. ArchiveType'
  BY <1>2 DEF ArchiveGrows
<1> QED BY <1>1, <1>3, <1>4, <1>5, <1>6 DEF WorkerIInv

\* The invariant holds in every reachable state.
LEMMA WorkersIInv == WorkerSpec => []WorkerIInv
BY WorkerInitIInv, WorkerNextIInv, PTL DEF WorkerSpec

\* Behind a cursor and in a job that succeeded every page is committed with its
\* facts and its quality, whichever workers were lost, stalled or overtaken.
THEOREM WorkersCommitProgress == WorkerSpec => []ProgressIsCommitted
<1>1. WorkerIInv => ProgressIsCommitted BY DEF WorkerIInv
<1> QED BY <1>1, WorkersIInv, PTL

\* advance_cursor moves a cursor only for the worker of the running attempt.
THEOREM WorkersMoveCursorAsHolders == WorkerSpec => CursorMovedByHolder
<1> DEFINE Moved == \A j \in Jobs : cursor'[j] # cursor[j] =>
                      /\ Running(j)
                      /\ \E w \in Workers : /\ worker[w].job = j
                                            /\ worker[w].lease = job[j].generation
                                            /\ worker[w].at = "assessed"
                                            /\ worker'[w].at \in {"fetching", "done"}
<1>1. WorkerIInv /\ [WorkerNext]_allVars => [Moved]_allVars
  <2> SUFFICES ASSUME WorkerIInv, [WorkerNext]_allVars, NEW j \in Jobs, cursor'[j] # cursor[j]
               PROVE  /\ Running(j)
                      /\ \E w \in Workers : /\ worker[w].job = j
                                            /\ worker[w].lease = job[j].generation
                                            /\ worker[w].at = "assessed"
                                            /\ worker'[w].at \in {"fetching", "done"}
    OBVIOUS
  <2>1. PICK w \in Workers, lag \in Lags :
          /\ worker[w].job = j /\ worker[w].at = "assessed"
          /\ LeaseValid(j, worker[w].lease, lag)
          /\ cursor'[j] = [generation |-> cursor[j].generation + 1, page |-> PageAfter(w)]
          /\ worker'[w].at = IF LastPage(w) THEN "done" ELSE "fetching"
    BY CursorSteps
  <2>2. Running(j) /\ worker[w].lease = job[j].generation BY <2>1 DEF LeaseValid, Running
  <2> QED BY <2>1, <2>2, Zenon
<1> QED BY <1>1, WorkersIInv, PTL DEF WorkerSpec, CursorMovedByHolder

\* With the workers around it the job store does what it does alone: all that is
\* proved of the store holds of the composition.
THEOREM WorkersImplementStore == WorkerSpec => Spec
<1>1. WorkerInit => Init BY DEF WorkerInit
<1>2. WorkerIInv /\ [WorkerNext]_allVars => [Next]_vars BY WorkersUseStore
<1> QED BY <1>1, <1>2, WorkersIInv, PTL DEF WorkerSpec, Spec

-----------------------------------------------------------------------------
(* The watchlist *)

\* What may be asked for.
Askable == [symbol : Symbols, window : Windows]

\* A call that asks has symbols left and is of one of the instants, one that
\* publishes has found a job.
CallInv(k) ==
  /\ k.at = "asking" =>
       /\ k.todo # {}
       /\ k.time \in Instants
       /\ k.task \in {"minute", "daily", "refresh"}
       /\ k.task = "minute" => SessionAt(k.time) # "CLOSED"
       /\ k.task = "daily" => TimeOf(k.time) = DailyAt
  /\ k.at = "publishing" => k.next \in Jobs

CallsTyped == /\ clock \in 1..Len(Times)
              /\ entitled \in Offers
              /\ call \in [Callers -> Call]
              /\ messages \subseteq Jobs

RefreshIInv == /\ IInv
               /\ CallsTyped
               /\ \A c \in Callers : CallInv(call[c])
               /\ \A j \in Jobs : job[j].request \in Askable \cup {None}

\* Among some natural numbers there is a least one.
LEMMA LeastNatural ==
  ASSUME NEW S \in SUBSET Nat, S # {}
  PROVE  \E n \in S : \A m \in S : n <= m
<1> DEFINE T == {0..(n - 1) : n \in S}
<1>1. T \subseteq FiniteSubsetsOf(Nat) /\ T # {}
  <2>1. \A n \in S : 0..(n - 1) \subseteq Nat /\ IsFiniteSet(0..(n - 1))
    BY FS_Interval
  <2> QED BY <2>1 DEF FiniteSubsetsOf
<1>2. IsWellFoundedOn(StrictSubsetOrdering(Nat), FiniteSubsetsOf(Nat))
  BY FS_StrictSubsetOrderingWellFounded
<1>3. PICK x \in T : \A y \in T : ~ (<<y, x>> \in StrictSubsetOrdering(Nat))
  BY <1>1, <1>2, WFMin
<1>4. PICK n \in S : x = 0..(n - 1) BY <1>3
<1>5. ASSUME NEW m \in S, m < n PROVE FALSE
  <2>1. 0..(m - 1) \in T OBVIOUS
  <2>2. 0..(m - 1) \subseteq 0..(n - 1) /\ m \in 0..(n - 1) /\ m \notin 0..(m - 1)
    BY <1>5
  <2>3. 0..(m - 1) \in SUBSET Nat /\ x \in SUBSET Nat BY <1>4
  <2>4. <<0..(m - 1), x>> \in StrictSubsetOrdering(Nat)
    BY <1>4, <2>2, <2>3 DEF StrictSubsetOrdering
  <2> QED BY <1>3, <2>1, <2>4
<1> QED BY <1>5

\* The least of some natural numbers.
LEMMA MinIsLeast ==
  ASSUME NEW S \in SUBSET Nat, S # {}
  PROVE  Min(S) \in S
BY LeastNatural DEF Min

\* Among integers that are bounded there is a greatest one.
LEMMA GreatestInteger ==
  ASSUME NEW S \in SUBSET Int, S # {}, NEW b \in Int, \A n \in S : n <= b
  PROVE  \E n \in S : \A m \in S : n >= m
<1> DEFINE T == {b - n : n \in S}
<1>0. \A n \in S : n \in Int /\ b - n \in Nat OBVIOUS
<1>1. T \in SUBSET Nat /\ T # {} BY <1>0
<1>2. PICK k \in T : \A m \in T : k <= m BY <1>1, LeastNatural
<1>3. PICK n \in S : k = b - n BY <1>2
<1>4. ASSUME NEW m \in S PROVE n >= m
  <2>1. k <= b - m BY <1>2
  <2> QED BY <1>3, <2>1
<1> QED BY <1>4

\* The instants are numbers, the last of them the greatest.
LEMMA InstantsBounded ==
  /\ Len(Times) \in Nat /\ Times[Len(Times)] \in Nat /\ Times[1] \in Nat
  /\ \A t \in Instants : t \in Nat /\ Times[1] <= t /\ t <= Times[Len(Times)]
<1>1. Times \in Seq(Nat) /\ Len(Times) \in Nat /\ Len(Times) > 0 BY RefreshAssumption
<1>2. \A i \in 1..Len(Times) : Times[i] \in Nat BY <1>1
<1>3. 1 \in 1..Len(Times) /\ Len(Times) \in 1..Len(Times) BY <1>1
<1>4. \A i \in 1..Len(Times) : Times[1] <= Times[i] /\ Times[i] <= Times[Len(Times)]
  <2> TAKE i \in 1..Len(Times)
  <2>1. 1 < i \/ i = 1 BY <1>1
  <2>2. i < Len(Times) \/ i = Len(Times) BY <1>1
  <2>3. \A m, n \in 1..Len(Times) : m < n => Times[m] < Times[n] BY RefreshAssumption
  <2> QED BY <1>2, <1>3, <2>1, <2>2, <2>3
<1> QED BY <1>1, <1>2, <1>3, <1>4 DEF Instants

\* The minutes of a day, and those at which an exchange may close.
Minutes == 0..Day - 1
Closes == 570..1200

\* Days and times of the day are numbers.
LEMMA DayTypes ==
  ASSUME NEW t \in Int
  PROVE  DayOf(t) \in Int /\ TimeOf(t) \in Minutes
BY DEF Day, DayOf, TimeOf, Minutes

\* The first minute of a day.
MidnightOf(d) == d * Day

\* An instant is its day and its time of the day.
LEMMA DayAndTime ==
  ASSUME NEW t \in Int
  PROVE  t = MidnightOf(DayOf(t)) + TimeOf(t)
BY DEF Day, DayOf, TimeOf, MidnightOf

\* A day begins before what is of it.
LEMMA DayBegins ==
  ASSUME NEW t \in Int
  PROVE  MidnightOf(DayOf(t)) <= t
BY DEF Day, DayOf, MidnightOf

\* What is not later is of a day that is not later.
LEMMA DaysInOrder ==
  ASSUME NEW t \in Int, NEW u \in Int, t <= u
  PROVE  DayOf(t) <= DayOf(u)
BY DEF Day, DayOf

\* Of two times of one day the later is that of the later instant.
LEMMA TimesOfDay ==
  ASSUME NEW t \in Int, NEW u \in Int, DayOf(t) = DayOf(u)
  PROVE  t < u <=> TimeOf(t) < TimeOf(u)
BY DEF Day, DayOf, TimeOf

\* Midnight belongs to the day it begins.
LEMMA Midnight ==
  ASSUME NEW d \in Int
  PROVE  DayOf(MidnightOf(d)) = d /\ MidnightOf(d) \in Int
BY DEF Day, DayOf, MidnightOf

\* A day is over when the next one begins.
LEMMA NextMidnight ==
  ASSUME NEW d \in Int, NEW e \in Int, d < e
  PROVE  MidnightOf(d) + Day <= MidnightOf(e)
BY DEF Day, MidnightOf

\* The latest cutoff of a trading day.
LEMMA CutoffOfTradingDay ==
  ASSUME NEW t \in Instants
  PROVE  LatestCutoff(t) \in 0..t /\ \E d \in TradingDays : LatestCutoff(t) = d * Day + CutoffTime
<1> DEFINE S == {d * Day + CutoffTime : d \in TradingDays} \cap 0..t
<1>1. t \in Nat /\ Times[1] \in Nat /\ Times[1] <= t BY InstantsBounded
<1>2. PICK d \in TradingDays : d * Day + CutoffTime <= Times[1] BY RefreshAssumption
<1>3. d \in Nat BY RefreshAssumption
<1>4. d * Day + CutoffTime \in Nat BY <1>3 DEF Day, CutoffTime
<1>5. d * Day + CutoffTime \in S BY <1>1, <1>2, <1>4
<1>6. S \in SUBSET Int /\ S # {} /\ \A n \in S : n <= t BY <1>1, <1>5
<1>7. LatestCutoff(t) = Max(S) BY DEF LatestCutoff
<1>8. \A n \in S : n \in 0..t /\ \E e \in TradingDays : n = e * Day + CutoffTime OBVIOUS
<1>11. t \in Int BY <1>1
<1> HIDE DEF S
<1>9. \E n \in S : \A m \in S : n >= m BY <1>6, <1>11, GreatestInteger
<1>10. Max(S) \in S BY <1>9 DEF Max
<1> QED BY <1>7, <1>8, <1>10

\* The windows of minutes, of the daily schedule and of the operator's refresh.
LEMMA WindowKinds ==
  ASSUME NEW w \in Windows
  PROVE  /\ w = Window(w.timeframe, w.from, w.to, w.purpose, w.session, w.coverage)
         /\ w.from \in Int /\ w.to \in Nat
         /\ \/ /\ w.timeframe = "1Min" /\ w.from = w.to - 1
               /\ w.to <= Times[Len(Times)]
            \/ /\ w.timeframe = "1Day" /\ w.from = w.to - Day
               /\ w.to <= Times[Len(Times)]
               /\ w.purpose = "RESEARCH" /\ w.session = "REGULAR"
               /\ \E d \in Int : w.to = d * Day + DailyAt
            \/ /\ w.timeframe = "1Day" /\ w.from = w.to - Day
               /\ w.to <= Times[Len(Times)]
               /\ w.purpose = "REALTIME_CONTEXT" /\ w.session = "REGULAR"
               /\ \E d \in Int : w.to = d * Day + CutoffTime
<1>0. TradingDays \subseteq Nat BY RefreshAssumption
<1>1. ASSUME NEW t \in Instants, NEW session \in Sessions, NEW coverage \in Coverages,
             w = Window("1Min", t - 1, t, "REALTIME_CONTEXT", session, coverage)
      PROVE  /\ w = Window(w.timeframe, w.from, w.to, w.purpose, w.session, w.coverage)
             /\ w.from \in Int /\ w.to \in Nat
             /\ w.timeframe = "1Min" /\ w.from = w.to - 1 /\ w.to <= Times[Len(Times)]
  <2>1. t \in Nat /\ t <= Times[Len(Times)] BY InstantsBounded
  <2> QED BY <1>1, <2>1 DEF Window
<1>2. ASSUME NEW t \in Instants, TimeOf(t) = DailyAt, NEW coverage \in Coverages,
             w = Window("1Day", t - Day, t, "RESEARCH", "REGULAR", coverage)
      PROVE  /\ w = Window(w.timeframe, w.from, w.to, w.purpose, w.session, w.coverage)
             /\ w.from \in Int /\ w.to \in Nat
             /\ w.timeframe = "1Day" /\ w.from = w.to - Day /\ w.to <= Times[Len(Times)]
             /\ w.purpose = "RESEARCH" /\ w.session = "REGULAR"
             /\ \E d \in Int : w.to = d * Day + DailyAt
  <2>1. t \in Nat /\ t <= Times[Len(Times)] BY InstantsBounded
  <2>2. t = DayOf(t) * Day + DailyAt /\ DayOf(t) \in Int
    BY <1>2, <2>1, DayAndTime, DayTypes DEF MidnightOf
  <2>3. t - Day \in Int BY <2>1 DEF Day
  <2> QED BY <1>2, <2>1, <2>2, <2>3 DEF Window
<1>3. ASSUME NEW t \in Instants, NEW coverage \in Coverages,
             w = Window("1Day", LatestCutoff(t) - Day, LatestCutoff(t), "REALTIME_CONTEXT",
                        "REGULAR", coverage)
      PROVE  /\ w = Window(w.timeframe, w.from, w.to, w.purpose, w.session, w.coverage)
             /\ w.from \in Int /\ w.to \in Nat
             /\ w.timeframe = "1Day" /\ w.from = w.to - Day /\ w.to <= Times[Len(Times)]
             /\ w.purpose = "REALTIME_CONTEXT" /\ w.session = "REGULAR"
             /\ \E d \in Int : w.to = d * Day + CutoffTime
  <2>1. t \in Nat /\ t <= Times[Len(Times)] /\ Times[Len(Times)] \in Nat BY InstantsBounded
  <2>2. LatestCutoff(t) \in 0..t /\ \E d \in Int : LatestCutoff(t) = d * Day + CutoffTime
    BY <1>0, CutoffOfTradingDay
  <2>3. LatestCutoff(t) \in Nat /\ LatestCutoff(t) <= Times[Len(Times)] BY <2>1, <2>2
  <2>4. LatestCutoff(t) - Day \in Int BY <2>3 DEF Day
  <2> QED BY <1>3, <2>2, <2>3, <2>4 DEF Window
<1> QED BY <1>1, <1>2, <1>3 DEF Windows

\* Each window may be asked of each feed.
LEMMA OtherCoverage ==
  ASSUME NEW w \in Windows, NEW coverage \in Coverages
  PROVE  [w EXCEPT !.coverage = coverage] \in Windows
BY DEF Windows, Window

\* The calendar knows five sessions.
LEMMA SessionsKnown == \A t : SessionAt(t) \in Sessions \cup {"CLOSED"}
BY DEF SessionAt, Sessions

\* What is asked for is granted, replaced, denied or left out.
LEMMA RoutedFeeds ==
  ASSUME NEW purpose, NEW coverage \in Coverages, NEW session
  PROVE  Routed(purpose, coverage, session) \in Coverages \cup {"DENIED"}
BY DEF Routed, Coverages

\* A call asks for one of the windows.
LEMMA AsksForWindow ==
  ASSUME NEW k, CallInv(k), k.at = "asking"
  PROVE  /\ WindowOf(k.task, k.time) \in Windows
         /\ WindowOf(k.task, k.time).coverage \in Coverages
<1>1. k.time \in Instants /\ k.time \in Nat BY InstantsBounded DEF CallInv
<1>2. BestCoverage \in Coverages /\ "IEX" \in Coverages BY DEF BestCoverage, Coverages
<1>3. CASE k.task = "minute"
  <2>1. SessionAt(k.time) \in Sessions BY <1>3, SessionsKnown DEF CallInv
  <2>2. WindowOf(k.task, k.time) = MinuteWindow(k.time) BY <1>3 DEF WindowOf
  <2>3. MinuteWindow(k.time) \in Windows BY <1>1, <1>2, <2>1 DEF MinuteWindow, Windows
  <2>4. MinuteWindow(k.time).coverage = BestCoverage BY DEF MinuteWindow, Window
  <2> QED BY <1>2, <2>2, <2>3, <2>4
<1>4. CASE k.task = "daily"
  <2>1. TimeOf(k.time) = DailyAt BY <1>4 DEF CallInv
  <2>2. DailyAt \in Nat BY RefreshAssumption DEF Day
  <2>3. DailyCutoff(k.time) = k.time BY <1>1, <2>1, <2>2, DayAndTime DEF DailyCutoff, MidnightOf
  <2>4. WindowOf(k.task, k.time) = DailyWindow(k.time) BY <1>4 DEF WindowOf
  <2>5. DailyWindow(k.time) \in Windows BY <1>1, <1>2, <2>1, <2>3 DEF DailyWindow, Windows
  <2>6. DailyWindow(k.time).coverage = BestCoverage BY DEF DailyWindow, Window
  <2> QED BY <1>2, <2>4, <2>5, <2>6
<1>5. CASE k.task = "refresh"
  <2>1. WindowOf(k.task, k.time) = RefreshWindow(k.time) BY <1>5 DEF WindowOf
  <2>2. RefreshWindow(k.time) \in Windows
    <3>1. CASE MinuteIsOpen(k.time)
      <4>1. SessionAt(k.time - 1) \in Sessions BY <3>1, SessionsKnown DEF MinuteIsOpen
      <4> QED BY <1>1, <1>2, <3>1, <4>1 DEF RefreshWindow, Windows
    <3>2. CASE ~ MinuteIsOpen(k.time)
      BY <1>1, <1>2, <3>2 DEF RefreshWindow, Windows
    <3> QED BY <3>1, <3>2
  <2>3. RefreshWindow(k.time).coverage = "IEX" BY DEF RefreshWindow, Window
  <2> QED BY <1>2, <2>1, <2>2, <2>3
<1> QED BY <1>3, <1>4, <1>5 DEF CallInv

\* An admission is of a request that may be asked.
LEMMA AdmitsAskable ==
  ASSUME RefreshIInv, NEW c \in Callers, Admits(c)
  PROVE  \/ UNCHANGED storeVars
         \/ \E r \in Askable : r \in Requests /\ EnqueueWithResult(r)
<1> DEFINE s == Min(call[c].todo)
           window == WindowOf(call[c].task, call[c].time)
           coverage == Routed(window.purpose, window.coverage, window.session)
<1>1. call[c].at = "asking" BY DEF Admits
<1>2. CallInv(call[c]) /\ call[c] \in Call BY DEF RefreshIInv, CallsTyped
<1>3. s \in Symbols
  <2>1. call[c].todo \in SUBSET Symbols /\ call[c].todo # {} BY <1>1, <1>2 DEF CallInv, Call
  <2>2. Symbols \subseteq Nat BY RefreshAssumption
  <2>3. s \in call[c].todo BY <2>1, <2>2, MinIsLeast
  <2> QED BY <2>1, <2>3
<1>4. window \in Windows /\ window.coverage \in Coverages BY <1>1, <1>2, AsksForWindow
<1>5. coverage \in Coverages \cup {"DENIED"} BY <1>4, RoutedFeeds
<1>6. ASSUME coverage # "DENIED", EnqueueWithResult(Asked(s, window, coverage))
      PROVE  \E r \in Askable : r \in Requests /\ EnqueueWithResult(r)
  <2>1. [window EXCEPT !.coverage = coverage] \in Windows BY <1>4, <1>5, <1>6, OtherCoverage
  <2>2. Asked(s, window, coverage) \in Askable BY <1>3, <2>1 DEF Asked, Askable
  <2>3. Askable \subseteq Requests BY RefreshAssumption DEF Askable
  <2> QED BY <1>6, <2>2, <2>3
<1>7. \/ UNCHANGED storeVars
      \/ coverage # "DENIED" /\ EnqueueWithResult(Asked(s, window, coverage))
  BY DEF Admits
<1> QED BY <1>6, <1>7

\* Every step uses the job store as its specification allows, or leaves it alone.
LEMMA RefreshUsesStore ==
  ASSUME RefreshIInv, [RefreshNext]_refreshVars
  PROVE  [Next]_vars
<1>1. ASSUME NEW c \in Callers, Admits(c) PROVE [Next]_vars
  <2>1. \/ UNCHANGED storeVars
        \/ \E r \in Askable : r \in Requests /\ EnqueueWithResult(r)
    BY <1>1, AdmitsAskable
  <2> QED BY <2>1 DEF Next, storeVars, vars
<1>2. ASSUME NEW j \in Jobs, Receives(j) PROVE [Next]_vars
  <2>1. 0 \in Lags BY JobsAssumption DEF Lags
  <2> QED BY <1>2, <2>1 DEF Receives, Next
<1>3. CASE OthersUseStore BY <1>3 DEF OthersUseStore, Next
<1>4. CASE TimePasses BY <1>4 DEF TimePasses, Next
<1>5. CASE AsksMinute \/ AsksDaily \/ AsksRefresh
  BY <1>5 DEF AsksMinute, AsksDaily, AsksRefresh, Begins, storeVars, vars
<1>6. ASSUME NEW c \in Callers, Checks(c) \/ Publishes(c) \/ Breaks(c) PROVE [Next]_vars
  BY <1>6 DEF Checks, Publishes, Breaks, storeVars, vars
<1>7. ASSUME NEW j \in Jobs, Dispatches(j) \/ Drops(j) PROVE [Next]_vars
  BY <1>7 DEF Dispatches, Drops, storeVars, vars
<1>8. CASE UNCHANGED refreshVars BY <1>8 DEF refreshVars, vars
<1> QED BY <1>1, <1>2, <1>3, <1>4, <1>5, <1>6, <1>7, <1>8 DEF RefreshNext, Calls

\* A row keeps its request.
LEMMA RowKeepsRequest ==
  ASSUME NEW row \in JobRow
  PROVE  /\ \A lag : Claimed(row, lag).request = row.request
         /\ \A lag : Renewed(row, lag).request = row.request
         /\ \A outcome, next : Released(row, outcome, next).request = row.request
         /\ Cancelled(row).request = row.request
         /\ Requeued(row).request = row.request
         /\ Later(row).request = row.request
BY DEF JobRow, Claimed, Renewed, Released, Cancelled, Requeued, Later

\* Only admissions bring requests, and those that may be asked.
LEMMA RequestsAsked ==
  ASSUME RefreshIInv, [RefreshNext]_refreshVars, NEW j \in Jobs
  PROVE  job'[j].request \in Askable \cup {None}
<1>1. /\ job \in [Jobs -> JobRow] /\ job[j] \in JobRow
      /\ job[j].request \in Askable \cup {None}
  BY DEF RefreshIInv, IInv, TypeOK
<1>2. SUFFICES job'[j] = job[j] \/ job'[j].request \in {job[j].request} \cup Askable
  BY <1>1
<1>3. ASSUME NEW c \in Callers, Admits(c)
      PROVE  job'[j] = job[j] \/ job'[j].request \in Askable
  <2>1. CASE UNCHANGED storeVars BY <2>1 DEF storeVars
  <2>2. ASSUME NEW r \in Askable, EnqueueWithResult(r)
        PROVE  job'[j] = job[j] \/ job'[j].request \in Askable
    BY <1>1, <2>2 DEF EnqueueWithResult, NoJob
  <2> QED BY <1>3, <2>1, <2>2, AdmitsAskable
<1>4. ASSUME NEW i \in Jobs, Receives(i) PROVE job'[j].request = job[j].request
  <2>1. job' = [job EXCEPT ![i] = Claimed(job[i], 0)] BY <1>4 DEF Receives, Claim
  <2> QED BY <1>1, <2>1, RowKeepsRequest
<1>5. CASE OthersUseStore
  <2>1. ASSUME NEW i \in Jobs, Cancel(i) PROVE job'[j].request = job[j].request
    BY <1>1, <2>1, RowKeepsRequest DEF Cancel
  <2>2. ASSUME NEW i \in Jobs, NEW lag, NEW g, UseLease(i, g, lag)
        PROVE  job'[j].request = job[j].request
    <3>1. ASSUME NEW target, NEW next, Finish(i, g, lag, target, next)
          PROVE  job'[j].request = job[j].request
      <4>1. PICK outcome, n : job' = [job EXCEPT ![i] = Released(job[i], outcome, n)]
        BY <3>1 DEF Finish
      <4> QED BY <1>1, <4>1, RowKeepsRequest
    <3>2. CASE Heartbeat(i, g, lag) BY <1>1, <3>2, RowKeepsRequest DEF Heartbeat
    <3> QED BY <2>2, <3>1, <3>2 DEF UseLease, Complete, ScheduleRetry, DeadLetter, Fail
  <2>3. ASSUME NEW lag, RequeueDue(lag) PROVE job'[j].request = job[j].request
    BY <1>1, <2>3, RowKeepsRequest DEF RequeueDue
  <2>4. ASSUME NEW S, NEW lag, RecoverExpired(S, lag) PROVE job'[j].request = job[j].request
    BY <1>1, <2>4, RowKeepsRequest DEF RecoverExpired
  <2> QED BY <1>5, <2>1, <2>2, <2>3, <2>4 DEF OthersUseStore
<1>6. CASE TimePasses BY <1>1, <1>6, RowKeepsRequest DEF TimePasses, Tick
<1>7. CASE AsksMinute \/ AsksDaily \/ AsksRefresh
  BY <1>7 DEF AsksMinute, AsksDaily, AsksRefresh, Begins, storeVars
<1>8. ASSUME NEW c \in Callers, Checks(c) \/ Publishes(c) \/ Breaks(c) PROVE job' = job
  BY <1>8 DEF Checks, Publishes, Breaks, storeVars
<1>9. ASSUME NEW i \in Jobs, Dispatches(i) \/ Drops(i) PROVE job' = job
  BY <1>9 DEF Dispatches, Drops, storeVars
<1>10. CASE UNCHANGED refreshVars BY <1>10 DEF refreshVars
<1> QED BY <1>3, <1>4, <1>5, <1>6, <1>7, <1>8, <1>9, <1>10 DEF RefreshNext, Calls

\* A call that goes on, turns to publishing or ends.
LEMMA OnwardTyped ==
  ASSUME NEW k \in Call, CallInv(k), NEW todo \in SUBSET Symbols, NEW created \in SUBSET Jobs,
         todo # {} => k.at = "asking"
  PROVE  Onward(k, todo, created) \in Call /\ CallInv(Onward(k, todo, created))
<1>0. NoCall \in Call BY DEF NoCall, Call
<1>1. CASE todo # {}
  <2>1. Onward(k, todo, created) = [k EXCEPT !.todo = todo, !.created = created]
    BY <1>1 DEF Onward
  <2>2. k.at = "asking" BY <1>1
  <2> QED BY <1>1, <2>1, <2>2 DEF Call, CallInv
<1>2. CASE todo = {} /\ created # {}
  <2>1. Onward(k, todo, created) = [NoCall EXCEPT !.task = k.task, !.at = "checking",
                                                  !.created = created]
    BY <1>2 DEF Onward
  <2> QED BY <1>0, <2>1 DEF Call, CallInv, NoCall
<1>3. CASE todo = {} /\ created = {}
  <2>1. Onward(k, todo, created) = NoCall BY <1>3 DEF Onward
  <2> QED BY <1>0, <2>1 DEF CallInv, NoCall
<1> QED BY <1>1, <1>2, <1>3

CallsInv == CallsTyped /\ \A c \in Callers : CallInv(call[c])

\* One call is replaced.
LEMMA OneCall ==
  ASSUME CallsInv, NEW c \in Callers, NEW k \in Call, CallInv(k), call' = [call EXCEPT ![c] = k],
         clock' \in 1..Len(Times), entitled' = entitled, messages' \subseteq Jobs
  PROVE  CallsInv'
<1>1. call' \in [Callers -> Call] /\ \A d \in Callers : CallInv(call'[d])
  BY DEF CallsInv, CallsTyped
<1> QED BY <1>1 DEF CallsInv, CallsTyped, CallInv

\* The calls stay.
LEMMA NoCallMoves ==
  ASSUME CallsInv, call' = call, clock' \in 1..Len(Times), entitled' = entitled,
         messages' \subseteq Jobs
  PROVE  CallsInv'
BY DEF CallsInv, CallsTyped, CallInv

\* A call that begins is for the present minute.
LEMMA BeginsRight ==
  ASSUME CallsInv, NEW c \in Callers, NEW task \in {"minute", "daily", "refresh"},
         NEW symbols \in SUBSET Symbols, Begins(c, task, symbols),
         task = "minute" => SessionAt(Now) # "CLOSED",
         task = "daily" => TimeOf(Now) = DailyAt
  PROVE  CallsInv'
<1>1. PICK k : k = [NoCall EXCEPT !.task = task, !.at = "asking", !.time = Now,
                                  !.todo = symbols]
  OBVIOUS
<1>2. Now \in Instants /\ Now \in Nat BY InstantsBounded DEF CallsInv, CallsTyped, Now, Instants
<1>3. /\ k.task = task /\ k.at = "asking" /\ k.time = Now /\ k.todo = symbols
      /\ k \in Call
  BY <1>1, <1>2 DEF NoCall, Call
<1>4. CallInv(k) BY <1>2, <1>3 DEF CallInv, Begins
<1>5. call' = [call EXCEPT ![c] = k] BY <1>1 DEF Begins
<1> QED BY <1>3, <1>4, <1>5, OneCall DEF Begins, CallsInv, CallsTyped

\* An admission takes the call to its next symbol or to its publications.
LEMMA AdmitsKeepsCalls ==
  ASSUME CallsInv, NEW c \in Callers, Admits(c)
  PROVE  CallsInv'
<1>1. PICK k : k = call[c] OBVIOUS
<1>2. k \in Call /\ CallInv(k) /\ k.at = "asking"
  BY <1>1 DEF CallsInv, CallsTyped, Admits
<1>3. PICK created \in SUBSET Jobs :
        call' = [call EXCEPT ![c] = Onward(k, k.todo \ {Min(k.todo)}, created)]
  <2>1. k.created \in SUBSET Jobs BY <1>2 DEF Call
  <2>2. ASSUME NEW new \in SUBSET Jobs,
               call' = [call EXCEPT ![c] =
                          Onward(@, @.todo \ {Min(call[c].todo)},
                                 IF c = "api" THEN @.created \cup new ELSE {})]
        PROVE  \E created \in SUBSET Jobs :
                 call' = [call EXCEPT ![c] = Onward(k, k.todo \ {Min(k.todo)}, created)]
    <3>1. PICK created : created = IF c = "api" THEN k.created \cup new ELSE {} OBVIOUS
    <3>2. created \in SUBSET Jobs BY <2>1, <3>1
    <3>3. call' = [call EXCEPT ![c] = Onward(k, k.todo \ {Min(k.todo)}, created)]
      BY <1>1, <2>2, <3>1
    <3> QED BY <3>2, <3>3
  <2>3. \E new \in SUBSET Jobs :
          call' = [call EXCEPT ![c] =
                     Onward(@, @.todo \ {Min(call[c].todo)},
                            IF c = "api" THEN @.created \cup new ELSE {})]
    <3>1. {} \in SUBSET Jobs
          /\ {j \in Jobs : job[j].state = "ABSENT" /\ job'[j].state = "QUEUED"} \in SUBSET Jobs
      OBVIOUS
    <3> QED BY <3>1 DEF Admits
  <2> QED BY <2>2, <2>3
<1>4. PICK next : next = Onward(k, k.todo \ {Min(k.todo)}, created) OBVIOUS
<1>5. next \in Call /\ CallInv(next)
  <2>1. k.todo \ {Min(k.todo)} \in SUBSET Symbols BY <1>2 DEF Call
  <2> QED BY <1>2, <1>4, <2>1, OnwardTyped
<1>6. call' = [call EXCEPT ![c] = next] BY <1>3, <1>4
<1>7. clock' \in 1..Len(Times) /\ entitled' = entitled /\ messages' \subseteq Jobs
  BY DEF Admits, CallsInv, CallsTyped
<1> QED BY <1>5, <1>6, <1>7, OneCall

\* What is left to publish is a call, too.
LEMMA RestTyped ==
  ASSUME CallsInv, NEW c \in Callers, NEW j
  PROVE  Rest(c, j) \in Call /\ CallInv(Rest(c, j))
<1>1. call[c] \in Call /\ CallInv(call[c]) BY DEF CallsInv, CallsTyped
<1>2. call[c].created \ {j} \in SUBSET Jobs /\ {} \in SUBSET Symbols BY <1>1 DEF Call
<1> QED BY <1>1, <1>2, OnwardTyped DEF Rest

\* Every step leaves calls that are under way for something that may be asked.
LEMMA StepKeepsCalls ==
  ASSUME CallsInv, [RefreshNext]_refreshVars
  PROVE  CallsInv'
<1>0. /\ clock \in 1..Len(Times) /\ messages \subseteq Jobs
      /\ call \in [Callers -> Call] /\ Len(Times) \in Nat
      /\ Monitored \in SUBSET Symbols /\ Researched \in SUBSET Symbols
      /\ "control" \in Callers /\ "api" \in Callers
  BY RefreshAssumption DEF CallsInv, CallsTyped, Callers
<1>1. CASE AsksMinute BY <1>0, <1>1, BeginsRight DEF AsksMinute
<1>2. CASE AsksDaily BY <1>0, <1>2, BeginsRight DEF AsksDaily
<1>3. CASE AsksRefresh BY <1>0, <1>3, BeginsRight DEF AsksRefresh
<1>4. ASSUME NEW c \in Callers, Admits(c) PROVE CallsInv'
  BY <1>4, AdmitsKeepsCalls
<1>5. ASSUME NEW c \in Callers, Checks(c) PROVE CallsInv'
  <2>1. PICK j \in call[c].created :
          call' = [call EXCEPT ![c] = IF job[j].state = "QUEUED"
                                       THEN [@ EXCEPT !.at = "publishing", !.next = j]
                                       ELSE Rest(c, j)]
    BY <1>5 DEF Checks
  <2>2. PICK k : k = IF job[j].state = "QUEUED"
                     THEN [call[c] EXCEPT !.at = "publishing", !.next = j] ELSE Rest(c, j)
    OBVIOUS
  <2>3. k \in Call /\ CallInv(k)
    <3>1. call[c] \in Call /\ j \in Jobs BY <1>0, <2>1 DEF Call
    <3>2. CASE job[j].state = "QUEUED" BY <2>2, <3>1, <3>2 DEF Call, CallInv
    <3>3. CASE job[j].state # "QUEUED" BY <2>2, <3>3, RestTyped
    <3> QED BY <3>2, <3>3
  <2>4. call' = [call EXCEPT ![c] = k] BY <2>1, <2>2
  <2> QED BY <1>0, <1>5, <2>3, <2>4, OneCall DEF Checks
<1>6. ASSUME NEW c \in Callers, Publishes(c) PROVE CallsInv'
  <2>1. PICK k : k = Rest(c, call[c].next) OBVIOUS
  <2>2. k \in Call /\ CallInv(k) BY <2>1, RestTyped
  <2>3. call' = [call EXCEPT ![c] = k] BY <1>6, <2>1 DEF Publishes
  <2>4. messages' \subseteq Jobs
    <3>1. call[c].next \in Jobs BY <1>6 DEF Publishes, CallsInv, CallInv
    <3> QED BY <1>0, <1>6, <3>1 DEF Publishes
  <2> QED BY <1>0, <1>6, <2>2, <2>3, <2>4, OneCall DEF Publishes
<1>7. ASSUME NEW c \in Callers, Breaks(c) PROVE CallsInv'
  <2>1. NoCall \in Call /\ CallInv(NoCall) BY DEF NoCall, Call, CallInv
  <2> QED BY <1>0, <1>7, <2>1, OneCall DEF Breaks
<1>8. ASSUME NEW j \in Jobs, Dispatches(j) \/ Receives(j) \/ Drops(j) PROVE CallsInv'
  <2>1. messages' \subseteq Jobs /\ call' = call /\ clock' = clock /\ entitled' = entitled
    BY <1>0, <1>8 DEF Dispatches, Receives, Drops
  <2> QED BY <1>0, <2>1, NoCallMoves
<1>9. CASE OthersUseStore
  BY <1>0, <1>9, NoCallMoves DEF OthersUseStore
<1>10. CASE TimePasses
  <2>1. clock' = Min({clock + 1, Len(Times)}) /\ UNCHANGED <<entitled, call, messages>>
    BY <1>10 DEF TimePasses
  <2>2. {clock + 1, Len(Times)} \in SUBSET Nat /\ {clock + 1, Len(Times)} # {} BY <1>0
  <2>3. clock' \in {clock + 1, Len(Times)} BY <2>1, <2>2, MinIsLeast
  <2>4. clock' <= Len(Times)
    <3>1. \E n \in {clock + 1, Len(Times)} : \A m \in {clock + 1, Len(Times)} : n <= m
      BY <2>2, LeastNatural
    <3>2. \A m \in {clock + 1, Len(Times)} : Min({clock + 1, Len(Times)}) <= m
      BY <3>1 DEF Min
    <3> QED BY <2>1, <3>2
  <2>5. clock' \in 1..Len(Times) BY <1>0, <2>3, <2>4
  <2> QED BY <1>0, <2>1, <2>5, NoCallMoves
<1>11. CASE UNCHANGED refreshVars BY <1>0, <1>11, NoCallMoves DEF refreshVars
<1> QED
  BY <1>1, <1>2, <1>3, <1>4, <1>5, <1>6, <1>7, <1>8, <1>9, <1>10, <1>11 DEF RefreshNext, Calls

\* The invariant of the composition.
LEMMA RefreshIInvHolds == RefreshSpec => []RefreshIInv
<1>1. RefreshInit => RefreshIInv
  <2>1. ASSUME RefreshInit PROVE RefreshIInv
    <3>1. NoCall \in Call /\ CallInv(NoCall) BY DEF NoCall, Call, CallInv
    <3>2. CallsTyped /\ \A c \in Callers : CallInv(call[c])
      BY <2>1, <3>1, InstantsBounded, RefreshAssumption DEF RefreshInit, CallsTyped
    <3>3. \A j \in Jobs : job[j].request \in Askable \cup {None}
      BY <2>1 DEF RefreshInit, Init, NoJob
    <3> QED BY <2>1, <3>2, <3>3, InitIInv DEF RefreshInit, RefreshIInv
  <2> QED BY <2>1
<1>2. RefreshIInv /\ [RefreshNext]_refreshVars => RefreshIInv'
  <2>1. ASSUME RefreshIInv, [RefreshNext]_refreshVars PROVE RefreshIInv'
    <3>1. [Next]_vars BY <2>1, RefreshUsesStore
    <3>2. IInv' BY <2>1, <3>1, NextIInv DEF RefreshIInv
    <3>3. CallsInv' BY <2>1, StepKeepsCalls DEF RefreshIInv, CallsInv
    <3>4. \A j \in Jobs : job'[j].request \in Askable \cup {None} BY <2>1, RequestsAsked
    <3>5. (\A j \in Jobs : job[j].request \in Askable \cup {None})' BY <3>4 DEF Askable
    <3> QED BY <3>2, <3>3, <3>5 DEF RefreshIInv, CallsInv
  <2> QED BY <2>1
<1> QED BY <1>1, <1>2, PTL DEF RefreshSpec

\* The schedules and the operator's refresh use the job store as its
\* specification allows, whatever they interleave with.
THEOREM RefreshImplementsStore == RefreshSpec => Spec
<1>1. RefreshInit => Init BY DEF RefreshInit
<1>2. RefreshIInv /\ [RefreshNext]_refreshVars => [Next]_vars
  <2>1. ASSUME RefreshIInv, [RefreshNext]_refreshVars PROVE [Next]_vars
    BY <2>1, RefreshUsesStore
  <2> QED BY <2>1
<1> QED BY <1>1, <1>2, RefreshIInvHolds, PTL DEF RefreshSpec, Spec

\* A job that exists is for something that may be asked.
LEMMA RowsAskable ==
  ASSUME RefreshIInv, NEW j \in Jobs, job[j].state # "ABSENT"
  PROVE  /\ job[j].request \in Askable
         /\ job[j].request.symbol \in Symbols /\ job[j].request.window \in Windows
         /\ job[j].request = [symbol |-> job[j].request.symbol, window |-> job[j].request.window]
<1>1. job[j].request # None
  <2>1. job[j].request \in Requests BY DEF RefreshIInv, IInv, RowInv
  <2> QED BY <2>1, JobsAssumption
<1>2. job[j].request \in Askable BY <1>1 DEF RefreshIInv
<1> QED BY <1>2 DEF Askable

\* Two days that begin less than a day apart are one.
LEMMA SameDay ==
  ASSUME NEW d \in Int, NEW e \in Int, NEW at \in Int,
         (d * Day + at) - (e * Day + at) < Day, (e * Day + at) - (d * Day + at) < Day
  PROVE  d = e
<1>1. 1440 * d - 1440 * e < 1440 /\ 1440 * e - 1440 * d < 1440 BY DEF Day
<1>2. d - e < 1 /\ e - d < 1 BY <1>1
<1> QED BY <1>2

\* The windows of one kind fall apart: those that overlap end together.
LEMMA OverlapEndsTogether ==
  ASSUME NEW v \in Windows, NEW w \in Windows, v.timeframe = w.timeframe,
         v.purpose = w.purpose, Overlap(v, w)
  PROVE  /\ v.to = w.to /\ v.from = w.from
<1>0. /\ v.from \in Int /\ v.to \in Int /\ w.from \in Int /\ w.to \in Int
      /\ v.from < w.to /\ w.from < v.to
  BY WindowKinds DEF Overlap
<1>1. CASE v.timeframe = "1Min"
  <2>1. v.from = v.to - 1 /\ w.from = w.to - 1 BY <1>1, WindowKinds
  <2> QED BY <1>0, <2>1
<1>2. CASE v.timeframe = "1Day"
  <2>0. DailyAt \in Int /\ Day \in Int BY RefreshAssumption DEF Day
  <2>1. v.from = v.to - Day /\ w.from = w.to - Day BY <1>2, WindowKinds
  <2>2. v.to - w.to < Day /\ w.to - v.to < Day BY <1>0, <2>0, <2>1
  <2>3. \E at \in Int : (\E d \in Int : v.to = d * Day + at) /\ (\E d \in Int : w.to = d * Day + at)
    <3>1. CASE v.purpose = "RESEARCH"
      <4>1. \E d \in Int : v.to = d * Day + DailyAt BY <1>2, <3>1, WindowKinds
      <4>2. \E d \in Int : w.to = d * Day + DailyAt BY <1>2, <3>1, WindowKinds
      <4> QED BY <2>0, <4>1, <4>2
    <3>2. CASE v.purpose # "RESEARCH"
      <4>1. \E d \in Int : v.to = d * Day + CutoffTime BY <1>2, <3>2, WindowKinds
      <4>2. \E d \in Int : w.to = d * Day + CutoffTime BY <1>2, <3>2, WindowKinds
      <4>3. CutoffTime \in Int BY DEF CutoffTime
      <4> QED BY <4>1, <4>2, <4>3
    <3> QED BY <3>1, <3>2
  <2>4. PICK at \in Int, d \in Int, e \in Int : v.to = d * Day + at /\ w.to = e * Day + at
    BY <2>3
  <2>5. d = e BY <2>2, <2>4, SameDay
  <2> QED BY <2>1, <2>4, <2>5
<1> QED BY <1>1, <1>2, WindowKinds

\* The beat, its late repetitions and the operator's refreshes, in any order,
\* have the provider asked for the same bar of a feed once at a time.
THEOREM WatchlistAskedOnce == RefreshSpec => []AskedOnce
<1>1. ASSUME RefreshIInv PROVE AskedOnce
  <2> DEFINE v(i) == job[i].request.window
  <2>1. SUFFICES ASSUME NEW i \in Jobs, NEW j \in Jobs, Active(i), Active(j), i # j,
                        job[i].request.symbol = job[j].request.symbol,
                        v(i).timeframe = v(j).timeframe, v(i).purpose = v(j).purpose,
                        v(i).coverage = v(j).coverage, Overlap(v(i), v(j))
                 PROVE  v(i).to = v(j).to /\ v(i).session # v(j).session
    BY DEF AskedOnce
  <2>2. /\ v(i) \in Windows /\ v(j) \in Windows
        /\ job[i].request = [symbol |-> job[i].request.symbol, window |-> v(i)]
        /\ job[j].request = [symbol |-> job[j].request.symbol, window |-> v(j)]
    BY <1>1, <2>1, RowsAskable DEF Active, ActiveStates
  <2>3. v(i).to = v(j).to /\ v(i).from = v(j).from BY <2>1, <2>2, OverlapEndsTogether
  <2>4. ASSUME v(i).session = v(j).session PROVE FALSE
    <3>1. v(i) = v(j)
      <4>1. /\ v(i) = Window(v(i).timeframe, v(i).from, v(i).to, v(i).purpose, v(i).session,
                             v(i).coverage)
            /\ v(j) = Window(v(j).timeframe, v(j).from, v(j).to, v(j).purpose, v(j).session,
                             v(j).coverage)
        BY <2>2, WindowKinds
      <4> QED BY <2>1, <2>3, <2>4, <4>1
    <3>2. job[i].request = job[j].request BY <2>1, <2>2, <3>1
    <3>3. OneActivePerRequest BY <1>1 DEF RefreshIInv, IInv
    <3> QED BY <2>1, <3>2, <3>3 DEF OneActivePerRequest
  <2> QED BY <2>3, <2>4
<1> QED BY <1>1, RefreshIInvHolds, PTL
\* A bar is of a minute or of a trading day, stamped with the day's midnight.
BarInv(b) ==
  /\ b.at \in Int /\ b.at <= Times[Len(Times)]
  /\ DayOf(b.at) \in TradingDays
  /\ b.timeframe \in {"1Min", "1Day"}
  /\ b.timeframe = "1Day" => b.at = MidnightOf(DayOf(b.at))

\* Each stored bar is one of those.
LEMMA BarsShaped ==
  ASSUME RefreshIInv, NEW b \in bars
  PROVE  BarInv(b)
<1>1. PICK j \in Jobs : job[j].state = "SUCCEEDED" /\ b = BarOf(j) BY DEF bars
<1>2. DayOf(b.at) \in TradingDays BY DEF bars
<1>3. PICK w \in Windows : w = job[j].request.window BY <1>1, RowsAskable
<1>4. b.timeframe = w.timeframe
      /\ b.at = IF w.timeframe = "1Day" THEN MidnightOf(DayOf(w.to)) ELSE w.from
  BY <1>1, <1>3 DEF BarOf, MidnightOf
<1>5. w.from \in Int /\ w.to \in Int /\ w.to <= Times[Len(Times)] BY WindowKinds
<1>6. Times[Len(Times)] \in Int BY InstantsBounded
<1>7. CASE w.timeframe = "1Min"
  <2>1. b.at = w.to - 1 BY <1>4, <1>7, WindowKinds
  <2>2. b.at \in Int /\ b.at <= Times[Len(Times)] BY <1>5, <1>6, <2>1
  <2> QED BY <1>2, <1>4, <1>7, <2>2 DEF BarInv
<1>8. CASE w.timeframe = "1Day"
  <2>1. PICK u, d, n : u = w.to /\ d = DayOf(u) /\ n = MidnightOf(d) OBVIOUS
  <2>2. u \in Int /\ d \in Int BY <1>5, <2>1, DayTypes
  <2>3. n \in Int /\ DayOf(n) = d BY <2>1, <2>2, Midnight
  <2>4. n <= u BY <2>1, <2>2, DayBegins
  <2>5. b.at = n BY <1>4, <1>8, <2>1
  <2>6. n <= Times[Len(Times)] BY <1>5, <1>6, <2>1, <2>3, <2>4
  <2> QED BY <1>2, <1>4, <1>8, <2>1, <2>3, <2>5, <2>6 DEF BarInv
<1> QED BY <1>7, <1>8, WindowKinds

\* The reader's order: the date, the kind, the time of the day.
Lexical(d, k, t, e, l, u) == \/ d < e
                             \/ d = e /\ k < l
                             \/ d = e /\ k = l /\ t < u

\* The order as a number.
Number(d, k, t) == (d * 3 + k) * Day + t
Rank(b) == Number(DayOf(b.at), Kind(b), TimeOf(b.at))
LastRank == Number(DayOf(Times[Len(Times)]), 2, Day - 1)

\* The number orders as the reader does.
LEMMA NumberOrders ==
  \A d, e \in Int, k, l \in 0..2, t, u \in Minutes :
    Lexical(d, k, t, e, l, u) <=> Number(d, k, t) < Number(e, l, u)
<1> SUFFICES ASSUME NEW d \in Int, NEW e \in Int, NEW k \in 0..2, NEW l \in 0..2,
                    NEW t \in Minutes, NEW u \in Minutes
             PROVE  Lexical(d, k, t, e, l, u) <=> Number(d, k, t) < Number(e, l, u)
  OBVIOUS
<1>1. CASE d < e BY <1>1 DEF Lexical, Number, Minutes, Day
<1>2. CASE d > e BY <1>2 DEF Lexical, Number, Minutes, Day
<1>3. CASE d = e BY <1>3 DEF Lexical, Number, Minutes, Day
<1> QED BY <1>1, <1>2, <1>3

\* And is bounded by that of a later day's end.
LEMMA NumberBounded ==
  \A d, e \in Int, k \in 0..2, t \in Minutes :
    Number(d, k, t) \in Int /\ (d <= e => Number(d, k, t) <= Number(e, 2, Day - 1))
BY DEF Number, Minutes, Day

\* What a rank is made of.
LEMMA BarTypes ==
  ASSUME NEW b, BarInv(b)
  PROVE  DayOf(b.at) \in Int /\ Kind(b) \in 0..2 /\ TimeOf(b.at) \in Minutes
<1>1. DayOf(b.at) \in Int /\ TimeOf(b.at) \in Minutes BY DayTypes DEF BarInv
<1>2. Kind(b) \in {0, 1, 2} BY DEF Kind
<1> QED BY <1>1, <1>2

\* The reader's order is that of the ranks.
LEMMA RankOrders ==
  ASSUME NEW b, BarInv(b), NEW c, BarInv(c)
  PROVE  Before(b, c) <=> Rank(b) < Rank(c)
<1>1. DayOf(b.at) \in Int /\ Kind(b) \in 0..2 /\ TimeOf(b.at) \in Minutes BY BarTypes
<1>2. DayOf(c.at) \in Int /\ Kind(c) \in 0..2 /\ TimeOf(c.at) \in Minutes BY BarTypes
<1>3. Lexical(DayOf(b.at), Kind(b), TimeOf(b.at), DayOf(c.at), Kind(c), TimeOf(c.at))
        <=> Rank(b) < Rank(c)
  BY <1>1, <1>2, NumberOrders, Zenon DEF Rank
<1>4. b.at \in Int /\ c.at \in Int BY DEF BarInv
<1>5. DayOf(b.at) = DayOf(c.at) => (b.at < c.at <=> TimeOf(b.at) < TimeOf(c.at))
  BY <1>4, TimesOfDay, Zenon
<1> QED BY <1>3, <1>5, Zenon DEF Before, Lexical

\* No rank is above that of the last day's end.
LEMMA RankBounded ==
  ASSUME NEW b, BarInv(b)
  PROVE  Rank(b) \in Int /\ LastRank \in Int /\ Rank(b) <= LastRank
<1>1. DayOf(b.at) \in Int /\ Kind(b) \in 0..2 /\ TimeOf(b.at) \in Minutes BY BarTypes
<1>2. Times[Len(Times)] \in Int BY InstantsBounded
<1>3. DayOf(Times[Len(Times)]) \in Int BY <1>2, DayTypes
<1>4. DayOf(b.at) <= DayOf(Times[Len(Times)]) BY <1>2, DaysInOrder DEF BarInv
<1>5. 2 \in 0..2 /\ Day - 1 \in Minutes BY DEF Minutes, Day
<1> QED BY <1>1, <1>3, <1>4, <1>5, NumberBounded, Zenon DEF Rank, LastRank

\* The quote of a symbol is one of its bars, and none comes after it.
LEMMA LatestIsLast ==
  ASSUME RefreshIInv, NEW s \in Symbols, Readable(s) # {}
  PROVE  Latest(s) \in Readable(s) /\ \A c \in Readable(s) : ~ Before(Latest(s), c)
<1>1. \A b \in Readable(s) : BarInv(b) BY BarsShaped DEF Readable
<1>2. PICK S : S = {Rank(b) : b \in Readable(s)} OBVIOUS
<1>3. S \in SUBSET Int /\ S # {} /\ LastRank \in Int /\ \A n \in S : n <= LastRank
  <2>1. \A b \in Readable(s) : Rank(b) \in Int /\ LastRank \in Int /\ Rank(b) <= LastRank
    BY <1>1, RankBounded
  <2> QED BY <1>2, <2>1
<1>4. PICK n \in S : \A m \in S : n >= m BY <1>3, GreatestInteger
<1>5. PICK b \in Readable(s) : n = Rank(b) BY <1>2, <1>4
<1>6. \A c \in Readable(s) : ~ Before(b, c)
  <2> TAKE c \in Readable(s)
  <2>1. Rank(b) >= Rank(c) BY <1>2, <1>4, <1>5
  <2>2. Rank(b) \in Int /\ Rank(c) \in Int BY <1>1, RankBounded
  <2>3. Before(b, c) <=> Rank(b) < Rank(c) BY <1>1, RankOrders
  <2> QED BY <2>1, <2>2, <2>3
<1> QED BY <1>6 DEF Latest

\* A trading day has its close.
LEMMA TradingDaysClose == \A d \in TradingDays : ClosesAt[d] \in Closes
BY RefreshAssumption DEF Closes

\* A day's bar has the kind 1, a minute after the close the kind 2, and every
\* other minute the kind 0.
LEMMA KindsOfBars ==
  ASSUME NEW b, BarInv(b)
  PROVE  /\ ClosesAt[DayOf(b.at)] \in Closes
         /\ Kind(b) = 1 => b.timeframe = "1Day" /\ b.at = MidnightOf(DayOf(b.at))
         /\ Kind(b) = 2 => b.timeframe = "1Min" /\ TimeOf(b.at) >= ClosesAt[DayOf(b.at)]
         /\ Kind(b) = 0 => /\ b.timeframe = "1Min"
                           /\ \/ TimeOf(b.at) < ClosesAt[DayOf(b.at)]
                              \/ SessionOf(b) = "OVERNIGHT"
<1>1. PICK close, t : close = ClosesAt[DayOf(b.at)] /\ t = TimeOf(b.at) OBVIOUS
<1>2. close \in Closes BY <1>1, TradingDaysClose DEF BarInv
<1>3. t \in Minutes BY <1>1, BarTypes
<1>4. CASE b.timeframe = "1Day" BY <1>1, <1>2, <1>4 DEF Kind, SessionOf, BarInv
<1>5. CASE b.timeframe = "1Min"
  <2>1. SessionOf(b) = CASE t \in 240..569           -> "PRE_MARKET"
                         [] t >= 570 /\ t < close    -> "REGULAR"
                         [] t >= close /\ t < 1200   -> "AFTER_HOURS"
                         [] OTHER                    -> "OVERNIGHT"
    BY <1>1, <1>5 DEF SessionOf, SessionAt, BarInv
  <2>2. SessionOf(b) = "AFTER_HOURS" => t >= close
    <3>1. ASSUME t < close PROVE SessionOf(b) # "AFTER_HOURS"
      <4>1. ~ (t >= close) BY <1>2, <1>3, <3>1 DEF Minutes, Day, Closes
      <4> QED BY <2>1, <4>1
    <3> QED BY <1>2, <1>3, <3>1 DEF Minutes, Day, Closes
  <2>3. SessionOf(b) # "AFTER_HOURS" => t < close \/ SessionOf(b) = "OVERNIGHT"
    <3>1. ASSUME t >= close, SessionOf(b) # "AFTER_HOURS" PROVE SessionOf(b) = "OVERNIGHT"
      <4>1. ~ (t \in 240..569) /\ ~ (t < close)
        BY <1>2, <1>3, <3>1 DEF Minutes, Day, Closes
      <4> QED BY <2>1, <3>1, <4>1
    <3> QED BY <1>2, <1>3, <3>1 DEF Minutes, Day, Closes
  <2>4. Kind(b) = IF SessionOf(b) = "AFTER_HOURS" THEN 2 ELSE 0 BY <1>5 DEF Kind
  <2> QED BY <1>1, <1>2, <1>5, <2>2, <2>3, <2>4
<1> QED BY <1>4, <1>5 DEF BarInv

\* A bar ends after its stamp and on its day, or at the midnight after.
LEMMA EndsOnItsDay ==
  ASSUME NEW b, BarInv(b)
  PROVE  /\ Ends(b) = IF b.timeframe = "1Day" THEN b.at + ClosesAt[DayOf(b.at)] ELSE b.at + 1
         /\ Ends(b) \in Int /\ b.at < Ends(b) /\ Ends(b) <= MidnightOf(DayOf(b.at)) + Day
<1>1. PICK n, t, close : n = MidnightOf(DayOf(b.at)) /\ t = TimeOf(b.at) /\ close = ClosesAt[DayOf(b.at)]
  OBVIOUS
<1>2. n \in Int BY <1>1, BarTypes, Midnight
<1>3. t \in Minutes /\ close \in Closes BY <1>1, BarTypes, KindsOfBars
<1>4. b.at = n + t BY <1>1, DayAndTime DEF BarInv
<1>5. b.timeframe = "1Day" => b.at = n BY <1>1 DEF BarInv
<1>6. Ends(b) = IF b.timeframe = "1Day" THEN b.at + close ELSE b.at + 1 BY <1>1 DEF Ends
<1>7. Ends(b) \in Int /\ b.at < Ends(b) /\ Ends(b) <= n + Day
  BY <1>2, <1>3, <1>4, <1>5, <1>6 DEF Minutes, Closes, Day
<1> QED BY <1>1, <1>6, <1>7

\* A bar that does not come before another one ends no earlier, but that an
\* overnight minute comes before the others of its day.
LEMMA LaterEndsLater ==
  ASSUME NEW b, BarInv(b), NEW c, BarInv(c), ~ Before(c, b)
  PROVE  \/ Ends(b) <= Ends(c)
         \/ SessionOf(b) = "OVERNIGHT" /\ DayOf(b.at) = DayOf(c.at)
<1>1. DayOf(b.at) \in Int /\ DayOf(c.at) \in Int BY BarTypes
<1>2. Kind(b) \in 0..2 /\ Kind(c) \in 0..2 BY BarTypes
<1>3. ~ (DayOf(c.at) < DayOf(b.at)) BY DEF Before
<1>4. b.at \in Int /\ c.at \in Int BY DEF BarInv
<1>5. Ends(b) \in Int /\ Ends(c) \in Int /\ c.at < Ends(c) BY EndsOnItsDay
<1>6. CASE DayOf(b.at) < DayOf(c.at)
  <2>1. PICK m, n : m = MidnightOf(DayOf(b.at)) /\ n = MidnightOf(DayOf(c.at)) OBVIOUS
  <2>2. m \in Int /\ n \in Int BY <1>1, <2>1, Midnight
  <2>3. m + Day <= n BY <1>1, <1>6, <2>1, NextMidnight
  <2>4. Ends(b) <= m + Day BY <2>1, EndsOnItsDay
  <2>5. n <= c.at BY <1>4, <2>1, DayBegins
  <2>6. m + Day \in Int BY <2>2 DEF Day
  <2>7. Ends(b) <= Ends(c) BY <1>4, <1>5, <2>2, <2>3, <2>4, <2>5, <2>6
  <2> QED BY <2>7
<1>7. CASE DayOf(b.at) = DayOf(c.at)
  <2>1. PICK n, t, u, close : /\ n = MidnightOf(DayOf(b.at)) /\ close = ClosesAt[DayOf(b.at)]
                              /\ t = TimeOf(b.at) /\ u = TimeOf(c.at)
    OBVIOUS
  <2>2. n \in Int BY <1>1, <2>1, Midnight
  <2>3. t \in Minutes /\ u \in Minutes /\ close \in Closes
    BY <2>1, BarTypes, KindsOfBars
  <2>4. b.at = n + t BY <1>4, <2>1, DayAndTime
  <2>5. c.at = n + u BY <1>4, <1>7, <2>1, DayAndTime
  <2>6. Ends(b) = IF b.timeframe = "1Day" THEN b.at + close ELSE b.at + 1
    BY <2>1, EndsOnItsDay
  <2>7. Ends(c) = IF c.timeframe = "1Day" THEN c.at + close ELSE c.at + 1
    BY <1>7, <2>1, EndsOnItsDay
  <2>8. /\ Kind(b) = 1 => b.timeframe = "1Day" /\ b.at = n
        /\ Kind(b) = 0 => b.timeframe = "1Min" /\ (t < close \/ SessionOf(b) = "OVERNIGHT")
        /\ Kind(b) = 2 => b.timeframe = "1Min"
    BY <2>1, KindsOfBars
  <2>9. /\ Kind(c) = 1 => c.timeframe = "1Day" /\ c.at = n
        /\ Kind(c) = 0 => c.timeframe = "1Min"
        /\ Kind(c) = 2 => c.timeframe = "1Min" /\ u >= close
    BY <1>7, <2>1, KindsOfBars
  <2>10. ~ (Kind(c) < Kind(b)) /\ (Kind(b) = Kind(c) => ~ (c.at < b.at))
    BY <1>7 DEF Before
  <2>11. CASE Kind(b) = Kind(c)
    <3>1. b.timeframe = c.timeframe BY <1>2, <2>8, <2>9, <2>11
    <3>2. b.at <= c.at BY <1>4, <2>10, <2>11
    <3> QED BY <1>4, <2>3, <2>6, <2>7, <3>1, <3>2 DEF Closes
  <2>12. CASE Kind(b) = 0 /\ Kind(c) # 0
    <3>1. SUFFICES ASSUME SessionOf(b) # "OVERNIGHT" PROVE Ends(b) <= Ends(c) BY <1>7
    <3>2. t < close /\ Ends(b) = n + t + 1 BY <2>4, <2>6, <2>8, <2>12, <3>1
    <3>3. CASE Kind(c) = 1
      <4>1. Ends(c) = n + close BY <2>7, <2>9, <3>3
      <4> QED BY <2>2, <2>3, <3>2, <4>1 DEF Minutes, Closes, Day
    <3>4. CASE Kind(c) = 2
      <4>1. Ends(c) = n + u + 1 /\ u >= close BY <2>5, <2>7, <2>9, <3>4
      <4> QED BY <2>2, <2>3, <3>2, <4>1 DEF Minutes, Closes, Day
    <3> QED BY <1>2, <2>12, <3>3, <3>4
  <2>13. CASE Kind(b) = 1 /\ Kind(c) = 2
    <3>1. Ends(b) = n + close BY <2>6, <2>8, <2>13
    <3>2. Ends(c) = n + u + 1 /\ u >= close BY <2>5, <2>7, <2>9, <2>13
    <3> QED BY <2>2, <2>3, <3>1, <3>2 DEF Minutes, Closes, Day
  <2> QED BY <1>2, <2>10, <2>11, <2>12, <2>13
<1> QED BY <1>1, <1>3, <1>6, <1>7

\* The quote shown is the newest known, but that an overnight minute waits for
\* midnight: no daily bar hides a newer after-hours minute, and no minute a
\* completed day, whatever the days, their closes and the entitlement.
THEOREM QuoteIsNewest == RefreshSpec => []NewestIsShown
<1>1. ASSUME RefreshIInv PROVE NewestIsShown
  <2>1. SUFFICES ASSUME NEW s \in Symbols, NEW b \in Readable(s)
                 PROVE  \/ Ends(b) <= Ends(Latest(s))
                        \/ SessionOf(b) = "OVERNIGHT" /\ DayOf(b.at) = DayOf(Latest(s).at)
    BY DEF NewestIsShown
  <2>2. PICK c : c = Latest(s) OBVIOUS
  <2>3. c \in Readable(s) /\ ~ Before(c, b) BY <1>1, <2>2, LatestIsLast
  <2>4. BarInv(b) /\ BarInv(c) BY <1>1, <2>3, BarsShaped DEF Readable
  <2> QED BY <2>2, <2>3, <2>4, LaterEndsLater
<1> QED BY <1>1, RefreshIInvHolds, PTL
=============================================================================
