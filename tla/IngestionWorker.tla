--------------------------- MODULE IngestionWorker ---------------------------
(***************************************************************************)
(* Workers that execute paged ingestion jobs:                              *)
(* execute_alpaca_ingestion_job of workers/ingestion_tasks.py, composed    *)
(* with the job store (IngestionJobs) whose leases it holds and with the   *)
(* cursor that the store's advance_cursor keeps.                           *)
(*                                                                         *)
(* For each page of its window a worker fetches the page, renews its       *)
(* lease, and then commits in four transactions: the raw object, the       *)
(* normalized record with its facts, the quality observation, the cursor.  *)
(* The process may be lost between any two of them, and a worker that      *)
(* stalled goes on when its lease is long gone.                            *)
(*                                                                         *)
(* A celery message carries the job id only, is redelivered, and is        *)
(* published again every few seconds: any idle worker may try to claim any *)
(* job at any time.                                                        *)
(***************************************************************************)
EXTENDS IngestionJobs

CONSTANTS
  Workers,  \* celery processes
  Pages     \* pages[j]: how many pages the provider has for the job's window

ASSUME WorkerAssumption == Pages \in [Jobs -> Nat \ {0}]

VARIABLES
  cursor,   \* table ingestion_cursor, at the scope of each job
  archive,  \* archive[j][p]: what is committed of page p
  worker    \* worker[w]: the execution in progress

jobVars == <<job, ledger, deadLetters>>
allVars == <<job, ledger, deadLetters, cursor, archive, worker>>

-----------------------------------------------------------------------------
Facets == {"raw", "facts", "quality"}

\* page is the one the cursor's next_page_token leads to: no token, page 1.
Cursor == [generation : Nat, page : Nat \ {0}]

Stages == {"idle", "claimed", "fetching", "fetched", "renewed", "stored",
           "normalized", "assessed", "done"}

Worker == [at : Stages, job : Jobs \cup {None}, lease : Nat,
           generation : Nat, page : Nat \ {0}]

Idle == [at |-> "idle", job |-> None, lease |-> 0, generation |-> 0, page |-> 1]

NoCursor == [generation |-> 0, page |-> 1]

WorkerInit == /\ Init
              /\ cursor = [j \in Jobs |-> NoCursor]
              /\ archive = [j \in Jobs |-> [p \in 1..Pages[j] |-> {}]]
              /\ worker = [w \in Workers |-> Idle]

-----------------------------------------------------------------------------
Goes(w, from, to) == /\ worker[w].at = from
                     /\ worker' = [worker EXCEPT ![w].at = to]

Leaves(w) == worker' = [worker EXCEPT ![w] = Idle]

\* The worker reports the end of its attempt and returns.  The store may refuse
\* the lease; then nothing is written.
Reports(w, Ends(_, _, _)) ==
  /\ \E lag \in Lags :
       \/ Ends(worker[w].job, worker[w].lease, lag)
       \/ ~ LeaseValid(worker[w].job, worker[w].lease, lag) /\ UNCHANGED jobVars
  /\ Leaves(w)
  /\ UNCHANGED <<cursor, archive>>

Claims(w) ==
  /\ worker[w].at = "idle"
  /\ \E j \in Jobs, lag \in Lags :
       /\ Claim(j, lag)
       /\ worker' = [worker EXCEPT ![w].at = "claimed", ![w].job = j,
                                   ![w].lease = job[j].generation + 1]
  /\ UNCHANGED <<cursor, archive>>

\* Wrong provider, or coverage the entitlement snapshot does not grant.
Refuses(w) == worker[w].at = "claimed" /\ Reports(w, Fail)

\* _job_cursor
ReadsCursor(w) ==
  LET c == cursor[worker[w].job]
  IN /\ worker[w].at = "claimed"
     /\ worker' = [worker EXCEPT ![w].at = "fetching", ![w].generation = c.generation,
                                 ![w].page = c.page]
     /\ UNCHANGED <<jobVars, cursor, archive>>

Fetches(w) == Goes(w, "fetching", "fetched") /\ UNCHANGED <<jobVars, cursor, archive>>

\* What fetch_batch raises: before the call, instead of an answer, by its status.
FetchErrors == {"UNSUPPORTED_DATASET", "MISSING_CREDENTIALS", "TIMEOUT", "RATE_LIMIT",
                "INVALID_AUTH", "INVALID_SECURITY", "PROVIDER_5XX", "NETWORK"}

Retryable == {"TIMEOUT", "NETWORK", "RATE_LIMIT", "PROVIDER_5XX",
              "TEMPORARY_DATABASE", "TEMPORARY_OBJECT_STORE"}

\* IngestionCoordinator.run: a transport error is retried or final by its class.
FetchFails(w) ==
  /\ worker[w].at = "fetching"
  /\ \E error \in FetchErrors :
       \/ error \in Retryable /\ Reports(w, ScheduleRetry)
       \/ error \notin Retryable /\ Reports(w, Fail)

\* A Retry-After that is neither seconds nor a date, or a rate limit that is no
\* number, is a ValueError: the job is a dead letter, however well the call went.
MisreadsHeader(w) == worker[w].at = "fetching" /\ Reports(w, DeadLetter)

\* persist_with_lease renews the lease first and gives up without one.
RenewsLease(w) ==
  \E lag \in Lags :
    /\ Goes(w, "fetched", "renewed")
    /\ Heartbeat(worker[w].job, worker[w].lease, lag)
    /\ UNCHANGED <<cursor, archive>>

LosesLease(w) ==
  \E lag \in Lags :
    /\ worker[w].at = "fetched"
    /\ ~ LeaseValid(worker[w].job, worker[w].lease, lag)
    /\ Leaves(w)
    /\ UNCHANGED <<jobVars, cursor, archive>>

-----------------------------------------------------------------------------
(* _persist_alpaca_batch *)

Commits(w, from, to, facet) ==
  /\ Goes(w, from, to)
  /\ archive' = [archive EXCEPT ![worker[w].job][worker[w].page] = @ \cup {facet}]
  /\ UNCHANGED <<jobVars, cursor>>

StoresRaw(w) == Commits(w, "renewed", "stored", "raw")

\* Seeded fault: quality is left for after the cursor.
NormalizesOnly(w) == Commits(w, "stored", "assessed", "facts")

Normalizes(w) == Commits(w, "stored", "normalized", "facts")

AssessesQuality(w) == Commits(w, "normalized", "assessed", "quality")

\* A database or object store error is retried, a ValueError is a dead letter.
PersistFails(w) ==
  /\ worker[w].at \in {"fetched", "renewed", "stored", "normalized"}
  /\ Reports(w, ScheduleRetry) \/ Reports(w, DeadLetter)

\* The normalization outbox may have stored the facts of a raw object earlier.
NormalizedByOutbox(j, p) ==
  /\ archive[j][p] = {"raw"}
  /\ archive' = [archive EXCEPT ![j][p] = @ \cup {"facts"}]
  /\ UNCHANGED <<jobVars, cursor, worker>>

-----------------------------------------------------------------------------
(* advance_cursor and the loop over pages *)

LastPage(w) == worker[w].page = Pages[worker[w].job]

PageAfter(w) == IF LastPage(w) THEN 1 ELSE worker[w].page + 1

\* Seeded fault: generation compare-and-swap alone, without the lease.
MayAdvanceByGeneration(w, lag) == cursor[worker[w].job].generation = worker[w].generation

MayAdvance(w, lag) ==
  /\ LeaseValid(worker[w].job, worker[w].lease, lag)
  /\ cursor[worker[w].job].generation = worker[w].generation

AdvancesCursor(w) ==
  /\ worker[w].at = "assessed"
  /\ \E lag \in Lags :
       \/ /\ MayAdvance(w, lag)
          /\ cursor' = [cursor EXCEPT ![worker[w].job] =
                          [generation |-> @.generation + 1, page |-> PageAfter(w)]]
          /\ worker' = [worker EXCEPT ![w].at = IF LastPage(w) THEN "done" ELSE "fetching",
                                      ![w].generation = @ + 1, ![w].page = PageAfter(w)]
       \/ ~ MayAdvance(w, lag) /\ Leaves(w) /\ UNCHANGED cursor
  /\ UNCHANGED <<jobVars, archive>>

Completes(w) == worker[w].at = "done" /\ Reports(w, Complete)

\* The process is lost, or an exception nobody catches ends the task.
Vanishes(w) ==
  /\ worker[w].at # "idle"
  /\ Leaves(w)
  /\ UNCHANGED <<jobVars, cursor, archive>>

-----------------------------------------------------------------------------
WorkerStep(w) ==
  \/ Claims(w) \/ Refuses(w) \/ ReadsCursor(w) \/ Fetches(w) \/ FetchFails(w)
  \/ MisreadsHeader(w)
  \/ RenewsLease(w) \/ LosesLease(w) \/ StoresRaw(w) \/ Normalizes(w)
  \/ AssessesQuality(w) \/ PersistFails(w) \/ AdvancesCursor(w) \/ Completes(w)
  \/ Vanishes(w)

\* Every operation that is not a worker's: API, dispatcher and time.
StoreStep ==
  /\ \/ \E r \in Requests : EnqueueWithResult(r)
     \/ \E j \in Jobs : Cancel(j)
     \/ \E lag \in Lags : RequeueDue(lag)
     \/ \E S \in SUBSET Jobs, lag \in Lags : RecoverExpired(S, lag)
     \/ Tick
  /\ UNCHANGED <<cursor, archive, worker>>

WorkerNext == \/ \E w \in Workers : WorkerStep(w)
              \/ StoreStep
              \/ \E j \in Jobs : \E p \in 1..Pages[j] : NormalizedByOutbox(j, p)

WorkerSpec == WorkerInit /\ [][WorkerNext]_allVars

\* The store's fairness: beat runs the dispatcher, some process claims what it
\* published.  A worker that has claimed may stop anywhere.
WorkerFairness ==
  /\ WF_allVars(StoreStep /\ Tick)
  /\ WF_allVars(StoreStep /\ RequeueDue(0))
  /\ \A j \in Jobs :
       WF_allVars(StoreStep /\ \E S \in SUBSET Jobs : j \in S /\ RecoverExpired(S, 0))
  /\ \A j \in Jobs :
       SF_allVars(\E w \in Workers : Claims(w) /\ job[j].state = "QUEUED" /\ job'[j].state = "RUNNING")
  /\ \A w \in Workers : WF_allVars(WorkerStep(w) /\ worker[w].at # "idle")

FairWorkerSpec == WorkerSpec /\ WorkerFairness
-----------------------------------------------------------------------------
(* Properties *)

Stored(j, p) == archive[j][p] = Facets

\* advance_cursor comes last: whatever worker moved it there, under which lease
\* and after which losses, all the pages behind the cursor are committed whole.
CursorCoversPages ==
  \A j \in Jobs : cursor[j].generation > 0 =>
    \A p \in 1..Pages[j] : cursor[j].page = 1 \/ p < cursor[j].page => Stored(j, p)

\* A job that succeeded has every page of its window, with its facts and quality,
\* though its pages were committed by several attempts.
SuccessIsComplete ==
  \A j \in Jobs : job[j].state \in {"SUCCEEDED", "COMPLETED_WITH_GAPS"} =>
    \A p \in 1..Pages[j] : Stored(j, p)

\* Progress that is recorded is progress that is committed: behind the cursor and
\* in a finished job no page is missing, whichever attempts wrote them and were lost.
ProgressIsCommitted == CursorCoversPages /\ SuccessIsComplete

\* A cursor is moved only by the worker of the job's present attempt, while the job
\* runs: a stale worker moves nothing.
CursorMovedByHolder ==
  [][\A j \in Jobs : cursor'[j] # cursor[j] =>
       /\ Running(j)
       /\ \E w \in Workers : /\ worker[w].job = j
                             /\ worker[w].lease = job[j].generation
                             /\ worker[w].at = "assessed"
                             /\ worker'[w].at \in {"fetching", "done"}]_allVars

\* Every admitted job ends: an attempt renews its lease only once for each page.
JobsEnd == \A j \in Jobs : Active(j) ~> Final(j)
=============================================================================
