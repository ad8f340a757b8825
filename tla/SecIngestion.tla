---------------------------- MODULE SecIngestion ----------------------------
(***************************************************************************)
(* Workers that execute the SEC jobs (execute_sec_ingestion_job of         *)
(* workers/ingestion_tasks.py: filings with their documents, then company  *)
(* facts) and the Alpha Vantage earnings calendar                          *)
(* (execute_alpha_earnings_ingestion_job), over the job store              *)
(* (IngestionJobs) and the fact tables (infrastructure/ingestion/          *)
(* fact_store.py).                                                         *)
(*                                                                         *)
(* Every write of a SEC job is a transaction that first locks the job's    *)
(* row, checks the lease and renews it; the reads in between are not       *)
(* guarded.  The Alpha Vantage job writes in one transaction that does not *)
(* look at the lease.                                                      *)
(*                                                                         *)
(* SEC publishes filings while the jobs run.  A document's raw object is   *)
(* identified by its bytes, and its row also keeps the time it was         *)
(* fetched at: the same bytes fetched again are a conflict.                *)
(***************************************************************************)
EXTENDS IngestionJobs, FiniteSets

CONSTANTS
  Workers,     \* celery processes
  Filings,     \* accession numbers, of the forms the company's regime allows
  Accepted,    \* Accepted[f]: its acceptance time
  Page,        \* Page[f]: 1 the recent submissions, 2 the historical file
  Amendment,   \* filings whose form ends in /A
  Reported,    \* Reported[f]: the source concepts among its company facts
  DerivedFrom, \* the source concepts the derived concept is computed from
  FilingsRequest, FactsRequest, CalendarRequest,  \* the requests of one day
  SecRefuses   \* whether a provider may refuse a request or answer malformed

Concepts == UNION {Reported[f] : f \in Filings}

\* A fact is of one filing and one concept, a source concept or the derived one.
FactKeys == Filings \X (Concepts \cup {"derived"})

ASSUME SecAssumption ==
  /\ Requests = {FilingsRequest, FactsRequest, CalendarRequest}
  /\ FilingsRequest # FactsRequest
  /\ CalendarRequest \notin {FilingsRequest, FactsRequest}
  /\ Accepted \in [Filings -> Nat]
  /\ Page \in [Filings -> {1, 2}]
  /\ Amendment \subseteq Filings
  /\ IsFiniteSet(Filings) /\ IsFiniteSet(Concepts)
  /\ SecRefuses \in BOOLEAN
  /\ None \notin Filings

VARIABLES
  published, \* the filings EDGAR shows
  listed,    \* listed[j]: filings in the responses that job j archived
  assessed,  \* assessed[j]: what job j stored a quality observation of
  documents, \* filings whose document has a raw_data_object row
  filing,    \* table sec_filing: accession -> supersedes_id
  fact,      \* table financial_fact: <<accession, concept>> -> its row
  calendar,  \* table earnings_event: one event, one row for each snapshot
  fetches,   \* the clock of observed_at
  worker     \* worker[w]: the execution in progress

jobVars == <<job, ledger, deadLetters>>
tables == <<listed, assessed, documents, filing, fact, calendar>>
allVars == <<jobVars, tables, published, fetches, worker>>

-----------------------------------------------------------------------------
Stages == {"idle", "claimed", "filing", "document", "archived", "filed", "admit",
           "lineage", "facts", "calendar", "done"}

Worker == [at : Stages, job : Jobs \cup {None}, lease : Nat, page : {1, 2},
           seen : SUBSET Filings, observed : Nat,
           todo : Seq(Filings \cup FactKeys)]

Idle == [at |-> "idle", job |-> None, lease |-> 0, page |-> 1, seen |-> {},
         observed |-> 0, todo |-> <<>>]

FactRow == [available : Nat, supersedes : FactKeys \cup {None}]

EventRow == [available : Nat, supersedes : Nat \cup {None}]

Sources(fs) == UNION {{f} \X Reported[f] : f \in fs}

\* derive_available: where one filing reports all the inputs of the rule.
Derived(fs) == {f \in fs : DerivedFrom \subseteq Reported[f]} \X {"derived"}

\* What the jobs of earlier days left: filings with their documents and facts.
Ingested(fs) ==
  /\ documents = fs
  /\ filing = [f \in fs |-> None]
  /\ fact = [k \in Sources(fs) \cup Derived(fs) |-> [available |-> 0, supersedes |-> None]]

SecInit == /\ Init
           /\ published \in SUBSET Filings
           /\ listed = [j \in Jobs |-> {}]
           /\ assessed = [j \in Jobs |-> {}]
           /\ \E fs \in SUBSET (published \ Amendment) : Ingested(fs)
           /\ calendar = {}
           /\ fetches = 0
           /\ worker = [w \in Workers |-> Idle]

-----------------------------------------------------------------------------
Works(w, stage, r) == worker[w].at = stage /\ job[worker[w].job].request = r

Leaves(w) == worker' = [worker EXCEPT ![w] = Idle]

\* Seeded fault: the transaction does not look at the lease.
UnguardedTransaction(w) == UNCHANGED jobVars

\* transaction_guard, heartbeat: the row is locked, checked and renewed.
GuardedTransaction(w) == \E lag \in Lags : Heartbeat(worker[w].job, worker[w].lease, lag)

\* SecLeaseLost: the task returns and writes nothing.
LosesLease(w) ==
  /\ worker[w].at \notin {"idle", "calendar"}
  /\ \E lag \in Lags : ~ LeaseValid(worker[w].job, worker[w].lease, lag)
  /\ Leaves(w)
  /\ UNCHANGED <<jobVars, tables, published, fetches>>

Reports(w, Ends(_, _, _)) ==
  /\ \E lag \in Lags :
       \/ Ends(worker[w].job, worker[w].lease, lag)
       \/ ~ LeaseValid(worker[w].job, worker[w].lease, lag) /\ UNCHANGED jobVars
  /\ Leaves(w)
  /\ UNCHANGED <<tables, published, fetches>>

Claims(w) ==
  /\ worker[w].at = "idle"
  /\ \E j \in Jobs, lag \in Lags :
       /\ Claim(j, lag)
       /\ worker' = [worker EXCEPT ![w] = [Idle EXCEPT !.at = "claimed", !.job = j,
                                                       !.lease = job[j].generation + 1]]
  /\ UNCHANGED <<tables, published, fetches>>

\* A transport error, the object store's or the database's.
Retries(w) == worker[w].at # "idle" /\ Reports(w, ScheduleRetry)

\* A refusal of the provider, a response the normalizer does not accept, an
\* identity the security master does not know: dead_letter.
IsRefused(w) ==
  /\ SecRefuses
  /\ worker[w].at \in {"claimed", "document", "lineage", "calendar"}
  /\ Reports(w, DeadLetter)

-----------------------------------------------------------------------------
(* _persist_sec_filings *)

\* Seeded fault: a page's filings are taken to be those already on record.
KnownFilings(p) == {f \in published : Page[f] = p} \cap DOMAIN filing

FilingsOnPage(p) == {f \in published : Page[f] = p}

\* Every order the elements of xs may be listed in, each once.
Listings(xs) == {s \in [1..Cardinality(xs) -> xs] : \A x \in xs : \E n \in DOMAIN s : s[n] = x}

\* normalize_submissions and normalize_historical_submissions keep EDGAR's
\* order: the newest filing first.
InOrder(fs) ==
  {s \in Listings(fs) : \A m, n \in DOMAIN s : m < n => Accepted[s[m]] >= Accepted[s[n]]}

\* _archive_sec_batch: the envelope of a response, unique by its time.
ArchivesBatch(w, fs) ==
  /\ GuardedTransaction(w)
  /\ listed' = [listed EXCEPT ![worker[w].job] = @ \cup fs]

\* A page is fetched and archived, then its filings are read from it.
ArchivesSubmissions(w) ==
  LET p == worker[w].page
  IN /\ Works(w, "claimed", FilingsRequest)
     /\ ArchivesBatch(w, {f \in published : Page[f] = p})
     /\ \E order \in InOrder(FilingsOnPage(p)) :
          worker' = [worker EXCEPT ![w].todo = @ \o order, ![w].page = 2,
                                   ![w].at = IF p = 1 THEN "claimed" ELSE "filing"]
     /\ UNCHANGED <<assessed, documents, filing, fact, calendar, published, fetches>>

Current(w) == Head(worker[w].todo)

\* The normalized record, then the unguarded look at sec_filing: a filing on
\* record is skipped, the document of a new one is fetched.
OpensFiling(w) ==
  /\ worker[w].at = "filing" /\ worker[w].todo # <<>>
  /\ GuardedTransaction(w)
  /\ worker' = IF Current(w) \in DOMAIN filing
               THEN [worker EXCEPT ![w].todo = Tail(@)]
               ELSE [worker EXCEPT ![w].at = "document"]
  /\ UNCHANGED <<tables, published, fetches>>

\* _archive_sec_document, persist_raw_object
ArchivesDocument(w) ==
  /\ worker[w].at = "document" /\ Current(w) \notin documents
  /\ GuardedTransaction(w)
  /\ documents' = documents \cup {Current(w)}
  /\ worker' = [worker EXCEPT ![w].at = "archived"]
  /\ UNCHANGED <<listed, assessed, filing, fact, calendar, published, fetches>>

\* "immutable raw object conflict": the bytes are there with another event_time,
\* and the ValueError ends the job.
DocumentConflict(w) ==
  /\ worker[w].at = "document" /\ Current(w) \in documents
  /\ Reports(w, DeadLetter)

\* persist_filing: an amendment supersedes the latest stored one accepted before.
Superseded(f) == {g \in DOMAIN filing : Accepted[g] < Accepted[f]}

Latest(fs) == {g \in fs : \A h \in fs : Accepted[h] <= Accepted[g]}

OneOrNone(xs) == IF xs = {} THEN {None} ELSE xs

WithRow(table, key, row) ==
  [k \in DOMAIN table \cup {key} |-> IF k = key THEN row ELSE table[k]]

PersistsFiling(w) ==
  LET f == Current(w)
  IN /\ worker[w].at = "archived"
     /\ GuardedTransaction(w)
     /\ \E g \in OneOrNone(IF f \in Amendment THEN Latest(Superseded(f)) ELSE {}) :
          filing' = WithRow(filing, f, g)
     /\ worker' = [worker EXCEPT ![w].at = "filing", ![w].todo = Tail(@)]
     /\ UNCHANGED <<listed, assessed, documents, fact, calendar, published, fetches>>

\* _persist_freshness_quality, the last transaction of a page.
AssessesFilings(w) ==
  /\ worker[w].at = "filing" /\ worker[w].todo = <<>>
  /\ GuardedTransaction(w)
  /\ assessed' = [assessed EXCEPT ![worker[w].job] = @ \cup {"filings"}]
  /\ worker' = [worker EXCEPT ![w].at = "filed"]
  /\ UNCHANGED <<listed, documents, filing, fact, calendar, published, fetches>>

RenewsLease(w) ==
  /\ worker[w].at = "filed"
  /\ GuardedTransaction(w)
  /\ worker' = [worker EXCEPT ![w].at = "admit"]
  /\ UNCHANGED <<tables, published, fetches>>

\* _enqueue_sec_company_facts, after the heartbeat and not under the lease.
AdmitsFacts(w) ==
  /\ worker[w].at = "admit"
  /\ \/ EnqueueWithResult(FactsRequest)
     \/ Existing(FactsRequest) # {} /\ UNCHANGED jobVars
  /\ worker' = [worker EXCEPT ![w].at = "done"]
  /\ UNCHANGED <<tables, published, fetches>>

-----------------------------------------------------------------------------
(* _persist_sec_company_facts *)

\* The response is archived, then read for the filings its facts belong to.
FetchesFacts(w) ==
  /\ Works(w, "claimed", FactsRequest)
  /\ ArchivesBatch(w, published)
  /\ fetches' = fetches + 1
  /\ worker' = [worker EXCEPT ![w].at = "lineage", ![w].seen = published,
                              ![w].observed = fetches + 1]
  /\ UNCHANGED <<assessed, documents, filing, fact, calendar, published>>

\* normalize_company_facts, map_fact: the source facts, then the derived ones.
FactList(fs) == {s \o d : s \in Listings(Sources(fs)), d \in Listings(Derived(fs))}

LineageKnown(fs) == fs \subseteq DOMAIN filing

ChecksLineage(w) ==
  /\ worker[w].at = "lineage" /\ LineageKnown(worker[w].seen)
  /\ \E order \in FactList(worker[w].seen) :
       worker' = [worker EXCEPT ![w].at = "facts", ![w].todo = order]
  /\ UNCHANGED <<jobVars, tables, published, fetches>>

\* SecFilingDependencyUnavailable
AwaitsLineage(w) ==
  /\ worker[w].at = "lineage" /\ ~ LineageKnown(worker[w].seen)
  /\ Reports(w, ScheduleRetry)

\* Seeded fault: a fact may supersede one of the same response.
FactsSoFar(k, time) == {i \in DOMAIN fact : i[2] = k[2] /\ fact[i].available <= time}

\* persist_fact supersedes the latest row of the concept and period that became
\* available before: the two filings of one response never supersede each other.
EarlierFacts(k, time) == {i \in DOMAIN fact : i[2] = k[2] /\ fact[i].available < time}

LatestFacts(ks) == {i \in ks : \A l \in ks : fact[l].available <= fact[i].available}

PersistsFact(w) ==
  LET k == Current(w)
  IN /\ worker[w].at = "facts" /\ worker[w].todo # <<>> /\ k[1] \in DOMAIN filing
     /\ GuardedTransaction(w)
     /\ IF k \in DOMAIN fact
        THEN UNCHANGED fact
        ELSE \E s \in OneOrNone(LatestFacts(EarlierFacts(k, worker[w].observed))) :
               fact' = WithRow(fact, k, [available |-> worker[w].observed, supersedes |-> s])
     /\ worker' = [worker EXCEPT ![w].todo = Tail(@)]
     /\ UNCHANGED <<listed, assessed, documents, filing, calendar, published, fetches>>

AssessesFacts(w) ==
  /\ worker[w].at = "facts" /\ worker[w].todo = <<>>
  /\ GuardedTransaction(w)
  /\ assessed' = [assessed EXCEPT ![worker[w].job] = @ \cup {"facts"}]
  /\ worker' = [worker EXCEPT ![w].at = "done"]
  /\ UNCHANGED <<listed, documents, filing, fact, calendar, published, fetches>>

-----------------------------------------------------------------------------
(* execute_alpha_earnings_ingestion_job *)

FetchesCalendar(w) ==
  /\ Works(w, "claimed", CalendarRequest)
  /\ fetches' = fetches + 1
  /\ worker' = [worker EXCEPT ![w].at = "calendar", ![w].observed = fetches + 1]
  /\ UNCHANGED <<jobVars, tables, published>>

EarlierEvents(time) == {e.available : e \in {r \in calendar : r.available < time}}

\* persist_event: a snapshot's row supersedes the one that was available last before.
PersistsEvent(time) ==
  \E s \in OneOrNone({t \in EarlierEvents(time) : \A u \in EarlierEvents(time) : u <= t}) :
    calendar' = calendar \cup {[available |-> time, supersedes |-> s]}

\* All the rows of the snapshot in one transaction, lease or not.
StoresCalendar(w) ==
  /\ worker[w].at = "calendar"
  /\ PersistsEvent(worker[w].observed)
  /\ assessed' = [assessed EXCEPT ![worker[w].job] = @ \cup {"calendar"}]
  /\ worker' = [worker EXCEPT ![w].at = "done"]
  /\ UNCHANGED <<jobVars, listed, documents, filing, fact, published, fetches>>

-----------------------------------------------------------------------------
Succeeds(j, g, lag) == Finish(j, g, lag, "SUCCEEDED", None)

\* complete; a lost lease is a RuntimeError, and dispatch recovers the job.
Completes(w) == worker[w].at = "done" /\ Reports(w, Succeeds)

Vanishes(w) ==
  /\ worker[w].at # "idle"
  /\ Leaves(w)
  /\ UNCHANGED <<jobVars, tables, published, fetches>>

WorkerStep(w) ==
  \/ Claims(w) \/ LosesLease(w) \/ Retries(w) \/ IsRefused(w) \/ ArchivesSubmissions(w)
  \/ OpensFiling(w) \/ ArchivesDocument(w) \/ DocumentConflict(w) \/ PersistsFiling(w)
  \/ AssessesFilings(w) \/ RenewsLease(w) \/ AdmitsFacts(w) \/ FetchesFacts(w)
  \/ ChecksLineage(w) \/ AwaitsLineage(w) \/ PersistsFact(w) \/ AssessesFacts(w)
  \/ FetchesCalendar(w) \/ StoresCalendar(w) \/ Completes(w) \/ Vanishes(w)

\* schedule_sec_daily_jobs, schedule_alpha_earnings_job
AdmitsDaily == \E r \in {FilingsRequest, CalendarRequest} : EnqueueWithResult(r)

\* dispatch_queued_sec_jobs, dispatch_queued_alpha_jobs, before they publish.
Dispatches == \/ \E lag \in Lags : RequeueDue(lag)
              \/ \E R \in SUBSET Jobs, lag \in Lags : RecoverExpired(R, lag)

StoreStep == /\ AdmitsDaily \/ Dispatches \/ Tick
             /\ UNCHANGED <<tables, published, fetches, worker>>

\* EDGAR shows another filing.
Publishes ==
  /\ \E f \in Filings \ published : published' = published \cup {f}
  /\ UNCHANGED <<jobVars, tables, fetches, worker>>

SecNext == (\E w \in Workers : WorkerStep(w)) \/ StoreStep \/ Publishes

SecSpec == SecInit /\ [][SecNext]_allVars
-----------------------------------------------------------------------------
(* Properties *)

SecTypeOK ==
  /\ published \subseteq Filings /\ documents \subseteq Filings
  /\ listed \in [Jobs -> SUBSET Filings]
  /\ assessed \in [Jobs -> SUBSET {"filings", "facts", "calendar"}]
  /\ DOMAIN filing \subseteq Filings /\ DOMAIN fact \subseteq FactKeys
  /\ \A k \in DOMAIN fact : fact[k] \in FactRow
  /\ calendar \subseteq EventRow
  /\ worker \in [Workers -> Worker]

\* Every filing has its document and supersedes only one that is on record and was
\* accepted earlier.
FilingLineage ==
  \A f \in DOMAIN filing :
    /\ f \in documents
    /\ filing[f] # None =>
         f \in Amendment /\ filing[f] \in DOMAIN filing /\ Accepted[filing[f]] < Accepted[f]

\* Every fact has its filing and supersedes one of its concept that became
\* available earlier; so does every earnings event.
FactLineage ==
  /\ \A k \in DOMAIN fact :
       /\ k[1] \in DOMAIN filing
       /\ LET s == fact[k].supersedes
          IN s # None => s \in DOMAIN fact /\ s[2] = k[2] /\ fact[s].available < fact[k].available
  /\ \A e \in calendar : e.supersedes # None => e.supersedes < e.available

\* The lineage of the fact tables holds whatever jobs, attempts and losses wrote
\* them: persist_filing, persist_fact and persist_event.
SecSound == SecTypeOK /\ FilingLineage /\ FactLineage

\* A SEC job that succeeded has stored every filing it was listed, or the facts it
\* fetched, with their quality, over all its attempts.
SecSuccessIsComplete ==
  \A j \in Jobs : job[j].state = "SUCCEEDED" =>
    /\ job[j].request = FilingsRequest =>
         /\ listed[j] \subseteq DOMAIN filing /\ "filings" \in assessed[j]
         /\ \E i \in Jobs : job[i].request = FactsRequest
    /\ job[j].request = FactsRequest =>
         Sources(listed[j]) \cup Derived(listed[j]) \subseteq DOMAIN fact /\ "facts" \in assessed[j]
    /\ job[j].request = CalendarRequest => calendar # {} /\ "calendar" \in assessed[j]

\* A SEC job writes nothing once it has ended: an attempt that was timed out, with
\* its reads behind it and its writes to come, adds nothing to a final job.
FinalArchiveIsClosed ==
  [][\A j \in Jobs : Final(j) /\ job[j].request # CalendarRequest =>
       listed'[j] = listed[j] /\ assessed'[j] = assessed[j]]_allVars
=============================================================================
