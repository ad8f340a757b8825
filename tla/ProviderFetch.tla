----------------------------- MODULE ProviderFetch -----------------------------
(***************************************************************************)
(* The threads that fetch one provider's feed over HTTP: FallbackPolicy    *)
(* (application/market_data/fallback.py) before GovernedHttpProvider       *)
(* (infrastructure/providers/base.py), each with a circuit of its own, the *)
(* bounded retries, the conditional request, the archive and the record    *)
(* store (providers/persistence.py).                                       *)
(*                                                                         *)
(* The provider serves one URL, whose contents are numbered in the order   *)
(* in which they are published; the ETag of a content is its number.  The  *)
(* clock moves between any two steps of a call.                            *)
(***************************************************************************)
EXTENDS Integers, FiniteSets, Sequences

CONSTANTS
  Callers,           \* threads
  Documents,         \* bounds the contents the provider publishes
  MaxAttempts,
  MaxConcurrency,
  FailureThreshold,  \* of both circuits
  RecoveryTimeout,   \* of the provider's circuit
  ResetTimeout,      \* of the policy's circuit
  MaxTime,           \* bounds the clock
  MaxCalls,          \* bounds the calls
  None

ASSUME FetchAssumption ==
  /\ {Documents, MaxAttempts, MaxConcurrency, FailureThreshold} \subseteq Nat \ {0}
  /\ {RecoveryTimeout, ResetTimeout} \subseteq Nat \ {0}
  /\ {MaxTime, MaxCalls} \subseteq Nat
  /\ None \notin Int

VARIABLES
  now,
  published,  \* published[d]: when content d appeared, the last of them current
  circuit,    \* CircuitBreaker: _failures and _opened_at
  policy,     \* FallbackPolicy: _failures and _opened_at
  validator,  \* _validators of the URL
  raw,        \* object store
  store,      \* tables raw_data_object and normalized_record
  call,       \* call[c]: the call c makes, and the record it was last given
  asked,      \* calls made
  outage      \* history: failed fetches in a row, the last one's time, what each sent since

vars == <<now, published, circuit, policy, validator, raw, store, call, asked, outage>>

Current == Len(published)

Closed == [failures |-> 0, opened |-> None]
Idle == [phase |-> "IDLE", given |-> None]
NoOutage == [row |-> 0, last |-> 0, sent |-> [c \in Callers |-> 0]]

Init == /\ now = 0
        /\ published = <<0>>
        /\ circuit = Closed
        /\ policy = Closed
        /\ validator = None
        /\ raw = {}
        /\ store = {}
        /\ call = [c \in Callers |-> Idle]
        /\ asked = 0
        /\ outage = NoOutage

-----------------------------------------------------------------------------
(* infrastructure/recovery.py and the circuit of fallback.py *)

\* record_failure; the policy counts alike.
Failed(breaker, at) ==
  [failures |-> breaker.failures + 1,
   opened |-> IF breaker.failures + 1 >= FailureThreshold THEN at ELSE breaker.opened]

\* Seeded fault: the recovery timeout is left out.
AllowsRequestAtOnce == circuit.opened = None \/ now >= circuit.opened

AllowsRequest == circuit.opened = None \/ now >= circuit.opened + RecoveryTimeout

PolicyOpen == policy.opened # None /\ now - policy.opened < ResetTimeout

-----------------------------------------------------------------------------
(* Records *)

Record(d, ingested) == [doc |-> d, event |-> published[d], available |-> ingested]

\* Seeded fault: whatever is stored of the same content will do.
NeverConflicting(r) == r.available < 0

\* persist_raw_object: the content was stored as available later than now.
Conflicting(r) == \E s \in store : s.doc = r.doc /\ s.available > r.available

Persisted(r) == IF \E s \in store : s.doc = r.doc THEN store ELSE store \cup {r}

\* PostgresMarketDataRepository.as_of: of each event the revision available last.
AsOf(t) ==
  LET visible == {r \in store : r.event <= t /\ r.available <= t}
  IN {r \in visible : \A s \in visible : s.event = r.event => s.available <= r.available}

-----------------------------------------------------------------------------
(* FallbackPolicy.fetch after the primary's response *)

\* The caller has its answer; the record of an OK of the primary is kept.
Given(c, record, asOf) ==
  [call EXCEPT ![c] = [phase |-> "IDLE", given |-> [record |-> record, asOf |-> asOf]]]

Ends(c) == [call EXCEPT ![c] = Idle]

\* OK, NOT_FOUND and NOT_SUPPORTED go to the caller.  Anything else counts, from the
\* time the call began, and the fallback is asked.
PrimaryFails(c) ==
  /\ policy' = Failed(policy, call[c].checked)
  /\ call' = [call EXCEPT ![c] = [phase |-> "FALLBACK", asOf |-> call[c].asOf]]

-----------------------------------------------------------------------------
(* A call *)

Call(asOf) ==
  [phase |-> "READY", asOf |-> asOf, checked |-> now, attempt |-> 1, etag |-> validator]

Begins(c, asOf) ==
  /\ call[c].phase = "IDLE"
  /\ asked < MaxCalls
  /\ asked' = asked + 1
  /\ asOf \in {now - 1, now}

\* FallbackPolicy.fetch up to the primary's first request: either circuit may send
\* the call to the fallback.
Fetch(c, asOf) ==
  /\ Begins(c, asOf)
  /\ LET afresh == IF PolicyOpen \/ policy.opened = None THEN policy ELSE Closed
         tried  == ~PolicyOpen /\ AllowsRequest
     IN /\ policy' = IF PolicyOpen \/ tried THEN afresh ELSE Failed(afresh, now)
        /\ call' = [call EXCEPT ![c] = IF tried THEN Call(asOf)
                                               ELSE [phase |-> "FALLBACK", asOf |-> asOf]]
  /\ UNCHANGED <<now, published, circuit, validator, raw, store, outage>>

\* A feed or a symbol the provider does not have.
FetchUnknown(c) ==
  /\ Begins(c, now)
  /\ ~PolicyOpen
  /\ policy' = IF policy.opened = None THEN policy ELSE Closed
  /\ call' = Ends(c)
  /\ UNCHANGED <<now, published, circuit, validator, raw, store, outage>>

\* Seeded fault: a retry still holds the slot of the attempt before.
SentOrRetried ==
  {c \in Callers : call[c].phase = "SENT" \/ (call[c].phase = "READY" /\ call[c].attempt > 1)}

Sent == {c \in Callers : call[c].phase = "SENT"}

\* The transport, within the semaphore.
Send(c) ==
  /\ call[c].phase = "READY"
  /\ Cardinality(Sent) < MaxConcurrency
  /\ call' = [call EXCEPT ![c].phase = "SENT"]
  /\ outage' = IF outage.row = 0 THEN outage ELSE [outage EXCEPT !.sent[c] = @ + 1]
  /\ UNCHANGED <<now, published, circuit, policy, validator, raw, store, asked>>

Retry(c) == [call EXCEPT ![c].phase = "READY", ![c].attempt = @ + 1]

\* A timeout, a 429 or a 5xx: retried, and at last a failure of the circuit.
Fails(c) ==
  /\ call[c].phase = "SENT"
  /\ IF call[c].attempt < MaxAttempts
     THEN call' = Retry(c) /\ UNCHANGED <<circuit, policy, outage>>
     ELSE /\ circuit' = Failed(circuit, now)
          /\ outage' = [row |-> outage.row + 1, last |-> now, sent |-> NoOutage.sent]
          /\ PrimaryFails(c)
  /\ UNCHANGED <<now, published, validator, raw, store, asked>>

\* 404.
NotFound(c) ==
  /\ call[c].phase = "SENT"
  /\ circuit' = Closed
  /\ outage' = NoOutage
  /\ call' = Ends(c)
  /\ UNCHANGED <<now, published, policy, validator, raw, store, asked>>

\* Any other status, or 304: the circuit learns nothing of it.
Refused(c) ==
  /\ call[c].phase = "SENT"
  /\ PrimaryFails(c)
  /\ UNCHANGED <<now, published, circuit, validator, raw, store, asked, outage>>

\* 200, which a provider that honours the ETag keeps for contents it does not name.
Answers(c) ==
  /\ call[c].phase = "SENT"
  /\ call[c].etag # Current
  /\ call' = [call EXCEPT ![c] = [phase |-> "ANSWERED", asOf |-> @.asOf, checked |-> @.checked,
                                   doc |-> Current]]
  /\ UNCHANGED <<now, published, circuit, policy, validator, raw, store, asked, outage>>

\* The body is archived, and its ETag kept, before the record is stored.
Archive(c) ==
  /\ call[c].phase = "ANSWERED"
  /\ call' = [call EXCEPT ![c] = [phase |-> "ARCHIVED", asOf |-> @.asOf, checked |-> @.checked,
                                   record |-> Record(@.doc, now)]]
  /\ raw' = raw \cup {call[c].doc}
  /\ validator' = call[c].doc
  /\ UNCHANGED <<now, published, circuit, policy, store, asked, outage>>

\* The archive raises, or the body has no timestamp: `archived` is the latter.
ArchiveFails(c, archived) ==
  /\ call[c].phase = "ANSWERED"
  /\ raw' = IF archived THEN raw \cup {call[c].doc} ELSE raw
  /\ IF archived THEN PrimaryFails(c)
                 ELSE call' = Ends(c) /\ UNCHANGED policy
  /\ UNCHANGED <<now, published, circuit, validator, store, asked, outage>>

\* The record is stored, and returned if it was available as of the query.
Persist(c) ==
  /\ call[c].phase = "ARCHIVED"
  /\ LET r == call[c].record
     IN IF Conflicting(r)
        THEN PrimaryFails(c) /\ UNCHANGED <<circuit, store, outage>>
        ELSE /\ store' = Persisted(r)
             /\ IF r.available > call[c].asOf
                THEN PrimaryFails(c) /\ UNCHANGED <<circuit, outage>>
                ELSE /\ circuit' = Closed
                     /\ outage' = NoOutage
                     /\ policy' = [policy EXCEPT !.failures = 0]
                     /\ call' = Given(c, r, call[c].asOf)
  /\ UNCHANGED <<now, published, validator, raw, asked>>

\* The database fails: the ETag stays.
PersistFails(c) ==
  /\ call[c].phase = "ARCHIVED"
  /\ PrimaryFails(c)
  /\ UNCHANGED <<now, published, circuit, validator, raw, store, asked, outage>>

\* _fallback_result: what the fallback has, unless it is stale or of the future.
FallsBack(c) ==
  /\ call[c].phase = "FALLBACK"
  /\ call' = Ends(c)
  /\ UNCHANGED <<now, published, circuit, policy, validator, raw, store, asked, outage>>

\* The provider publishes.
Publish ==
  /\ Current < Documents
  /\ published' = Append(published, now)
  /\ UNCHANGED <<now, circuit, policy, validator, raw, store, call, asked, outage>>

Tick ==
  /\ now < MaxTime
  /\ now' = now + 1
  /\ UNCHANGED <<published, circuit, policy, validator, raw, store, call, asked, outage>>

Steps(c) ==
  \/ Send(c) \/ Fails(c) \/ NotFound(c) \/ Refused(c) \/ Answers(c)
  \/ Archive(c) \/ (\E b \in BOOLEAN : ArchiveFails(c, b)) \/ Persist(c) \/ PersistFails(c)
  \/ FallsBack(c)

Next ==
  \/ \E c \in Callers : FetchUnknown(c) \/ Steps(c)
  \/ \E c \in Callers, asOf \in 0..MaxTime : Fetch(c, asOf)
  \/ Publish
  \/ Tick

Spec == Init /\ [][Next]_vars

\* Threads run, and the transport answers or times out.
FairSpec == Spec /\ \A c \in Callers : WF_vars(Steps(c))

-----------------------------------------------------------------------------
(* Properties *)

\* What a caller was given can be read again: the repository, asked as of the same
\* time, finds the record or a revision of it; a record in the store has its raw
\* object, and so has an ETag that is sent.
AnswersReplay ==
  /\ \A c \in Callers : call[c].phase = "IDLE" /\ call[c].given # None =>
       \E r \in AsOf(call[c].given.asOf) : r.event = call[c].given.record.event
  /\ {r.doc : r \in store} \subseteq raw
  /\ validator # None => validator \in raw

\* An outage is not hammered: after as many failed fetches in a row as the
\* threshold, no call starts within the recovery timeout of the last.  One caller
\* sends nothing, and each other no more than the attempts of a call under way.
OutageIsCheap ==
  outage.row >= FailureThreshold /\ now < outage.last + RecoveryTimeout =>
    /\ \A c \in Callers : outage.sent[c] <= MaxAttempts
    /\ \E c \in Callers : outage.sent[c] = 0

\* Every call ends, whatever the provider, the archive and the database do.
EveryCallEnds == \A c \in Callers : call[c].phase # "IDLE" ~> call[c].phase = "IDLE"
=============================================================================
