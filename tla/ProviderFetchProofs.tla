-------------------------- MODULE ProviderFetchProofs --------------------------
(***************************************************************************)
(* Proofs about the governed fetch (ProviderFetch): an outage costs a      *)
(* bounded number of requests, and what a caller was given can be read     *)
(* again.  Both are invariants of every number of threads, attempts and    *)
(* contents, and of every threshold and timeout.                           *)
(***************************************************************************)
EXTENDS ProviderFetch, FiniteSetTheorems, WellFoundedInduction, TLAPS

Times == Nat \cup {None}
Breakers == [failures : Nat, opened : Times]
Records == [doc : Nat, event : Nat, available : Nat]
Answered == [record : Records, asOf : Int]

IdleCalls == [phase : {"IDLE"}, given : Answered \cup {None}]
OpenCalls == [phase : {"READY", "SENT"}, asOf : Int, checked : Nat, attempt : 1..MaxAttempts,
              etag : Times]
AnsweredCalls == [phase : {"ANSWERED"}, asOf : Int, checked : Nat, doc : Nat]
ArchivedCalls == [phase : {"ARCHIVED"}, asOf : Int, checked : Nat, record : Records]
FallbackCalls == [phase : {"FALLBACK"}, asOf : Int]
Calls == IdleCalls \cup OpenCalls \cup AnsweredCalls \cup ArchivedCalls \cup FallbackCalls

TypeOK ==
  /\ now \in Nat
  /\ published \in Seq(Nat) /\ Len(published) > 0
  /\ circuit \in Breakers /\ policy \in Breakers
  /\ validator \in Times
  /\ raw \subseteq Nat
  /\ store \subseteq Records
  /\ call \in [Callers -> Calls]
  /\ asked \in Nat
  /\ outage \in [row : Nat, last : Nat, sent : [Callers -> Nat]]

\* The requests a call under way may still send.
Remaining(k) ==
  IF k.phase = "READY" THEN MaxAttempts - k.attempt + 1
  ELSE IF k.phase = "SENT" THEN MaxAttempts - k.attempt
  ELSE 0

Blocked == outage.row >= FailureThreshold /\ now < outage.last + RecoveryTimeout

\* The circuit knows the outage, and what was sent and may still be sent is no more
\* than the calls that were under way when it opened.
OutageInv ==
  /\ circuit.failures = outage.row
  /\ outage.row >= FailureThreshold => circuit.opened = outage.last
  /\ Blocked =>
       /\ \A c \in Callers : outage.sent[c] + Remaining(call[c]) <= MaxAttempts
       /\ \E c \in Callers : outage.sent[c] = 0 /\ call[c].phase \notin {"READY", "SENT"}

\* A record tells when its content appeared, and was available only later.
IsRecord(r) ==
  /\ r.doc \in raw /\ r.doc \in DOMAIN published
  /\ r.event = published[r.doc]
  /\ r.event <= r.available

\* What a caller was given is still told of by the store.
Kept(g) == \E r \in store : /\ r.event = g.record.event
                            /\ r.event <= g.asOf
                            /\ r.available <= g.asOf

CallInv(k) ==
  /\ k.phase = "ANSWERED" => k.doc \in DOMAIN published
  /\ k.phase = "ARCHIVED" => IsRecord(k.record)
  /\ k.phase = "IDLE" /\ k.given # None => Kept(k.given)

ReplayInv ==
  /\ \A d \in DOMAIN published : published[d] <= now
  /\ validator \in raw \cup {None}
  /\ \A r \in store : IsRecord(r)
  /\ \A c \in Callers : CallInv(call[c])

-----------------------------------------------------------------------------
(* Types *)

\* The phase of a call tells its fields.
LEMMA PhaseTells ==
  ASSUME NEW k \in Calls
  PROVE  /\ k.phase = "IDLE" => k \in IdleCalls
         /\ k.phase \in {"READY", "SENT"} => k \in OpenCalls
         /\ k.phase = "ANSWERED" => k \in AnsweredCalls
         /\ k.phase = "ARCHIVED" => k \in ArchivedCalls
         /\ k.phase = "FALLBACK" => k \in FallbackCalls
BY DEF Calls, IdleCalls, OpenCalls, AnsweredCalls, ArchivedCalls, FallbackCalls

\* A call not over has the time it asks for and, before the fallback, its start.
LEMMA UnderWay ==
  ASSUME NEW k \in Calls, k.phase # "IDLE"
  PROVE  k.asOf \in Int /\ (k.phase # "FALLBACK" => k.checked \in Nat)
BY DEF Calls, IdleCalls, OpenCalls, AnsweredCalls, ArchivedCalls, FallbackCalls

\* One more failure.
LEMMA FailedTyped ==
  ASSUME NEW b \in Breakers, NEW at \in Nat
  PROVE  /\ Failed(b, at) \in Breakers
         /\ Failed(b, at).failures = b.failures + 1
         /\ b.failures + 1 >= FailureThreshold => Failed(b, at).opened = at
BY DEF Failed, Breakers, Times

\* A circuit that is closed.
LEMMA ClosedTyped == Closed \in Breakers /\ Closed.failures = 0
BY DEF Closed, Breakers, Times

\* One call goes on and the others stay.
Moves(c, k) ==
  /\ call' \in [Callers -> Calls]
  /\ call'[c] = k
  /\ \A d \in Callers \ {c} : call'[d] = call[d]

\* A call that goes on has a new state.
LEMMA OneMoves ==
  ASSUME NEW c \in Callers, NEW k \in Calls, call \in [Callers -> Calls],
         call' = [call EXCEPT ![c] = k]
  PROVE  Moves(c, k)
BY DEF Moves

\* A caller that is done.
LEMMA IdleTyped == Idle \in Calls /\ Idle.phase = "IDLE" /\ Idle.given = None
BY DEF Idle, Calls, IdleCalls

\* The call to the fallback.
Falling(t) == [phase |-> "FALLBACK", asOf |-> t]

\* The call to the fallback keeps the time asked for.
LEMMA FallingTyped ==
  ASSUME NEW t \in Int
  PROVE  Falling(t) \in Calls /\ Falling(t).phase = "FALLBACK"
BY DEF Falling, Calls, FallbackCalls

\* A failure of the primary sends the call to the fallback.
LEMMA PrimaryFailsTyped ==
  ASSUME NEW c \in Callers, TypeOK, call[c].phase \notin {"IDLE", "FALLBACK"}, PrimaryFails(c)
  PROVE  policy' \in Breakers /\ Moves(c, Falling(call[c].asOf))
<1>1. call[c] \in Calls BY DEF TypeOK
<1>2. call[c].asOf \in Int /\ call[c].checked \in Nat BY <1>1, UnderWay
<1>3. policy' \in Breakers BY <1>2, FailedTyped DEF PrimaryFails, TypeOK
<1>4. Falling(call[c].asOf) \in Calls BY <1>2, FallingTyped
<1>5. call' = [call EXCEPT ![c] = Falling(call[c].asOf)] BY DEF PrimaryFails, Falling
<1>6. call \in [Callers -> Calls] BY DEF TypeOK
<1> QED BY <1>3, <1>4, <1>5, <1>6, OneMoves

-----------------------------------------------------------------------------
(* Steps that move one call *)

IInv == TypeOK /\ OutageInv /\ ReplayInv

\* What may be sent is a number.
LEMMA RemainingIsInt ==
  ASSUME NEW k \in Calls
  PROVE  Remaining(k) \in Int /\ (k.phase \notin {"READY", "SENT"} => Remaining(k) = 0)
<1>1. MaxAttempts \in Nat BY FetchAssumption
<1>2. k.phase \in {"READY", "SENT"} => k.attempt \in Nat BY <1>1, PhaseTells DEF OpenCalls
<1> QED BY <1>1, <1>2 DEF Remaining

\* A call that goes on with no more to send than before, while the circuit and the
\* outage stay, keeps the outage cheap; one may start unless the circuit blocks it.
LEMMA QuietOutage ==
  ASSUME TypeOK, OutageInv, NEW c \in Callers, NEW k \in Calls, Moves(c, k),
         UNCHANGED <<now, circuit, outage>>,
         \/ ~ Blocked
         \/ k.phase \notin {"READY", "SENT"}
         \/ /\ call[c].phase \in {"READY", "SENT"}
            /\ Remaining(k) <= Remaining(call[c])
  PROVE  OutageInv'
<1>1. (Blocked <=> Blocked') BY DEF Blocked
<1>2. CASE ~ Blocked BY <1>1, <1>2 DEF OutageInv
<1>3. CASE Blocked
  <2>1. \A d \in Callers : /\ call[d] \in Calls
                           /\ outage.sent[d] \in Nat
                           /\ outage.sent[d] + Remaining(call[d]) <= MaxAttempts
    BY <1>3 DEF OutageInv, TypeOK
  <2>2. MaxAttempts \in Nat BY FetchAssumption
  <2>3. outage.sent[c] + Remaining(k) <= MaxAttempts
    <3>1. CASE k.phase \notin {"READY", "SENT"}
      <4>1. Remaining(k) = 0 BY <3>1, RemainingIsInt
      <4>2. Remaining(call[c]) >= 0
        <5>1. call[c].phase \in {"READY", "SENT"} => call[c].attempt \in 1..MaxAttempts
          BY <2>1, PhaseTells DEF OpenCalls
        <5> QED BY <5>1, <2>2 DEF Remaining
      <4>3. Remaining(call[c]) \in Int BY <2>1, RemainingIsInt
      <4> QED BY <2>1, <2>2, <4>1, <4>2, <4>3
    <3>2. CASE Remaining(k) <= Remaining(call[c])
      <4>1. Remaining(k) \in Int /\ Remaining(call[c]) \in Int BY <2>1, RemainingIsInt
      <4> QED BY <2>1, <2>2, <3>2, <4>1
    <3> QED BY <1>3, <3>1, <3>2
  <2>4. ASSUME NEW d \in Callers PROVE outage'.sent[d] + Remaining(call'[d]) <= MaxAttempts
    <3>1. CASE d = c BY <2>3, <3>1 DEF Moves
    <3>2. CASE d # c
      <4>1. call'[d] = call[d] BY <3>2 DEF Moves
      <4> QED BY <2>1, <4>1
    <3> QED BY <3>1, <3>2
  <2>5. \E d \in Callers : outage'.sent[d] = 0 /\ call'[d].phase \notin {"READY", "SENT"}
    <3>1. PICK d \in Callers : outage.sent[d] = 0 /\ call[d].phase \notin {"READY", "SENT"}
      BY <1>3 DEF OutageInv
    <3>2. call'[d].phase \notin {"READY", "SENT"} BY <1>3, <3>1 DEF Moves
    <3> QED BY <3>1, <3>2
  <2> QED BY <2>4, <2>5 DEF OutageInv, Remaining
<1> QED BY <1>2, <1>3

\* What was told stays told as raw objects and records only come.
LEMMA ReplayKept ==
  ASSUME TypeOK, ReplayInv, NEW c \in Callers, NEW k \in Calls, Moves(c, k),
         UNCHANGED <<now, published>>, raw \subseteq raw', store \subseteq store',
         validator' \in raw' \cup {None},
         \A r \in store' \ store : IsRecord(r)', CallInv(k)'
  PROVE  ReplayInv'
<1>1. \A r : IsRecord(r) => IsRecord(r)' BY DEF IsRecord
<1>2. \A r \in store' : IsRecord(r)' BY <1>1 DEF ReplayInv
<1>3. \A g : Kept(g) => Kept(g)' BY DEF Kept
<1>4. ASSUME NEW d \in Callers PROVE CallInv(call[d])'
  <2>1. CASE d = c BY <2>1 DEF Moves, CallInv
  <2>2. CASE d # c
    <3>1. PICK x : x = call[d] OBVIOUS
    <3>2. CallInv(x) BY <3>1 DEF ReplayInv
    <3>3. CallInv(x)' BY <1>1, <1>3, <3>2 DEF CallInv
    <3>4. call'[d] = x BY <2>2, <3>1 DEF Moves
    <3> QED BY <3>3, <3>4
  <2> QED BY <2>1, <2>2
<1> QED BY <1>2, <1>4 DEF ReplayInv

\* A step of one call that leaves the circuit, the outage and the records alone.
LEMMA QuietStep ==
  ASSUME IInv, NEW c \in Callers, NEW k \in Calls, Moves(c, k),
         UNCHANGED <<now, published, circuit, outage, store>>,
         policy' \in Breakers, asked' \in Nat, raw' \in SUBSET Nat, raw \subseteq raw',
         validator' \in raw' \cup {None}, CallInv(k)',
         \/ ~ Blocked
         \/ k.phase \notin {"READY", "SENT"}
         \/ /\ call[c].phase \in {"READY", "SENT"}
            /\ Remaining(k) <= Remaining(call[c])
  PROVE  IInv'
<1>1. TypeOK /\ OutageInv /\ ReplayInv BY DEF IInv
<1>2. TypeOK' BY <1>1 DEF TypeOK, Moves, Times
<1>3. OutageInv' BY <1>1, QuietOutage
<1>4. ReplayInv' BY <1>1, ReplayKept
<1> QED BY <1>2, <1>3, <1>4 DEF IInv

\* A call that ends with nothing, or goes to the fallback, has nothing to show.
LEMMA NothingToShow ==
  /\ CallInv(Idle)' /\ Idle.phase \notin {"READY", "SENT"}
  /\ \A t \in Int : CallInv(Falling(t))' /\ Falling(t).phase \notin {"READY", "SENT"}
<1>1. CallInv(Idle)' BY DEF CallInv, Idle
<1>2. \A t \in Int : CallInv(Falling(t))' BY DEF CallInv, Falling
<1> QED BY <1>1, <1>2, IdleTyped, FallingTyped
\* The primary fails without the circuit learning of it.
LEMMA FailsQuietly ==
  ASSUME IInv, NEW c \in Callers, call[c].phase \notin {"IDLE", "FALLBACK"}, PrimaryFails(c),
         UNCHANGED <<now, published, circuit, validator, store, asked, outage>>,
         raw' \in SUBSET Nat, raw \subseteq raw'
  PROVE  IInv'
<1>1. TypeOK /\ validator \in raw \cup {None} BY DEF IInv, ReplayInv
<1>2. PICK t : t = call[c].asOf OBVIOUS
<1>3. t \in Int BY <1>1, <1>2, UnderWay DEF TypeOK
<1>4. policy' \in Breakers /\ Moves(c, Falling(t)) BY <1>1, <1>2, PrimaryFailsTyped
<1>5. /\ CallInv(Falling(t))' /\ Falling(t) \in Calls
      /\ Falling(t).phase \notin {"READY", "SENT"}
  BY <1>3, NothingToShow, FallingTyped
<1>6. asked' \in Nat BY <1>1 DEF TypeOK
<1>7. PICK k \in Calls : k = Falling(t) BY <1>5
<1> QED BY <1>1, <1>4, <1>5, <1>6, <1>7, QuietStep

\* A call ends and nothing else happens but to the policy's circuit.
LEMMA EndsQuietly ==
  ASSUME IInv, NEW c \in Callers, call' = Ends(c),
         UNCHANGED <<now, published, circuit, validator, store, outage>>,
         policy' \in Breakers, asked' \in Nat, raw' \in SUBSET Nat, raw \subseteq raw'
  PROVE  IInv'
<1>1. TypeOK /\ validator \in raw \cup {None} BY DEF IInv, ReplayInv
<1>2. Moves(c, Idle) BY <1>1, IdleTyped, OneMoves DEF Ends, TypeOK
<1>3. PICK k \in Calls : k = Idle BY IdleTyped
<1>4. CallInv(k)' /\ k.phase \notin {"READY", "SENT"} BY <1>3, NothingToShow
<1> QED BY <1>1, <1>2, <1>3, <1>4, QuietStep

-----------------------------------------------------------------------------
(* The steps *)

\* At the start nothing was sent and nothing is stored.
LEMMA InitIInv == Init => IInv
<1> SUFFICES ASSUME Init PROVE IInv
  OBVIOUS
<1>0. FailureThreshold \in Nat \ {0} BY FetchAssumption
<1>1. TypeOK
  <2>1. Idle \in Calls /\ Closed \in Breakers BY IdleTyped, ClosedTyped
  <2>2. <<0>> \in Seq(Nat) /\ Len(<<0>>) > 0 OBVIOUS
  <2>3. NoOutage \in [row : Nat, last : Nat, sent : [Callers -> Nat]] BY DEF NoOutage
  <2> QED BY <2>1, <2>2, <2>3 DEF Init, TypeOK, Times
<1>2. OutageInv
  <2>1. circuit.failures = 0 /\ outage.row = 0 BY DEF Init, Closed, NoOutage
  <2> QED BY <1>0, <2>1 DEF OutageInv, Blocked
<1>3. ReplayInv BY DEF Init, ReplayInv, CallInv, Idle
<1> QED BY <1>1, <1>2, <1>3 DEF IInv

\* A blocked circuit lets no call through.
LEMMA BlockedAllowsNone ==
  ASSUME IInv, Blocked
  PROVE  ~ AllowsRequest
<1>1. circuit.opened = outage.last BY DEF IInv, OutageInv, Blocked
<1>2. outage.last \in Nat /\ now \in Nat BY DEF IInv, TypeOK
<1>3. None \notin Int /\ RecoveryTimeout \in Nat BY FetchAssumption
<1> QED BY <1>1, <1>2, <1>3 DEF AllowsRequest, Blocked

\* A call that starts.
LEMMA CallTyped ==
  ASSUME TypeOK, NEW t \in Int
  PROVE  Call(t) \in Calls /\ Call(t).phase = "READY"
BY FetchAssumption DEF Call, Calls, OpenCalls, TypeOK, Times

\* Fetch.
LEMMA FetchStep ==
  ASSUME IInv, NEW c \in Callers, NEW t \in 0..MaxTime, Fetch(c, t)
  PROVE  IInv'
<1> DEFINE afresh == IF PolicyOpen \/ policy.opened = None THEN policy ELSE Closed
           tried == ~PolicyOpen /\ AllowsRequest
<1>1. TypeOK /\ validator \in raw \cup {None} BY DEF IInv, ReplayInv
<1>2. t \in Int BY FetchAssumption
<1>3. PICK k : k = IF tried THEN Call(t) ELSE Falling(t) OBVIOUS
<1>4. k \in Calls BY <1>1, <1>2, <1>3, CallTyped, FallingTyped
<1>5. call' = [call EXCEPT ![c] = k] BY <1>3 DEF Fetch, Falling
<1>6. Moves(c, k) BY <1>1, <1>4, <1>5, OneMoves DEF TypeOK
<1>7. afresh \in Breakers BY <1>1, ClosedTyped DEF TypeOK
<1>8. policy' \in Breakers
  <2>1. policy' = IF PolicyOpen \/ tried THEN afresh ELSE Failed(afresh, now) BY DEF Fetch
  <2> QED BY <1>1, <1>7, <2>1, FailedTyped DEF TypeOK
<1>9. asked' \in Nat BY <1>1 DEF Fetch, Begins, TypeOK
<1>10. ~ Blocked \/ k.phase \notin {"READY", "SENT"}
  <2>1. CASE tried BY <2>1, BlockedAllowsNone
  <2>2. CASE ~ tried BY <1>2, <1>3, <2>2, FallingTyped
  <2> QED BY <2>1, <2>2
<1>11. CallInv(k)'
  <2>1. k.phase \notin {"ANSWERED", "ARCHIVED", "IDLE"}
    BY <1>1, <1>2, <1>3, CallTyped, FallingTyped
  <2> QED BY <2>1 DEF CallInv
<1>12. raw' \in SUBSET Nat BY <1>1 DEF Fetch, TypeOK
<1> HIDE DEF afresh, tried
<1> QED BY <1>1, <1>4, <1>6, <1>8, <1>9, <1>10, <1>11, <1>12, QuietStep DEF Fetch

\* FetchUnknown.
LEMMA FetchUnknownStep ==
  ASSUME IInv, NEW c \in Callers, FetchUnknown(c)
  PROVE  IInv'
<1>1. TypeOK BY DEF IInv
<1>2. policy' \in Breakers /\ asked' \in Nat /\ raw' \in SUBSET Nat
  BY <1>1, ClosedTyped DEF FetchUnknown, Begins, TypeOK
<1> QED BY <1>2, EndsQuietly DEF FetchUnknown

\* Refused, PersistFails and FallsBack.
LEMMA LostStep ==
  ASSUME IInv, NEW c \in Callers, Refused(c) \/ PersistFails(c) \/ FallsBack(c)
  PROVE  IInv'
<1>1. TypeOK BY DEF IInv
<1>2. raw \in SUBSET Nat /\ asked \in Nat /\ policy \in Breakers BY <1>1 DEF TypeOK
<1>3. CASE Refused(c) BY <1>2, <1>3, FailsQuietly DEF Refused
<1>4. CASE PersistFails(c) BY <1>2, <1>4, FailsQuietly DEF PersistFails
<1>5. CASE FallsBack(c) BY <1>2, <1>5, EndsQuietly DEF FallsBack
<1> QED BY <1>3, <1>4, <1>5

\* Answers.
LEMMA AnswersStep ==
  ASSUME IInv, NEW c \in Callers, Answers(c)
  PROVE  IInv'
<1>1. TypeOK /\ validator \in raw \cup {None} BY DEF IInv, ReplayInv
<1>2. PICK k : k = [phase |-> "ANSWERED", asOf |-> call[c].asOf, checked |-> call[c].checked,
                    doc |-> Current]
  OBVIOUS
<1>3. Current \in Nat /\ Current \in DOMAIN published BY <1>1 DEF Current, TypeOK
<1>4. call[c].asOf \in Int /\ call[c].checked \in Nat
  BY <1>1, UnderWay DEF Answers, TypeOK
<1>5. k \in Calls BY <1>2, <1>3, <1>4 DEF Calls, AnsweredCalls
<1>6. call' = [call EXCEPT ![c] = k] BY <1>2 DEF Answers
<1>7. Moves(c, k) BY <1>1, <1>5, <1>6, OneMoves DEF TypeOK
<1>8. CallInv(k)' BY <1>2, <1>3 DEF CallInv, Answers
<1>9. k.phase \notin {"READY", "SENT"} BY <1>2
<1>10. raw' \in SUBSET Nat /\ asked' \in Nat /\ policy' \in Breakers
  BY <1>1 DEF Answers, TypeOK
<1> QED BY <1>1, <1>5, <1>7, <1>8, <1>9, <1>10, QuietStep DEF Answers

\* Archive.
LEMMA ArchiveStep ==
  ASSUME IInv, NEW c \in Callers, Archive(c)
  PROVE  IInv'
<1>1. TypeOK /\ ReplayInv BY DEF IInv
<1>2. PICK k : k = [phase |-> "ARCHIVED", asOf |-> call[c].asOf, checked |-> call[c].checked,
                    record |-> Record(call[c].doc, now)]
  OBVIOUS
<1>3. call[c] \in Calls /\ call[c].phase = "ANSWERED" BY <1>1 DEF Archive, TypeOK
<1>4. /\ call[c].asOf \in Int /\ call[c].checked \in Nat /\ call[c].doc \in Nat
      /\ call[c].doc \in DOMAIN published
  BY <1>1, <1>3, PhaseTells DEF AnsweredCalls, ReplayInv, CallInv
<1>5. published[call[c].doc] \in Nat /\ published[call[c].doc] <= now /\ now \in Nat
  BY <1>1, <1>4 DEF TypeOK, ReplayInv
<1>6. Record(call[c].doc, now) \in Records BY <1>4, <1>5 DEF Record, Records
<1>7. k \in Calls BY <1>2, <1>4, <1>6 DEF Calls, ArchivedCalls
<1>8. call' = [call EXCEPT ![c] = k] BY <1>2 DEF Archive
<1>9. Moves(c, k) BY <1>1, <1>7, <1>8, OneMoves DEF TypeOK
<1>10. CallInv(k)'
  <2>1. k.phase = "ARCHIVED" /\ k.record = Record(call[c].doc, now) BY <1>2
  <2>2. k.record.doc \in raw' /\ k.record.doc \in DOMAIN published'
        /\ k.record.event = published'[k.record.doc] /\ k.record.event <= k.record.available
    BY <1>4, <1>5, <2>1 DEF Record, Archive
  <2> QED BY <2>1, <2>2 DEF CallInv, IsRecord
<1>11. k.phase \notin {"READY", "SENT"} BY <1>2
<1>12. /\ raw' \in SUBSET Nat /\ asked' \in Nat /\ policy' \in Breakers
       /\ raw \subseteq raw' /\ validator' \in raw' \cup {None}
  BY <1>1, <1>4 DEF Archive, TypeOK
<1> QED BY <1>7, <1>9, <1>10, <1>11, <1>12, QuietStep DEF Archive

\* ArchiveFails.
LEMMA ArchiveFailsStep ==
  ASSUME IInv, NEW c \in Callers, NEW b \in BOOLEAN, ArchiveFails(c, b)
  PROVE  IInv'
<1>1. TypeOK BY DEF IInv
<1>2. call[c] \in Calls /\ call[c].phase = "ANSWERED" BY <1>1 DEF ArchiveFails, TypeOK
<1>3. call[c].doc \in Nat BY <1>2, PhaseTells DEF AnsweredCalls
<1>4. raw' \in SUBSET Nat /\ raw \subseteq raw' BY <1>1, <1>3 DEF ArchiveFails, TypeOK
<1>5. CASE b BY <1>2, <1>4, <1>5, FailsQuietly DEF ArchiveFails
<1>6. CASE ~ b
  <2>1. asked \in Nat /\ policy \in Breakers BY <1>1 DEF TypeOK
  <2> QED BY <1>4, <1>6, <2>1, EndsQuietly DEF ArchiveFails
<1> QED BY <1>5, <1>6
\* Send: a request more, and one fewer to send.
LEMMA SendStep ==
  ASSUME IInv, NEW c \in Callers, Send(c)
  PROVE  IInv'
<1>1. TypeOK /\ OutageInv /\ ReplayInv BY DEF IInv
<1>2. call[c] \in OpenCalls /\ call[c].phase = "READY"
  BY <1>1, PhaseTells DEF Send, TypeOK
<1>3. PICK k : k = [call[c] EXCEPT !.phase = "SENT"] OBVIOUS
<1>4. /\ k \in Calls /\ k.phase = "SENT" /\ k.attempt = call[c].attempt
      /\ k.attempt \in 1..MaxAttempts
  BY <1>2, <1>3 DEF Calls, OpenCalls
<1>5. call' = [call EXCEPT ![c] = k] BY <1>3 DEF Send
<1>6. Moves(c, k) BY <1>1, <1>4, <1>5, OneMoves DEF TypeOK
<1>7. /\ outage'.row = outage.row /\ outage'.last = outage.last
      /\ outage' \in [row : Nat, last : Nat, sent : [Callers -> Nat]]
      /\ outage.row # 0 => outage'.sent = [outage.sent EXCEPT ![c] = @ + 1]
  <2>1. outage \in [row : Nat, last : Nat, sent : [Callers -> Nat]] BY <1>1 DEF TypeOK
  <2>2. outage' = IF outage.row = 0 THEN outage ELSE [outage EXCEPT !.sent[c] = @ + 1]
    BY DEF Send
  <2>3. [outage.sent EXCEPT ![c] = @ + 1] \in [Callers -> Nat] BY <2>1
  <2> QED BY <2>1, <2>2, <2>3
<1>8. TypeOK' BY <1>1, <1>6, <1>7 DEF Send, TypeOK, Moves
<1>9. OutageInv'
  <2>1. circuit'.failures = outage'.row BY <1>1, <1>7 DEF OutageInv, Send
  <2>2. outage'.row >= FailureThreshold => circuit'.opened = outage'.last
    BY <1>1, <1>7 DEF OutageInv, Send
  <2>3. Blocked' => Blocked BY <1>7 DEF Blocked, Send
  <2>4. ASSUME Blocked
        PROVE  /\ \A d \in Callers : outage'.sent[d] + Remaining(call'[d]) <= MaxAttempts
               /\ \E d \in Callers : outage'.sent[d] = 0
                                     /\ call'[d].phase \notin {"READY", "SENT"}
    <3>1. outage.row # 0 BY <1>1, <2>4, FetchAssumption DEF Blocked, TypeOK
    <3>2. outage'.sent = [outage.sent EXCEPT ![c] = @ + 1] BY <1>7, <3>1
    <3>3. \A d \in Callers : /\ outage.sent[d] \in Nat /\ call[d] \in Calls
                             /\ outage.sent[d] + Remaining(call[d]) <= MaxAttempts
      BY <1>1, <2>4 DEF TypeOK, OutageInv
    <3>4. outage.sent \in [Callers -> Nat] BY <1>1 DEF TypeOK
    <3>5. outage'.sent[c] = outage.sent[c] + 1
          /\ \A d \in Callers \ {c} : outage'.sent[d] = outage.sent[d]
      BY <3>2, <3>4
    <3>6. Remaining(call[c]) = MaxAttempts - call[c].attempt + 1 BY <1>2 DEF Remaining
    <3>7. Remaining(k) = MaxAttempts - call[c].attempt BY <1>4 DEF Remaining
    <3>8. outage'.sent[c] + Remaining(k) <= MaxAttempts
      <4>1. MaxAttempts \in Nat /\ call[c].attempt \in Nat BY <1>4, FetchAssumption
      <4>2. outage.sent[c] \in Nat
            /\ outage.sent[c] + (MaxAttempts - call[c].attempt + 1) <= MaxAttempts
        BY <3>3, <3>6
      <4> QED BY <3>5, <3>7, <4>1, <4>2
    <3>9. \A d \in Callers : outage'.sent[d] + Remaining(call'[d]) <= MaxAttempts
      BY <1>6, <3>3, <3>5, <3>8 DEF Moves
    <3>10. PICK d \in Callers : outage.sent[d] = 0 /\ call[d].phase \notin {"READY", "SENT"}
      BY <1>1, <2>4 DEF OutageInv
    <3>11. d # c BY <1>2, <3>10
    <3>12. outage'.sent[d] = 0 /\ call'[d].phase \notin {"READY", "SENT"}
      BY <1>6, <3>5, <3>10, <3>11 DEF Moves
    <3> QED BY <3>9, <3>12
  <2> QED BY <2>1, <2>2, <2>3, <2>4 DEF OutageInv, Remaining
<1>10. ReplayInv'
  <2>1. CallInv(k)' BY <1>4 DEF CallInv
  <2>2. validator' \in raw' \cup {None} BY <1>1 DEF ReplayInv, Send
  <2> QED BY <1>1, <1>4, <1>6, <2>1, <2>2, ReplayKept DEF Send
<1> QED BY <1>8, <1>9, <1>10 DEF IInv

\* The retry of an attempt.
LEMMA RetryStep ==
  ASSUME IInv, NEW c \in Callers, call[c].phase = "SENT", call[c].attempt < MaxAttempts,
         call' = Retry(c),
         UNCHANGED <<now, published, circuit, policy, validator, raw, store, asked, outage>>
  PROVE  IInv'
<1>1. TypeOK /\ validator \in raw \cup {None} BY DEF IInv, ReplayInv
<1>2. call[c] \in OpenCalls BY <1>1, PhaseTells DEF TypeOK
<1>3. MaxAttempts \in Nat BY FetchAssumption
<1>4. PICK k : k = [call[c] EXCEPT !.phase = "READY", !.attempt = @ + 1] OBVIOUS
<1>5. k.phase = "READY" /\ k.attempt = call[c].attempt + 1 BY <1>2, <1>4 DEF OpenCalls
<1>6. k \in Calls
  <2>1. call[c].attempt + 1 \in 1..MaxAttempts BY <1>2, <1>3 DEF OpenCalls
  <2>2. k \in OpenCalls BY <1>2, <1>4, <2>1 DEF OpenCalls
  <2> QED BY <2>2 DEF Calls
<1>7. call' = [call EXCEPT ![c] = k] BY <1>1, <1>4 DEF Retry, TypeOK
<1>8. Moves(c, k) BY <1>1, <1>6, <1>7, OneMoves DEF TypeOK
<1>9. Remaining(k) <= Remaining(call[c])
  <2>1. call[c].attempt \in Nat BY <1>2, <1>3 DEF OpenCalls
  <2> QED BY <1>3, <1>5, <2>1 DEF Remaining
<1>10. CallInv(k)' BY <1>5 DEF CallInv
<1>11. policy' \in Breakers /\ asked' \in Nat /\ raw' \in SUBSET Nat BY <1>1 DEF TypeOK
<1> QED BY <1>1, <1>6, <1>8, <1>9, <1>10, <1>11, QuietStep

\* The fetch that failed: the row is one longer, the requests are counted anew, and
\* its caller sends nothing more.
LEMMA FailsStep ==
  ASSUME IInv, NEW c \in Callers, Fails(c)
  PROVE  IInv'
<1>1. CASE call[c].attempt < MaxAttempts BY <1>1, RetryStep DEF Fails
<1>2. CASE ~ (call[c].attempt < MaxAttempts)
  <2>1. TypeOK /\ OutageInv /\ ReplayInv BY DEF IInv
  <2>2. /\ circuit' = Failed(circuit, now) /\ PrimaryFails(c)
        /\ outage' = [row |-> outage.row + 1, last |-> now, sent |-> NoOutage.sent]
    BY <1>2 DEF Fails
  <2>3. call[c].phase = "SENT" BY DEF Fails
  <2>4. PICK t : t = call[c].asOf OBVIOUS
  <2>5. t \in Int BY <2>1, <2>3, <2>4, UnderWay DEF TypeOK
  <2>6. policy' \in Breakers /\ Moves(c, Falling(t))
    BY <2>1, <2>2, <2>3, <2>4, PrimaryFailsTyped
  <2>7. /\ CallInv(Falling(t))' /\ Falling(t) \in Calls
        /\ Falling(t).phase \notin {"READY", "SENT"}
    BY <2>5, NothingToShow, FallingTyped
  <2>8. outage.row \in Nat /\ now \in Nat /\ circuit \in Breakers BY <2>1 DEF TypeOK
  <2>9. outage.row + 1 \in Nat BY <2>8
  <2>10. NoOutage.sent = [d \in Callers |-> 0] BY DEF NoOutage
  <2>11. TypeOK'
    <3>1. outage' \in [row : Nat, last : Nat, sent : [Callers -> Nat]]
      BY <2>2, <2>8, <2>9, <2>10
    <3>2. circuit' \in Breakers BY <2>2, <2>8, FailedTyped
    <3> QED BY <2>1, <2>6, <3>1, <3>2 DEF Fails, TypeOK, Moves
  <2>12. OutageInv'
    <3>1. circuit'.failures = outage'.row
      BY <2>1, <2>2, <2>8, FailedTyped DEF OutageInv
    <3>2. outage'.row >= FailureThreshold => circuit'.opened = outage'.last
      BY <2>1, <2>2, <2>8, FailedTyped DEF OutageInv
    <3>3. \A d \in Callers : outage'.sent[d] = 0 BY <2>2, <2>10
    <3>4. ASSUME NEW d \in Callers PROVE outage'.sent[d] + Remaining(call'[d]) <= MaxAttempts
      <4>1. call'[d] \in Calls BY <2>11 DEF TypeOK
      <4>2. MaxAttempts \in Nat BY FetchAssumption
      <4>3. call'[d].phase \in {"READY", "SENT"} => call'[d].attempt \in 1..MaxAttempts
        BY <4>1, PhaseTells DEF OpenCalls
      <4>4. Remaining(call'[d]) <= MaxAttempts /\ Remaining(call'[d]) \in Int
        BY <4>2, <4>3 DEF Remaining
      <4> QED BY <3>3, <4>4
    <3>5. outage'.sent[c] = 0 /\ call'[c].phase \notin {"READY", "SENT"}
      BY <2>6, <2>7, <3>3 DEF Moves
    <3> QED BY <3>1, <3>2, <3>4, <3>5 DEF OutageInv, Remaining
  <2>13. ReplayInv'
    <3>1. validator' \in raw' \cup {None} BY <2>1 DEF ReplayInv, Fails
    <3>2. PICK k \in Calls : k = Falling(t) BY <2>7
    <3> QED BY <2>1, <2>6, <2>7, <3>1, <3>2, ReplayKept DEF Fails
  <2> QED BY <2>11, <2>12, <2>13 DEF IInv
<1> QED BY <1>1, <1>2

\* A closed circuit and no outage.
LEMMA AllWell ==
  ASSUME circuit' = Closed, outage' = NoOutage
  PROVE  OutageInv' /\ circuit' \in Breakers
         /\ outage' \in [row : Nat, last : Nat, sent : [Callers -> Nat]]
<1>1. circuit'.failures = 0 /\ outage'.row = 0 BY DEF Closed, NoOutage
<1>2. FailureThreshold \in Nat \ {0} BY FetchAssumption
<1>3. OutageInv' BY <1>1, <1>2 DEF OutageInv, Blocked
<1>4. outage' \in [row : Nat, last : Nat, sent : [Callers -> Nat]] BY DEF NoOutage
<1> QED BY <1>3, <1>4, ClosedTyped

\* NotFound.
LEMMA NotFoundStep ==
  ASSUME IInv, NEW c \in Callers, NotFound(c)
  PROVE  IInv'
<1>1. TypeOK /\ ReplayInv BY DEF IInv
<1>2. Moves(c, Idle) BY <1>1, IdleTyped, OneMoves DEF NotFound, Ends, TypeOK
<1>3. /\ OutageInv' /\ circuit' \in Breakers
      /\ outage' \in [row : Nat, last : Nat, sent : [Callers -> Nat]]
  BY AllWell DEF NotFound
<1>4. TypeOK' BY <1>1, <1>2, <1>3 DEF NotFound, TypeOK, Moves
<1>5. ReplayInv'
  <2>1. PICK k \in Calls : k = Idle BY IdleTyped
  <2>2. CallInv(k)' BY <2>1, NothingToShow
  <2>3. validator' \in raw' \cup {None} BY <1>1 DEF ReplayInv, NotFound
  <2> QED BY <1>1, <1>2, <2>1, <2>2, <2>3, ReplayKept DEF NotFound
<1> QED BY <1>3, <1>4, <1>5 DEF IInv
\* Persist: a record that is in conflict is not stored, one of the future is stored
\* and not given, and what is given has a record of its content in the store.
LEMMA PersistStep ==
  ASSUME IInv, NEW c \in Callers, Persist(c)
  PROVE  IInv'
<1>1. TypeOK /\ OutageInv /\ ReplayInv BY DEF IInv
<1>2. call[c] \in Calls /\ call[c].phase = "ARCHIVED" BY <1>1 DEF Persist, TypeOK
<1>3. PICK r : r = call[c].record OBVIOUS
<1>4. PICK t : t = call[c].asOf OBVIOUS
<1>5. r \in Records /\ t \in Int BY <1>2, <1>3, <1>4, PhaseTells DEF ArchivedCalls
<1>6. IsRecord(r) BY <1>1, <1>2, <1>3 DEF ReplayInv, CallInv
<1>7. raw' \in SUBSET Nat /\ raw \subseteq raw' BY <1>1 DEF Persist, TypeOK
<1>8. CASE Conflicting(r)
  <2>1. PrimaryFails(c) /\ UNCHANGED <<circuit, store, outage>> BY <1>3, <1>8 DEF Persist
  <2> QED BY <1>2, <1>7, <2>1, FailsQuietly DEF Persist
<1>9. CASE ~ Conflicting(r)
  <2>1. store' = Persisted(r) BY <1>3, <1>9 DEF Persist
  <2>2. store \subseteq store' /\ store' \subseteq store \cup {r} /\ store' \subseteq Records
    BY <1>1, <1>5, <2>1 DEF Persisted, TypeOK
  <2>3. \A s \in store' \ store : IsRecord(s)'
    <3>1. IsRecord(r)' BY <1>6 DEF IsRecord, Persist
    <3> QED BY <2>2, <3>1
  <2>4. validator' \in raw' \cup {None} BY <1>1 DEF ReplayInv, Persist
  <2>5. CASE r.available > t
    <3>1. PrimaryFails(c) /\ UNCHANGED <<circuit, outage>>
      BY <1>3, <1>4, <1>9, <2>5 DEF Persist
    <3>2. policy' \in Breakers /\ Moves(c, Falling(t))
      BY <1>1, <1>2, <1>4, <3>1, PrimaryFailsTyped
    <3>3. PICK k \in Calls : k = Falling(t) BY <1>5, FallingTyped
    <3>4. CallInv(k)' /\ k.phase \notin {"READY", "SENT"} BY <1>5, <3>3, NothingToShow
    <3>5. TypeOK' BY <1>1, <2>2, <3>1, <3>2 DEF Persist, TypeOK, Moves
    <3>6. Moves(c, k) BY <3>2, <3>3
    <3>7. OutageInv' BY <1>1, <3>1, <3>4, <3>6, QuietOutage DEF Persist
    <3>8. ReplayInv' BY <1>1, <2>2, <2>3, <2>4, <3>4, <3>6, ReplayKept DEF Persist
    <3> QED BY <3>5, <3>7, <3>8 DEF IInv
  <2>6. CASE ~ (r.available > t)
    <3>1. /\ circuit' = Closed /\ outage' = NoOutage
          /\ policy' = [policy EXCEPT !.failures = 0] /\ call' = Given(c, r, t)
      BY <1>3, <1>4, <1>9, <2>6 DEF Persist
    <3>2. PICK k : k = [phase |-> "IDLE", given |-> [record |-> r, asOf |-> t]] OBVIOUS
    <3>3. k \in Calls BY <1>5, <3>2 DEF Calls, IdleCalls, Answered
    <3>4. call' = [call EXCEPT ![c] = k] BY <3>1, <3>2 DEF Given
    <3>5. Moves(c, k) BY <1>1, <3>3, <3>4, OneMoves DEF TypeOK
    <3>6. /\ OutageInv' /\ circuit' \in Breakers
          /\ outage' \in [row : Nat, last : Nat, sent : [Callers -> Nat]]
      BY <3>1, AllWell
    <3>7. policy' \in Breakers BY <1>1, <3>1 DEF TypeOK, Breakers
    <3>8. TypeOK' BY <1>1, <2>2, <3>5, <3>6, <3>7 DEF Persist, TypeOK, Moves
    <3>9. PICK s \in store' : s.doc = r.doc /\ s.available <= r.available
      <4>1. CASE \E s \in store : s.doc = r.doc
        <5>1. PICK s \in store : s.doc = r.doc BY <4>1
        <5>2. ~ (s.available > r.available) BY <1>9, <5>1 DEF Conflicting
        <5>3. s.available \in Nat /\ r.available \in Nat BY <1>1, <1>5 DEF TypeOK, Records
        <5>4. s.available <= r.available BY <5>2, <5>3
        <5> QED BY <2>2, <5>1, <5>4
      <4>2. CASE ~ \E s \in store : s.doc = r.doc
        <5>1. r \in store' BY <2>1, <4>2 DEF Persisted
        <5>2. r.available \in Nat BY <1>5 DEF Records
        <5> QED BY <5>1, <5>2
      <4> QED BY <4>1, <4>2
    <3>10. CallInv(k)'
      <4>1. s \in store \/ s = r BY <2>2, <3>9
      <4>2. IsRecord(s) BY <1>1, <1>6, <4>1 DEF ReplayInv
      <4>3. s.event = r.event /\ s.event <= s.available
        BY <1>6, <3>9, <4>2 DEF IsRecord
      <4>4. s \in Records /\ r \in Records BY <1>5, <2>2, <3>9
      <4>5. s.event \in Nat /\ s.available \in Nat /\ r.available \in Nat
        BY <4>4 DEF Records
      <4>6. s.available <= t /\ s.event <= t BY <1>5, <2>6, <3>9, <4>3, <4>5
      <4>7. k.phase = "IDLE" /\ k.given.record = r /\ k.given.asOf = t BY <3>2
      <4>8. Kept(k.given)' BY <3>9, <4>3, <4>6, <4>7 DEF Kept
      <4> QED BY <4>7, <4>8 DEF CallInv
    <3>11. ReplayInv' BY <1>1, <2>2, <2>3, <2>4, <3>3, <3>5, <3>10, ReplayKept DEF Persist
    <3> QED BY <3>6, <3>8, <3>11 DEF IInv
  <2> QED BY <2>5, <2>6
<1> QED BY <1>8, <1>9

\* The contents that were published stay.
LEMMA ReplayGrows ==
  ASSUME IInv, now' \in Nat, now <= now', UNCHANGED <<validator, raw, store, call>>,
         \A d \in DOMAIN published : d \in DOMAIN published' /\ published'[d] = published[d],
         \A d \in DOMAIN published' : published'[d] <= now'
  PROVE  ReplayInv'
<1>1. ReplayInv BY DEF IInv
<1>2. \A r : IsRecord(r) => IsRecord(r)' BY DEF IsRecord
<1>3. \A g : Kept(g) => Kept(g)' BY DEF Kept
<1>4. \A k : CallInv(k) => CallInv(k)' BY <1>2, <1>3 DEF CallInv
<1> QED BY <1>1, <1>2, <1>4 DEF ReplayInv

\* Publish.
LEMMA PublishStep ==
  ASSUME IInv, Publish
  PROVE  IInv'
<1>1. TypeOK /\ OutageInv /\ ReplayInv BY DEF IInv
<1>2. published \in Seq(Nat) /\ now \in Nat BY <1>1 DEF TypeOK
<1>3. published' = Append(published, now) BY DEF Publish
<1>4. published' \in Seq(Nat) /\ Len(published') > 0 BY <1>2, <1>3
<1>5. TypeOK' BY <1>1, <1>4 DEF Publish, TypeOK
<1>6. OutageInv' BY <1>1 DEF Publish, OutageInv, Blocked, Remaining
<1>7. \A d \in DOMAIN published : d \in DOMAIN published' /\ published'[d] = published[d]
  BY <1>2, <1>3
<1>8. \A d \in DOMAIN published' : published'[d] <= now'
  <2>1. \A d \in DOMAIN published' : published'[d] = now \/ (d \in DOMAIN published
                                                              /\ published'[d] = published[d])
    BY <1>2, <1>3
  <2> QED BY <1>1, <1>2, <2>1 DEF Publish, ReplayInv
<1>9. ReplayInv' BY <1>2, <1>7, <1>8, ReplayGrows DEF Publish
<1> QED BY <1>5, <1>6, <1>9 DEF IInv

\* Tick: the window can only end.
LEMMA TickStep ==
  ASSUME IInv, Tick
  PROVE  IInv'
<1>1. TypeOK /\ OutageInv /\ ReplayInv BY DEF IInv
<1>2. now \in Nat /\ now' = now + 1 BY <1>1 DEF TypeOK, Tick
<1>3. TypeOK' BY <1>1, <1>2 DEF Tick, TypeOK
<1>4. Blocked' => Blocked
  <2>1. outage.last \in Nat /\ RecoveryTimeout \in Nat BY <1>1, FetchAssumption DEF TypeOK
  <2> QED BY <1>2, <2>1 DEF Blocked, Tick
<1>5. OutageInv' BY <1>1, <1>4 DEF Tick, OutageInv, Remaining
<1>6. \A d \in DOMAIN published : published[d] <= now /\ published[d] \in Nat
  BY <1>1 DEF ReplayInv, TypeOK
<1>7. ReplayInv' BY <1>2, <1>6, ReplayGrows DEF Tick
<1> QED BY <1>3, <1>5, <1>7 DEF IInv

\* The invariant is kept.
LEMMA NextIInv == IInv /\ [Next]_vars => IInv'
<1> SUFFICES ASSUME IInv, [Next]_vars PROVE IInv'
  OBVIOUS
<1>1. ASSUME NEW c \in Callers, FetchUnknown(c) PROVE IInv' BY <1>1, FetchUnknownStep
<1>2. ASSUME NEW c \in Callers, Steps(c) PROVE IInv'
  BY <1>2, SendStep, FailsStep, NotFoundStep, LostStep, AnswersStep, ArchiveStep,
     ArchiveFailsStep, PersistStep DEF Steps
<1>3. ASSUME NEW c \in Callers, NEW t \in 0..MaxTime, Fetch(c, t) PROVE IInv'
  BY <1>3, FetchStep
<1>4. CASE UNCHANGED vars
  BY <1>4 DEF vars, IInv, TypeOK, OutageInv, ReplayInv, Blocked, Remaining, CallInv, IsRecord,
              Kept
<1> QED BY <1>1, <1>2, <1>3, <1>4, PublishStep, TickStep DEF Next

\* The invariant holds.
LEMMA Invariance == Spec => []IInv
BY InitIInv, NextIInv, PTL DEF Spec

-----------------------------------------------------------------------------
(* What is promised *)

\* OutageIsCheap: after FailureThreshold failed fetches in a row no caller sends more
\* than MaxAttempts requests within RecoveryTimeout of the last one, and one sends none,
\* however many threads there are.
THEOREM OutagesAreCheap == Spec => []OutageIsCheap
<1>1. IInv => OutageIsCheap
  <2> SUFFICES ASSUME IInv, Blocked
               PROVE  /\ \A c \in Callers : outage.sent[c] <= MaxAttempts
                      /\ \E c \in Callers : outage.sent[c] = 0
    BY DEF OutageIsCheap, Blocked
  <2>1. TypeOK /\ OutageInv BY DEF IInv
  <2>2. ASSUME NEW c \in Callers PROVE outage.sent[c] <= MaxAttempts
    <3>1. outage.sent[c] \in Nat /\ call[c] \in Calls BY <2>1 DEF TypeOK
    <3>2. MaxAttempts \in Nat BY FetchAssumption
    <3>3. call[c].phase \in {"READY", "SENT"} => call[c].attempt \in 1..MaxAttempts
      BY <3>1, PhaseTells DEF OpenCalls
    <3>4. Remaining(call[c]) >= 0 /\ Remaining(call[c]) \in Int
      BY <3>2, <3>3 DEF Remaining
    <3>5. outage.sent[c] + Remaining(call[c]) <= MaxAttempts BY <2>1 DEF OutageInv
    <3> QED BY <3>1, <3>2, <3>4, <3>5
  <2> QED BY <2>1, <2>2 DEF OutageInv
<1> QED BY <1>1, Invariance, PTL

\* Among some natural numbers there is a least one.
LEMMA LeastNatural ==
  ASSUME NEW S \in SUBSET Nat, S # {}
  PROVE  \E n \in S : \A m \in S : n <= m
<1> DEFINE T == {0..(n - 1) : n \in S}
<1>1. T \subseteq FiniteSubsetsOf(Nat) /\ T # {}
  <2>1. \A n \in S : 0..(n - 1) \subseteq Nat /\ IsFiniteSet(0..(n - 1))
    BY FS_Interval
  <2> QED BY <2>1 DEF FiniteSubsetsOf
<1>2. IsWellFoundedOn(StrictSubsetOrdering(Nat), FiniteSubsetsOf(Nat))
  BY FS_StrictSubsetOrderingWellFounded
<1>3. PICK x \in T : \A y \in T : ~ (<<y, x>> \in StrictSubsetOrdering(Nat))
  BY <1>1, <1>2, WFMin
<1>4. PICK n \in S : x = 0..(n - 1) BY <1>3
<1>5. ASSUME NEW m \in S, m < n PROVE FALSE
  <2>1. 0..(m - 1) \in T OBVIOUS
  <2>2. 0..(m - 1) \subseteq 0..(n - 1) /\ m \in 0..(n - 1) /\ m \notin 0..(m - 1)
    BY <1>5
  <2>3. 0..(m - 1) \in SUBSET Nat /\ x \in SUBSET Nat BY <1>4
  <2>4. <<0..(m - 1), x>> \in StrictSubsetOrdering(Nat)
    BY <1>4, <2>2, <2>3 DEF StrictSubsetOrdering
  <2> QED BY <1>3, <2>1, <2>4
<1> QED BY <1>5

\* Among some records none of which is available after t there is one that is
\* available last.
LEMMA LastAvailable ==
  ASSUME NEW S \in SUBSET Records, S # {}, NEW t \in Int, \A r \in S : r.available <= t
  PROVE  \E r \in S : \A s \in S : s.available <= r.available
<1> DEFINE T == {t - r.available : r \in S}
<1>1. \A r \in S : r.available \in Nat BY DEF Records
<1>2. T \in SUBSET Nat /\ T # {} BY <1>1
<1>3. PICK n \in T : \A m \in T : n <= m BY <1>2, LeastNatural
<1>4. PICK r \in S : n = t - r.available BY <1>3
<1>5. ASSUME NEW s \in S PROVE s.available <= r.available
  <2>1. n <= t - s.available BY <1>3
  <2> QED BY <1>1, <1>4, <2>1
<1> QED BY <1>5

\* What the store tells of is found by a query as of that time.
LEMMA KeptIsFound ==
  ASSUME TypeOK, NEW g \in Answered, Kept(g)
  PROVE  \E r \in AsOf(g.asOf) : r.event = g.record.event
<1>1. PICK t \in Int : t = g.asOf BY DEF Answered
<1>2. PICK e : e = g.record.event OBVIOUS
<1> DEFINE S == {r \in store : r.event = e /\ r.event <= t /\ r.available <= t}
<1>3. S \in SUBSET Records BY DEF TypeOK
<1>4. S # {} BY <1>1, <1>2 DEF Kept
<1>5. PICK r \in S : \A s \in S : s.available <= r.available BY <1>3, <1>4, LastAvailable
<1>6. r \in AsOf(t) BY <1>5 DEF AsOf
<1> QED BY <1>1, <1>2, <1>5, <1>6

\* AnswersReplay: what a caller was given can be read again from the store as of the
\* same time, whatever was stored and published since.
THEOREM AnswersDoReplay == Spec => []AnswersReplay
<1>1. IInv => AnswersReplay
  <2> SUFFICES ASSUME IInv PROVE AnswersReplay
    OBVIOUS
  <2>1. TypeOK /\ ReplayInv BY DEF IInv
  <2>2. ASSUME NEW c \in Callers, call[c].phase = "IDLE", call[c].given # None
        PROVE  \E r \in AsOf(call[c].given.asOf) : r.event = call[c].given.record.event
    <3>1. call[c] \in IdleCalls BY <2>1, <2>2, PhaseTells DEF TypeOK
    <3>2. call[c].given \in Answered BY <2>2, <3>1 DEF IdleCalls
    <3>3. Kept(call[c].given) BY <2>1, <2>2 DEF ReplayInv, CallInv
    <3> QED BY <2>1, <3>2, <3>3, KeptIsFound
  <2>3. {r.doc : r \in store} \subseteq raw BY <2>1 DEF ReplayInv, IsRecord
  <2>4. validator # None => validator \in raw BY <2>1 DEF ReplayInv
  <2> QED BY <2>2, <2>3, <2>4 DEF AnswersReplay
<1> QED BY <1>1, Invariance, PTL
=============================================================================
