------------------------- MODULE NormalizationProofs -------------------------
(***************************************************************************)
(* Proofs about Normalization: the outbox can be believed.  A row says     *)
(* DISPATCHED only for a record that is normalized or has a message on its *)
(* way, and what was rejected stays rejected.                              *)
(*                                                                         *)
(* Proofs about AlpacaStream: what is stored leads back to the archive,    *)
(* and a process that is connected has asked for all it lost.              *)
(***************************************************************************)
EXTENDS Normalization, AlpacaStream, FiniteSetTheorems, WellFoundedInduction, TLAPS

\* A message for r was retried no more often than there were faults: a task that
\* fails without one finds a row that is given up.
Carried(r) ==
  \/ \E k \in 0..MaxRetries : k <= faults /\ queue[r][k] > 0
  \/ \E w \in Workers : /\ worker[w].record = r /\ ~ worker[w].inline
                        /\ worker[w].retries <= faults

\* Row r is, or is about to be, out of the dispatcher's sight.
OutOfSight(r) ==
  \/ dispatch[r].state = "DISPATCHED"
  \/ \E d \in Dispatchers :
       pass[d].sent # None /\ pass[d].sent.record = r /\ Holds(pass[d].sent)

RowInv(r) ==
  /\ dispatch[r].state = "CLAIMED" => dispatch[r].token = dispatch[r].generation
  /\ r \in rejected => dispatch[r].state = "FAILED" /\ r \in Malformed

\* A claim was made with a generation of its row.
ClaimMade(c) == c.token <= dispatch[c.record].generation

WorkerInv(w) ==
  /\ worker[w].at # "idle" => worker[w].record \in Records
  /\ worker[w].at = "idle" => worker[w] = Idle
  /\ worker[w].at = "committed" => worker[w].record \in normalized
  /\ worker[w].terminal => worker[w].record \in Malformed

IInv == /\ TypeOK
        /\ faults \in Nat
        /\ normalized \cap Malformed = {}
        /\ \A r \in Records : RowInv(r)
        /\ \A w \in Workers : WorkerInv(w)
        /\ \A d \in Dispatchers :
             /\ \A c \in pass[d].todo : ClaimMade(c)
             /\ pass[d].sent # None => ClaimMade(pass[d].sent)
        /\ \A r \in Records :
             OutOfSight(r) => r \in normalized \/ faults > MaxRetries \/ Carried(r)

-----------------------------------------------------------------------------
\* At the start nothing is written.
LEMMA InitIInv == Init => IInv
<1> SUFFICES ASSUME Init PROVE IInv
  OBVIOUS
<1> USE DEF Init
<1>1. TypeOK
  <2>1. NoRow \in DispatchRow BY DEF NoRow, DispatchRow
  <2>2. Idle \in Worker BY NormalizationAssumption DEF Idle, Worker
  <2>3. NoPass \in Pass BY DEF NoPass, Pass
  <2>4. NoRow.state # "CLAIMED" /\ NoRow.token = None BY DEF NoRow
  <2> QED BY <2>1, <2>2, <2>3, <2>4 DEF TypeOK
<1>2. \A r \in Records : RowInv(r) BY DEF RowInv, NoRow
<1>3. \A w \in Workers : WorkerInv(w) BY DEF WorkerInv, Idle
<1>4. \A d \in Dispatchers : pass[d] = NoPass OBVIOUS
<1>5. \A r \in Records : ~ OutOfSight(r) BY <1>4 DEF OutOfSight, NoRow, NoPass
<1> QED BY <1>1, <1>2, <1>3, <1>4, <1>5 DEF IInv, NoPass

\* The invariant says more than what is to be shown.
LEMMA IInvImplies == IInv => OutboxSound
<1> SUFFICES ASSUME IInv PROVE OutboxSound
  OBVIOUS
<1>1. TypeOK BY DEF IInv
<1>2. NoRecordStranded
  <2> SUFFICES ASSUME NEW r \in Records, dispatch[r].state = "DISPATCHED", faults <= MaxRetries,
                      r \notin normalized
               PROVE  InFlight(r)
    BY DEF NoRecordStranded
  <2>1. faults \in Nat /\ MaxRetries \in Nat BY NormalizationAssumption DEF IInv
  <2>2. OutOfSight(r) BY DEF OutOfSight
  <2>3. Carried(r) BY <2>1, <2>2 DEF IInv
  <2> QED BY <2>3 DEF Carried, InFlight
<1>3. RejectedStaysFailed
  <2>1. rejected \subseteq Records BY <1>1 DEF TypeOK
  <2> QED BY <2>1 DEF IInv, RowInv, RejectedStaysFailed
<1> QED BY <1>1, <1>2, <1>3 DEF OutboxSound

-----------------------------------------------------------------------------
(* Types. *)

\* A faulty or a faultless step counts right.
LEMMA FaultsCount == IInv /\ [Next]_vars => faults' \in Nat /\ faults <= faults'
<1> SUFFICES ASSUME IInv, [Next]_vars PROVE faults' \in Nat /\ faults <= faults'
  OBVIOUS
<1>1. faults \in Nat BY DEF IInv
<1>2. UNCHANGED faults \/ Fault
  BY DEF Next, Works, Dispatches, Normalizes, NormalizeFails, RecordsFailure, RecordingFails,
    Returns, WorkerLost, Writes, Receives, Claims, Publishes, MarksDispatched, PublishFails,
    DispatcherLost, ComesDue, LeaseRunsOut, vars
<1> QED BY <1>1, <1>2 DEF Fault

RowOK(row) == row \in DispatchRow /\ (row.state = "CLAIMED" <=> row.token # None)

\* The rows that a step may write have their type, and a token while claimed.
LEMMA NewRowsOK ==
  ASSUME NEW row, RowOK(row), NEW state \in {"PENDING", "DISPATCHED", "FAILED"}
  PROVE  /\ RowOK([row EXCEPT !.state = state, !.token = None, !.over = FALSE, !.due = FALSE])
         /\ RowOK([row EXCEPT !.due = TRUE])
         /\ RowOK([row EXCEPT !.over = TRUE])
         /\ RowOK(ClaimedRow(row))
         /\ row.token = None => RowOK([row EXCEPT !.state = state])
<1>a. None \notin Nat BY NormalizationAssumption
<1>1. RowOK([row EXCEPT !.state = state, !.token = None, !.over = FALSE, !.due = FALSE])
  BY DEF RowOK, DispatchRow
<1>2. RowOK([row EXCEPT !.due = TRUE]) BY DEF RowOK, DispatchRow
<1>3. RowOK([row EXCEPT !.over = TRUE]) BY DEF RowOK, DispatchRow
<1>4. RowOK(ClaimedRow(row))
  <2>1. ASSUME NEW a \in Nat, NEW g \in Nat
        PROVE  RowOK([row EXCEPT !.state = "CLAIMED", !.attempts = a, !.generation = g,
                                 !.token = g, !.over = FALSE])
    BY <1>a, <2>1 DEF RowOK, DispatchRow
  <2>2. row.attempts + 1 \in Nat /\ row.generation + 1 \in Nat
    BY DEF RowOK, DispatchRow
  <2>3. ClaimedRow(row) = [row EXCEPT !.state = "CLAIMED", !.attempts = row.attempts + 1,
                                      !.generation = row.generation + 1,
                                      !.token = row.generation + 1, !.over = FALSE]
    BY DEF ClaimedRow
  <2> QED BY <2>1, <2>2, <2>3
<1>5. row.token = None => RowOK([row EXCEPT !.state = state]) BY DEF RowOK, DispatchRow
<1> QED BY <1>1, <1>2, <1>3, <1>4, <1>5

\* Every step keeps the type of the dispatch table.
LEMMA RowsKeepType ==
  ASSUME IInv, [Next]_vars
  PROVE  /\ dispatch' \in [Records -> DispatchRow]
         /\ \A r \in Records : dispatch'[r].state = "CLAIMED" <=> dispatch'[r].token # None
<1>a. /\ dispatch \in [Records -> DispatchRow]
      /\ \A r \in Records : RowOK(dispatch[r])
      /\ worker \in [Workers -> Worker]
      /\ pass \in [Dispatchers -> Pass]
  BY DEF IInv, TypeOK, RowOK
<1>b. ASSUME NEW r \in Records, NEW row, RowOK(row), dispatch' = [dispatch EXCEPT ![r] = row]
      PROVE  dispatch' \in [Records -> DispatchRow] /\ \A i \in Records : RowOK(dispatch'[i])
  BY <1>a, <1>b DEF RowOK
<1>c. dispatch' \in [Records -> DispatchRow] /\ \A i \in Records : RowOK(dispatch'[i])
  <2>1. CASE UNCHANGED dispatch
    BY <1>a, <2>1
  <2>2. ASSUME NEW w \in Workers, NEW r \in Records, Writes(w, r), ~ UNCHANGED dispatch
        PROVE  dispatch' \in [Records -> DispatchRow] /\ \A i \in Records : RowOK(dispatch'[i])
    <3> DEFINE row == [dispatch[r] EXCEPT !.state = "PENDING", !.due = TRUE]
    <3>1. dispatch' = [dispatch EXCEPT ![r] = row] /\ dispatch[r].state = "ABSENT"
      BY <1>a, <2>2 DEF Writes, Written
    <3>2. RowOK(row) BY <1>a, <3>1 DEF RowOK, DispatchRow
    <3> QED BY <1>b, <3>1, <3>2
  <2>3. ASSUME NEW w \in Workers, Normalizes(w)
        PROVE  dispatch' \in [Records -> DispatchRow] /\ \A i \in Records : RowOK(dispatch'[i])
    <3>1. worker[w].record \in Records /\ dispatch[worker[w].record].token = None
      BY <2>3 DEF Normalizes, MayCommit, IInv, WorkerInv
    <3>2. dispatch' = [dispatch EXCEPT ![worker[w].record] =
                         [dispatch[worker[w].record] EXCEPT !.state = "DISPATCHED"]]
      BY <2>3 DEF Normalizes
    <3>3. RowOK([dispatch[worker[w].record] EXCEPT !.state = "DISPATCHED"])
      BY <1>a, <3>1, NewRowsOK
    <3> QED BY <1>b, <3>1, <3>2, <3>3
  <2>4. ASSUME NEW w \in Workers, RecordsFailure(w)
        PROVE  dispatch' \in [Records -> DispatchRow] /\ \A i \in Records : RowOK(dispatch'[i])
    <3>1. worker[w].record \in Records BY <2>4 DEF RecordsFailure, IInv, WorkerInv
    <3>2. dispatch' = [dispatch EXCEPT ![worker[w].record] =
                         FailedRow(worker[w].record, worker[w].terminal)]
      BY <2>4 DEF RecordsFailure
    <3> DEFINE row == dispatch[worker[w].record]
    <3>3. \/ FailedRow(worker[w].record, worker[w].terminal) =
                [row EXCEPT !.token = None, !.over = FALSE, !.state = "FAILED"]
          \/ FailedRow(worker[w].record, worker[w].terminal) =
                [row EXCEPT !.token = None, !.over = FALSE, !.state = "PENDING", !.due = FALSE]
      BY DEF FailedRow
    <3>4. RowOK(row) BY <1>a, <3>1
    <3> HIDE DEF row
    <3>5. /\ RowOK([row EXCEPT !.token = None, !.over = FALSE, !.state = "FAILED"])
          /\ RowOK([row EXCEPT !.token = None, !.over = FALSE, !.state = "PENDING", !.due = FALSE])
      BY <3>4 DEF RowOK, DispatchRow
    <3>6. RowOK(FailedRow(worker[w].record, worker[w].terminal)) BY <3>3, <3>5
    <3> QED BY <1>b, <3>1, <3>2, <3>6
  <2>5. ASSUME NEW d \in Dispatchers, NEW S \in SUBSET Records, Claims(d, S)
        PROVE  dispatch' \in [Records -> DispatchRow] /\ \A i \in Records : RowOK(dispatch'[i])
    <3>1. dispatch' = [r \in Records |-> IF r \in S THEN ClaimedRow(dispatch[r]) ELSE dispatch[r]]
      BY <2>5 DEF Claims
    <3>2. \A r \in Records : RowOK(ClaimedRow(dispatch[r])) BY <1>a, NewRowsOK
    <3> QED BY <1>a, <3>1, <3>2 DEF RowOK
  <2>6. ASSUME NEW d \in Dispatchers, MarksDispatched(d) \/ PublishFails(d)
        PROVE  dispatch' \in [Records -> DispatchRow] /\ \A i \in Records : RowOK(dispatch'[i])
    <3>1. pass[d].todo \subseteq Claim /\ (pass[d].sent # None => pass[d].sent \in Claim)
      BY <1>a DEF Pass
    <3>2. PICK c \in Claim, state \in {"DISPATCHED", "PENDING"} : dispatch' = Settled(c, state)
      BY <2>6, <3>1 DEF MarksDispatched, PublishFails, AfterFailure
    <3>3. CASE ~ Holds(c)
      BY <1>a, <3>2, <3>3 DEF Settled
    <3>4. CASE Holds(c)
      <4> DEFINE row == [dispatch[c.record] EXCEPT !.state = state, !.token = None,
                                                   !.over = FALSE, !.due = FALSE]
      <4>1. c.record \in Records BY DEF Claim
      <4>2. dispatch' = [dispatch EXCEPT ![c.record] = row]
        BY <3>2, <3>4 DEF Settled
      <4>3. RowOK(row) BY <1>a, <4>1, NewRowsOK
      <4> QED BY <1>b, <4>1, <4>2, <4>3
    <3> QED BY <3>3, <3>4
  <2>7. ASSUME NEW r \in Records, ComesDue(r) \/ LeaseRunsOut(r)
        PROVE  dispatch' \in [Records -> DispatchRow] /\ \A i \in Records : RowOK(dispatch'[i])
    <3>1. \/ dispatch' = [dispatch EXCEPT ![r] = [dispatch[r] EXCEPT !.due = TRUE]]
          \/ dispatch' = [dispatch EXCEPT ![r] = [dispatch[r] EXCEPT !.over = TRUE]]
      BY <2>7 DEF ComesDue, LeaseRunsOut
    <3>2. RowOK([dispatch[r] EXCEPT !.due = TRUE]) /\ RowOK([dispatch[r] EXCEPT !.over = TRUE])
      BY <1>a, NewRowsOK
    <3> QED BY <1>b, <3>1, <3>2
  <2>8. \/ UNCHANGED dispatch
        \/ \E w \in Workers, r \in Records : Writes(w, r)
        \/ \E w \in Workers : Normalizes(w) \/ RecordsFailure(w)
        \/ \E d \in Dispatchers, S \in SUBSET Records : Claims(d, S)
        \/ \E d \in Dispatchers : MarksDispatched(d) \/ PublishFails(d)
        \/ \E r \in Records : ComesDue(r) \/ LeaseRunsOut(r)
    BY DEF Next, Works, Dispatches, NormalizeFails, RecordingFails, Returns, WorkerLost,
      Receives, Publishes, DispatcherLost, vars
  <2> QED BY <2>1, <2>2, <2>3, <2>4, <2>5, <2>6, <2>7, <2>8
<1> QED BY <1>c DEF RowOK

\* Messages are counted from zero.
LEMMA QueueKeepsType ==
  ASSUME IInv, [Next]_vars
  PROVE  queue' \in [Records -> [0..MaxRetries -> Nat]]
<1>a. /\ queue \in [Records -> [0..MaxRetries -> Nat]]
      /\ worker \in [Workers -> Worker]
      /\ pass \in [Dispatchers -> Pass]
      /\ MaxRetries \in Nat
  BY NormalizationAssumption DEF IInv, TypeOK
<1>1. CASE UNCHANGED queue
  BY <1>a, <1>1
<1>2. ASSUME NEW r \in Records, NEW k \in 0..MaxRetries, queue' = [queue EXCEPT ![r][k] = @ + 1]
      PROVE  queue' \in [Records -> [0..MaxRetries -> Nat]]
  BY <1>a, <1>2
<1>3. ASSUME NEW w \in Workers, NEW r \in Records, NEW k \in 0..MaxRetries, Receives(w, r, k)
      PROVE  queue' \in [Records -> [0..MaxRetries -> Nat]]
  <2>1. queue[r][k] > 0 /\ queue[r][k] \in Nat BY <1>a, <1>3 DEF Receives
  <2>2. queue[r][k] - 1 \in Nat BY <2>1
  <2>3. queue' = [queue EXCEPT ![r] = [queue[r] EXCEPT ![k] = queue[r][k] - 1]]
    BY <1>3 DEF Receives
  <2> QED BY <1>a, <2>2, <2>3
<1>4. ASSUME NEW w \in Workers, RecordingFails(w) \/ WorkerLost(w)
      PROVE  \/ UNCHANGED queue
             \/ \E r \in Records, k \in 0..MaxRetries : queue' = [queue EXCEPT ![r][k] = @ + 1]
  <2>1. worker[w].record \in Records /\ worker[w].retries \in 0..MaxRetries
    BY <1>a, <1>4 DEF RecordingFails, WorkerLost, IInv, WorkerInv, Worker
  <2>2. worker[w].retries # MaxRetries => worker[w].retries + 1 \in 0..MaxRetries
    BY <1>a, <2>1
  <2> QED BY <1>4, <2>1, <2>2 DEF RecordingFails, WorkerLost, Requeued
<1>5. ASSUME NEW d \in Dispatchers, Publishes(d) \/ PublishFails(d)
      PROVE  \/ UNCHANGED queue
             \/ \E r \in Records, k \in 0..MaxRetries : queue' = [queue EXCEPT ![r][k] = @ + 1]
  <2>1. \A c \in pass[d].todo : c.record \in Records
    BY <1>a DEF Pass, Claim
  <2>2. 0 \in 0..MaxRetries BY <1>a
  <2> QED BY <1>5, <2>1, <2>2 DEF Publishes, PublishFails, Enqueued
<1>6. \/ UNCHANGED queue
      \/ \E w \in Workers, r \in Records, k \in 0..MaxRetries : Receives(w, r, k)
      \/ \E w \in Workers : RecordingFails(w) \/ WorkerLost(w)
      \/ \E d \in Dispatchers : Publishes(d) \/ PublishFails(d)
  BY DEF Next, Works, Dispatches, Normalizes, NormalizeFails, RecordsFailure, Returns,
    Writes, Claims, MarksDispatched, DispatcherLost, ComesDue, LeaseRunsOut, vars
<1> QED BY <1>1, <1>2, <1>3, <1>4, <1>5, <1>6

\* The executions and the passes keep their types.
LEMMA ProcessesKeepType ==
  ASSUME IInv, [Next]_vars
  PROVE  worker' \in [Workers -> Worker] /\ pass' \in [Dispatchers -> Pass]
<1>a. /\ worker \in [Workers -> Worker]
      /\ pass \in [Dispatchers -> Pass]
      /\ dispatch \in [Records -> DispatchRow]
  BY DEF IInv, TypeOK
<1>b. Idle \in Worker /\ NoPass \in Pass
  BY NormalizationAssumption DEF Idle, Worker, NoPass, Pass
<1>1. worker' \in [Workers -> Worker]
  <2>1. CASE UNCHANGED worker
    BY <1>a, <2>1
  <2>2. ASSUME NEW w \in Workers, NEW r \in Records, NEW k \in 0..MaxRetries,
               Writes(w, r) \/ Receives(w, r, k)
        PROVE  worker' \in [Workers -> Worker]
    <3>1. /\ [Idle EXCEPT !.at = "normalizing", !.record = r, !.inline = TRUE] \in Worker
          /\ [Idle EXCEPT !.at = "normalizing", !.record = r, !.retries = k] \in Worker
      BY <1>b DEF Worker
    <3> QED BY <1>a, <2>2, <3>1 DEF Writes, Receives
  <2>3. ASSUME NEW w \in Workers, Normalizes(w) \/ NormalizeFails(w)
        PROVE  worker' \in [Workers -> Worker]
    BY <1>a, <2>3 DEF Normalizes, NormalizeFails, Worker
  <2>4. ASSUME NEW w \in Workers,
               RecordsFailure(w) \/ RecordingFails(w) \/ Returns(w) \/ WorkerLost(w)
        PROVE  worker' \in [Workers -> Worker]
    BY <1>a, <1>b, <2>4 DEF RecordsFailure, RecordingFails, Returns, WorkerLost
  <2>5. \/ UNCHANGED worker
        \/ \E w \in Workers, r \in Records : Writes(w, r)
        \/ \E w \in Workers, r \in Records, k \in 0..MaxRetries : Receives(w, r, k)
        \/ \E w \in Workers : Works(w) \/ WorkerLost(w)
    BY DEF Next, Dispatches, Claims, Publishes, MarksDispatched, PublishFails, DispatcherLost,
      ComesDue, LeaseRunsOut, vars
  <2>6. 0 \in 0..MaxRetries BY NormalizationAssumption
  <2> QED BY <2>1, <2>2, <2>3, <2>4, <2>5, <2>6 DEF Works
<1>2. pass' \in [Dispatchers -> Pass]
  <2>1. CASE UNCHANGED pass
    BY <1>a, <2>1
  <2>2. ASSUME NEW d \in Dispatchers, NEW S \in SUBSET Records, Claims(d, S)
        PROVE  pass' \in [Dispatchers -> Pass]
    <3> DEFINE made == {[record |-> r, token |-> dispatch[r].generation + 1] : r \in S}
    <3>1. \A r \in Records : dispatch[r].generation + 1 \in Nat
      BY <1>a DEF DispatchRow
    <3>2. made \subseteq Claim BY <3>1 DEF Claim
    <3>3. pass' = [pass EXCEPT ![d].todo = made] BY <2>2 DEF Claims
    <3> HIDE DEF made
    <3> QED BY <1>a, <3>2, <3>3 DEF Pass
  <2>3. ASSUME NEW d \in Dispatchers,
               Publishes(d) \/ MarksDispatched(d) \/ PublishFails(d)
        PROVE  pass' \in [Dispatchers -> Pass]
    <3>1. /\ pass[d].todo \subseteq Claim /\ pass[d].sent \in Claim \cup {None}
          /\ \A todo \in SUBSET Claim, sent \in Claim \cup {None} :
               [pass EXCEPT ![d] = [pass[d] EXCEPT !.todo = todo, !.sent = sent]]
                 \in [Dispatchers -> Pass]
      BY <1>a DEF Pass
    <3>2. \E todo \in SUBSET Claim, sent \in Claim \cup {None} :
            pass' = [pass EXCEPT ![d] = [pass[d] EXCEPT !.todo = todo, !.sent = sent]]
      <4>1. CASE Publishes(d)
        <5>1. PICK c \in pass[d].todo :
                pass' = [pass EXCEPT ![d] = [pass[d] EXCEPT !.todo = pass[d].todo \ {c}, !.sent = c]]
          BY <4>1 DEF Publishes
        <5>2. pass[d].todo \ {c} \in SUBSET Claim /\ c \in Claim BY <3>1, <5>1
        <5> QED BY <5>1, <5>2
      <4>2. CASE MarksDispatched(d)
        <5>1. pass' = [pass EXCEPT ![d] = [pass[d] EXCEPT !.sent = None]]
          BY <4>2 DEF MarksDispatched
        <5>2. [pass[d] EXCEPT !.sent = None] = [pass[d] EXCEPT !.todo = pass[d].todo, !.sent = None]
          BY <1>a DEF Pass
        <5> QED BY <3>1, <5>1, <5>2
      <4>3. CASE PublishFails(d)
        <5>1. PICK c \in pass[d].todo :
                pass' = [pass EXCEPT ![d] = [pass[d] EXCEPT !.todo = pass[d].todo \ {c}]]
          BY <4>3 DEF PublishFails
        <5>2. [pass[d] EXCEPT !.todo = pass[d].todo \ {c}]
                = [pass[d] EXCEPT !.todo = pass[d].todo \ {c}, !.sent = pass[d].sent]
          BY <1>a DEF Pass
        <5>3. pass[d].todo \ {c} \in SUBSET Claim BY <3>1
        <5> QED BY <3>1, <5>1, <5>2, <5>3
      <4> QED BY <2>3, <4>1, <4>2, <4>3
    <3> QED BY <3>1, <3>2
  <2>4. ASSUME NEW d \in Dispatchers, DispatcherLost(d)
        PROVE  pass' \in [Dispatchers -> Pass]
    BY <1>a, <1>b, <2>4 DEF DispatcherLost
  <2>5. \/ UNCHANGED pass
        \/ \E d \in Dispatchers, S \in SUBSET Records : Claims(d, S)
        \/ \E d \in Dispatchers : \/ Publishes(d) \/ MarksDispatched(d) \/ PublishFails(d)
                                  \/ DispatcherLost(d)
    BY DEF Next, Dispatches, Works, Writes, Receives, Normalizes, NormalizeFails,
      RecordsFailure, RecordingFails, Returns, WorkerLost, ComesDue, LeaseRunsOut, vars
  <2> QED BY <2>1, <2>2, <2>3, <2>4, <2>5
<1> QED BY <1>1, <1>2

\* Every step keeps the types of the outbox.
LEMMA TypesStay ==
  ASSUME IInv, [Next]_vars
  PROVE  TypeOK'
<1>1. normalized' \subseteq Records /\ rejected' \subseteq Records
  <2>1. \A w \in Workers : worker[w].at # "idle" => worker[w].record \in Records
    BY DEF IInv, WorkerInv
  <2>2. normalized \subseteq Records /\ rejected \subseteq Records BY DEF IInv, TypeOK
  <2>3. \/ UNCHANGED <<normalized, rejected>>
        \/ \E w \in Workers : Normalizes(w) \/ RecordsFailure(w)
    BY DEF Next, Works, Dispatches, NormalizeFails, RecordingFails, Returns, WorkerLost,
      Writes, Receives, Claims, Publishes, MarksDispatched, PublishFails, DispatcherLost,
      ComesDue, LeaseRunsOut, vars
  <2> QED BY <2>1, <2>2, <2>3 DEF Normalizes, RecordsFailure
<1> QED BY <1>1, RowsKeepType, QueueKeepsType, ProcessesKeepType DEF TypeOK

-----------------------------------------------------------------------------
(* Rows, executions and claims. *)

\* A generation never goes down, and a claimed row has the token of its generation.
LEMMA RowsStep ==
  ASSUME IInv, [Next]_vars, NEW r \in Records
  PROVE  /\ dispatch'[r].generation >= dispatch[r].generation
         /\ dispatch'[r].state = "CLAIMED" => dispatch'[r].token = dispatch'[r].generation
<1>a. dispatch \in [Records -> DispatchRow] /\ RowInv(r) /\ dispatch[r].generation \in Nat
  BY DEF IInv, TypeOK, DispatchRow
<1>1. CASE dispatch'[r] = dispatch[r]
  BY <1>a, <1>1 DEF RowInv
<1>2. ASSUME NEW w \in Workers, NEW i \in Records, Writes(w, i), dispatch'[r] # dispatch[r]
      PROVE  dispatch'[r].generation = dispatch[r].generation /\ dispatch'[r].state = "PENDING"
  BY <1>a, <1>2 DEF Writes, DispatchRow
<1>3. ASSUME NEW w \in Workers, Normalizes(w), dispatch'[r] # dispatch[r]
      PROVE  dispatch'[r].generation = dispatch[r].generation /\ dispatch'[r].state = "DISPATCHED"
  BY <1>a, <1>3 DEF Normalizes, DispatchRow
<1>4. ASSUME NEW w \in Workers, RecordsFailure(w), dispatch'[r] # dispatch[r]
      PROVE  /\ dispatch'[r].generation = dispatch[r].generation
             /\ dispatch'[r].state \in {"PENDING", "FAILED"}
  <2>1. dispatch'[r] = FailedRow(r, worker[w].terminal)
    BY <1>a, <1>4 DEF RecordsFailure
  <2> QED BY <1>a, <2>1 DEF FailedRow, DispatchRow
<1>5. ASSUME NEW d \in Dispatchers, NEW S \in SUBSET Records, Claims(d, S), dispatch'[r] # dispatch[r]
      PROVE  /\ dispatch'[r].generation = dispatch[r].generation + 1
             /\ dispatch'[r].token = dispatch[r].generation + 1
             /\ dispatch'[r].state = "CLAIMED"
  <2>1. dispatch'[r] = ClaimedRow(dispatch[r]) BY <1>5 DEF Claims
  <2> QED BY <1>a, <2>1 DEF ClaimedRow, DispatchRow
<1>6. ASSUME NEW c, NEW state \in {"DISPATCHED", "PENDING"}, dispatch' = Settled(c, state),
             dispatch'[r] # dispatch[r]
      PROVE  dispatch'[r].generation = dispatch[r].generation /\ dispatch'[r].state = state
  BY <1>a, <1>6 DEF Settled, DispatchRow
<1>7. ASSUME NEW d \in Dispatchers, MarksDispatched(d) \/ PublishFails(d)
      PROVE  \E c : \E state \in {"DISPATCHED", "PENDING"} : dispatch' = Settled(c, state)
  BY <1>7 DEF MarksDispatched, PublishFails, AfterFailure
<1>8. ASSUME NEW i \in Records, ComesDue(i) \/ LeaseRunsOut(i)
      PROVE  /\ dispatch'[r].generation = dispatch[r].generation
             /\ dispatch'[r].token = dispatch[r].token /\ dispatch'[r].state = dispatch[r].state
  BY <1>a, <1>8 DEF ComesDue, LeaseRunsOut, DispatchRow
<1>9. \/ UNCHANGED dispatch
      \/ \E w \in Workers, i \in Records : Writes(w, i)
      \/ \E w \in Workers : Normalizes(w) \/ RecordsFailure(w)
      \/ \E d \in Dispatchers, S \in SUBSET Records : Claims(d, S)
      \/ \E d \in Dispatchers : MarksDispatched(d) \/ PublishFails(d)
      \/ \E i \in Records : ComesDue(i) \/ LeaseRunsOut(i)
  BY DEF Next, Works, Dispatches, NormalizeFails, RecordingFails, Returns, WorkerLost,
    Receives, Publishes, DispatcherLost, vars
<1> QED BY <1>a, <1>1, <1>2, <1>3, <1>4, <1>5, <1>6, <1>7, <1>8, <1>9 DEF RowInv

\* Nothing takes back a rejection.
LEMMA RejectionStays ==
  ASSUME IInv, [Next]_vars, NEW r \in Records, r \in rejected
  PROVE  dispatch'[r].state = "FAILED"
<1>a. /\ dispatch \in [Records -> DispatchRow]
      /\ dispatch[r].state = "FAILED" /\ r \in Malformed
  BY DEF IInv, TypeOK, RowInv
<1>1. ASSUME NEW w \in Workers, NEW i \in Records, Writes(w, i) PROVE dispatch'[r] = dispatch[r]
  BY <1>a, <1>1 DEF Writes, Written
<1>2. ASSUME NEW w \in Workers, Normalizes(w) PROVE dispatch'[r] = dispatch[r]
  BY <1>a, <1>2 DEF Normalizes
<1>3. ASSUME NEW w \in Workers, RecordsFailure(w) PROVE dispatch'[r] = dispatch[r]
  BY <1>a, <1>3 DEF RecordsFailure, Recordable
<1>4. ASSUME NEW d \in Dispatchers, NEW S \in SUBSET Records, Claims(d, S)
      PROVE  dispatch'[r] = dispatch[r]
  BY <1>a, <1>4 DEF Claims, DueRows
<1>5. ASSUME NEW d \in Dispatchers, MarksDispatched(d) \/ PublishFails(d)
      PROVE  dispatch'[r] = dispatch[r]
  <2>1. PICK c, state : dispatch' = Settled(c, state)
    BY <1>5 DEF MarksDispatched, PublishFails, AfterFailure
  <2> QED BY <1>a, <2>1 DEF Settled, Holds
<1>6. ASSUME NEW i \in Records, ComesDue(i) \/ LeaseRunsOut(i) PROVE dispatch'[r] = dispatch[r]
  BY <1>a, <1>6 DEF ComesDue, LeaseRunsOut
<1>7. \/ UNCHANGED dispatch
      \/ \E w \in Workers, i \in Records : Writes(w, i)
      \/ \E w \in Workers : Normalizes(w) \/ RecordsFailure(w)
      \/ \E d \in Dispatchers, S \in SUBSET Records : Claims(d, S)
      \/ \E d \in Dispatchers : MarksDispatched(d) \/ PublishFails(d)
      \/ \E i \in Records : ComesDue(i) \/ LeaseRunsOut(i)
  BY DEF Next, Works, Dispatches, NormalizeFails, RecordingFails, Returns, WorkerLost,
    Receives, Publishes, DispatcherLost, vars
<1> QED BY <1>a, <1>1, <1>2, <1>3, <1>4, <1>5, <1>6, <1>7

\* Only malformed records are rejected, and only others normalized.
LEMMA RowsStay ==
  ASSUME IInv, [Next]_vars
  PROVE  normalized' \cap Malformed = {} /\ \A r \in Records : RowInv(r)'
<1>1. normalized' \cap Malformed = {}
  <2>1. UNCHANGED normalized \/ \E w \in Workers : Normalizes(w)
    BY DEF Next, Works, Dispatches, NormalizeFails, RecordsFailure, RecordingFails, Returns,
      WorkerLost, Writes, Receives, Claims, Publishes, MarksDispatched, PublishFails,
      DispatcherLost, ComesDue, LeaseRunsOut, vars
  <2> QED BY <2>1 DEF IInv, Normalizes
<1>2. ASSUME NEW r \in Records, r \in rejected' PROVE dispatch'[r].state = "FAILED" /\ r \in Malformed
  <2>1. UNCHANGED rejected \/ \E w \in Workers : RecordsFailure(w)
    BY DEF Next, Works, Dispatches, NormalizeFails, Normalizes, RecordingFails, Returns,
      WorkerLost, Writes, Receives, Claims, Publishes, MarksDispatched, PublishFails,
      DispatcherLost, ComesDue, LeaseRunsOut, vars
  <2>2. CASE r \in rejected
    BY <2>2, RejectionStays DEF IInv, RowInv
  <2>3. CASE r \notin rejected
    <3>1. PICK w \in Workers : RecordsFailure(w) /\ worker[w].record = r /\ worker[w].terminal
      BY <1>2, <2>1, <2>3 DEF RecordsFailure
    <3>2. dispatch \in [Records -> DispatchRow] /\ r \in Malformed
      BY <3>1 DEF IInv, TypeOK, WorkerInv
    <3>3. dispatch'[r] = FailedRow(r, TRUE) BY <3>1, <3>2 DEF RecordsFailure
    <3> QED BY <3>2, <3>3 DEF FailedRow, DispatchRow
  <2> QED BY <2>2, <2>3
<1> QED BY <1>1, <1>2, RowsStep DEF RowInv

\* What an execution says of its record stays true.
LEMMA WorkersStay ==
  ASSUME IInv, [Next]_vars, NEW v \in Workers
  PROVE  WorkerInv(v)'
<1>a. worker \in [Workers -> Worker] /\ WorkerInv(v)
  BY DEF IInv, TypeOK
<1>b. normalized \subseteq normalized'
  BY DEF Next, Works, Dispatches, NormalizeFails, Normalizes, RecordsFailure, RecordingFails,
    Returns, WorkerLost, Writes, Receives, Claims, Publishes, MarksDispatched, PublishFails,
    DispatcherLost, ComesDue, LeaseRunsOut, vars
<1>1. CASE worker'[v] = worker[v]
  BY <1>a, <1>b, <1>1 DEF WorkerInv
<1>2. CASE worker'[v] = Idle
  BY <1>2 DEF WorkerInv, Idle
<1>3. ASSUME NEW r \in Records, NEW k \in 0..MaxRetries, Writes(v, r) \/ Receives(v, r, k)
      PROVE  WorkerInv(v)'
  <2>1. /\ worker'[v].at = "normalizing" /\ worker'[v].record = r
        /\ worker'[v].terminal = FALSE
    BY <1>a, <1>3 DEF Writes, Receives, Idle
  <2> QED BY <2>1 DEF WorkerInv
<1>4. CASE Normalizes(v)
  <2>1. /\ worker'[v].at = "committed" /\ worker'[v].record = worker[v].record
        /\ worker'[v].terminal = worker[v].terminal
        /\ worker[v].record \in normalized' /\ worker[v].at = "normalizing"
    BY <1>a, <1>4 DEF Normalizes, Worker
  <2> QED BY <1>a, <2>1 DEF WorkerInv
<1>5. CASE NormalizeFails(v)
  <2>1. /\ worker'[v].at = "failing" /\ worker'[v].record = worker[v].record
        /\ worker'[v].terminal => worker[v].terminal \/ worker[v].record \in Malformed
        /\ worker[v].at = "normalizing"
    BY <1>a, <1>5 DEF NormalizeFails, Worker
  <2> QED BY <1>a, <2>1 DEF WorkerInv
<1>6. \/ worker'[v] = worker[v] \/ worker'[v] = Idle
      \/ Normalizes(v) \/ NormalizeFails(v)
      \/ \E r \in Records : Writes(v, r)
      \/ \E r \in Records, k \in 0..MaxRetries : Receives(v, r, k)
  <2>1. \/ UNCHANGED worker
        \/ \E w \in Workers, r \in Records : Writes(w, r)
        \/ \E w \in Workers, r \in Records, k \in 0..MaxRetries : Receives(w, r, k)
        \/ \E w \in Workers : Works(w) \/ WorkerLost(w)
    BY DEF Next, Dispatches, Claims, Publishes, MarksDispatched, PublishFails, DispatcherLost,
      ComesDue, LeaseRunsOut, vars
  <2>2. ASSUME NEW w \in Workers, w # v, NEW r \in Records, NEW k \in 0..MaxRetries,
               Writes(w, r) \/ Receives(w, r, k)
        PROVE  worker'[v] = worker[v]
    BY <1>a, <2>2 DEF Writes, Receives
  <2>3. ASSUME NEW w \in Workers, w # v, Works(w) \/ WorkerLost(w)
        PROVE  worker'[v] = worker[v]
    BY <1>a, <2>3 DEF Works, WorkerLost, Normalizes, NormalizeFails, RecordsFailure,
       RecordingFails, Returns
  <2>4. CASE RecordsFailure(v) \/ RecordingFails(v) \/ Returns(v) \/ WorkerLost(v)
    BY <1>a, <2>4 DEF WorkerLost, RecordsFailure, RecordingFails, Returns
  <2>5. 0 \in 0..MaxRetries BY NormalizationAssumption
  <2> QED BY <2>1, <2>2, <2>3, <2>4, <2>5 DEF Works
<1>7. 0 \in 0..MaxRetries BY NormalizationAssumption
<1> QED BY <1>1, <1>2, <1>3, <1>4, <1>5, <1>6, <1>7

\* A claim was made with a generation its row has passed or has.
LEMMA ClaimsStay ==
  ASSUME IInv, [Next]_vars, NEW d \in Dispatchers
  PROVE  (/\ \A c \in pass[d].todo : ClaimMade(c)
          /\ pass[d].sent # None => ClaimMade(pass[d].sent))'
<1>a. /\ pass \in [Dispatchers -> Pass] /\ dispatch \in [Records -> DispatchRow]
      /\ pass' \in [Dispatchers -> Pass] /\ dispatch' \in [Records -> DispatchRow]
  BY ProcessesKeepType, RowsKeepType DEF IInv, TypeOK
<1>1. ASSUME NEW c \in Claim, ClaimMade(c) PROVE ClaimMade(c)'
  <2>1. c.record \in Records /\ c.token \in Nat BY DEF Claim
  <2>2. dispatch[c.record].generation \in Nat /\ dispatch'[c.record].generation \in Nat
    BY <1>a, <2>1 DEF DispatchRow
  <2> QED BY <1>1, <2>1, <2>2, RowsStep DEF ClaimMade
<1>2. /\ pass[d].todo \subseteq Claim /\ pass[d].sent \in Claim \cup {None}
      /\ \A c \in pass[d].todo : ClaimMade(c)
      /\ pass[d].sent # None => ClaimMade(pass[d].sent)
  BY <1>a DEF IInv, Pass
<1>3. CASE pass'[d].todo \subseteq pass[d].todo
           /\ pass'[d].sent \in {None, pass[d].sent} \cup pass[d].todo
  BY <1>1, <1>2, <1>3 DEF ClaimMade
<1>4. ASSUME NEW S \in SUBSET Records, Claims(d, S)
      PROVE  /\ \A c \in pass'[d].todo : ClaimMade(c)'
             /\ pass'[d].sent = None
  <2>1. pass[d] = NoPass
        /\ pass' = [pass EXCEPT ![d].todo = {[record |-> r, token |-> dispatch[r].generation + 1]
                                               : r \in S}]
        /\ \A r \in S : dispatch'[r] = ClaimedRow(dispatch[r])
    BY <1>4 DEF Claims
  <2>2. pass'[d].sent = None
        /\ pass'[d].todo = {[record |-> r, token |-> dispatch[r].generation + 1] : r \in S}
    BY <1>a, <2>1 DEF NoPass
  <2>3. ASSUME NEW r \in S
        PROVE  dispatch'[r].generation = dispatch[r].generation + 1
               /\ dispatch[r].generation \in Nat
    BY <1>a, <2>1 DEF ClaimedRow, DispatchRow
  <2> QED BY <2>2, <2>3 DEF ClaimMade
<1>5. ASSUME NEW e \in Dispatchers, \/ Publishes(e) \/ MarksDispatched(e) \/ PublishFails(e)
                                    \/ DispatcherLost(e)
      PROVE  pass'[d].todo \subseteq pass[d].todo
             /\ pass'[d].sent \in {None, pass[d].sent} \cup pass[d].todo
  <2>1. CASE d # e
    BY <1>a, <1>5, <2>1 DEF Publishes, MarksDispatched, PublishFails, DispatcherLost
  <2>2. CASE d = e /\ Publishes(d)
    BY <1>a, <2>2 DEF Publishes, Pass
  <2>3. CASE d = e /\ MarksDispatched(d)
    BY <1>a, <2>3 DEF MarksDispatched, Pass
  <2>4. CASE d = e /\ PublishFails(d)
    BY <1>a, <2>4 DEF PublishFails, Pass
  <2>5. CASE d = e /\ DispatcherLost(d)
    BY <1>a, <2>5 DEF DispatcherLost, NoPass
  <2> QED BY <1>5, <2>1, <2>2, <2>3, <2>4, <2>5
<1>6. ASSUME NEW e \in Dispatchers, NEW S \in SUBSET Records, Claims(e, S), e # d
      PROVE  pass'[d] = pass[d]
  BY <1>a, <1>6 DEF Claims
<1>7. \/ UNCHANGED pass
      \/ \E e \in Dispatchers, S \in SUBSET Records : Claims(e, S)
      \/ \E e \in Dispatchers : \/ Publishes(e) \/ MarksDispatched(e) \/ PublishFails(e)
                                \/ DispatcherLost(e)
  BY DEF Next, Dispatches, Works, Writes, Receives, Normalizes, NormalizeFails,
    RecordsFailure, RecordingFails, Returns, WorkerLost, ComesDue, LeaseRunsOut, vars
<1> QED BY <1>3, <1>4, <1>5, <1>6, <1>7

-----------------------------------------------------------------------------
(* Messages. *)

\* A step that leaves the worker with its record and takes no message leaves
\* every message where it was.
LEMMA CarriedStays ==
  ASSUME IInv, [Next]_vars, NEW r \in Records, Carried(r),
         \A k \in 0..MaxRetries : queue[r][k] > 0 => queue'[r][k] > 0,
         \A w \in Workers : worker[w].record = r => /\ worker'[w].record = r
                                                    /\ worker'[w].inline = worker[w].inline
                                                    /\ worker'[w].retries = worker[w].retries
  PROVE  Carried(r)'
<1>1. faults \in Nat /\ faults' \in Nat /\ faults <= faults' BY FaultsCount DEF IInv
<1>2. MaxRetries \in Nat /\ worker \in [Workers -> Worker]
  BY NormalizationAssumption DEF IInv, TypeOK
<1>3. CASE \E k \in 0..MaxRetries : k <= faults /\ queue[r][k] > 0
  <2>1. PICK k \in 0..MaxRetries : k <= faults /\ queue[r][k] > 0 BY <1>3
  <2>2. k <= faults' /\ queue'[r][k] > 0 BY <1>1, <1>2, <2>1
  <2> QED BY <2>2 DEF Carried
<1>4. CASE \E w \in Workers : worker[w].record = r /\ ~ worker[w].inline /\ worker[w].retries <= faults
  <2>1. PICK w \in Workers : worker[w].record = r /\ ~ worker[w].inline /\ worker[w].retries <= faults
    BY <1>4
  <2>2. worker[w].retries \in Int BY <1>2 DEF Worker
  <2>3. worker'[w].record = r /\ ~ worker'[w].inline /\ worker'[w].retries <= faults'
    BY <1>1, <2>1, <2>2
  <2> QED BY <2>3 DEF Carried
<1> QED BY <1>3, <1>4 DEF Carried

\* A row leaves the dispatcher's sight only when a message for it was sent or
\* it is normalized.
LEMMA LeavesSight ==
  ASSUME IInv, [Next]_vars, NEW r \in Records, OutOfSight(r)'
  PROVE  \/ OutOfSight(r)
         \/ r \in normalized'
         \/ Carried(r)'
<1>a. /\ dispatch \in [Records -> DispatchRow] /\ pass \in [Dispatchers -> Pass]
      /\ queue \in [Records -> [0..MaxRetries -> Nat]] /\ faults' \in Nat /\ MaxRetries \in Nat
  BY FaultsCount, NormalizationAssumption DEF IInv, TypeOK
<1>b. \A d \in Dispatchers : pass[d].sent # None => pass[d].sent \in Claim
  BY <1>a DEF Pass
<1>1. ASSUME UNCHANGED pass, dispatch'[r].state \in {dispatch[r].state, "ABSENT", "PENDING", "FAILED"},
             dispatch'[r].token = dispatch[r].token
      PROVE  OutOfSight(r)
  BY <1>1 DEF OutOfSight, Holds
<1>2. ASSUME NEW w \in Workers, NEW i \in Records, Writes(w, i) PROVE OutOfSight(r)
  <2>1. \/ dispatch'[r] = dispatch[r]
        \/ dispatch'[r].state = "PENDING" /\ dispatch'[r].token = dispatch[r].token
    BY <1>a, <1>2 DEF Writes, DispatchRow
  <2> QED BY <1>1, <1>2, <2>1 DEF Writes
<1>3. ASSUME NEW w \in Workers, Normalizes(w) PROVE OutOfSight(r) \/ r \in normalized'
  <2>1. r \in normalized' \/ dispatch'[r] = dispatch[r]
    BY <1>a, <1>3 DEF Normalizes
  <2> QED BY <1>1, <1>3, <2>1 DEF Normalizes
<1>4. ASSUME NEW w \in Workers, RecordsFailure(w) PROVE OutOfSight(r)
  <2>1. CASE worker[w].record # r
    <3>1. dispatch'[r] = dispatch[r] BY <1>a, <1>4, <2>1 DEF RecordsFailure
    <3> QED BY <1>1, <1>4, <3>1 DEF RecordsFailure
  <2>2. CASE worker[w].record = r
    <3>1. dispatch'[r] = FailedRow(r, worker[w].terminal) BY <1>a, <1>4, <2>2 DEF RecordsFailure
    <3>2. dispatch'[r].state \in {"PENDING", "FAILED"} BY <1>a, <3>1 DEF FailedRow, DispatchRow
    <3> QED BY <3>2 DEF OutOfSight, Holds
  <2> QED BY <2>1, <2>2
<1>5. ASSUME NEW d \in Dispatchers, NEW S \in SUBSET Records, Claims(d, S) PROVE OutOfSight(r)
  <2>1. \A e \in Dispatchers : pass'[e].sent = pass[e].sent
    BY <1>a, <1>5 DEF Claims, Pass
  <2>2. CASE r \notin S
    <3>1. dispatch'[r] = dispatch[r] BY <1>a, <1>5, <2>2 DEF Claims
    <3> QED BY <2>1, <3>1 DEF OutOfSight, Holds
  <2>3. CASE r \in S
    <3>1. dispatch'[r] = ClaimedRow(dispatch[r]) BY <1>5, <2>3 DEF Claims
    <3>2. /\ dispatch'[r].state = "CLAIMED" /\ dispatch'[r].token = dispatch[r].generation + 1
          /\ dispatch[r].generation \in Nat
      BY <1>a, <3>1 DEF ClaimedRow, DispatchRow
    <3>3. PICK e \in Dispatchers : /\ pass[e].sent # None /\ pass[e].sent.record = r
                                   /\ pass[e].sent.token = dispatch[r].generation + 1
      BY <2>1, <3>2 DEF OutOfSight, Holds
    <3>4. pass[e].sent.token <= dispatch[r].generation BY <3>3 DEF IInv, ClaimMade
    <3> QED BY <3>2, <3>3, <3>4
  <2> QED BY <2>2, <2>3
<1>6. ASSUME NEW d \in Dispatchers, Publishes(d) PROVE OutOfSight(r) \/ Carried(r)'
  <2>1. PICK c \in pass[d].todo :
          /\ Enqueued(c.record)
          /\ pass' = [pass EXCEPT ![d] = [pass[d] EXCEPT !.todo = @ \ {c}, !.sent = c]]
          /\ UNCHANGED dispatch
    BY <1>6 DEF Publishes
  <2>2. CASE c.record = r
    <3>1. queue[r][0] \in Nat BY <1>a
    <3>2. queue'[r][0] = queue[r][0] + 1 BY <1>a, <2>1, <2>2 DEF Enqueued
    <3>3. queue'[r][0] > 0 /\ 0 \in 0..MaxRetries /\ 0 <= faults' BY <1>a, <3>1, <3>2
    <3> QED BY <3>3 DEF Carried
  <2>3. CASE c.record # r
    <3>1. pass'[d].sent = c BY <1>a, <2>1 DEF Pass
    <3>2. \A e \in Dispatchers : e # d => pass'[e] = pass[e] BY <1>a, <2>1
    <3> QED BY <2>1, <2>3, <3>1, <3>2 DEF OutOfSight, Holds
  <2> QED BY <2>2, <2>3
<1>7. ASSUME NEW d \in Dispatchers, MarksDispatched(d) PROVE OutOfSight(r)
  <2>1. \A e \in Dispatchers : pass'[e].sent \in {None, pass[e].sent}
    BY <1>a, <1>7 DEF MarksDispatched, Pass
  <2>2. CASE dispatch'[r] = dispatch[r]
    BY <2>1, <2>2 DEF OutOfSight, Holds
  <2>3. CASE dispatch'[r] # dispatch[r]
    <3>1. Holds(pass[d].sent) /\ pass[d].sent.record = r
      BY <1>a, <1>7, <2>3 DEF MarksDispatched, Settled
    <3> QED BY <1>7, <3>1 DEF OutOfSight, MarksDispatched
  <2> QED BY <2>2, <2>3
<1>8. ASSUME NEW d \in Dispatchers, PublishFails(d) PROVE OutOfSight(r)
  <2>1. \A e \in Dispatchers : pass'[e].sent = pass[e].sent
    BY <1>a, <1>8 DEF PublishFails, Pass
  <2>2. PICK c : dispatch' = Settled(c, "PENDING") BY <1>8 DEF PublishFails, AfterFailure
  <2>3. dispatch'[r] = dispatch[r] \/ dispatch'[r].state = "PENDING"
    BY <1>a, <2>2 DEF Settled, DispatchRow
  <2> QED BY <2>1, <2>3 DEF OutOfSight, Holds
<1>9. ASSUME NEW d \in Dispatchers, DispatcherLost(d) PROVE OutOfSight(r)
  <2>1. \A e \in Dispatchers : pass'[e].sent \in {None, pass[e].sent}
    BY <1>a, <1>9 DEF DispatcherLost, NoPass
  <2> QED BY <1>9, <2>1 DEF OutOfSight, Holds, DispatcherLost
<1>10. ASSUME NEW i \in Records, ComesDue(i) \/ LeaseRunsOut(i) PROVE OutOfSight(r)
  <2>1. dispatch'[r].state = dispatch[r].state /\ dispatch'[r].token = dispatch[r].token
    <3>1. CASE ComesDue(i) BY <1>a, <3>1 DEF ComesDue, DispatchRow
    <3>2. CASE LeaseRunsOut(i) BY <1>a, <3>2 DEF LeaseRunsOut, DispatchRow
    <3> QED BY <1>10, <3>1, <3>2
  <2> QED BY <1>1, <1>10, <2>1 DEF ComesDue, LeaseRunsOut
<1>11. CASE UNCHANGED <<dispatch, pass>>
  BY <1>11 DEF OutOfSight, Holds
<1>12. \/ UNCHANGED <<dispatch, pass>>
       \/ \E w \in Workers, i \in Records : Writes(w, i)
       \/ \E w \in Workers : Normalizes(w) \/ RecordsFailure(w)
       \/ \E d \in Dispatchers, S \in SUBSET Records : Claims(d, S)
       \/ \E d \in Dispatchers : \/ Publishes(d) \/ MarksDispatched(d) \/ PublishFails(d)
                                 \/ DispatcherLost(d)
       \/ \E i \in Records : ComesDue(i) \/ LeaseRunsOut(i)
  BY DEF Next, Works, Dispatches, NormalizeFails, RecordingFails, Returns, WorkerLost,
    Receives, vars
<1> QED BY <1>2, <1>3, <1>4, <1>5, <1>6, <1>7, <1>8, <1>9, <1>10, <1>11, <1>12

\* A message is lost only with a row that is in sight again or normalized, or with
\* one fault more than celery retries.
LEMMA MessageLost ==
  ASSUME IInv, [Next]_vars, NEW r \in Records, Carried(r), OutOfSight(r)'
  PROVE  Carried(r)' \/ r \in normalized' \/ faults' > MaxRetries
<1>a. /\ dispatch \in [Records -> DispatchRow] /\ worker \in [Workers -> Worker]
      /\ queue \in [Records -> [0..MaxRetries -> Nat]]
      /\ queue' \in [Records -> [0..MaxRetries -> Nat]]
      /\ faults \in Nat /\ faults' \in Nat /\ faults <= faults' /\ MaxRetries \in Nat
      /\ \A w \in Workers : WorkerInv(w)
  BY FaultsCount, QueueKeepsType, NormalizationAssumption DEF IInv, TypeOK
<1>b. r # None BY NormalizationAssumption
<1>1. ASSUME UNCHANGED <<queue, worker>> PROVE Carried(r)'
  BY <1>1, CarriedStays
<1>2. ASSUME NEW w \in Workers, NEW i \in Records, Writes(w, i) PROVE Carried(r)'
  <2>1. worker[w].record = None BY <1>a, <1>2 DEF Writes, WorkerInv, Idle
  <2>2. \A v \in Workers : v # w => worker'[v] = worker[v] BY <1>a, <1>2 DEF Writes
  <2>3. UNCHANGED queue BY <1>2 DEF Writes
  <2> QED BY <1>b, <2>1, <2>2, <2>3, CarriedStays
<1>3. ASSUME NEW w \in Workers, NEW i \in Records, NEW k \in 0..MaxRetries, Receives(w, i, k)
      PROVE  Carried(r)'
  <2>1. worker[w].record = None BY <1>a, <1>3 DEF Receives, WorkerInv, Idle
  <2>2. \A v \in Workers : v # w => worker'[v] = worker[v] BY <1>a, <1>3 DEF Receives
  <2>3. worker'[w].record = i /\ ~ worker'[w].inline /\ worker'[w].retries = k
    BY <1>a, <1>3 DEF Receives, Idle
  <2>4. queue' = [queue EXCEPT ![i] = [queue[i] EXCEPT ![k] = queue[i][k] - 1]]
    BY <1>3 DEF Receives
  <2>5. \A m \in 0..MaxRetries : m # k \/ i # r => queue'[r][m] = queue[r][m]
    BY <1>a, <2>4
  <2>6. CASE i = r /\ k <= faults
    <3>1. worker'[w].retries <= faults' BY <1>a, <2>3, <2>6
    <3> QED BY <2>3, <2>6, <3>1 DEF Carried
  <2>7. CASE i # r
    BY <1>b, <2>1, <2>2, <2>5, <2>7, CarriedStays
  <2>8. CASE ~ (k <= faults)
    <3>1. CASE \E m \in 0..MaxRetries : m <= faults /\ queue[r][m] > 0
      <4>1. PICK m \in 0..MaxRetries : m <= faults /\ queue[r][m] > 0 BY <3>1
      <4>2. m # k BY <2>8, <4>1
      <4>3. m <= faults' /\ queue'[r][m] > 0 BY <1>a, <2>5, <4>1, <4>2
      <4> QED BY <4>3 DEF Carried
    <3>2. CASE \E v \in Workers : /\ worker[v].record = r /\ ~ worker[v].inline
                                  /\ worker[v].retries <= faults
      <4>1. PICK v \in Workers : /\ worker[v].record = r /\ ~ worker[v].inline
                                 /\ worker[v].retries <= faults
        BY <3>2
      <4>2. v # w BY <1>b, <2>1, <4>1
      <4>3. worker'[v] = worker[v] /\ worker[v].retries \in Int BY <1>a, <2>2, <4>2 DEF Worker
      <4>4. worker'[v].retries <= faults' BY <1>a, <4>1, <4>3
      <4> QED BY <4>1, <4>3, <4>4 DEF Carried
    <3> QED BY <3>1, <3>2 DEF Carried
  <2> QED BY <2>6, <2>7, <2>8
<1>4. ASSUME NEW w \in Workers, Normalizes(w) \/ NormalizeFails(w) PROVE Carried(r)'
  <2>1. \A v \in Workers : /\ worker'[v].record = worker[v].record
                           /\ worker'[v].inline = worker[v].inline
                           /\ worker'[v].retries = worker[v].retries
    <3>1. CASE Normalizes(w) BY <1>a, <3>1 DEF Normalizes, Worker
    <3>2. CASE NormalizeFails(w)
      <4>1. \/ worker' = [worker EXCEPT ![w] = [worker[w] EXCEPT !.at = "failing"]]
            \/ worker' = [worker EXCEPT ![w] = [worker[w] EXCEPT !.at = "failing", !.terminal = TRUE]]
        BY <3>2 DEF NormalizeFails
      <4>2. /\ \A v \in Workers : v # w => worker'[v] = worker[v]
            /\ \/ worker'[w] = [worker[w] EXCEPT !.at = "failing"]
               \/ worker'[w] = [worker[w] EXCEPT !.at = "failing", !.terminal = TRUE]
        BY <1>a, <4>1
      <4>3. worker[w] \in Worker BY <1>a
      <4>4. /\ worker'[w].record = worker[w].record
            /\ worker'[w].inline = worker[w].inline
            /\ worker'[w].retries = worker[w].retries
        BY <4>2, <4>3 DEF Worker
      <4> QED BY <4>2, <4>4
    <3> QED BY <1>4, <3>1, <3>2
  <2>2. UNCHANGED queue BY <1>4 DEF Normalizes, NormalizeFails
  <2> QED BY <2>1, <2>2, CarriedStays
<1>5. ASSUME NEW w \in Workers, worker[w].record # r,
             RecordsFailure(w) \/ RecordingFails(w) \/ Returns(w) \/ WorkerLost(w)
      PROVE  Carried(r)'
  <2>1. \A v \in Workers : v # w => worker'[v] = worker[v]
    BY <1>a, <1>5 DEF RecordsFailure, RecordingFails, Returns, WorkerLost
  <2>2. worker[w].record \in Records /\ worker[w].retries \in 0..MaxRetries
    BY <1>a, <1>5 DEF RecordsFailure, RecordingFails, Returns, WorkerLost, WorkerInv, Worker
  <2>3. \/ UNCHANGED queue
        \/ \E k : queue' = [queue EXCEPT ![worker[w].record][k] = @ + 1]
    BY <1>5 DEF RecordsFailure, RecordingFails, Returns, WorkerLost, Requeued
  <2>4. queue'[r] = queue[r] BY <1>a, <1>5, <2>2, <2>3
  <2> QED BY <1>5, <2>1, <2>4, CarriedStays
<1>6. ASSUME NEW w \in Workers, worker[w].record = r, RecordsFailure(w) PROVE FALSE
  <2>1. dispatch'[r] = FailedRow(r, worker[w].terminal) BY <1>a, <1>6 DEF RecordsFailure
  <2>2. dispatch'[r].state \in {"PENDING", "FAILED"} BY <1>a, <2>1 DEF FailedRow, DispatchRow
  <2> QED BY <2>2 DEF OutOfSight, Holds
<1>7. ASSUME NEW w \in Workers, worker[w].record = r, Returns(w) PROVE r \in normalized'
  BY <1>a, <1>7 DEF Returns, WorkerInv
<1>8. ASSUME NEW k \in 0..MaxRetries, queue' = [queue EXCEPT ![r][k] = @ + 1]
      PROVE  /\ queue'[r][k] > 0
             /\ \A m \in 0..MaxRetries : queue[r][m] > 0 => queue'[r][m] > 0
  <2>1. \A m \in 0..MaxRetries : queue[r][m] \in Nat BY <1>a
  <2>2. \A m \in 0..MaxRetries : queue'[r][m] = IF m = k THEN queue[r][m] + 1 ELSE queue[r][m]
    BY <1>a, <1>8
  <2> QED BY <2>1, <2>2
<1>9. ASSUME NEW w \in Workers, worker[w].record = r, RecordingFails(w) \/ WorkerLost(w)
      PROVE  Carried(r)' \/ faults' > MaxRetries
  <2>0. MaxRetries \in Nat BY <1>a
  <2>1. worker[w].retries \in 0..MaxRetries BY <1>a DEF Worker
  <2>2. \A v \in Workers : v # w => worker'[v] = worker[v]
    BY <1>a, <1>9 DEF RecordingFails, WorkerLost
  <2>3. CASE UNCHANGED queue \/ \E k \in 0..MaxRetries : queue' = [queue EXCEPT ![r][k] = @ + 1]
    <3>1. \A m \in 0..MaxRetries : queue[r][m] > 0 => queue'[r][m] > 0
      BY <1>8, <2>3
    <3>2. CASE \E m \in 0..MaxRetries : m <= faults /\ queue[r][m] > 0
      <4>1. PICK m \in 0..MaxRetries : m <= faults /\ queue[r][m] > 0 BY <3>2
      <4>2. m <= faults' /\ queue'[r][m] > 0 BY <1>a, <3>1, <4>1
      <4> QED BY <4>2 DEF Carried
    <3>3. CASE \E v \in Workers : /\ v # w /\ worker[v].record = r /\ ~ worker[v].inline
                                  /\ worker[v].retries <= faults
      <4>1. PICK v \in Workers : /\ v # w /\ worker[v].record = r /\ ~ worker[v].inline
                                 /\ worker[v].retries <= faults
        BY <3>3
      <4>2. worker[v].retries \in Int BY <1>a DEF Worker
      <4>3. worker'[v].retries <= faults' BY <1>a, <2>2, <4>1, <4>2
      <4> QED BY <2>2, <4>1, <4>3 DEF Carried
    <3>4. CASE ~ worker[w].inline /\ worker[w].retries <= faults
      <4>1. CASE WorkerLost(w)
        <5>1. queue' = [queue EXCEPT ![r][worker[w].retries] = @ + 1]
          BY <1>9, <3>4, <4>1 DEF WorkerLost
        <5>2. queue'[r][worker[w].retries] > 0 BY <1>8, <2>1, <5>1
        <5>3. worker[w].retries <= faults' BY <1>a, <2>1, <3>4
        <5> QED BY <2>1, <5>2, <5>3 DEF Carried
      <4>2. CASE RecordingFails(w)
        <5>1. Recordable(r)
          <6>1. UNCHANGED <<dispatch, pass>> BY <4>2 DEF RecordingFails
          <6> QED BY <6>1 DEF OutOfSight, Holds, Recordable
        <5>2. faults' = faults + 1 BY <1>9, <4>2, <5>1 DEF RecordingFails, Fault
        <5>3. CASE worker[w].retries = MaxRetries
          BY <1>a, <3>4, <5>2, <5>3
        <5>4. CASE worker[w].retries # MaxRetries
          <6>1. worker[w].retries + 1 \in 0..MaxRetries BY <2>0, <2>1, <5>4
          <6>2. queue' = [queue EXCEPT ![r][worker[w].retries + 1] = @ + 1]
            BY <1>9, <3>4, <4>2, <5>4 DEF RecordingFails, Requeued
          <6>3. queue'[r][worker[w].retries + 1] > 0 BY <1>8, <6>1, <6>2
          <6>4. worker[w].retries + 1 <= faults' BY <1>a, <2>1, <3>4, <5>2
          <6> QED BY <6>1, <6>3, <6>4 DEF Carried
        <5> QED BY <5>3, <5>4
      <4> QED BY <1>9, <4>1, <4>2
    <3> QED BY <3>2, <3>3, <3>4 DEF Carried
  <2>4. UNCHANGED queue \/ \E k \in 0..MaxRetries : queue' = [queue EXCEPT ![r][k] = @ + 1]
    <3>1. worker[w].retries # MaxRetries => worker[w].retries + 1 \in 0..MaxRetries
      BY <2>0, <2>1
    <3> QED BY <1>9, <2>1, <3>1 DEF RecordingFails, WorkerLost, Requeued
  <2> QED BY <2>3, <2>4
<1>10. ASSUME NEW d \in Dispatchers, Publishes(d) \/ PublishFails(d) PROVE Carried(r)'
  <2>1. UNCHANGED worker /\ (UNCHANGED queue \/ \E c \in pass[d].todo : Enqueued(c.record))
    BY <1>10 DEF Publishes, PublishFails
  <2>2. 0 \in 0..MaxRetries BY <1>a
  <2>3. pass[d].todo \subseteq Claim BY DEF IInv, TypeOK, Pass
  <2>4. \A m \in 0..MaxRetries : queue[r][m] > 0 => queue'[r][m] > 0
    <3>1. CASE UNCHANGED queue BY <3>1
    <3>2. ASSUME NEW c \in pass[d].todo, Enqueued(c.record)
          PROVE  \A m \in 0..MaxRetries : queue[r][m] > 0 => queue'[r][m] > 0
      <4>1. CASE c.record = r BY <1>8, <2>2, <3>2, <4>1 DEF Enqueued
      <4>2. CASE c.record # r
        <5>1. queue'[r] = queue[r] BY <1>a, <3>2, <4>2 DEF Enqueued
        <5> QED BY <5>1
      <4> QED BY <4>1, <4>2
    <3> QED BY <2>1, <3>1, <3>2
  <2> QED BY <2>1, <2>4, CarriedStays
<1>11. \/ UNCHANGED <<queue, worker>>
       \/ \E w \in Workers, i \in Records : Writes(w, i)
       \/ \E w \in Workers, i \in Records, k \in 0..MaxRetries : Receives(w, i, k)
       \/ \E w \in Workers : Works(w) \/ WorkerLost(w)
       \/ \E d \in Dispatchers : Publishes(d) \/ PublishFails(d)
  BY DEF Next, Dispatches, Claims, MarksDispatched, DispatcherLost, ComesDue, LeaseRunsOut, vars
<1> QED BY <1>1, <1>2, <1>3, <1>4, <1>5, <1>6, <1>7, <1>9, <1>10, <1>11 DEF Works

-----------------------------------------------------------------------------
\* Every step keeps the invariant.
LEMMA NextIInv == IInv /\ [Next]_vars => IInv'
<1> SUFFICES ASSUME IInv, [Next]_vars PROVE IInv'
  OBVIOUS
<1>1. TypeOK' BY TypesStay
<1>2. faults' \in Nat /\ faults <= faults' /\ faults \in Nat BY FaultsCount DEF IInv
<1>3. normalized' \cap Malformed = {} /\ \A r \in Records : RowInv(r)' BY RowsStay
<1>4. \A w \in Workers : WorkerInv(w)' BY WorkersStay
<1>5. \A d \in Dispatchers : (/\ \A c \in pass[d].todo : ClaimMade(c)
                              /\ pass[d].sent # None => ClaimMade(pass[d].sent))'
  BY ClaimsStay
<1>6. ASSUME NEW r \in Records, OutOfSight(r)'
      PROVE  r \in normalized' \/ faults' > MaxRetries \/ Carried(r)'
  <2>1. normalized \subseteq normalized'
    BY DEF Next, Works, Dispatches, NormalizeFails, Normalizes, RecordsFailure, RecordingFails,
      Returns, WorkerLost, Writes, Receives, Claims, Publishes, MarksDispatched, PublishFails,
      DispatcherLost, ComesDue, LeaseRunsOut, vars
  <2>2. CASE ~ OutOfSight(r)
    BY <1>6, <2>2, LeavesSight
  <2>3. CASE OutOfSight(r)
    <3>1. r \in normalized \/ faults > MaxRetries \/ Carried(r) BY <2>3 DEF IInv
    <3>2. faults > MaxRetries => faults' > MaxRetries BY <1>2, NormalizationAssumption
    <3> QED BY <1>6, <2>1, <3>1, <3>2, MessageLost
  <2> QED BY <2>2, <2>3
<1> QED BY <1>1, <1>2, <1>3, <1>4, <1>5, <1>6 DEF IInv

\* The outbox can be believed: its rows keep their constraints, a record that is
\* out of the dispatcher's sight is normalized or has a message on its way, and
\* what was rejected stays rejected.
THEOREM OutboxIsSound == Spec => []OutboxSound
<1>1. Spec => []IInv BY InitIInv, NextIInv, PTL DEF Spec
<1> QED BY <1>1, IInvImplies, PTL

-----------------------------------------------------------------------------
(* The stream supervisor: what is on the wire, in the archive and asked for. *)

\* The wire holds the last ticks, without a hole; the first of them is being handled.
WireInv ==
  /\ process # "connected" => wire = <<>>
  /\ stage # "idle" => process = "connected" /\ wire # <<>> /\ Head(wire) \in envelopes
  /\ \A i \in DOMAIN wire : wire[i] = now - Len(wire) + i

ArchiveInv ==
  /\ since <= now
  /\ \A e \in envelopes : e <= now
  /\ \A t \in Ticks : Persist(t) \in tasks => t \in envelopes
  /\ LineageIsWhole

\* The last event is of the archive and before all that is on the wire; without
\* one the process has seen nothing but what it is handling.
WatermarkInv ==
  /\ lastEvent # NoEvent => lastEvent \in envelopes /\ \A i \in DOMAIN wire : lastEvent < wire[i]
  /\ process # "down" /\ lastEvent = NoEvent =>
       \A e \in envelopes \ Junk : since < e => stage # "idle" /\ e = Head(wire)

\* A tick is asked for, by a task or by the jobs of a gap.
Asked(t) ==
  \/ \E last \in 0..MaxTime, u \in 0..MaxTime :
       Recover(last, u) \in tasks /\ last < t /\ t <= u
  \/ \E gap \in gaps : InSlice(t, gap) \/ (gap.truncated /\ t < gap.start)

\* What was missed is asked for, or will be when the process connects.
AskedInv ==
  failures = 0 /\ process # "down" =>
    \A t \in Missed : \/ Asked(t)
                      \/ process = "up" /\ lastEvent # NoEvent /\ lastEvent < t

AlpacaInv == AlpacaTypeOK /\ WireInv /\ ArchiveInv /\ WatermarkInv /\ AskedInv

-----------------------------------------------------------------------------
\* A batch is stamped with its tick, and no later.
LEMMA DecodedInTime ==
  ASSUME NEW t \in Ticks
  PROVE  /\ Latest(Decoded(t)) = t
         /\ BarsOf(t) \subseteq 0..MaxTime
<1>1. Minute \in Nat \ {0} /\ MaxTime \in Nat /\ t \in Nat /\ 1 <= t /\ t <= MaxTime
  BY StreamAssumption DEF Ticks
<1>2. t \in Decoded(t) /\ \A u \in Decoded(t) : u \in Int /\ u <= t BY <1>1 DEF Decoded
<1>3. Latest(Decoded(t)) = t
  <2>1. \A u \in Decoded(t) : (\A v \in Decoded(t) : v <= u) => u = t BY <1>1, <1>2
  <2> QED BY <1>2, <2>1 DEF Latest
<1>4. EndsMinute(t) => Minute <= t
  <2> SUFFICES ASSUME t < Minute PROVE t % Minute # 0 BY <1>1 DEF EndsMinute
  <2>1. t % Minute = t BY <1>1
  <2> QED BY <1>1, <2>1
<1>5. BarsOf(t) \subseteq 0..MaxTime BY <1>1, <1>4 DEF BarsOf
<1> QED BY <1>3, <1>5

\* Among some natural numbers there is a least one.
LEMMA LeastNatural ==
  ASSUME NEW S \in SUBSET Nat, S # {}
  PROVE  \E n \in S : \A m \in S : n <= m
<1> DEFINE T == {0..(n - 1) : n \in S}
<1>1. T \subseteq FiniteSubsetsOf(Nat) /\ T # {}
  <2>1. \A n \in S : 0..(n - 1) \subseteq Nat /\ IsFiniteSet(0..(n - 1))
    BY FS_Interval
  <2> QED BY <2>1 DEF FiniteSubsetsOf
<1>2. IsWellFoundedOn(StrictSubsetOrdering(Nat), FiniteSubsetsOf(Nat))
  BY FS_StrictSubsetOrderingWellFounded
<1>3. PICK x \in T : \A y \in T : ~ (<<y, x>> \in StrictSubsetOrdering(Nat))
  BY <1>1, <1>2, WFMin
<1>4. PICK n \in S : x = 0..(n - 1) BY <1>3
<1>5. ASSUME NEW m \in S, m < n PROVE FALSE
  <2>1. 0..(m - 1) \in T OBVIOUS
  <2>2. 0..(m - 1) \subseteq 0..(n - 1) /\ m \in 0..(n - 1) /\ m \notin 0..(m - 1)
    BY <1>5
  <2>3. 0..(m - 1) \in SUBSET Nat /\ x \in SUBSET Nat BY <1>4
  <2>4. <<0..(m - 1), x>> \in StrictSubsetOrdering(Nat)
    BY <1>4, <2>2, <2>3 DEF StrictSubsetOrdering
  <2> QED BY <1>3, <2>1, <2>4
<1> QED BY <1>5

\* The latest of a page of envelopes.
LEMMA LatestTick ==
  ASSUME NEW S \in SUBSET Ticks, S # {}
  PROVE  Latest(S) \in S
<1> DEFINE T == {MaxTime - t : t \in S}
<1>1. MaxTime \in Nat BY StreamAssumption
<1>2. T \in SUBSET Nat /\ T # {}
  <2>1. \A t \in S : MaxTime - t \in Nat BY <1>1 DEF Ticks
  <2> QED BY <2>1
<1>3. \E n \in T : \A m \in T : n <= m
  <2> HIDE DEF T
  <2> QED BY <1>2, LeastNatural
<1>4. PICK t \in S : \A m \in T : MaxTime - t <= m BY <1>3
<1>5. \A u \in S : u <= t
  <2> SUFFICES ASSUME NEW u \in S PROVE u <= t OBVIOUS
  <2>1. MaxTime - u \in T OBVIOUS
  <2>2. MaxTime - t <= MaxTime - u BY <1>4, <2>1
  <2>3. u \in Int /\ t \in Int BY <1>1 DEF Ticks
  <2> QED BY <1>1, <2>2, <2>3
<1> QED BY <1>5 DEF Latest

\* The chunks of a gap leave nothing out.
LEMMA SlicesCover ==
  ASSUME NEW gap \in GapFill, gap.start < gap.end, NEW t \in gap.start..gap.end
  PROVE  InSlice(t, gap)
<1>1. PICK a \in 0..MaxTime : a = gap.start BY DEF GapFill
<1>2. PICK b \in 0..MaxTime : b = gap.end BY DEF GapFill
<1>3. PICK c \in Nat \ {0} : c = Chunk BY StreamAssumption
<1>4. MaxTime \in Nat BY StreamAssumption
<1>5. t \in Int /\ a <= t /\ t <= b /\ a < b BY <1>1, <1>2
<1> DEFINE S == {k \in Nat : t <= a + (k + 1) * c}
<1>6. t - a \in S
  <2>1. t - a \in Nat BY <1>5
  <2>2. PICK n \in Nat : n = t - a BY <2>1
  <2>3. n <= (n + 1) * c
    <3>1. PICK d \in Nat : c = d + 1 BY <1>3
    <3>2. (n + 1) * c = (n + 1) * d + n + 1 BY <3>1
    <3>3. (n + 1) * d \in Nat BY <3>1
    <3> QED BY <3>2, <3>3
  <2>4. (n + 1) * c \in Int OBVIOUS
  <2>5. t <= a + (n + 1) * c BY <1>5, <2>2, <2>3, <2>4
  <2> QED BY <2>2, <2>5
<1>7. PICK k \in S : \A m \in S : k <= m BY <1>6, LeastNatural
<1>8. k <= t - a /\ k \in 0..MaxTime BY <1>4, <1>5, <1>6, <1>7
<1>9. k * c \in Nat /\ (k + 1) * c = k * c + c BY <1>3
<1>10. a + k * c <= t /\ a + k * c < b
  <2>1. CASE k = 0 BY <1>5, <2>1
  <2>2. CASE k # 0
    <3>1. PICK j \in Nat : k = j + 1 BY <2>2
    <3>2. j \notin S BY <1>7, <3>1
    <3>3. ~ (t <= a + k * c) BY <3>1, <3>2
    <3> QED BY <1>5, <1>9, <3>3
  <2> QED BY <2>1, <2>2
<1>11. PICK n \in Nat : n = k * c BY <1>9
<1>12. t <= a + n + c BY <1>5, <1>7, <1>9, <1>11
<1> DEFINE s == [start |-> gap.start + k * Chunk, end |-> Smaller(gap.start + (k + 1) * Chunk, gap.end)]
<1>13. s \in Slices(gap) BY <1>1, <1>2, <1>3, <1>8, <1>10 DEF Slices
<1>14. s.start <= t BY <1>1, <1>3, <1>10
<1>15. gap.start + (k + 1) * Chunk = a + n + c BY <1>1, <1>3, <1>9, <1>11
<1>16. t <= s.end BY <1>2, <1>5, <1>12, <1>15 DEF Smaller
<1> QED BY <1>13, <1>14, <1>16 DEF InSlice

\* The jobs of a gap ask for all it has missed, but for what the recovery truncates.
LEMMA GapAsks ==
  ASSUME NEW last \in 0..MaxTime, NEW u \in 0..MaxTime, NEW t \in Int, last < t, t <= u
  PROVE  /\ Gap(last, u) \in GapFill
         /\ InSlice(t, Gap(last, u)) \/ (Gap(last, u).truncated /\ t < Gap(last, u).start)
<1>1. Recovery \in Nat \ {0} /\ MaxTime \in Nat BY StreamAssumption
<1>2. PICK gap : gap = Gap(last, u) OBVIOUS
<1>3. PICK a \in 0..MaxTime : a = Larger(last, u - Recovery)
  <2>1. Larger(last, u - Recovery) \in 0..MaxTime BY <1>1 DEF Larger
  <2> QED BY <2>1
<1>4. last \in Int /\ u \in Int /\ last <= a /\ a < u /\ (t < a => u - last > Recovery)
  BY <1>1, <1>3 DEF Larger
<1>5. gap = [start |-> a, end |-> u, truncated |-> u - last > Recovery] BY <1>2, <1>3 DEF Gap
<1>6. /\ gap \in GapFill /\ gap.end = u /\ gap.start = a
      /\ (t < a => gap.truncated)
  <2>1. gap.end = u /\ gap.start = a /\ gap.truncated = (u - last > Recovery) BY <1>5
  <2>2. (u - last > Recovery) \in BOOLEAN OBVIOUS
  <2>3. gap \in GapFill BY <1>5, <2>2 DEF GapFill
  <2> QED BY <1>4, <2>1, <2>3
<1>7. a <= t => InSlice(t, gap) BY <1>4, <1>6, SlicesCover
<1> QED BY <1>2, <1>4, <1>6, <1>7

\* The tasks are told apart by their names.
LEMMA TaskNames ==
  /\ \A t, a, b : Persist(t) # Recover(a, b) /\ Reconcile(t) # Recover(a, b)
  /\ \A t, u : Persist(t) # Reconcile(u) /\ (Persist(t) = Persist(u) => t = u)
  /\ \A a, b, c, d : Recover(a, b) = Recover(c, d) => a = c /\ b = d
  /\ \A t \in Ticks : Persist(t) \in Tasks
  /\ \A t \in 0..MaxTime : Reconcile(t) \in Tasks
  /\ \A a, b \in 0..MaxTime : Recover(a, b) \in Tasks
<1>1. \A t, a, b : /\ Persist(t).task = "persist" /\ Reconcile(t).task = "reconcile"
                  /\ Recover(a, b).task = "recover" /\ Persist(t).batch = t
                  /\ Recover(a, b).last = a /\ Recover(a, b).reconnected = b
  BY DEF Persist, Reconcile, Recover
<1>2. \A t, a, b : Persist(t) # Recover(a, b) /\ Reconcile(t) # Recover(a, b) BY <1>1
<1>3. \A t, u : Persist(t) # Reconcile(u) /\ (Persist(t) = Persist(u) => t = u) BY <1>1
<1>4. \A a, b, c, d : Recover(a, b) = Recover(c, d) => a = c /\ b = d BY <1>1
<1> QED BY <1>2, <1>3, <1>4 DEF Tasks

\* What is asked for stays so while no recovery is lost.
LEMMA AskedStays ==
  ASSUME \A last, u \in 0..MaxTime : Recover(last, u) \in tasks => Recover(last, u) \in tasks',
         gaps \subseteq gaps', NEW t, Asked(t)
  PROVE  Asked(t)'
BY DEF Asked

\* What does not touch the process leaves it as it is.
LEMMA ProcessStays ==
  ASSUME AlpacaInv, UNCHANGED <<now, process, wire, stage, lastEvent, since, envelopes>>,
         failures' = failures => \A t \in Missed : Asked(t) => Asked(t)',
         failures' >= failures, failures' = failures \/ failures' > 0
  PROVE  WireInv' /\ WatermarkInv' /\ AskedInv'
<1>1. WireInv' BY DEF AlpacaInv, WireInv
<1>2. WatermarkInv' BY DEF AlpacaInv, WatermarkInv
<1>3. Missed' = Missed BY DEF Missed
<1>4. AskedInv'
  <2> SUFFICES ASSUME failures' = 0, process # "down", NEW t \in Missed
               PROVE  Asked(t)' \/ (process = "up" /\ lastEvent # NoEvent /\ lastEvent < t)
    BY <1>3 DEF AskedInv
  <2>1. failures' = failures OBVIOUS
  <2> QED BY <2>1 DEF AlpacaInv, AskedInv
<1> QED BY <1>1, <1>2, <1>4

\* The rows of a batch are those of its task.
LEMMA PersistKeeps ==
  ASSUME AlpacaInv, NEW t \in Ticks, RunPersist(t)
  PROVE  AlpacaInv'
<1>1. AlpacaTypeOK /\ LineageIsWhole /\ t \in envelopes
  BY DEF AlpacaInv, ArchiveInv, RunPersist
<1>2. BarsOf(t) \subseteq 0..MaxTime BY DecodedInTime
<1>3. AlpacaTypeOK'
  <2>1. CASE Reject(t) BY <1>1, <2>1 DEF RunPersist, Reject, Done, AlpacaTypeOK
  <2>2. CASE Keep(t) BY <1>1, <1>2, <2>2 DEF RunPersist, Keep, Done, AlpacaTypeOK
  <2>3. CASE Refuse(t) BY <1>1, <2>3 DEF RunPersist, Refuse, Done, AlpacaTypeOK
  <2> QED BY <2>1, <2>2, <2>3 DEF RunPersist
<1>4. LineageIsWhole'
  <2>1. envelopes' = envelopes BY DEF RunPersist
  <2>2. CASE t \in Junk /\ Reject(t) BY <1>1, <2>1, <2>2 DEF Reject, LineageIsWhole
  <2>3. CASE t \notin Junk \cup Closed /\ Keep(t)
    <3>1. rows' \subseteq objects' \cap envelopes' BY <1>1, <2>1, <2>3 DEF Keep, LineageIsWhole
    <3>2. rows' = rows \cup {t} /\ bars' = bars \cup BarsOf(t) BY <2>3 DEF Keep
    <3>3. bars = UNION {BarsOf(u) : u \in rows \ (Junk \cup Closed)} BY <1>1 DEF LineageIsWhole
    <3>4. \A x : x \in bars' <=> \E u \in rows' \ (Junk \cup Closed) : x \in BarsOf(u)
      BY <2>3, <3>2, <3>3
    <3>5. bars' = UNION {BarsOf(u) : u \in rows' \ (Junk \cup Closed)} BY <3>4
    <3> QED BY <3>1, <3>5 DEF LineageIsWhole
  <2>4. CASE Refuse(t) BY <1>1, <2>1, <2>4 DEF Refuse, LineageIsWhole
  <2> QED BY <2>2, <2>3, <2>4 DEF RunPersist
<1>5. ArchiveInv'
  BY <1>4 DEF AlpacaInv, ArchiveInv, RunPersist, Done
<1>6. \A u \in Missed : Asked(u) => Asked(u)'
  <2>1. \A last, u \in 0..MaxTime : Recover(last, u) \in tasks => Recover(last, u) \in tasks'
    BY TaskNames DEF RunPersist, Done
  <2>2. gaps' = gaps BY DEF RunPersist
  <2> QED BY <2>1, <2>2, AskedStays
<1>7. /\ UNCHANGED <<now, process, wire, stage, lastEvent, since, envelopes>>
      /\ failures' = failures /\ failures \in Nat
  BY <1>1, StreamAssumption DEF RunPersist, AlpacaTypeOK
<1>8. WireInv' /\ WatermarkInv' /\ AskedInv' BY <1>6, <1>7, ProcessStays
<1> QED BY <1>3, <1>5, <1>8 DEF AlpacaInv

\* The reconciler queues what is archived.
LEMMA ReconcileKeeps ==
  ASSUME AlpacaInv, NEW t \in 0..MaxTime, RunReconcile(t)
  PROVE  AlpacaInv'
<1>1. AlpacaTypeOK /\ LineageIsWhole BY DEF AlpacaInv, ArchiveInv
<1>2. Page(t) \subseteq envelopes /\ envelopes \subseteq Ticks
  BY <1>1 DEF Page, Beyond, AlpacaTypeOK
<1>3. NextPage(t) \subseteq {Reconcile(u) : u \in Ticks}
  <2>1. Page(t) # {} => Latest(Page(t)) \in Ticks BY <1>2, LatestTick
  <2>2. Page(t) = {} => Cardinality(Page(t)) # Limit BY FS_EmptySet, StreamAssumption
  <2> QED BY <2>1, <2>2 DEF NextPage
<1>4. /\ UNCHANGED <<now, process, wire, stage, lastEvent, since, envelopes>>
      /\ UNCHANGED <<objects, rows, rejections, bars, gaps>>
      /\ failures' = failures /\ failures \in Nat
  BY <1>1, StreamAssumption DEF RunReconcile, AlpacaTypeOK, archive, tables
<1>5. tasks' = (tasks \ {Reconcile(t)}) \cup {Persist(e) : e \in Page(t) \ rows} \cup NextPage(t)
  BY DEF RunReconcile
<1>6. tasks' \subseteq Tasks
  <2>1. Ticks \subseteq 0..MaxTime BY DEF Ticks
  <2>2. {Persist(e) : e \in Page(t) \ rows} \subseteq Tasks BY <1>2, TaskNames
  <2>3. NextPage(t) \subseteq Tasks BY <1>3, <2>1, TaskNames
  <2>4. tasks \subseteq Tasks BY <1>1 DEF AlpacaTypeOK
  <2> QED BY <1>5, <2>2, <2>3, <2>4
<1>7. AlpacaTypeOK' BY <1>1, <1>4, <1>6 DEF AlpacaTypeOK
<1>8. ArchiveInv'
  <2>1. \A u \in Ticks : Persist(u) \in tasks' => u \in envelopes'
    <3> SUFFICES ASSUME NEW u \in Ticks, Persist(u) \in tasks' PROVE u \in envelopes
      BY <1>4
    <3>1. Persist(u) \notin NextPage(t) BY <1>3, TaskNames
    <3>2. CASE Persist(u) \in tasks BY <3>2 DEF AlpacaInv, ArchiveInv
    <3>3. CASE Persist(u) \in {Persist(e) : e \in Page(t) \ rows} BY <1>2, <3>3, TaskNames
    <3> QED BY <1>5, <3>1, <3>2, <3>3
  <2>2. LineageIsWhole' BY <1>1, <1>4 DEF LineageIsWhole
  <2> QED BY <1>4, <2>1, <2>2 DEF AlpacaInv, ArchiveInv
<1>9. \A u \in Missed : Asked(u) => Asked(u)'
  <2>1. \A last, u \in 0..MaxTime : Recover(last, u) \in tasks => Recover(last, u) \in tasks'
    BY <1>5, TaskNames
  <2> QED BY <1>4, <2>1, AskedStays
<1>10. WireInv' /\ WatermarkInv' /\ AskedInv' BY <1>4, <1>9, ProcessStays
<1> QED BY <1>7, <1>8, <1>10 DEF AlpacaInv

\* The jobs of a gap take the place of the task that asked for it.
LEMMA RecoverKeeps ==
  ASSUME AlpacaInv, NEW last \in 0..MaxTime, NEW u \in 0..MaxTime, RunRecover(last, u)
  PROVE  AlpacaInv'
<1>1. AlpacaTypeOK /\ LineageIsWhole BY DEF AlpacaInv, ArchiveInv
<1>2. /\ UNCHANGED <<now, process, wire, stage, lastEvent, since, envelopes>>
      /\ UNCHANGED <<objects, rows, rejections, bars>>
      /\ failures' = failures /\ failures \in Nat /\ tasks' = tasks \ {Recover(last, u)}
  BY <1>1, StreamAssumption DEF RunRecover, AlpacaTypeOK, archive, Done
<1>3. gaps' = IF last < u THEN gaps \cup {Gap(last, u)} ELSE gaps BY DEF RunRecover
<1>4. last < u => Gap(last, u) \in GapFill
  BY GapAsks
<1>5. AlpacaTypeOK' BY <1>1, <1>2, <1>3, <1>4 DEF AlpacaTypeOK
<1>6. LineageIsWhole' BY <1>1, <1>2 DEF LineageIsWhole
<1>7. ArchiveInv' BY <1>2, <1>6 DEF AlpacaInv, ArchiveInv
<1>8. ASSUME NEW t \in Missed, Asked(t) PROVE Asked(t)'
  <2>1. t \in Int BY <1>1 DEF Missed, AlpacaTypeOK
  <2>2. CASE last < t /\ t <= u
    <3>1. Gap(last, u) \in gaps' BY <1>3, <2>1, <2>2
    <3>2. InSlice(t, Gap(last, u)) \/ (Gap(last, u).truncated /\ t < Gap(last, u).start)
      BY <2>1, <2>2, GapAsks
    <3> QED BY <3>1, <3>2 DEF Asked
  <2>3. CASE ~ (last < t /\ t <= u)
    <3>1. CASE \E gap \in gaps : InSlice(t, gap) \/ (gap.truncated /\ t < gap.start)
      BY <1>3, <3>1 DEF Asked
    <3>2. CASE \E a \in 0..MaxTime, b \in 0..MaxTime : Recover(a, b) \in tasks /\ a < t /\ t <= b
      <4>1. PICK a \in 0..MaxTime, b \in 0..MaxTime : Recover(a, b) \in tasks /\ a < t /\ t <= b
        BY <3>2
      <4>2. Recover(a, b) # Recover(last, u) BY <2>3, <4>1, TaskNames
      <4>3. Recover(a, b) \in tasks' BY <1>2, <4>1, <4>2
      <4> QED BY <4>1, <4>3 DEF Asked
    <3> QED BY <1>8, <3>1, <3>2 DEF Asked
  <2> QED BY <2>2, <2>3
<1>9. WireInv' /\ WatermarkInv' /\ AskedInv' BY <1>2, <1>8, ProcessStays
<1> QED BY <1>5, <1>7, <1>9 DEF AlpacaInv

\* A task is lost.
LEMMA LoseKeeps ==
  ASSUME AlpacaInv, NEW task, Lose(task)
  PROVE  AlpacaInv'
<1>1. AlpacaTypeOK /\ LineageIsWhole BY DEF AlpacaInv, ArchiveInv
<1>2. /\ UNCHANGED <<now, process, wire, stage, lastEvent, since, envelopes>>
      /\ UNCHANGED <<objects, rows, rejections, bars, gaps>>
      /\ failures' = failures + 1 /\ failures < MaxFailures /\ tasks' = tasks \ {task}
  BY DEF Lose, archive, tables, Done
<1>3. failures \in Nat /\ MaxFailures \in Nat BY <1>1, StreamAssumption DEF AlpacaTypeOK
<1>4. failures' \in 0..MaxFailures /\ failures' > failures /\ failures' > 0 BY <1>2, <1>3
<1>5. AlpacaTypeOK' BY <1>1, <1>2, <1>4 DEF AlpacaTypeOK
<1>6. LineageIsWhole' BY <1>1, <1>2 DEF LineageIsWhole
<1>7. ArchiveInv' BY <1>2, <1>6 DEF AlpacaInv, ArchiveInv
<1>8. WireInv' /\ WatermarkInv' /\ AskedInv' BY <1>2, <1>3, <1>4, ProcessStays
<1> QED BY <1>5, <1>7, <1>8 DEF AlpacaInv

\* The ticks on the wire are the last ones; a process that listens is connected.
LEMMA OnTheWire ==
  ASSUME AlpacaInv
  PROVE  /\ now \in Int /\ since \in Int /\ Len(wire) \in Nat /\ wire \in Seq(Ticks)
         /\ \A i \in DOMAIN wire : i \in 1..Len(wire) /\ wire[i] \in Int /\ wire[i] <= now
         /\ wire # <<>> => /\ process = "connected" /\ Head(wire) = wire[1] /\ Head(wire) \in Ticks
                           /\ 1 \in DOMAIN wire /\ Head(wire) <= now
                           /\ \A t \in Int : Head(wire) <= t /\ t <= now =>
                                \E i \in DOMAIN wire : wire[i] = t
<1>1. /\ now \in Int /\ since \in Int /\ Len(wire) \in Nat /\ wire \in Seq(Ticks)
      /\ DOMAIN wire = 1..Len(wire)
  BY DEF AlpacaInv, AlpacaTypeOK
<1>2. /\ \A i \in DOMAIN wire : wire[i] = now - Len(wire) + i
      /\ process # "connected" => wire = <<>>
  BY DEF AlpacaInv, WireInv
<1>3. \A i \in DOMAIN wire : i \in 1..Len(wire) /\ wire[i] \in Int /\ wire[i] <= now
  BY <1>1, <1>2
<1>4. ASSUME wire # <<>>
      PROVE  /\ process = "connected" /\ Head(wire) = wire[1] /\ Head(wire) \in Ticks
             /\ 1 \in DOMAIN wire /\ Head(wire) <= now
             /\ \A t \in Int : Head(wire) <= t /\ t <= now => \E i \in DOMAIN wire : wire[i] = t
  <2>1. 1 \in DOMAIN wire /\ Head(wire) = wire[1] /\ Head(wire) \in Ticks BY <1>1, <1>4
  <2>2. ASSUME NEW t \in Int, Head(wire) <= t, t <= now
        PROVE  \E i \in DOMAIN wire : wire[i] = t
    <3>1. PICK i : i = t - now + Len(wire) OBVIOUS
    <3>2. wire[1] = now - Len(wire) + 1 BY <1>2, <2>1
    <3>3. i \in 1..Len(wire) BY <1>1, <2>1, <2>2, <3>1, <3>2
    <3>4. wire[i] = t BY <1>1, <1>2, <3>1, <3>3
    <3> QED BY <1>1, <3>3, <3>4
  <2> QED BY <1>2, <1>3, <1>4, <2>1, <2>2
<1> QED BY <1>1, <1>3, <1>4

\* A tick passes.
LEMMA TickKeeps ==
  ASSUME AlpacaInv, Tick
  PROVE  AlpacaInv'
<1>1. /\ now < MaxTime /\ now' = now + 1 /\ MaxTime \in Nat /\ MaxBacklog \in Nat
      /\ UNCHANGED <<process, stage, lastEvent, since, envelopes, objects, tasks, rows,
                     rejections, bars, gaps, failures>>
  BY StreamAssumption DEF Tick, archive, tables
<1>2. now \in 0..MaxTime /\ now' \in Ticks /\ since \in 0..MaxTime
  BY <1>1 DEF AlpacaInv, AlpacaTypeOK, Ticks
<1>3. /\ process = "connected" => Len(wire) < MaxBacklog /\ wire' = Append(wire, now')
      /\ process # "connected" => wire' = wire /\ wire = <<>>
  BY <1>1 DEF Tick, AlpacaInv, WireInv
<1>4. /\ wire \in Seq(Ticks) /\ Len(wire) <= MaxBacklog /\ Len(wire) \in Nat
      /\ DOMAIN wire = 1..Len(wire)
  BY DEF AlpacaInv, AlpacaTypeOK
<1>5. wire' \in Seq(Ticks) /\ Len(wire') <= MaxBacklog
  BY <1>1, <1>2, <1>3, <1>4
<1>6. AlpacaTypeOK'
  <2>1. AlpacaTypeOK BY DEF AlpacaInv
  <2>2. now' \in 0..MaxTime BY <1>1, <1>2
  <2> QED BY <1>1, <1>5, <2>1, <2>2 DEF AlpacaTypeOK
<1>7. \A i \in DOMAIN wire' : wire'[i] = now' - Len(wire') + i
  <2>1. CASE process = "connected"
    <3>1. Len(wire') = Len(wire) + 1 /\ DOMAIN wire' = 1..(Len(wire) + 1)
      BY <1>2, <1>3, <1>4, <2>1
    <3>2. \A i \in 1..Len(wire) : wire'[i] = wire[i] /\ wire[i] = now - Len(wire) + i
      BY <1>2, <1>3, <1>4, <2>1 DEF AlpacaInv, WireInv
    <3>3. wire'[Len(wire) + 1] = now' BY <1>2, <1>3, <1>4, <2>1
    <3>4. now \in Int BY <1>2
    <3>5. \A i \in 1..(Len(wire) + 1) : i \in 1..Len(wire) \/ i = Len(wire) + 1 BY <1>4
    <3> QED BY <1>1, <1>4, <3>1, <3>2, <3>3, <3>4, <3>5
  <2>2. CASE process # "connected" BY <1>3, <2>2
  <2> QED BY <2>1, <2>2
<1>8. wire # <<>> => wire' # <<>> /\ Head(wire') = Head(wire)
  BY <1>2, <1>3, <1>4
<1>9. WireInv'
  <2>1. WireInv BY DEF AlpacaInv
  <2> QED BY <1>1, <1>3, <1>7, <1>8, <2>1 DEF WireInv
<1>10. ArchiveInv'
  <2>1. ArchiveInv BY DEF AlpacaInv
  <2>2. \A e \in envelopes : e \in Int BY DEF AlpacaInv, AlpacaTypeOK, Ticks
  <2>3. LineageIsWhole' BY <1>1, <2>1 DEF ArchiveInv, LineageIsWhole
  <2> QED BY <1>1, <1>2, <2>1, <2>2, <2>3 DEF ArchiveInv
<1>11. WatermarkInv'
  <2>1. WatermarkInv /\ WireInv BY DEF AlpacaInv
  <2>2. ASSUME lastEvent # NoEvent, NEW i \in DOMAIN wire' PROVE lastEvent < wire'[i]
    <3>1. lastEvent \in Int /\ lastEvent <= now
      BY <2>1, <2>2 DEF AlpacaInv, AlpacaTypeOK, ArchiveInv, WatermarkInv, Ticks
    <3>2. \A j \in DOMAIN wire : lastEvent < wire[j] BY <2>1, <2>2 DEF WatermarkInv
    <3>3. CASE process # "connected" BY <1>3, <2>2, <3>3
    <3>4. CASE process = "connected"
      <4>1. i \in 1..(Len(wire) + 1) BY <1>2, <1>3, <1>4, <3>4
      <4>2. CASE i \in 1..Len(wire)
        <5>1. wire'[i] = wire[i] BY <1>2, <1>3, <1>4, <3>4, <4>2
        <5> QED BY <1>4, <3>2, <4>2, <5>1
      <4>3. CASE i = Len(wire) + 1
        <5>1. wire'[i] = now' BY <1>2, <1>3, <1>4, <3>4, <4>3
        <5> QED BY <1>1, <1>2, <3>1, <5>1
      <4> QED BY <1>4, <4>1, <4>2, <4>3
    <3> QED BY <3>3, <3>4
  <2>3. ASSUME process # "down", lastEvent = NoEvent, NEW e \in envelopes \ Junk, since < e
        PROVE  stage # "idle" /\ e = Head(wire')
    <3>1. stage # "idle" /\ e = Head(wire) BY <2>1, <2>3 DEF WatermarkInv
    <3>2. wire # <<>> BY <2>1, <3>1 DEF WireInv
    <3> QED BY <1>8, <3>1, <3>2
  <2> QED BY <1>1, <2>1, <2>2, <2>3 DEF WatermarkInv
<1>12. AskedInv'
  <2> SUFFICES ASSUME failures = 0, process # "down", NEW t \in Missed'
               PROVE  Asked(t)' \/ (process = "up" /\ lastEvent # NoEvent /\ lastEvent < t)
    BY <1>1 DEF AskedInv
  <2>1. /\ t \in (since + 1)..(now + 1) /\ t \notin envelopes
        /\ \A i \in DOMAIN wire' : wire'[i] # t
        /\ \E e \in envelopes \ Junk : since < e /\ e < t
    BY <1>1 DEF Missed
  <2>2. \A i \in DOMAIN wire : wire[i] # t
    <3>1. CASE process = "connected"
      <4>1. \A i \in DOMAIN wire : i \in DOMAIN wire' /\ wire'[i] = wire[i]
        BY <1>2, <1>3, <1>4, <3>1
      <4> QED BY <2>1, <4>1
    <3>2. CASE process # "connected" BY <1>3, <2>1, <3>2
    <3> QED BY <3>1, <3>2
  <2>3. CASE t \in since + 1..now
    <3>1. t \in Missed BY <2>1, <2>2, <2>3 DEF Missed
    <3>2. Asked(t) \/ (process = "up" /\ lastEvent # NoEvent /\ lastEvent < t)
      BY <3>1 DEF AlpacaInv, AskedInv
    <3> QED BY <1>1, <3>2, AskedStays
  <2>4. CASE t = now + 1
    <3>1. process = "up"
      <4>1. ASSUME process = "connected" PROVE FALSE
        <5>1. Len(wire) + 1 \in DOMAIN wire' /\ wire'[Len(wire) + 1] = now'
          BY <1>2, <1>3, <1>4, <4>1
        <5> QED BY <1>1, <2>1, <2>4, <5>1
      <4> QED BY <4>1 DEF AlpacaInv, AlpacaTypeOK
    <3>2. lastEvent # NoEvent
      <4>1. stage = "idle" BY <3>1 DEF AlpacaInv, WireInv
      <4> QED BY <2>1, <3>1, <4>1 DEF AlpacaInv, WatermarkInv
    <3>3. lastEvent \in Int /\ lastEvent <= now
      BY <3>2 DEF AlpacaInv, AlpacaTypeOK, WatermarkInv, ArchiveInv, Ticks
    <3> QED BY <1>2, <2>4, <3>1, <3>2, <3>3
  <2> QED BY <1>2, <2>1, <2>3, <2>4
<1> QED BY <1>6, <1>9, <1>10, <1>11, <1>12 DEF AlpacaInv

\* A process that starts has missed nothing yet.
LEMMA StartKeeps ==
  ASSUME AlpacaInv, Start
  PROVE  AlpacaInv'
<1>1. /\ process = "down" /\ process' = "up" /\ since' = now /\ tasks' = tasks \cup {Reconcile(0)}
      /\ UNCHANGED <<now, wire, stage, lastEvent, envelopes, objects, rows, rejections, bars,
                     gaps, failures>>
  BY DEF Start, archive, tables
<1>2. AlpacaTypeOK /\ WireInv /\ ArchiveInv /\ WatermarkInv /\ now \in 0..MaxTime
  BY DEF AlpacaInv, AlpacaTypeOK
<1>3. wire = <<>> /\ stage = "idle" BY <1>1, <1>2 DEF WireInv
<1>4. AlpacaTypeOK'
  <2>1. Reconcile(0) \in Tasks BY StreamAssumption, TaskNames
  <2> QED BY <1>1, <1>2, <2>1 DEF AlpacaTypeOK
<1>5. WireInv' BY <1>1, <1>2, <1>3 DEF WireInv
<1>6. ArchiveInv'
  <2>1. \A u : Persist(u) \in tasks' => Persist(u) \in tasks BY <1>1, TaskNames
  <2>2. LineageIsWhole' BY <1>1, <1>2 DEF ArchiveInv, LineageIsWhole
  <2> QED BY <1>1, <1>2, <2>1, <2>2 DEF ArchiveInv
<1>7. WatermarkInv'
  <2>1. \A e \in envelopes : ~ (now < e)
    <3>1. \A e \in envelopes : e \in Int /\ e <= now BY <1>2 DEF AlpacaTypeOK, ArchiveInv, Ticks
    <3> QED BY <1>2, <3>1
  <2> QED BY <1>1, <1>2, <2>1 DEF WatermarkInv
<1>8. Missed' = {} BY <1>1, <1>2 DEF Missed
<1>9. AskedInv' BY <1>8 DEF AskedInv
<1> QED BY <1>4, <1>5, <1>6, <1>7, <1>9 DEF AlpacaInv

\* The process asks for what it missed when it connects.
LEMMA ConnectKeeps ==
  ASSUME AlpacaInv, Connect
  PROVE  AlpacaInv'
<1>1. /\ process = "up" /\ process' = "connected"
      /\ tasks' = IF lastEvent = NoEvent THEN tasks ELSE tasks \cup {Recover(lastEvent, now)}
      /\ UNCHANGED <<now, wire, stage, lastEvent, since, envelopes, objects, rows, rejections,
                     bars, gaps, failures>>
  BY DEF Connect, archive, tables
<1>2. AlpacaTypeOK /\ WireInv /\ ArchiveInv /\ WatermarkInv /\ now \in 0..MaxTime
  BY DEF AlpacaInv, AlpacaTypeOK
<1>3. wire = <<>> /\ stage = "idle" BY <1>1, <1>2 DEF WireInv
<1>4. lastEvent # NoEvent => lastEvent \in 0..MaxTime BY <1>2 DEF AlpacaTypeOK, Ticks
<1>5. AlpacaTypeOK'
  <2>1. tasks' \subseteq Tasks BY <1>1, <1>2, <1>4, TaskNames DEF AlpacaTypeOK
  <2> QED BY <1>1, <1>2, <2>1 DEF AlpacaTypeOK
<1>6. WireInv' BY <1>1, <1>2, <1>3 DEF WireInv
<1>7. ArchiveInv'
  <2>1. \A u : Persist(u) \in tasks' => Persist(u) \in tasks BY <1>1, TaskNames
  <2>2. LineageIsWhole' BY <1>1, <1>2 DEF ArchiveInv, LineageIsWhole
  <2> QED BY <1>1, <1>2, <2>1, <2>2 DEF ArchiveInv
<1>8. WatermarkInv' BY <1>1, <1>2 DEF WatermarkInv
<1>9. AskedInv'
  <2>1. Missed' = Missed BY <1>1 DEF Missed
  <2> SUFFICES ASSUME failures = 0, NEW t \in Missed PROVE Asked(t)'
    BY <1>1, <2>1 DEF AskedInv
  <2>2. t <= now BY <1>2 DEF Missed, AlpacaTypeOK
  <2>3. Asked(t) \/ (lastEvent # NoEvent /\ lastEvent < t)
    BY <1>1 DEF AlpacaInv, AskedInv
  <2>4. CASE Asked(t) BY <1>1, <2>4, AskedStays
  <2>5. CASE lastEvent # NoEvent /\ lastEvent < t
    <3>1. Recover(lastEvent, now) \in tasks' BY <1>1, <2>5
    <3> QED BY <1>2, <1>4, <2>2, <2>5, <3>1 DEF Asked
  <2> QED BY <2>3, <2>4, <2>5
<1> QED BY <1>5, <1>6, <1>7, <1>8, <1>9 DEF AlpacaInv

\* A connection is lost, with what was on the wire.
LEMMA DisconnectKeeps ==
  ASSUME AlpacaInv, process = "connected", process' = "up", wire' = <<>>, stage' = "idle",
         lastEvent = NoEvent => \A e \in envelopes \ Junk : ~ (since < e),
         UNCHANGED <<now, lastEvent, since, archive, tables, failures>>,
         tasks' = tasks \/ \E t \in Ticks : t \in envelopes /\ tasks' = tasks \cup {Persist(t)}
  PROVE  AlpacaInv'
<1>1. UNCHANGED <<now, lastEvent, since, envelopes, objects, rows, rejections, bars, gaps, failures>>
  BY DEF archive, tables
<1>2. AlpacaTypeOK /\ WireInv /\ ArchiveInv /\ WatermarkInv /\ now \in 0..MaxTime
  BY DEF AlpacaInv, AlpacaTypeOK
<1>3. tasks \subseteq tasks' /\ tasks' \subseteq Tasks BY <1>2, TaskNames DEF AlpacaTypeOK
<1>4. AlpacaTypeOK'
  <2>1. wire' \in Seq(Ticks) /\ Len(wire') <= MaxBacklog BY StreamAssumption
  <2> QED BY <1>1, <1>2, <1>3, <2>1 DEF AlpacaTypeOK
<1>5. WireInv' BY DEF WireInv
<1>6. ArchiveInv'
  <2>1. \A u \in Ticks : Persist(u) \in tasks' => u \in envelopes
    BY <1>2, TaskNames DEF ArchiveInv
  <2>2. LineageIsWhole' BY <1>1, <1>2 DEF ArchiveInv, LineageIsWhole
  <2> QED BY <1>1, <1>2, <2>1, <2>2 DEF ArchiveInv
<1>7. WatermarkInv' BY <1>1, <1>2 DEF WatermarkInv
<1>8. AskedInv'
  <2> SUFFICES ASSUME failures = 0, NEW t \in Missed'
               PROVE  Asked(t)' \/ (lastEvent # NoEvent /\ lastEvent < t)
    BY <1>1 DEF AskedInv
  <2>1. /\ t \in (since + 1)..now /\ t \notin envelopes
        /\ \E e \in envelopes \ Junk : since < e /\ e < t
    BY <1>1 DEF Missed
  <2>2. lastEvent # NoEvent BY <2>1
  <2>3. CASE \E i \in DOMAIN wire : wire[i] = t BY <1>2, <2>2, <2>3 DEF WatermarkInv
  <2>4. CASE \A i \in DOMAIN wire : wire[i] # t
    <3>1. t \in Missed BY <2>1, <2>4 DEF Missed
    <3>2. Asked(t) BY <3>1 DEF AlpacaInv, AskedInv
    <3> QED BY <1>1, <1>3, <3>2, AskedStays
  <2> QED BY <2>3, <2>4
<1> QED BY <1>4, <1>5, <1>6, <1>7, <1>8 DEF AlpacaInv

\* A process that is down has nothing on the wire and no event.
LEMMA DieKeeps ==
  ASSUME AlpacaInv, Die
  PROVE  AlpacaInv'
<1>1. /\ process' = "down" /\ wire' = <<>> /\ stage' = "idle" /\ lastEvent' = NoEvent
      /\ UNCHANGED <<now, since, envelopes, objects, tasks, rows, rejections, bars, gaps, failures>>
  BY DEF Die, archive, tables
<1>2. AlpacaTypeOK /\ ArchiveInv BY DEF AlpacaInv
<1>3. AlpacaTypeOK'
  <2>1. wire' \in Seq(Ticks) /\ Len(wire') <= MaxBacklog BY <1>1, StreamAssumption
  <2> QED BY <1>1, <1>2, <2>1 DEF AlpacaTypeOK
<1>4. LineageIsWhole' BY <1>1, <1>2 DEF ArchiveInv, LineageIsWhole
<1>5. ArchiveInv' BY <1>1, <1>2, <1>4 DEF ArchiveInv
<1>6. WireInv' /\ WatermarkInv' /\ AskedInv' BY <1>1 DEF WireInv, WatermarkInv, AskedInv
<1> QED BY <1>3, <1>5, <1>6 DEF AlpacaInv

\* The batches after the one that is archived are on the wire: none of them is missed.
LEMMA EnvelopeKeeps ==
  ASSUME AlpacaInv, ArchiveEnvelope
  PROVE  AlpacaInv'
<1>1. PICK h : h = Head(wire) OBVIOUS
<1>2. /\ stage = "idle" /\ wire # <<>> /\ envelopes' = envelopes \cup {h} /\ stage' = "envelope"
      /\ UNCHANGED <<now, process, wire, lastEvent, since, objects, tasks, rows, rejections, bars,
                     gaps, failures>>
  BY <1>1 DEF ArchiveEnvelope, tables
<1>3. /\ process = "connected" /\ h = wire[1] /\ h \in Ticks /\ 1 \in DOMAIN wire /\ h <= now
      /\ \A t \in Int : h <= t /\ t <= now => \E i \in DOMAIN wire : wire[i] = t
      /\ now \in Int /\ since \in Int
  BY <1>1, <1>2, OnTheWire
<1>4. AlpacaTypeOK /\ WireInv /\ ArchiveInv /\ WatermarkInv BY DEF AlpacaInv
<1>5. AlpacaTypeOK' BY <1>2, <1>3, <1>4 DEF AlpacaTypeOK
<1>6. WireInv' BY <1>1, <1>2, <1>3, <1>4 DEF WireInv
<1>7. ArchiveInv'
  <2>1. LineageIsWhole' BY <1>2, <1>4 DEF ArchiveInv, LineageIsWhole
  <2> QED BY <1>2, <1>3, <1>4, <2>1 DEF ArchiveInv
<1>8. WatermarkInv' BY <1>1, <1>2, <1>4 DEF WatermarkInv
<1>9. AskedInv'
  <2> SUFFICES ASSUME failures = 0, NEW t \in Missed' PROVE Asked(t)'
    BY <1>2 DEF AskedInv
  <2>1. /\ t \in (since + 1)..now /\ t \notin envelopes /\ t # h
        /\ \A i \in DOMAIN wire : wire[i] # t
    BY <1>2 DEF Missed
  <2>2. PICK e \in envelopes \cup {h} : e \notin Junk /\ since < e /\ e < t BY <1>2 DEF Missed
  <2>3. t \in Int /\ t <= now BY <1>3, <2>1
  <2>4. e # h
    <3>1. h \in Int BY <1>3 DEF Ticks
    <3>2. ASSUME h < t PROVE FALSE
      <4>1. h <= t BY <2>3, <3>1, <3>2
      <4> QED BY <1>3, <2>1, <2>3, <4>1
    <3> QED BY <2>2, <3>2
  <2>5. t \in Missed BY <2>1, <2>2, <2>4 DEF Missed
  <2>6. Asked(t) BY <1>2, <1>3, <2>5 DEF AlpacaInv, AskedInv
  <2> QED BY <1>2, <2>6, AskedStays
<1> QED BY <1>5, <1>6, <1>7, <1>8, <1>9 DEF AlpacaInv

\* The raw object changes neither what is on the wire nor what is asked for.
LEMMA ObjectKeeps ==
  ASSUME AlpacaInv, ArchiveObject
  PROVE  AlpacaInv'
<1>1. PICK h : h = Head(wire) OBVIOUS
<1>2. /\ stage = "envelope" /\ stage' = "raw" /\ objects' = objects \cup {h}
      /\ UNCHANGED <<now, process, wire, lastEvent, since, envelopes, tasks, rows, rejections,
                     bars, gaps, failures>>
  BY <1>1 DEF ArchiveObject, tables
<1>3. AlpacaTypeOK /\ WireInv /\ ArchiveInv /\ WatermarkInv BY DEF AlpacaInv
<1>4. wire # <<>> BY <1>2, <1>3 DEF WireInv
<1>5. h \in Ticks BY <1>1, <1>4, OnTheWire
<1>6. AlpacaTypeOK' BY <1>2, <1>3, <1>5 DEF AlpacaTypeOK
<1>7. WireInv' BY <1>2, <1>3 DEF WireInv
<1>8. ArchiveInv'
  <2>1. LineageIsWhole' BY <1>2, <1>3 DEF ArchiveInv, LineageIsWhole
  <2> QED BY <1>2, <1>3, <2>1 DEF ArchiveInv
<1>9. WatermarkInv' BY <1>2, <1>3 DEF WatermarkInv
<1>10. AskedInv'
  <2>1. Missed' = Missed BY <1>2 DEF Missed
  <2>2. \A t : Asked(t) => Asked(t)' BY <1>2 DEF Asked
  <2> QED BY <1>2, <2>1, <2>2 DEF AlpacaInv, AskedInv
<1> QED BY <1>6, <1>7, <1>8, <1>9, <1>10 DEF AlpacaInv

\* The batch that was archived becomes the last event, or ends the connection.
LEMMA PublishKeeps ==
  ASSUME AlpacaInv, Publish
  PROVE  AlpacaInv'
<1>1. PICK h : h = Head(wire) OBVIOUS
<1>2. /\ stage = "raw" /\ stage' = "idle" /\ tasks' = tasks \cup {Persist(h)}
      /\ UNCHANGED <<now, since, envelopes, objects, rows, rejections, bars, gaps, failures>>
  BY <1>1 DEF Publish, archive, tables
<1>3. AlpacaTypeOK /\ WireInv /\ ArchiveInv /\ WatermarkInv BY DEF AlpacaInv
<1>4. process = "connected" /\ wire # <<>> /\ h \in envelopes BY <1>1, <1>2, <1>3 DEF WireInv
<1>5. /\ h = wire[1] /\ h \in Ticks /\ 1 \in DOMAIN wire
      /\ now \in Int /\ Len(wire) \in Nat /\ wire \in Seq(Ticks)
  BY <1>1, <1>4, OnTheWire
<1>6. CASE h \in Junk
  <2>1. process' = "up" /\ wire' = <<>> /\ UNCHANGED lastEvent BY <1>1, <1>6 DEF Publish
  <2>2. lastEvent = NoEvent => \A e \in envelopes \ Junk : ~ (since < e)
    BY <1>1, <1>3, <1>4, <1>6 DEF WatermarkInv
  <2>3. UNCHANGED <<now, lastEvent, since, archive, tables, failures>>
    BY <1>2, <2>1 DEF archive, tables
  <2> QED BY <1>2, <1>4, <1>5, <2>1, <2>2, <2>3, DisconnectKeeps
<1>7. CASE h \notin Junk
  <2>1. lastEvent' = Advanced(h) /\ wire' = Tail(wire) /\ process' = process
    BY <1>1, <1>7 DEF Publish
  <2>2. lastEvent' = h
    <3>1. Latest(Decoded(h)) = h BY <1>5, DecodedInTime
    <3>2. lastEvent # NoEvent => lastEvent \in Int /\ lastEvent < h
      BY <1>3, <1>5 DEF AlpacaTypeOK, WatermarkInv, Ticks
    <3>3. h \in Int BY <1>5 DEF Ticks
    <3> QED BY <2>1, <3>1, <3>2, <3>3 DEF Advanced, Larger
  <2>3. h # NoEvent BY <1>5, StreamAssumption DEF Ticks
  <2>4. /\ wire' \in Seq(Ticks) /\ Len(wire') = Len(wire) - 1
        /\ DOMAIN wire' = 1..(Len(wire) - 1)
        /\ \A i \in DOMAIN wire' : wire'[i] = wire[i + 1]
    BY <1>4, <1>5, <2>1
  <2>5. \A i \in DOMAIN wire : wire[i] = now - Len(wire) + i BY <1>3 DEF WireInv
  <2>6. DOMAIN wire = 1..Len(wire) BY <1>5
  <2>7. AlpacaTypeOK'
    <3>1. Len(wire') <= MaxBacklog
      <4>1. Len(wire) <= MaxBacklog BY <1>3 DEF AlpacaTypeOK
      <4> QED BY <1>5, <2>4, <4>1, StreamAssumption
    <3>2. tasks' \subseteq Tasks BY <1>2, <1>3, <1>5, TaskNames DEF AlpacaTypeOK
    <3> QED BY <1>2, <1>3, <1>5, <2>1, <2>2, <2>4, <3>1, <3>2 DEF AlpacaTypeOK
  <2>8. \A i \in DOMAIN wire' : wire'[i] = now - Len(wire') + i /\ wire'[i] > h
    <3> SUFFICES ASSUME NEW i \in DOMAIN wire' PROVE wire'[i] = now - Len(wire') + i /\ wire'[i] > h
      OBVIOUS
    <3>1. i \in Int /\ 1 <= i /\ i + 1 \in DOMAIN wire BY <1>5, <2>4, <2>6
    <3>2. wire'[i] = now - Len(wire) + (i + 1) BY <2>4, <2>5, <3>1
    <3>3. h = now - Len(wire) + 1 BY <1>5, <2>5
    <3> QED BY <1>5, <2>4, <3>1, <3>2, <3>3
  <2>9. WireInv' BY <1>2, <1>4, <2>1, <2>8 DEF WireInv
  <2>10. ArchiveInv'
    <3>1. LineageIsWhole' BY <1>2, <1>3 DEF ArchiveInv, LineageIsWhole
    <3>2. \A u \in Ticks : Persist(u) \in tasks' => u \in envelopes
      BY <1>2, <1>3, <1>4, TaskNames DEF ArchiveInv
    <3> QED BY <1>2, <1>3, <3>1, <3>2 DEF ArchiveInv
  <2>11. WatermarkInv'
    <3>1. h \in Int BY <1>5 DEF Ticks
    <3>2. \A i \in DOMAIN wire' : h < wire'[i]
      <4> SUFFICES ASSUME NEW i \in DOMAIN wire' PROVE h < wire'[i] OBVIOUS
      <4>1. i \in Int /\ Len(wire') \in Int BY <1>5, <2>4
      <4>2. wire'[i] \in Int BY <1>5, <2>8, <4>1
      <4> QED BY <2>8, <3>1, <4>2
    <3> QED BY <1>2, <1>4, <2>2, <2>3, <3>2 DEF WatermarkInv
  <2>12. AskedInv'
    <3> SUFFICES ASSUME failures = 0, NEW t \in Missed' PROVE Asked(t)'
      BY <1>2, <1>4, <2>1 DEF AskedInv
    <3>1. /\ t \in (since + 1)..now /\ t \notin envelopes
          /\ \A i \in DOMAIN wire' : wire'[i] # t
          /\ \E e \in envelopes \ Junk : since < e /\ e < t
      BY <1>2 DEF Missed
    <3>2. \A i \in DOMAIN wire : wire[i] # t
      <4> SUFFICES ASSUME NEW i \in DOMAIN wire PROVE wire[i] # t OBVIOUS
      <4>1. CASE i = 1 BY <1>4, <1>5, <3>1, <4>1
      <4>2. CASE i # 1
        <5>1. i - 1 \in DOMAIN wire' /\ (i - 1) + 1 = i BY <1>5, <2>4, <2>6, <4>2
        <5>2. wire'[i - 1] = wire[i] BY <2>4, <5>1
        <5> QED BY <3>1, <5>1, <5>2
      <4> QED BY <4>1, <4>2
    <3>3. t \in Missed BY <3>1, <3>2 DEF Missed
    <3>4. Asked(t) BY <1>4, <3>3 DEF AlpacaInv, AskedInv
    <3> QED BY <1>2, <3>4, AskedStays
  <2> QED BY <2>7, <2>9, <2>10, <2>11, <2>12 DEF AlpacaInv
<1> QED BY <1>6, <1>7

\* AlpacaInv is inductive.
LEMMA AlpacaInductive ==
  /\ AlpacaInit => AlpacaInv
  /\ AlpacaInv /\ [AlpacaNext]_alpacaVars => AlpacaInv'
<1>1. ASSUME AlpacaInit PROVE AlpacaInv
  <2>1. AlpacaTypeOK BY <1>1, StreamAssumption DEF AlpacaInit, AlpacaTypeOK
  <2>2. WireInv /\ WatermarkInv /\ AskedInv
    BY <1>1 DEF AlpacaInit, WireInv, WatermarkInv, AskedInv
  <2>3. ArchiveInv BY <1>1 DEF AlpacaInit, ArchiveInv, LineageIsWhole
  <2> QED BY <2>1, <2>2, <2>3 DEF AlpacaInv
<1>2. ASSUME AlpacaInv, [AlpacaNext]_alpacaVars PROVE AlpacaInv'
  <2>1. CASE Tick BY <1>2, <2>1, TickKeeps
  <2>2. CASE Start BY <1>2, <2>2, StartKeeps
  <2>3. CASE Connect BY <1>2, <2>3, ConnectKeeps
  <2>4. CASE ArchiveEnvelope BY <1>2, <2>4, EnvelopeKeeps
  <2>5. CASE ArchiveObject BY <1>2, <2>5, ObjectKeeps
  <2>6. CASE Publish BY <1>2, <2>6, PublishKeeps
  <2>7. CASE Disconnect
    <3>1. /\ process = "connected" /\ process' = "up" /\ wire' = <<>> /\ stage = "idle" /\ stage' = "idle"
          /\ UNCHANGED <<now, lastEvent, since, archive, tables, failures>> /\ tasks' = tasks
      BY <2>7 DEF Disconnect
    <3>2. lastEvent = NoEvent => \A e \in envelopes \ Junk : ~ (since < e)
      BY <1>2, <3>1 DEF AlpacaInv, WatermarkInv
    <3> QED BY <1>2, <3>1, <3>2, DisconnectKeeps
  <2>8. CASE Die BY <1>2, <2>8, DieKeeps
  <2>9. CASE \E t \in Ticks : RunPersist(t) BY <1>2, <2>9, PersistKeeps
  <2>10. CASE \E t \in 0..MaxTime : RunReconcile(t) BY <1>2, <2>10, ReconcileKeeps
  <2>11. CASE \E last, t \in 0..MaxTime : RunRecover(last, t) BY <1>2, <2>11, RecoverKeeps
  <2>12. CASE \E task \in tasks : Lose(task) BY <1>2, <2>12, LoseKeeps
  <2>13. CASE UNCHANGED alpacaVars
    <3>1. UNCHANGED <<now, process, wire, stage, lastEvent, since, envelopes, objects, tasks, rows,
                      rejections, bars, gaps, failures>>
      BY <2>13 DEF alpacaVars, archive, tables
    <3>2. AlpacaTypeOK' BY <1>2, <3>1 DEF AlpacaInv, AlpacaTypeOK
    <3>3. WireInv' BY <1>2, <3>1 DEF AlpacaInv, WireInv
    <3>4. LineageIsWhole' BY <1>2, <3>1 DEF AlpacaInv, ArchiveInv, LineageIsWhole
    <3>5. ArchiveInv' BY <1>2, <3>1, <3>4 DEF AlpacaInv, ArchiveInv
    <3>6. WatermarkInv' BY <1>2, <3>1 DEF AlpacaInv, WatermarkInv
    <3>7. Missed' = Missed /\ \A t : Asked(t) => Asked(t)' BY <3>1 DEF Missed, Asked
    <3>8. AskedInv' BY <1>2, <3>1, <3>7 DEF AlpacaInv, AskedInv
    <3> QED BY <3>2, <3>3, <3>5, <3>6, <3>8 DEF AlpacaInv
  <2> QED BY <1>2, <2>1, <2>2, <2>3, <2>4, <2>5, <2>6, <2>7, <2>8, <2>9, <2>10, <2>11, <2>12, <2>13
          DEF AlpacaNext, Supervise, RunTask
<1> QED BY <1>1, <1>2

\* Every raw_data_object leads back to an object and to a recovery envelope of
\* the archive and every bar to a row, whichever of the writes of a batch were
\* made before the process or the task died (_archive_and_publish, persist_batch).
THEOREM StreamIsSound == AlpacaSpec => []StreamSound
<1>1. AlpacaInv => StreamSound BY DEF AlpacaInv, ArchiveInv, StreamSound
<1> QED BY <1>1, AlpacaInductive, PTL DEF AlpacaSpec

\* A connected process has asked for every tick it lost since it saw its first
\* event, by a task that is queued or by jobs that are stored, but for what the
\* recovery truncates (_last_event, plan_reconnect_gap_fill).
THEOREM GapsAreAsked == AlpacaSpec => []EveryGapIsAsked
<1>1. ASSUME AlpacaInv PROVE EveryGapIsAsked
  <2> SUFFICES ASSUME failures = 0, process = "connected", NEW t \in Missed
               PROVE  \/ \E task \in tasks : /\ task.task = "recover"
                                             /\ task.last <= t /\ t <= task.reconnected
                      \/ \E gap \in gaps : InSlice(t, gap) \/ (gap.truncated /\ t < gap.start)
    BY DEF EveryGapIsAsked
  <2>1. Asked(t) BY <1>1 DEF AlpacaInv, AskedInv
  <2>2. t \in Int BY <1>1 DEF Missed, AlpacaInv, AlpacaTypeOK
  <2>3. ASSUME NEW last \in 0..MaxTime, NEW u \in 0..MaxTime, Recover(last, u) \in tasks, last < t, t <= u
        PROVE  \E task \in tasks : /\ task.task = "recover"
                                   /\ task.last <= t /\ t <= task.reconnected
    <3>1. PICK task \in tasks : task = Recover(last, u) BY <2>3
    <3>2. task.task = "recover" /\ task.last = last /\ task.reconnected = u BY <3>1 DEF Recover
    <3> QED BY <2>2, <2>3, <3>2
  <2> QED BY <2>1, <2>3 DEF Asked
<1> QED BY <1>1, AlpacaInductive, PTL DEF AlpacaSpec
=============================================================================
