----------------------- MODULE NotificationOutboxProofs -----------------------
(***************************************************************************)
(* What the notification outbox says was delivered was delivered, its      *)
(* counters agree and a lock protects its row, for every set of rows,      *)
(* channels and dispatchers and any number of failures and crashes.        *)
(*                                                                         *)
(* The argument: what a pass remembers of a row is as truthful as the row, *)
(* so that saving it late overwrites one truth by another; and a pass that *)
(* still holds a lock remembers every delivery the row has.                *)
(*                                                                         *)
(* Then the pipeline that fills the outbox (AlertPipeline): what is        *)
(* acknowledged is stored, alerts follow from what was there and stay, and *)
(* a replay finds them, for every stream and any number of workers and     *)
(* crashes.                                                                *)
(*                                                                         *)
(* Last the paper portfolio (PaperPortfolio): its books agree, its account *)
(* is sound and its orders keep the limits, for every set of runs, symbols *)
(* and bars and every policy.  The argument: what a run decides on was in  *)
(* the books and is of its date, and once it has completed, its orders are *)
(* those of that decision.                                                 *)
(***************************************************************************)
EXTENDS NotificationOutbox, AlertPipeline, PaperPortfolio, FiniteSetTheorems,
        WellFoundedInduction, TLAPS

\* What r says of message m was delivered, was.
Truthful(m, r) == \A c \in Channels \ Undelivered(r) : accepted[m][c] > 0

\* A row between two passes ...
Agrees(r) ==
  \A c \in Channels :
    IF c \in Undelivered(r) THEN r.channel[c].attempts = r.attempts
                            ELSE r.channel[c].attempts \in 1..r.attempts

\* ... and the row a pass is at, with the channels in left still to be tried.
AgreesSoFar(r, left) ==
  /\ left \subseteq Undelivered(r)
  /\ \A c \in Channels :
       CASE c \in left -> r.channel[c].attempts = r.attempts
         [] c \in Undelivered(r) \ left -> r.channel[c].attempts = r.attempts + 1
         [] OTHER -> r.channel[c].attempts \in 1..(r.attempts + 1)

\* The row a pass is at, with the outcome of channel c.
TriedRow(r, c, status) == [r EXCEPT !.channel[c] = Tried(@, status)]

RowInv(m) == /\ Truthful(m, row[m])
             /\ Agrees(row[m])
             /\ row[m].status = "DELIVERED" <=> Undelivered(row[m]) = {}
             /\ row[m].status = "ABSENT" => Undelivered(row[m]) = Channels

PassInv(d) ==
  /\ pass[d].todo = {} => pass[d].left = {}
  /\ \A m \in pass[d].todo :
       /\ Truthful(m, pass[d].seen[m])
       /\ IF m = First(pass[d].todo) THEN AgreesSoFar(pass[d].seen[m], pass[d].left)
                                     ELSE Agrees(pass[d].seen[m])

LockInv(d) ==
  \A m \in Messages : lock[m] = d =>
    /\ m \in pass[d].todo
    /\ Undelivered(pass[d].seen[m]) \subseteq Undelivered(row[m])

IInv == /\ TypeOK
        /\ \A m \in Messages : RowInv(m)
        /\ \A d \in Dispatchers : PassInv(d) /\ LockInv(d)

-----------------------------------------------------------------------------
(* Facts about the operators. *)

\* A pass always has a first row to do.
LEMMA FirstIsThere ==
  ASSUME NEW rows, rows \subseteq Messages, rows # {}
  PROVE  First(rows) \in rows
PROOF
  <1>1. rows \subseteq Nat
    BY OutboxAssumption
  <1> DEFINE Less == {ss \in Nat \X Nat : ss[1] < ss[2]}
  <1>2. IsWellFoundedOn(Less, Nat)
    BY NatLessThanWellFounded, Zenon DEF OpToRel
  <1>3. \E x \in rows : \A y \in rows : ~ (<<y, x>> \in Less)
    BY <1>1, <1>2, WFMin, Zenon
  <1>4. \A x, y \in Nat : y < x => <<y, x>> \in Less
    OBVIOUS
  <1>5. \A x, y \in Nat : x <= y \/ y < x
    OBVIOUS
  <1> HIDE DEF Less
  <1>6. \E x \in rows : \A y \in rows : x <= y
    BY <1>1, <1>3, <1>4, <1>5, Zenon
  <1> QED
    BY <1>6 DEF First

\* What is tried and comes out delivered is delivered; what is retried is not.
LEMMA Trying ==
  ASSUME NEW r \in Row, NEW c \in Undelivered(r), NEW status \in {"RETRY", "DELIVERED"},
         NEW left, c \in left, AgreesSoFar(r, left)
  PROVE  LET q == TriedRow(r, c, status)
         IN /\ q \in Row
            /\ Undelivered(q) = IF status = "RETRY" THEN Undelivered(r)
                                                    ELSE Undelivered(r) \ {c}
            /\ AgreesSoFar(q, left \ {c})
PROOF
  <1> DEFINE q == TriedRow(r, c, status)
             s == [status |-> status, attempts |-> r.channel[c].attempts + 1]
  <1>1. c \in Channels /\ r.channel[c].status # "DELIVERED"
    BY DEF Undelivered
  <1>2. /\ r.channel \in [Channels -> ChannelState]
        /\ r.attempts \in Nat
        /\ r.channel[c].attempts = r.attempts
    BY <1>1 DEF Row, AgreesSoFar
  <1>3. s \in ChannelState
    BY <1>2 DEF ChannelState
  <1>4. q = [r EXCEPT !.channel = [r.channel EXCEPT ![c] = s]]
    BY DEF Tried, TriedRow
  <1> HIDE DEF q
  <1>5. q \in Row
    BY <1>2, <1>3, <1>4 DEF Row
  <1>6. /\ q.attempts = r.attempts
        /\ q.channel[c] = s
        /\ \A x \in Channels : x # c => q.channel[x] = r.channel[x]
    BY <1>1, <1>2, <1>4 DEF Row
  <1>7. Undelivered(q) = IF status = "RETRY" THEN Undelivered(r)
                                             ELSE Undelivered(r) \ {c}
    BY <1>1, <1>6 DEF Undelivered
  <1>8. AgreesSoFar(q, left \ {c})
    BY <1>1, <1>2, <1>6, <1>7 DEF AgreesSoFar
  <1> QED
    BY <1>5, <1>7, <1>8 DEF q

\* A row whose channels have all been tried agrees again when it is saved.
LEMMA Saving ==
  ASSUME NEW r \in Row, AgreesSoFar(r, {})
  PROVE  /\ Updated(r) \in Row
         /\ Undelivered(Updated(r)) = Undelivered(r)
         /\ Agrees(Updated(r))
         /\ Updated(r).status = "DELIVERED" <=> Undelivered(Updated(r)) = {}
         /\ Updated(r).status # "ABSENT"
PROOF
  <1> DEFINE status == IF Undelivered(r) = {} THEN "DELIVERED" ELSE "RETRY"
  <1>1. status \in {"DELIVERED", "RETRY"}
    OBVIOUS
  <1> DEFINE q == [r EXCEPT !.status = status]
  <1>2. Updated(r) = [q EXCEPT !.attempts = r.attempts + 1]
    BY Zenon DEF Updated, Complete
  <1> HIDE DEF status
  <1>3. q \in Row /\ q.status = status /\ q.channel = r.channel /\ q.attempts = r.attempts
    BY <1>1 DEF Row
  <1> HIDE DEF q
  <1>4. /\ Updated(r) \in Row
        /\ Updated(r).channel = r.channel
        /\ Updated(r).attempts = r.attempts + 1
        /\ Updated(r).status = status
    BY <1>2, <1>3 DEF Row
  <1>5. Undelivered(Updated(r)) = Undelivered(r)
    BY <1>4 DEF Undelivered
  <1>6. Agrees(Updated(r))
    BY <1>4, <1>5 DEF AgreesSoFar, Agrees, Row
  <1> QED
    BY <1>5, <1>6, <1>4 DEF status

\* The pass over some rows that agree starts in agreement, whatever is left.
LEMMA PassingOver ==
  ASSUME NEW rows, rows \subseteq Messages, NEW seen \in [Messages -> Row],
         \A m \in rows : Agrees(seen[m])
  PROVE  LET p == PassOver(rows, seen)
         IN /\ p \in Pass
            /\ p.todo = rows
            /\ rows = {} => p.left = {}
            /\ \A m \in rows :
                 /\ p.seen[m] = seen[m]
                 /\ IF m = First(rows) THEN AgreesSoFar(seen[m], p.left) ELSE TRUE
PROOF
  <1>1. CASE rows = {}
    <2>1. NoRow \in Row
      BY DEF NoRow, Created, Row, ChannelState
    <2> QED
      BY <1>1, <2>1 DEF PassOver, NoPass, Pass
  <1>2. CASE rows # {}
    <2> DEFINE m == First(rows)
    <2>1. m \in rows /\ m \in Messages
      BY <1>2, FirstIsThere
    <2>2. seen[m] \in Row /\ Agrees(seen[m])
      BY <2>1
    <2>3. AgreesSoFar(seen[m], Undelivered(seen[m]))
      BY <2>2 DEF Agrees, AgreesSoFar, Undelivered, Row, ChannelState
    <2>4. PassOver(rows, seen) = [todo |-> rows, seen |-> seen, left |-> Undelivered(seen[m])]
      BY <1>2 DEF PassOver
    <2>5. Undelivered(seen[m]) \subseteq Channels
      BY DEF Undelivered
    <2> QED
      BY <1>2, <2>1, <2>3, <2>4, <2>5 DEF Pass
  <1> QED
    BY <1>1, <1>2

-----------------------------------------------------------------------------
(* The steps. *)

\* At the start no row is stored and no pass is under way.
LEMMA InitInv == Init => IInv
PROOF
  <1> SUFFICES ASSUME Init PROVE IInv
    OBVIOUS
  <1>1. /\ NoRow \in Row
        /\ NoRow.status = "ABSENT"
        /\ Undelivered(NoRow) = Channels
        /\ Agrees(NoRow)
    BY DEF NoRow, Created, Row, ChannelState, Undelivered, Agrees
  <1>2. NoPass \in Pass /\ NoPass.todo = {} /\ NoPass.left = {}
    BY <1>1 DEF NoPass, Pass
  <1>3. TypeOK
    BY <1>1, <1>2, OutboxAssumption DEF Init, TypeOK
  <1>4. ASSUME NEW m \in Messages PROVE RowInv(m)
    BY <1>1, OutboxAssumption DEF Init, RowInv, Truthful
  <1>5. ASSUME NEW d \in Dispatchers PROVE PassInv(d) /\ LockInv(d)
    BY <1>2, OutboxAssumption DEF Init, PassInv, LockInv
  <1> QED
    BY <1>3, <1>4, <1>5 DEF IInv

\* A new row agrees with its channels.
LEMMA PersistInv ==
  ASSUME IInv, NEW m \in Messages, Persist(m)
  PROVE  IInv'
PROOF
  <1> USE DEF IInv
  <1>1. /\ Created \in Row
        /\ Created.status = "PENDING"
        /\ Undelivered(Created) = Channels
        /\ Agrees(Created)
    BY DEF Created, Row, ChannelState, Undelivered, Agrees
  <1>2. /\ row' = [row EXCEPT ![m] = Created]
        /\ UNCHANGED <<lock, pass, accepted, failures>>
    BY DEF Persist
  <1>3. TypeOK'
    BY <1>1, <1>2 DEF TypeOK
  <1>4. ASSUME NEW n \in Messages PROVE RowInv(n)'
    BY <1>1, <1>2, OutboxAssumption DEF RowInv, Truthful, TypeOK
  <1>5. ASSUME NEW d \in Dispatchers PROVE PassInv(d)'
    BY <1>2 DEF PassInv, Truthful
  <1>6. ASSUME NEW d \in Dispatchers PROVE LockInv(d)'
    <2>1. ASSUME NEW n \in Messages
          PROVE  Undelivered(row[n]) \subseteq Undelivered(row'[n])
      BY <1>1, <1>2 DEF TypeOK, Undelivered
    <2> QED
      BY <1>2, <2>1 DEF LockInv
  <1> QED
    BY <1>3, <1>4, <1>5, <1>6

\* A pass begins with rows that it locked and read.
LEMMA DueInv ==
  ASSUME IInv, NEW d \in Dispatchers, Due(d)
  PROVE  IInv'
PROOF
  <1> USE DEF IInv
  <1>1. /\ pass[d].todo = {}
        /\ pass' = [pass EXCEPT ![d] = PassOver(DueRows, row)]
        /\ lock' = [m \in Messages |-> IF m \in DueRows THEN d ELSE lock[m]]
        /\ UNCHANGED <<row, accepted, failures>>
    BY DEF Due
  <1>2. DueRows \subseteq Messages
    BY DEF DueRows
  <1>3. row \in [Messages -> Row] /\ \A m \in Messages : RowInv(m)
    BY DEF TypeOK
  <1> DEFINE p == PassOver(DueRows, row)
  <1>4. /\ p \in Pass
        /\ p.todo = DueRows
        /\ DueRows = {} => p.left = {}
        /\ \A m \in DueRows : /\ p.seen[m] = row[m]
                              /\ IF m = First(DueRows) THEN AgreesSoFar(row[m], p.left) ELSE TRUE
    BY <1>2, <1>3, PassingOver DEF RowInv
  <1> HIDE DEF p
  <1>5. pass'[d] = p /\ \A e \in Dispatchers \ {d} : pass'[e] = pass[e]
    BY <1>1 DEF TypeOK, p
  <1>6. TypeOK'
    BY <1>1, <1>4 DEF TypeOK, p
  <1>7. ASSUME NEW m \in Messages PROVE RowInv(m)'
    BY <1>1 DEF RowInv, Truthful
  <1>8. ASSUME NEW e \in Dispatchers PROVE PassInv(e)'
    <2>1. CASE e = d
      BY <2>1, <1>1, <1>2, <1>3, <1>4, <1>5 DEF PassInv, RowInv, Truthful
    <2>2. CASE e # d
      BY <2>2, <1>1, <1>5 DEF PassInv, Truthful
    <2> QED
      BY <2>1, <2>2
  <1>9. ASSUME NEW e \in Dispatchers PROVE LockInv(e)'
    <2>1. CASE e = d
      BY <2>1, <1>1, <1>4, <1>5 DEF LockInv
    <2>2. CASE e # d
      BY <2>2, <1>1, <1>5 DEF LockInv
    <2> QED
      BY <2>1, <2>2
  <1> QED
    BY <1>6, <1>7, <1>8, <1>9

\* One channel of the row a pass is at has been tried.
LEMMA OutcomeInv ==
  ASSUME IInv,
         NEW d \in Dispatchers, NEW c \in pass[d].left, NEW status \in {"RETRY", "DELIVERED"},
         Outcome(d, c, status),
         UNCHANGED <<row, lock>>,
         accepted' \in [Messages -> [Channels -> Nat]],
         \A m \in Messages : \A x \in Channels : accepted'[m][x] >= accepted[m][x],
         status = "DELIVERED" => accepted'[First(pass[d].todo)][c] > 0,
         failures' \in 0..MaxFailures
  PROVE  IInv'
PROOF
  <1> USE DEF IInv
  <1> DEFINE m == First(pass[d].todo)
             r == pass[d].seen[m]
             q == TriedRow(r, c, status)
  <1>1. pass[d] \in Pass
    BY DEF TypeOK
  <1>2. m \in pass[d].todo /\ m \in Messages
    BY <1>1, FirstIsThere DEF PassInv, Pass
  <1>3. /\ r \in Row
        /\ Truthful(m, r)
        /\ AgreesSoFar(r, pass[d].left)
        /\ c \in Undelivered(r)
    BY <1>1, <1>2 DEF PassInv, Pass, AgreesSoFar
  <1>4. /\ q \in Row
        /\ Undelivered(q) = IF status = "RETRY" THEN Undelivered(r) ELSE Undelivered(r) \ {c}
        /\ AgreesSoFar(q, pass[d].left \ {c})
    BY <1>3, Trying
  <1>5. /\ pass' \in [Dispatchers -> Pass]
        /\ pass'[d].todo = pass[d].todo
        /\ pass'[d].left = pass[d].left \ {c}
        /\ pass'[d].seen = [pass[d].seen EXCEPT ![m] = q]
        /\ \A e \in Dispatchers \ {d} : pass'[e] = pass[e]
    <2>1. pass' = [pass EXCEPT ![d] = [pass[d] EXCEPT !.seen = [@ EXCEPT ![m] = q],
                                                      !.left = @ \ {c}]]
      BY DEF Outcome, TriedRow
    <2> HIDE DEF m, r, q
    <2> QED
      BY <2>1, <1>1, <1>2, <1>4 DEF TypeOK, Pass
  <1> HIDE DEF q
  <1>6. TypeOK'
    BY <1>5 DEF TypeOK
  <1>7. \A n \in Messages : \A x \in Channels : accepted[n][x] > 0 => accepted'[n][x] > 0
    BY DEF TypeOK
  <1>8. \A x \in Channels \ Undelivered(q) : accepted'[m][x] > 0
    BY <1>2, <1>3, <1>4, <1>7 DEF Truthful
  <1>9. ASSUME NEW n \in Messages PROVE RowInv(n)'
    BY <1>7 DEF RowInv, Truthful
  <1>10. ASSUME NEW e \in Dispatchers PROVE PassInv(e)'
    <2>1. CASE e = d
      <3>1. pass'[d].todo # {}
        BY <1>2, <1>5
      <3>2. ASSUME NEW n \in pass'[d].todo
            PROVE  /\ \A x \in Channels \ Undelivered(pass'[d].seen[n]) : accepted'[n][x] > 0
                   /\ IF n = m THEN AgreesSoFar(pass'[d].seen[n], pass'[d].left)
                               ELSE Agrees(pass'[d].seen[n])
        <4>1. n \in pass[d].todo /\ n \in Messages
          BY <1>1, <1>5 DEF Pass
        <4>2. CASE n = m
          <5>1. pass'[d].seen[n] = q
            BY <1>1, <1>2, <1>5, <4>2 DEF Pass
          <5> HIDE DEF m
          <5> QED
            BY <1>4, <1>5, <1>8, <4>2, <5>1
        <4>3. CASE n # m
          <5>1. pass'[d].seen[n] = pass[d].seen[n]
            BY <1>1, <1>5, <4>1, <4>3 DEF Pass
          <5> QED
            BY <1>7, <4>1, <4>3, <5>1 DEF PassInv, Truthful
        <4> QED
          BY <4>2, <4>3
      <3> QED
        BY <1>5, <2>1, <3>1, <3>2 DEF PassInv, Truthful
    <2>2. CASE e # d
      <3>1. pass'[e] = pass[e]
        BY <2>2, <1>5
      <3>2. pass[e].todo \subseteq Messages
        BY DEF TypeOK, Pass
      <3> QED
        BY <1>1, <1>7, <3>1, <3>2 DEF PassInv, Truthful
    <2> QED
      BY <2>1, <2>2
  <1>11. ASSUME NEW e \in Dispatchers PROVE LockInv(e)'
    <2>1. CASE e = d
      <3>1. ASSUME NEW n \in Messages
            PROVE  Undelivered(pass'[d].seen[n]) \subseteq Undelivered(pass[d].seen[n])
        <4> HIDE DEF m
        <4>1. CASE n = m
          BY <1>1, <1>2, <1>4, <1>5, <4>1 DEF Pass
        <4>2. CASE n # m
          BY <1>1, <1>5, <4>2 DEF Pass
        <4> QED
          BY <4>1, <4>2
      <3> QED
        BY <1>5, <2>1, <3>1 DEF LockInv
    <2>2. CASE e # d
      BY <2>2, <1>5 DEF LockInv
    <2> QED
      BY <2>1, <2>2
  <1> QED
    BY <1>6, <1>9, <1>10, <1>11

\* A channel that took the message may be called delivered.
LEMMA SendInv ==
  ASSUME IInv, NEW d \in Dispatchers, NEW c \in Channels, Send(d, c)
  PROVE  IInv'
PROOF
  <1> DEFINE m == First(pass[d].todo)
  <1>1. /\ c \in pass[d].left
        /\ Outcome(d, c, "DELIVERED")
        /\ accepted' = [accepted EXCEPT ![m] = [accepted[m] EXCEPT ![c] = @ + 1]]
        /\ UNCHANGED <<row, lock, failures>>
    BY DEF Send, Accept
  <1>2. m \in Messages
    BY <1>1, FirstIsThere DEF IInv, TypeOK, PassInv, Pass
  <1>3. /\ accepted \in [Messages -> [Channels -> Nat]]
        /\ failures \in 0..MaxFailures
    BY DEF IInv, TypeOK
  <1>4. /\ accepted' \in [Messages -> [Channels -> Nat]]
        /\ \A n \in Messages : \A x \in Channels : accepted'[n][x] >= accepted[n][x]
        /\ accepted'[m][c] > 0
    <2> HIDE DEF m
    <2> QED
      BY <1>1, <1>2, <1>3
  <1> QED
    BY <1>1, <1>3, <1>4, OutcomeInv

\* One that did not is to be tried again.
LEMMA SendFailsInv ==
  ASSUME IInv, NEW d \in Dispatchers, NEW c \in Channels, SendFails(d, c)
  PROVE  IInv'
PROOF
  <1> DEFINE m == First(pass[d].todo)
  <1>1. /\ c \in pass[d].left
        /\ Outcome(d, c, "RETRY")
        /\ \/ accepted' = [accepted EXCEPT ![m] = [accepted[m] EXCEPT ![c] = @ + 1]]
           \/ accepted' = accepted
        /\ UNCHANGED <<row, lock>>
        /\ failures < MaxFailures /\ failures' = failures + 1
    BY DEF SendFails, Accept, Fail
  <1>2. m \in Messages
    BY <1>1, FirstIsThere DEF IInv, TypeOK, PassInv, Pass
  <1>3. /\ accepted \in [Messages -> [Channels -> Nat]]
        /\ failures \in 0..MaxFailures
    BY DEF IInv, TypeOK
  <1>4. /\ accepted' \in [Messages -> [Channels -> Nat]]
        /\ \A n \in Messages : \A x \in Channels : accepted'[n][x] >= accepted[n][x]
    <2> HIDE DEF m
    <2>1. CASE accepted' = accepted
      BY <1>3, <2>1
    <2>2. CASE accepted' = [accepted EXCEPT ![m] = [accepted[m] EXCEPT ![c] = @ + 1]]
      <3>0. accepted[m] \in [Channels -> Nat]
        BY <1>2, <1>3
      <3>1. PICK f : f = [accepted[m] EXCEPT ![c] = @ + 1] OBVIOUS
      <3>2. f \in [Channels -> Nat] /\ \A x \in Channels : f[x] >= accepted[m][x]
        <4>1. PICK g : g = accepted[m] OBVIOUS
        <4>2. g \in [Channels -> Nat] /\ f = [g EXCEPT ![c] = g[c] + 1]
          <5>1. g \in [Channels -> Nat]
            BY <3>0, <4>1, Zenon
          <5>2. f = [g EXCEPT ![c] = g[c] + 1]
            BY <3>1, <4>1, Zenon
          <5> QED
            BY <5>1, <5>2, Zenon
        <4>3. f \in [Channels -> Nat] /\ \A x \in Channels : f[x] >= g[x]
          BY <4>2
        <4> QED
          BY <4>1, <4>3
      <3>3. accepted' = [accepted EXCEPT ![m] = f]
        BY <2>2, <3>1
      <3>4. \A n \in Messages : accepted'[n] = IF n = m THEN f ELSE accepted[n]
        BY <1>3, <3>3
      <3>5. \A n \in Messages : \A x \in Channels : accepted[n][x] \in Nat
        BY <1>3
      <3>6. accepted' \in [Messages -> [Channels -> Nat]]
        BY <1>3, <3>2, <3>3
      <3>7. ASSUME NEW n \in Messages, NEW x \in Channels
            PROVE  accepted'[n][x] >= accepted[n][x]
        <4>1. CASE n = m
          BY <3>2, <3>4, <4>1
        <4>2. CASE n # m
          <5>1. accepted'[n] = accepted[n]
            BY <3>4, <4>2
          <5> QED
            BY <3>5, <5>1
        <4> QED
          BY <4>1, <4>2
      <3> QED
        BY <3>6, <3>7
    <2> QED
      BY <1>1, <2>1, <2>2
  <1>5. failures' \in 0..MaxFailures
    BY <1>1, <1>3, OutboxAssumption
  <1> QED
    BY <1>1, <1>4, <1>5, OutcomeInv

\* A row is saved once its channels have been tried, and its locks given up.
LEMMA SaveInv ==
  ASSUME IInv, NEW d \in Dispatchers, Save(d)
  PROVE  IInv'
PROOF
  <1> USE DEF IInv
  <1> DEFINE m == First(pass[d].todo)
             r == pass[d].seen[m]
             rest == pass[d].todo \ {m}
             p == PassOver(rest, pass[d].seen)
  <1>1. /\ pass[d].todo # {} /\ pass[d].left = {}
        /\ lock[m] \in {None, d}
        /\ row' = [row EXCEPT ![m] = Updated(r)]
        /\ pass' = [pass EXCEPT ![d] = p]
        /\ lock' = [n \in Messages |-> IF lock[n] = d THEN None ELSE lock[n]]
        /\ UNCHANGED <<accepted, failures>>
    BY DEF Save, Unlocked
  <1>2. pass[d] \in Pass
    BY DEF TypeOK
  <1>3. m \in pass[d].todo /\ m \in Messages
    BY <1>1, <1>2, FirstIsThere DEF Pass
  <1>4. /\ r \in Row
        /\ Truthful(m, r)
        /\ AgreesSoFar(r, {})
        /\ \A n \in rest : Truthful(n, pass[d].seen[n]) /\ Agrees(pass[d].seen[n])
    BY <1>1, <1>2, <1>3 DEF PassInv, Pass
  <1>5. /\ Updated(r) \in Row
        /\ Undelivered(Updated(r)) = Undelivered(r)
        /\ Agrees(Updated(r))
        /\ Updated(r).status = "DELIVERED" <=> Undelivered(Updated(r)) = {}
        /\ Updated(r).status # "ABSENT"
    BY <1>4, Saving
  <1>6. /\ p \in Pass
        /\ p.todo = rest
        /\ rest = {} => p.left = {}
        /\ \A n \in rest :
             /\ p.seen[n] = pass[d].seen[n]
             /\ IF n = First(rest) THEN AgreesSoFar(pass[d].seen[n], p.left) ELSE TRUE
    <2>1. rest \subseteq Messages /\ pass[d].seen \in [Messages -> Row]
      BY <1>2 DEF Pass
    <2> HIDE DEF rest
    <2> QED
      BY <2>1, <1>4, PassingOver
  <1> HIDE DEF p, r
  <1>7. pass'[d] = p /\ \A e \in Dispatchers \ {d} : pass'[e] = pass[e]
    BY <1>1 DEF TypeOK
  <1>8. /\ row'[m] = Updated(r)
        /\ \A n \in Messages \ {m} : row'[n] = row[n]
    BY <1>1, <1>3 DEF TypeOK
  <1>9. TypeOK'
    BY <1>1, <1>3, <1>5, <1>6 DEF TypeOK
  <1>10. ASSUME NEW n \in Messages PROVE RowInv(n)'
    <2> HIDE DEF m
    <2>1. CASE n = m
      BY <2>1, <1>1, <1>4, <1>5, <1>8 DEF RowInv, Truthful
    <2>2. CASE n # m
      BY <2>2, <1>1, <1>8 DEF RowInv, Truthful
    <2> QED
      BY <2>1, <2>2
  <1>11. ASSUME NEW e \in Dispatchers PROVE PassInv(e)'
    <2>1. CASE e = d
      <3> HIDE DEF rest
      <3> QED
        BY <2>1, <1>1, <1>4, <1>6, <1>7 DEF PassInv, Truthful
    <2>2. CASE e # d
      BY <2>2, <1>1, <1>7 DEF PassInv, Truthful
    <2> QED
      BY <2>1, <2>2
  <1>12. ASSUME NEW e \in Dispatchers PROVE LockInv(e)'
    <2> SUFFICES ASSUME NEW n \in Messages, lock'[n] = e
                 PROVE  /\ n \in pass'[e].todo
                        /\ Undelivered(pass'[e].seen[n]) \subseteq Undelivered(row'[n])
      BY DEF LockInv
    <2>1. e # d /\ lock[n] = e
      BY <1>1, OutboxAssumption
    <2>2. n # m
      BY <1>1, <2>1, OutboxAssumption
    <2> QED
      BY <2>1, <2>2, <1>7, <1>8 DEF LockInv
  <1> QED
    BY <1>9, <1>10, <1>11, <1>12

\* A pass that is lost leaves the rows it did not save as they were.
LEMMA CrashInv ==
  ASSUME IInv, NEW d \in Dispatchers, Crash(d)
  PROVE  IInv'
PROOF
  <1> USE DEF IInv
  <1>1. /\ pass' = [pass EXCEPT ![d] = NoPass]
        /\ lock' = [n \in Messages |-> IF lock[n] = d THEN None ELSE lock[n]]
        /\ failures < MaxFailures /\ failures' = failures + 1
        /\ UNCHANGED <<row, accepted>>
    BY DEF Crash, Unlocked, Fail
  <1>2. NoPass \in Pass /\ NoPass.todo = {} /\ NoPass.left = {}
    BY DEF NoPass, Pass, NoRow, Created, Row, ChannelState
  <1>3. pass'[d] = NoPass /\ \A e \in Dispatchers \ {d} : pass'[e] = pass[e]
    BY <1>1 DEF TypeOK
  <1>4. TypeOK'
    BY <1>1, <1>2, OutboxAssumption DEF TypeOK
  <1>5. ASSUME NEW n \in Messages PROVE RowInv(n)'
    BY <1>1 DEF RowInv, Truthful
  <1>6. ASSUME NEW e \in Dispatchers PROVE PassInv(e)'
    BY <1>1, <1>2, <1>3 DEF PassInv, Truthful
  <1>7. ASSUME NEW e \in Dispatchers PROVE LockInv(e)'
    <2>1. ASSUME NEW n \in Messages, lock'[n] = e
          PROVE  e # d /\ lock[n] = e
      BY <1>1, <2>1, OutboxAssumption
    <2> QED
      BY <1>1, <1>3, <2>1 DEF LockInv
  <1> QED
    BY <1>4, <1>5, <1>6, <1>7

\* The inductive step.
LEMMA NextInv == IInv /\ [Next]_vars => IInv'
PROOF
  <1> SUFFICES ASSUME IInv, [Next]_vars PROVE IInv'
    OBVIOUS
  <1>1. CASE UNCHANGED vars
    BY <1>1 DEF vars, IInv, TypeOK, RowInv, PassInv, LockInv, Truthful
  <1>2. CASE \E m \in Messages : Persist(m)
    BY <1>2, PersistInv
  <1>3. CASE \E d \in Dispatchers : Due(d) \/ Save(d) \/ Crash(d)
    BY <1>3, DueInv, SaveInv, CrashInv
  <1>4. CASE \E d \in Dispatchers, c \in Channels : Send(d, c) \/ SendFails(d, c)
    BY <1>4, SendInv, SendFailsInv
  <1> QED
    BY <1>1, <1>2, <1>3, <1>4 DEF Next

\* The invariant holds in every reachable state.
LEMMA Invariance == Spec => []IInv
PROOF
  BY InitInv, NextInv, PTL DEF Spec

-----------------------------------------------------------------------------
(* The theorems. *)

\* Every column of the outbox keeps its type, ck_notification_outbox_status of
\* the table included, whatever dispatch_due is interrupted by.
THEOREM OutboxTypeOK == Spec => []TypeOK
PROOF
  <1>1. IInv => TypeOK
    BY DEF IInv
  <1> QED
    BY <1>1, Invariance, PTL

\* save_delivery marks no message delivered, and no channel of one, that the
\* channel's adapter did not accept.
THEOREM OutboxDeliveredWasAccepted == Spec => []DeliveredWasAccepted
PROOF
  <1>1. IInv => DeliveredWasAccepted
    BY DEF IInv, RowInv, Truthful, DeliveredWasAccepted
  <1> QED
    BY <1>1, Invariance, PTL

\* The attempts of a row and of its channels agree, whichever pass wrote it last.
THEOREM OutboxAttemptsAgree == Spec => []AttemptsAgree
PROOF
  <1>1. IInv => AttemptsAgree
    BY DEF IInv, RowInv, Agrees, AttemptsAgree
  <1> QED
    BY <1>1, Invariance, PTL

\* Interrupted and overlapping passes leave every row with its type, delivered only
\* where a channel accepted, and with attempts that agree with its channels'.
THEOREM OutboxRowsAreSound == Spec => []RowsSound
BY OutboxTypeOK, OutboxDeliveredWasAccepted, OutboxAttemptsAgree, PTL DEF RowsSound

\* What a pass that has the row lock saves, and what anyone does while it has it,
\* takes back no delivery.
THEOREM OutboxDeliveryIsKept == Spec => DeliveryIsKept
PROOF
  <1> DEFINE Kept == \A d \in Dispatchers, m \in Messages :
                       lock[m] = d => Undelivered(row'[m]) \subseteq Undelivered(row[m])
  <1>1. IInv /\ [Next]_vars => [Kept]_vars
    <2> SUFFICES ASSUME IInv, Next, NEW d \in Dispatchers, NEW m \in Messages, lock[m] = d
                 PROVE  Undelivered(row'[m]) \subseteq Undelivered(row[m])
      OBVIOUS
    <2>1. CASE UNCHANGED row
      BY <2>1
    <2>2. ASSUME NEW n \in Messages, Persist(n)
          PROVE  Undelivered(row'[m]) \subseteq Undelivered(row[m])
      <3>1. CASE n = m
        BY <2>2, <3>1 DEF Persist, IInv, RowInv, Undelivered
      <3>2. CASE n # m
        BY <2>2, <3>2 DEF Persist, IInv, TypeOK
      <3> QED
        BY <3>1, <3>2
    <2>3. ASSUME NEW e \in Dispatchers, Save(e)
          PROVE  Undelivered(row'[m]) \subseteq Undelivered(row[m])
      <3> DEFINE n == First(pass[e].todo)
                 r == pass[e].seen[n]
      <3>1. row' = [row EXCEPT ![n] = Updated(r)] /\ lock[n] \in {None, e}
            /\ pass[e].todo # {} /\ pass[e].left = {}
        BY <2>3 DEF Save
      <3>2. n \in pass[e].todo /\ n \in Messages /\ r \in Row
        BY <3>1, FirstIsThere DEF IInv, TypeOK, Pass
      <3>3. Undelivered(Updated(r)) = Undelivered(r)
        <4>1. AgreesSoFar(r, {})
          BY <3>1, <3>2 DEF IInv, PassInv
        <4> HIDE DEF n, r
        <4> QED
          BY <3>2, <4>1, Saving
      <3>4. CASE n = m
        <4>1. e = d
          BY <3>1, <3>4, OutboxAssumption
        <4>2. Undelivered(r) \subseteq Undelivered(row[m])
          BY <3>4, <4>1 DEF IInv, LockInv
        <4> HIDE DEF n, r
        <4> QED
          BY <3>1, <3>2, <3>3, <3>4, <4>2 DEF IInv, TypeOK
      <3>5. CASE n # m
        BY <3>1, <3>5 DEF IInv, TypeOK
      <3> QED
        BY <3>4, <3>5
    <2> QED
      BY <2>1, <2>2, <2>3 DEF Next, Due, Send, SendFails, Crash
  <1> QED
    BY <1>1, Invariance, PTL DEF Spec, DeliveryIsKept

-----------------------------------------------------------------------------
(* The bars of an evaluation. *)

\* Among some natural numbers there is a least one.
LEMMA LeastNatural ==
  ASSUME NEW S \in SUBSET Nat, S # {}
  PROVE  \E n \in S : \A m \in S : n <= m
<1> DEFINE T == {0..(n - 1) : n \in S}
<1>1. T \subseteq FiniteSubsetsOf(Nat) /\ T # {}
  <2>1. \A n \in S : 0..(n - 1) \subseteq Nat /\ IsFiniteSet(0..(n - 1))
    BY FS_Interval
  <2> QED BY <2>1 DEF FiniteSubsetsOf
<1>2. IsWellFoundedOn(StrictSubsetOrdering(Nat), FiniteSubsetsOf(Nat))
  BY FS_StrictSubsetOrderingWellFounded
<1>3. PICK x \in T : \A y \in T : ~ (<<y, x>> \in StrictSubsetOrdering(Nat))
  BY <1>1, <1>2, WFMin
<1>4. PICK n \in S : x = 0..(n - 1) BY <1>3
<1>5. ASSUME NEW m \in S, m < n PROVE FALSE
  <2>1. 0..(m - 1) \in T OBVIOUS
  <2>2. 0..(m - 1) \subseteq 0..(n - 1) /\ m \in 0..(n - 1) /\ m \notin 0..(m - 1)
    BY <1>5
  <2>3. 0..(m - 1) \in SUBSET Nat /\ x \in SUBSET Nat BY <1>4
  <2>4. <<0..(m - 1), x>> \in StrictSubsetOrdering(Nat)
    BY <1>4, <2>2, <2>3 DEF StrictSubsetOrdering
  <2> QED BY <1>3, <2>1, <2>4
<1> QED BY <1>5

\* Among finitely many natural numbers there is a greatest one.
LEMMA GreatestNatural ==
  ASSUME NEW S \in SUBSET Nat, IsFiniteSet(S), S # {}
  PROVE  \E n \in S : \A m \in S : m <= n
<1> DEFINE Above(n) == {m \in S : n < m}
           T == {Above(n) : n \in S}
<1>1. T \subseteq FiniteSubsetsOf(Nat) /\ T # {}
  <2>1. \A n \in S : Above(n) \in SUBSET S /\ Above(n) \in SUBSET Nat OBVIOUS
  <2>2. \A n \in S : IsFiniteSet(Above(n)) BY <2>1, FS_Subset
  <2> HIDE DEF Above
  <2>3. \A n \in S : Above(n) \in FiniteSubsetsOf(Nat) BY <2>1, <2>2 DEF FiniteSubsetsOf
  <2> QED BY <2>3
<1>2. IsWellFoundedOn(StrictSubsetOrdering(Nat), FiniteSubsetsOf(Nat))
  BY FS_StrictSubsetOrderingWellFounded
<1>3. PICK x \in T : \A y \in T : ~ (<<y, x>> \in StrictSubsetOrdering(Nat))
  BY <1>1, <1>2, WFMin
<1>4. PICK n \in S : x = Above(n) BY <1>3
<1>5. ASSUME NEW m \in S, n < m PROVE FALSE
  <2>1. Above(m) \in T OBVIOUS
  <2>2. Above(m) \subseteq Above(n) /\ m \in Above(n) /\ m \notin Above(m)
    <3>1. m \in Int /\ n \in Int /\ \A k \in S : k \in Int OBVIOUS
    <3>2. \A k \in S : m < k => n < k BY <1>5, <3>1
    <3>3. ~ (m < m) BY <3>1
    <3> QED BY <1>5, <3>2, <3>3
  <2>3. Above(m) \in SUBSET Nat /\ x \in SUBSET Nat BY <1>4
  <2>4. <<Above(m), x>> \in StrictSubsetOrdering(Nat)
    BY <1>4, <2>2, <2>3 DEF StrictSubsetOrdering
  <2> QED BY <1>3, <2>1, <2>4
<1> QED BY <1>5

\* Each place in the order of finitely many numbers is taken.
LEMMA Ranks ==
  ASSUME NEW S \in SUBSET Nat, IsFiniteSet(S), NEW n \in 1..Cardinality(S)
  PROVE  \E i \in S : Cardinality({j \in S : j < i}) = n - 1
<1> DEFINE Below(i) == {j \in S : j < i}
           T == {i \in S : n - 1 <= Cardinality(Below(i))}
<1>1. Cardinality(S) \in Nat BY FS_CardinalityType
<1>2. ASSUME NEW i \in S
      PROVE  /\ Below(i) \in SUBSET S /\ IsFiniteSet(Below(i)) /\ Cardinality(Below(i)) \in Nat
             /\ Below(i) \in SUBSET Nat
  <2>1. Below(i) \in SUBSET S /\ Below(i) \in SUBSET Nat OBVIOUS
  <2>2. IsFiniteSet(Below(i)) BY <2>1, FS_Subset
  <2> HIDE DEF Below
  <2> QED BY <2>1, <2>2, FS_CardinalityType
<1>3. T # {}
  <2>1. S # {} BY <1>1, FS_EmptySet
  <2>2. PICK m \in S : \A j \in S : j <= m BY <2>1, GreatestNatural
  <2>3. Below(m) = S \ {m}
    <3>1. \A j \in S : j \in Int OBVIOUS
    <3>2. \A j \in S : j < m <=> j # m BY <2>2, <3>1
    <3> QED BY <3>2
  <2>4. Cardinality(S \ {m}) = Cardinality(S) - 1 BY FS_RemoveElement
  <2>5. n - 1 <= Cardinality(Below(m)) BY <1>1, <2>3, <2>4
  <2> QED BY <2>5
<1>4. PICK i \in T : \A j \in T : i <= j
  <2>1. T \in SUBSET Nat OBVIOUS
  <2> HIDE DEF T
  <2> QED BY <1>3, <2>1, LeastNatural
<1>5. ASSUME Cardinality(Below(i)) > n - 1 PROVE FALSE
  <2>1. Below(i) # {}
    <3>1. Cardinality(Below(i)) # 0 BY <1>2, <1>5
    <3> QED BY <3>1, FS_EmptySet
  <2>2. PICK j \in Below(i) : \A k \in Below(i) : k <= j
    <3>1. Below(i) \in SUBSET Nat /\ IsFiniteSet(Below(i)) BY <1>2
    <3> HIDE DEF Below
    <3> QED BY <2>1, <3>1, GreatestNatural
  <2>3. Below(j) = Below(i) \ {j}
    <3>1. i \in S /\ j \in S /\ \A k \in S : k \in Int OBVIOUS
    <3>2. \A k \in S : k < i => k <= j BY <2>2
    <3>3. j < i OBVIOUS
    <3>4. \A k \in S : k < j <=> k < i /\ k # j BY <3>1, <3>2, <3>3
    <3> QED BY <3>4
  <2>4. Cardinality(Below(i) \ {j}) = Cardinality(Below(i)) - 1
    <3>1. IsFiniteSet(Below(i)) BY <1>2
    <3> HIDE DEF Below
    <3> QED BY <2>2, <3>1, FS_RemoveElement
  <2>5. n - 1 <= Cardinality(Below(j))
    <3>1. Cardinality(Below(i)) \in Nat BY <1>2
    <3> QED BY <1>5, <2>3, <2>4, <3>1
  <2>6. j \in T BY <2>5
  <2> QED BY <1>4, <2>2, <2>6
<1>6. Cardinality(Below(i)) \in Nat /\ n - 1 <= Cardinality(Below(i)) BY <1>2
<1>7. Cardinality(Below(i)) = n - 1 BY <1>5, <1>6
<1> QED BY <1>7

\* Finitely many numbers in order are a sequence of them.
LEMMA InOrderType ==
  ASSUME NEW S \in SUBSET Nat, IsFiniteSet(S)
  PROVE  /\ InOrder(S) \in Seq(S)
         /\ Cardinality(S) \in Nat
         /\ Len(InOrder(S)) = Cardinality(S) /\ DOMAIN InOrder(S) = 1..Cardinality(S)
         /\ \A i \in S : i <= InOrder(S)[Cardinality(S)]
<1>1. Cardinality(S) \in Nat BY FS_CardinalityType
<1>2. \A n \in 1..Cardinality(S) : InOrder(S)[n] \in S
  <2> SUFFICES ASSUME NEW n \in 1..Cardinality(S) PROVE InOrder(S)[n] \in S OBVIOUS
  <2>1. InOrder(S)[n] = CHOOSE i \in S : Cardinality({j \in S : j < i}) = n - 1 BY DEF InOrder
  <2>2. \E i \in S : Cardinality({j \in S : j < i}) = n - 1 BY Ranks
  <2> QED BY <2>1, <2>2
<1>3. DOMAIN InOrder(S) = 1..Cardinality(S) BY DEF InOrder
<1>4. PICK s : s = InOrder(S) OBVIOUS
<1>5. s = [n \in 1..Cardinality(S) |-> s[n]]
  <2> DEFINE P(n) == CHOOSE i \in S : Cardinality({j \in S : j < i}) = n - 1
  <2>1. s = [n \in 1..Cardinality(S) |-> P(n)] BY <1>4 DEF InOrder
  <2> HIDE DEF P
  <2> QED BY <2>1
<1>6. InOrder(S) \in [1..Cardinality(S) -> S] BY <1>2, <1>4, <1>5
<1>7. ASSUME NEW i \in S PROVE i <= InOrder(S)[Cardinality(S)]
  <2>1. Cardinality(S) # 0 BY FS_EmptySet
  <2>2. PICK n \in 1..Cardinality(S) : n = Cardinality(S) BY <1>1, <2>1
  <2>3. PICK m \in S : m = InOrder(S)[n] BY <1>2
  <2>4. Cardinality({j \in S : j < m}) = n - 1
    <3>1. InOrder(S)[n] = CHOOSE k \in S : Cardinality({j \in S : j < k}) = n - 1 BY DEF InOrder
    <3>2. \E k \in S : Cardinality({j \in S : j < k}) = n - 1 BY Ranks
    <3> QED BY <2>3, <3>1, <3>2
  <2>5. Cardinality(S \ {m}) = n - 1 /\ IsFiniteSet(S \ {m}) BY <2>2, FS_RemoveElement
  <2>6. {j \in S : j < m} \in SUBSET (S \ {m}) OBVIOUS
  <2>7. {j \in S : j < m} = S \ {m} BY <2>4, <2>5, <2>6, FS_Subset
  <2>8. i # m => i < m BY <2>7
  <2>9. i \in Int /\ m \in Int OBVIOUS
  <2> QED BY <2>2, <2>3, <2>8, <2>9
<1> QED BY <1>1, <1>3, <1>6, <1>7

\* The first messages that are new are the next ones.
LEMMA FirstOfNew ==
  ASSUME NEW a \in Nat, NEW b \in Nat, a < b
  PROVE  \E d \in a..b : FirstOf((a + 1)..b) = (a + 1)..d /\ Cardinality((a + 1)..d) = d - a
<1>1. Count \in Nat \ {0} BY PipelineAssumption
<1>2. PICK d \in a..b : d = IF b - a <= Count THEN b ELSE a + Count BY <1>1
<1>3. \A i \in (a + 1)..b : Cardinality({j \in (a + 1)..b : j < i}) = i - 1 - a
  <2> SUFFICES ASSUME NEW i \in (a + 1)..b
               PROVE  Cardinality({j \in (a + 1)..b : j < i}) = i - 1 - a
    OBVIOUS
  <2>1. {j \in (a + 1)..b : j < i} = (a + 1)..(i - 1) OBVIOUS
  <2>2. PICK k \in Int : k = i - 1 OBVIOUS
  <2>3. PICK l \in Int : l = a + 1 OBVIOUS
  <2>4. Cardinality(l..k) = IF l > k THEN 0 ELSE k - l + 1 BY FS_Interval
  <2>5. (IF l > k THEN 0 ELSE k - l + 1) = i - 1 - a BY <2>2, <2>3
  <2> QED BY <2>1, <2>2, <2>3, <2>4, <2>5
<1>4. FirstOf((a + 1)..b) = {i \in (a + 1)..b : i - 1 - a < Count} BY <1>3 DEF FirstOf
<1>5. {i \in (a + 1)..b : i - 1 - a < Count} = (a + 1)..d BY <1>1, <1>2
<1>6. PICK l \in Int : l = a + 1 OBVIOUS
<1>7. Cardinality(l..d) = IF l > d THEN 0 ELSE d - l + 1 BY FS_Interval
<1>8. (IF l > d THEN 0 ELSE d - l + 1) = d - a BY <1>6
<1> QED BY <1>4, <1>5, <1>6, <1>7, <1>8

\* A minute is taken from some bars, of finitely many.
LEMMA MinutesOf ==
  ASSUME NEW bars \in SUBSET Contents, IsFiniteSet(bars)
  PROVE  LatestMinutes(bars) \in SUBSET Nat /\ IsFiniteSet(LatestMinutes(bars))
         /\ \A m \in LatestMinutes(bars) : \E b \in bars : b.minute = m
<1> DEFINE minutes == {b.minute : b \in bars}
           f == [b \in bars |-> b.minute]
<1>1. minutes \in SUBSET Nat BY DEF Contents
<1>2. f \in Surjection(bars, minutes) BY DEF Surjection
<1>3. IsFiniteSet(minutes)
  <2> HIDE DEF minutes, f
  <2> QED BY <1>2, FS_Surjection
<1>4. LatestMinutes(bars) \in SUBSET minutes BY DEF LatestMinutes
<1>5. IsFiniteSet(LatestMinutes(bars))
  <2> HIDE DEF minutes
  <2> QED BY <1>3, <1>4, FS_Subset
<1> QED BY <1>1, <1>4, <1>5

\* The window of an evaluation is a sequence of visible bars.
LEMMA RecentType ==
  ASSUME NEW table, NEW minute, NEW at, DOMAIN table \subseteq Contents, IsFiniteSet(DOMAIN table)
  PROVE  /\ Recent(table, minute, at) \in Seq(Canonical(table, Visible(table, minute, at)))
         /\ Canonical(table, Visible(table, minute, at)) \subseteq Visible(table, minute, at)
         /\ \A n \in DOMAIN Recent(table, minute, at) :
              Recent(table, minute, at)[n].minute <= Last(Recent(table, minute, at)).minute
<1>1. PICK bars : bars = Canonical(table, Visible(table, minute, at)) OBVIOUS
<1>2. bars \subseteq Visible(table, minute, at) /\ bars \in SUBSET DOMAIN table
  BY <1>1 DEF Canonical, Visible
<1>3. IsFiniteSet(bars) /\ bars \in SUBSET Contents BY <1>2, FS_Subset
<1>4. PICK minutes : minutes = InOrder(LatestMinutes(bars)) OBVIOUS
<1>5. /\ LatestMinutes(bars) \in SUBSET Nat /\ IsFiniteSet(LatestMinutes(bars))
      /\ \A m \in LatestMinutes(bars) : \E b \in bars : b.minute = m
  BY <1>3, MinutesOf
<1>6. minutes \in Seq(LatestMinutes(bars)) BY <1>4, <1>5, InOrderType
<1>7. \A n \in DOMAIN minutes : /\ (CHOOSE b \in bars : b.minute = minutes[n]) \in bars
                              /\ (CHOOSE b \in bars : b.minute = minutes[n]).minute = minutes[n]
  <2> SUFFICES ASSUME NEW n \in DOMAIN minutes
               PROVE  /\ (CHOOSE b \in bars : b.minute = minutes[n]) \in bars
                      /\ (CHOOSE b \in bars : b.minute = minutes[n]).minute = minutes[n]
    OBVIOUS
  <2>1. minutes[n] \in LatestMinutes(bars) BY <1>6
  <2>2. \E b \in bars : b.minute = minutes[n] BY <1>5, <2>1
  <2> QED BY <2>2
<1>8. PICK window : window = Recent(table, minute, at) OBVIOUS
<1>9. window = [n \in DOMAIN minutes |-> CHOOSE b \in bars : b.minute = minutes[n]]
  BY <1>1, <1>4, <1>8 DEF Recent
<1>10. DOMAIN minutes = 1..Len(minutes) /\ Len(minutes) \in Nat BY <1>6
<1>11. /\ window \in [1..Len(minutes) -> bars]
       /\ \A n \in DOMAIN minutes : window[n].minute = minutes[n]
  BY <1>7, <1>9, <1>10
<1>12. window \in Seq(bars) /\ Len(window) = Len(minutes) /\ DOMAIN window = DOMAIN minutes
  BY <1>10, <1>11
<1>13. \A n \in DOMAIN window : window[n].minute <= Last(window).minute
  <2> SUFFICES ASSUME NEW n \in DOMAIN window PROVE window[n].minute <= Last(window).minute
    OBVIOUS
  <2>1. Len(minutes) \in DOMAIN minutes BY <1>10, <1>12
  <2>2. Last(window).minute = minutes[Len(minutes)] BY <1>11, <1>12, <2>1 DEF Last
  <2>3. minutes[n] \in LatestMinutes(bars) BY <1>6, <1>12
  <2>4. minutes[n] <= minutes[Len(minutes)] BY <1>4, <1>5, <2>3, InOrderType
  <2> QED BY <1>11, <1>12, <2>2, <2>4
<1> QED BY <1>1, <1>2, <1>8, <1>12, <1>13

\* An evaluation finds one alert at most, which follows from what is visible.
LEMMA EvaluationFinds ==
  ASSUME NEW table, NEW minute, NEW at, DOMAIN table \subseteq Contents, IsFiniteSet(DOMAIN table),
         NEW alert \in Evaluation(table, minute, at)
  PROVE  /\ Evaluation(table, minute, at) = {alert}
         /\ alert = [minute |-> Last(alert.window).minute, at |-> at, window |-> alert.window,
                     gap |-> alert.gap, severity |-> alert.severity]
         /\ alert.window \in Seq(Visible(table, minute, at))
         /\ Last(alert.window) \in Visible(table, minute, at)
         /\ \A n \in DOMAIN alert.window : alert.window[n].minute <= alert.minute
         /\ Triggered(alert.window, alert.gap)
         /\ alert.gap \in Seq(Int)
         /\ alert.severity \in {"LOW", "MEDIUM", "HIGH", "CRITICAL"}
<1>1. PICK window : window = Recent(table, minute, at) OBVIOUS
<1>2. PICK gap : gap = Gap(table, minute, at) OBVIOUS
<1>3. alert = [minute |-> Last(window).minute, at |-> at, window |-> window, gap |-> gap,
               severity |-> Severity(window, gap)]
      /\ Len(window) = Lookback + 1 /\ Triggered(window, gap)
      /\ Evaluation(table, minute, at) = {alert}
  BY <1>1, <1>2 DEF Evaluation
<1>4. PICK V : V = Visible(table, minute, at) OBVIOUS
<1>5. window \in Seq(V)
  <2>1. window \in Seq(Canonical(table, V)) /\ Canonical(table, V) \subseteq V
    BY <1>1, <1>4, RecentType
  <2> QED BY <2>1
<1>6. Lookback \in Nat BY RuleAssumption
<1>7. Last(window) \in V BY <1>3, <1>5, <1>6 DEF Last
<1>8. gap \in Seq(Int)
  <2>1. PICK bars : bars = Canonical(table, V) OBVIOUS
  <2>2. bars \subseteq Contents BY <1>4, <2>1 DEF Canonical, Visible
  <2> DEFINE gaps == {<<open.open, close.close>> :
                 open \in {b \in bars : b.minute = SessionOpen /\ minute >= SessionOpen},
                 close \in {b \in bars : /\ b.minute \in PriorCloses
                                         /\ \A o \in bars : o.minute \in PriorCloses => o.minute <= b.minute}}
  <2>3. gap = IF gaps = {} THEN <<>> ELSE CHOOSE g \in gaps : TRUE
    BY <1>2, <1>4, <2>1 DEF Gap
  <2>4. \A b \in bars : b.open \in Int /\ b.close \in Int BY <2>2 DEF Contents
  <2>5. ASSUME NEW g \in gaps PROVE g \in Seq(Int)
    <3>1. PICK a \in bars, b \in bars : g = <<a.open, b.close>> OBVIOUS
    <3>2. PICK x \in Int : x = a.open BY <2>4
    <3>3. PICK y \in Int : y = b.close BY <2>4
    <3> QED BY <3>1, <3>2, <3>3
  <2> HIDE DEF gaps
  <2>6. CASE gaps = {} BY <2>3, <2>6
  <2>7. CASE gaps # {}
    <3>1. (CHOOSE g \in gaps : TRUE) \in gaps BY <2>7
    <3> QED BY <2>3, <2>5, <2>7, <3>1
  <2> QED BY <2>6, <2>7
<1>9. Severity(window, gap) \in {"LOW", "MEDIUM", "HIGH", "CRITICAL"} BY DEF Severity
<1>10. \A n \in DOMAIN window : window[n].minute <= Last(window).minute BY <1>1, RecentType
<1>11. /\ alert.window = window /\ alert.gap = gap /\ alert.minute = Last(window).minute
       /\ alert.severity = Severity(window, gap) /\ alert.at = at
  BY <1>3
<1> QED BY <1>3, <1>4, <1>5, <1>7, <1>8, <1>9, <1>10, <1>11

\* An evaluation depends on what is visible only.
LEMMA EvaluationSame ==
  ASSUME NEW t, NEW u, NEW minute, NEW at,
         Visible(t, minute, at) = Visible(u, minute, at),
         \A b \in Visible(t, minute, at) : t[b] = u[b]
  PROVE  Evaluation(t, minute, at) = Evaluation(u, minute, at)
<1>1. PICK V : V = Visible(t, minute, at) /\ V = Visible(u, minute, at) OBVIOUS
<1>2. Canonical(t, V) = Canonical(u, V) BY <1>1 DEF Canonical
<1>3. Recent(t, minute, at) = Recent(u, minute, at) BY <1>1, <1>2 DEF Recent
<1>4. Gap(t, minute, at) = Gap(u, minute, at) BY <1>1, <1>2 DEF Gap
<1> QED BY <1>3, <1>4 DEF Evaluation

-----------------------------------------------------------------------------
(* From bars to alerts. *)

\* An alert follows from a table: its bars were there, in time, and a thesis too.
Follows(alert, table) ==
  /\ \A b \in Range(alert.window) :
       b \in DOMAIN table /\ table[b] <= alert.at /\ b.minute <= alert.minute
  /\ Triggered(alert.window, alert.gap)
  /\ HasThesis(alert.at)

TxRow == [step : {"idle", "looked", "persisted", "decided", "alerted", "committed"},
          outcome : {"NEW", "DUPLICATE", "OUT_OF_ORDER"},
          alert : SUBSET Alert,
          status : {"DISABLED", "SUCCEEDED", "FAILED"},
          inTurn : BOOLEAN]

\* What a transaction has decided follows from the table as it sees it.
DecidedInv(p) ==
  /\ \A a, b \in tx[p].alert : a = b
  /\ tx[p].step \in {"decided", "alerted"} => \A alert \in tx[p].alert : Follows(alert, Seen(p))

\* A worker that looked knows whether its bar is stored; one that decided in its
\* turn sees what a replay would see.
ConsumerInv(c) ==
  /\ tx[c].step # "idle" => hand[c] # <<>>
  /\ tx[c].step = "looked" => tx[c].outcome # "DUPLICATE"
  /\ tx[c].step \in {"persisted", "decided", "alerted"} =>
       (tx[c].outcome = "DUPLICATE" <=> Bar(Current(c)) \in DOMAIN stored)
  /\ tx[c].step = "committed" => Bar(Current(c)) \in DOMAIN stored
  /\ tx[c].inTurn => /\ tx[c].step \in {"decided", "alerted"}
                     /\ 1..(Current(c) - 1) \subseteq acked
                     /\ tx[c].alert = Evaluation(Seen(c), Bar(Current(c)).minute, Current(c))

MonitorInv == tx[Monitor].step \in {"idle", "decided", "alerted"} /\ ~ tx[Monitor].inTurn

\* No two transactions insert the same bar.
InsertedOnce == \A c, d \in Consumers : c # d => Inserted(c) \cap Inserted(d) = {}

MetricsInv ==
  /\ \A k, m : <<k, m>> \in DOMAIN metrics => k \in DOMAIN alerts
  /\ \A k \in DOMAIN alerts : <<k, alerts[k].minute>> \in DOMAIN metrics

\* A message that was decided on in its turn has its alert, now and for good.
TurnInv(i) ==
  /\ i \in 1..Len(log) /\ 1..(i - 1) \subseteq acked /\ Bar(i) \in DOMAIN stored
  /\ \A alert \in Evaluation(stored, Bar(i).minute, i) : Bucket(alert.minute) \in DOMAIN alerts

RowsTyped ==
  /\ log \in Feeds /\ delivered \in 0..Len(log) /\ acked \subseteq 1..delivered
  /\ hand \in [Consumers -> Seq(1..delivered)]
  /\ tx \in [Processes -> TxRow]
  /\ \A b \in DOMAIN stored : b \in AllBars /\ stored[b] \in 0..Len(log)
  /\ IsFiniteSet(DOMAIN stored)
  /\ thesis \in Theses /\ crashes \in 0..MaxCrashes

PipelineInv ==
  /\ RowsTyped /\ AcknowledgedIsStored
  /\ \A p \in Processes : DecidedInv(p)
  /\ \A c \in Consumers : ConsumerInv(c)
  /\ MonitorInv /\ InsertedOnce
  /\ AlertsFollow /\ MetricsInv
  /\ \A i \in orderly : TurnInv(i)

\* The log is a sequence of bars.
LEMMA LogTyped ==
  ASSUME RowsTyped
  PROVE  /\ Len(log) \in Nat /\ DOMAIN log = 1..Len(log)
         /\ \A i \in 1..Len(log) : Bar(i) \in AllBars
         /\ AllBars \subseteq Contents /\ DOMAIN stored \subseteq Contents
         /\ delivered \in Nat /\ delivered <= Len(log)
<1>1. log \in Feeds /\ log \in Seq(Contents) BY PipelineAssumption DEF RowsTyped
<1>2. Len(log) \in Nat /\ DOMAIN log = 1..Len(log) BY <1>1
<1>3. \A i \in 1..Len(log) : Bar(i) \in Range(log) BY <1>2 DEF Bar, Range
<1>4. \A feed \in Feeds : Range(feed) \subseteq Contents
  <2> SUFFICES ASSUME NEW feed \in Feeds, NEW i \in DOMAIN feed PROVE feed[i] \in Contents
    BY DEF Range
  <2>1. feed \in Seq(Contents) BY PipelineAssumption
  <2> QED BY <2>1
<1>5. AllBars \subseteq Contents BY <1>4, PipelineAssumption DEF AllBars
<1>6. Range(log) \subseteq AllBars BY <1>1 DEF AllBars
<1> QED BY <1>2, <1>3, <1>5, <1>6 DEF RowsTyped

\* A message in hand is one of the delivered ones.
LEMMA CurrentTyped ==
  ASSUME RowsTyped, NEW c \in Consumers, hand[c] # <<>>
  PROVE  /\ Current(c) \in 1..delivered /\ Current(c) \in 1..Len(log) /\ Current(c) \in Nat
         /\ Bar(Current(c)) \in AllBars
<1>1. hand[c] \in Seq(1..delivered) BY DEF RowsTyped
<1>2. PICK S : S = 1..delivered OBVIOUS
<1>3. PICK s \in Seq(S) : s = hand[c] BY <1>1, <1>2
<1>4. Head(s) \in S BY <1>3
<1>5. Current(c) \in 1..delivered BY <1>2, <1>3, <1>4 DEF Current
<1> QED BY <1>5, LogTyped

\* The table as a process sees it.
LEMMA SeenTyped ==
  ASSUME RowsTyped, NEW p \in Processes,
         p \in Consumers /\ tx[p].step # "idle" => hand[p] # <<>>
  PROVE  /\ p \notin Consumers => Seen(p) = stored
         /\ p \in Consumers => /\ DOMAIN Seen(p) = DOMAIN stored \cup Inserted(p)
                               /\ Inserted(p) \subseteq {Bar(Current(p))}
                               /\ Inserted(p) # {} => hand[p] # <<>>
                               /\ \A b \in Inserted(p) \ DOMAIN stored : Seen(p)[b] = Current(p)
         /\ DOMAIN stored \subseteq DOMAIN Seen(p)
         /\ \A b \in DOMAIN stored : Seen(p)[b] = stored[b]
         /\ DOMAIN Seen(p) \subseteq AllBars /\ DOMAIN Seen(p) \subseteq Contents
         /\ IsFiniteSet(DOMAIN Seen(p))
         /\ \A b \in DOMAIN Seen(p) : Seen(p)[b] \in 0..Len(log)
<1>1. /\ DOMAIN stored \subseteq AllBars /\ IsFiniteSet(DOMAIN stored) /\ AllBars \subseteq Contents
      /\ \A b \in DOMAIN stored : stored[b] \in 0..Len(log)
  BY LogTyped DEF RowsTyped
<1>2. CASE p \notin Consumers BY <1>1, <1>2 DEF Seen
<1>3. CASE p \in Consumers
  <2>1. /\ Inserted(p) \subseteq {Bar(Current(p))}
        /\ Inserted(p) # {} => hand[p] # <<>>
    BY <1>3 DEF Inserted
  <2>2. Inserted(p) # {} => Current(p) \in 0..Len(log) /\ Bar(Current(p)) \in AllBars
    BY <1>3, <2>1, CurrentTyped, LogTyped
  <2>3. Seen(p) = [b \in DOMAIN stored \cup Inserted(p) |-> IF b \in DOMAIN stored THEN stored[b] ELSE Current(p)]
    BY <1>3 DEF Seen
  <2>4. IsFiniteSet(DOMAIN stored \cup Inserted(p))
    <3>1. IsFiniteSet(DOMAIN stored \cup {Bar(Current(p))}) BY <1>1, FS_AddElement
    <3>2. DOMAIN stored \cup Inserted(p) \subseteq DOMAIN stored \cup {Bar(Current(p))} BY <2>1
    <3> QED BY <3>1, <3>2, FS_Subset
  <2>5. DOMAIN Seen(p) = DOMAIN stored \cup Inserted(p) BY <2>3
  <2>6. \A b \in DOMAIN stored : Seen(p)[b] = stored[b] BY <2>3
  <2>7. \A b \in Inserted(p) \ DOMAIN stored : Seen(p)[b] = Current(p) BY <2>3
  <2>8. DOMAIN Seen(p) \subseteq AllBars BY <1>1, <2>1, <2>2, <2>5
  <2>9. \A b \in DOMAIN Seen(p) : Seen(p)[b] \in 0..Len(log) BY <1>1, <2>2, <2>5, <2>6, <2>7
  <2> QED BY <1>1, <1>3, <2>1, <2>4, <2>5, <2>6, <2>7, <2>8, <2>9
<1> QED BY <1>2, <1>3

\* An alert an evaluation finds follows from the table it was evaluated on.
LEMMA FoundFollows ==
  ASSUME NEW table, NEW minute, NEW at \in Nat,
         DOMAIN table \subseteq AllBars, AllBars \subseteq Contents, IsFiniteSet(DOMAIN table),
         HasThesis(at), NEW alert \in Evaluation(table, minute, at)
  PROVE  Follows(alert, table) /\ alert \in Alert /\ alert.at = at
         /\ Evaluation(table, minute, at) = {alert}
<1>1. DOMAIN table \subseteq Contents OBVIOUS
<1>2. PICK V : V = Visible(table, minute, at) OBVIOUS
<1>3. V \subseteq AllBars /\ \A b \in V : b \in DOMAIN table /\ table[b] <= at BY <1>2 DEF Visible
<1>4. /\ Evaluation(table, minute, at) = {alert}
      /\ alert = [minute |-> Last(alert.window).minute, at |-> at, window |-> alert.window,
                  gap |-> alert.gap, severity |-> alert.severity]
      /\ alert.window \in Seq(V) /\ Last(alert.window) \in V
      /\ \A n \in DOMAIN alert.window : alert.window[n].minute <= alert.minute
      /\ Triggered(alert.window, alert.gap) /\ alert.gap \in Seq(Int)
      /\ alert.severity \in {"LOW", "MEDIUM", "HIGH", "CRITICAL"}
  BY <1>1, <1>2, EvaluationFinds
<1>5. alert.at = at BY <1>4
<1>6. \A b \in Range(alert.window) : b \in V /\ b.minute <= alert.minute BY <1>4 DEF Range
<1>7. Follows(alert, table) BY <1>3, <1>4, <1>5, <1>6 DEF Follows
<1>8. alert.window \in Seq(AllBars) BY <1>3, <1>4
<1>9. alert \in Alert BY <1>3, <1>4, <1>8 DEF Alert
<1> QED BY <1>4, <1>5, <1>7, <1>9

\* What follows from a table follows from a larger one.
LEMMA FollowsLarger ==
  ASSUME NEW table, NEW larger, DOMAIN table \subseteq DOMAIN larger,
         \A b \in DOMAIN table : larger[b] = table[b],
         NEW alert, Follows(alert, table)
  PROVE  Follows(alert, larger)
BY DEF Follows

\* What a process that does not move has decided stays.
LEMMA OthersStay ==
  ASSUME PipelineInv, UNCHANGED <<log, stored, thesis>>, acked \subseteq acked',
         NEW p \in Processes, tx'[p] = tx[p], p \in Consumers => hand'[p] = hand[p]
  PROVE  /\ DecidedInv(p)'
         /\ p \in Consumers => ConsumerInv(p)' /\ Inserted(p)' = Inserted(p)
<1>1. p \in Consumers => Current(p)' = Current(p) BY DEF Current
<1>2. \A i : Bar(i)' = Bar(i) BY DEF Bar
<1>3. p \in Consumers => Inserted(p)' = Inserted(p) BY <1>1, <1>2 DEF Inserted
<1>4. Seen(p)' = Seen(p) BY <1>1, <1>3 DEF Seen
<1>5. \A alert : Follows(alert, Seen(p)) => Follows(alert, Seen(p))' BY <1>4 DEF Follows, HasThesis
<1>6. DecidedInv(p)' BY <1>5 DEF PipelineInv, DecidedInv
<1>7. ASSUME p \in Consumers PROVE ConsumerInv(p)'
  <2>1. ConsumerInv(p) BY <1>7 DEF PipelineInv
  <2>2. PICK i : i = Current(p) /\ i = Current(p)' BY <1>1, <1>7
  <2>3. PICK table : table = Seen(p) /\ table = Seen(p)' BY <1>4
  <2>4. PICK b : b = Bar(Current(p)) /\ b = Bar(Current(p))' BY <1>2, <2>2 DEF Bar
  <2>5. Evaluation(Seen(p), Bar(Current(p)).minute, Current(p))'
          = Evaluation(Seen(p), Bar(Current(p)).minute, Current(p))
    BY <2>2, <2>3, <2>4
  <2>6. tx'[p] = tx[p] /\ hand'[p] = hand[p] /\ stored' = stored BY <1>7
  <2>7. tx[p].inTurn => 1..(i - 1) \subseteq acked' BY <2>1, <2>2 DEF ConsumerInv
  <2> QED BY <2>1, <2>2, <2>4, <2>5, <2>6, <2>7 DEF ConsumerInv
<1> QED BY <1>3, <1>6, <1>7

\* A sequence over a set is one over a larger set.
LEMMA SeqLarger ==
  ASSUME NEW S, NEW T, S \subseteq T, NEW s \in Seq(S)
  PROVE  s \in Seq(T)
OBVIOUS

\* A step that stores nothing changes what one process is at.
LEMMA QuietStep ==
  ASSUME PipelineInv, NEW q \in Processes,
         UNCHANGED <<log, stored, alerts, metrics, outbox, explained, thesis, orderly>>,
         delivered' \in delivered..Len(log), acked \subseteq acked', acked' \subseteq 1..delivered',
         \A i \in acked' : Bar(i) \in DOMAIN stored,
         crashes' \in 0..MaxCrashes,
         tx' \in [Processes -> TxRow], hand' \in [Consumers -> Seq(1..delivered')],
         \A p \in Processes \ {q} : tx'[p] = tx[p],
         \A c \in Consumers \ {q} : hand'[c] = hand[c],
         DecidedInv(q)',
         q \in Consumers => /\ ConsumerInv(q)'
                            /\ \A d \in Consumers \ {q} : Inserted(q)' \cap Inserted(d) = {},
         q = Monitor => MonitorInv'
  PROVE  PipelineInv'
<1>1. RowsTyped'
  <2>1. delivered' \in 0..Len(log) BY LogTyped DEF PipelineInv
  <2> QED BY <2>1 DEF PipelineInv, RowsTyped
<1>2. \A i : Bar(i)' = Bar(i) BY DEF Bar
<1>3. AcknowledgedIsStored' BY <1>2 DEF AcknowledgedIsStored
<1>4. ASSUME NEW p \in Processes, p # q
      PROVE  /\ DecidedInv(p)'
             /\ p \in Consumers => ConsumerInv(p)' /\ Inserted(p)' = Inserted(p)
  <2>1. p \in Consumers => hand'[p] = hand[p] BY <1>4
  <2>2. tx'[p] = tx[p] BY <1>4
  <2> QED BY <2>1, <2>2, OthersStay
<1>5. \A p \in Processes : DecidedInv(p)' BY <1>4
<1>6. \A c \in Consumers : ConsumerInv(c)' BY <1>4 DEF Processes
<1>7. MonitorInv'
  <2>1. CASE q # Monitor BY <2>1 DEF Processes, PipelineInv, MonitorInv
  <2> QED BY <2>1
<1>8. InsertedOnce'
  <2> SUFFICES ASSUME NEW c \in Consumers, NEW d \in Consumers, c # d
               PROVE  Inserted(c)' \cap Inserted(d)' = {}
    BY DEF InsertedOnce
  <2>1. \A e \in Consumers \ {q} : Inserted(e)' = Inserted(e) BY <1>4 DEF Processes
  <2>2. CASE c = q BY <2>1, <2>2
  <2>3. CASE d = q BY <2>1, <2>3
  <2>4. CASE c # q /\ d # q BY <2>1, <2>4 DEF PipelineInv, InsertedOnce
  <2> QED BY <2>2, <2>3, <2>4
<1>9. AlertsFollow' BY DEF PipelineInv, AlertsFollow, HasThesis
<1>10. MetricsInv' BY DEF PipelineInv, MetricsInv
<1>11. \A i \in orderly' : TurnInv(i)'
  <2> SUFFICES ASSUME NEW i \in orderly PROVE TurnInv(i)' OBVIOUS
  <2>1. TurnInv(i) BY DEF PipelineInv
  <2>2. PICK m : m = Bar(i).minute /\ m = Bar(i)'.minute BY <1>2
  <2>3. stored' = stored /\ alerts' = alerts /\ log' = log OBVIOUS
  <2> QED BY <1>2, <2>1, <2>2, <2>3 DEF TurnInv
<1> QED BY <1>1, <1>3, <1>5, <1>6, <1>7, <1>8, <1>9, <1>10, <1>11 DEF PipelineInv

\* A worker that is idle has inserted nothing and decided nothing.
LEMMA WorkerIs ==
  ASSUME PipelineInv, NEW c \in Consumers
  PROVE  /\ c \in Processes /\ c # Monitor /\ tx[c] \in TxRow /\ hand[c] \in Seq(1..delivered)
         /\ ConsumerInv(c) /\ DecidedInv(c)
         /\ tx[c].step \notin {"persisted", "decided", "alerted"} => Inserted(c) = {}
         /\ tx[c].step \notin {"decided", "alerted"} => ~ tx[c].inTurn
         /\ RowsTyped /\ delivered \in delivered..Len(log)
         /\ acked \subseteq 1..delivered /\ \A i \in acked : Bar(i) \in DOMAIN stored
<1>1. c \in Processes /\ c # Monitor BY PipelineAssumption DEF Processes
<1>2. RowsTyped /\ ConsumerInv(c) /\ DecidedInv(c) BY <1>1 DEF PipelineInv
<1>3. tx[c] \in TxRow /\ hand[c] \in Seq(1..delivered) BY <1>1, <1>2 DEF RowsTyped
<1>4. tx[c].step \notin {"persisted", "decided", "alerted"} => Inserted(c) = {} BY DEF Inserted
<1>5. tx[c].step \notin {"decided", "alerted"} => ~ tx[c].inTurn BY <1>2, <1>3 DEF ConsumerInv, TxRow
<1>6. delivered \in delivered..Len(log) BY <1>2, LogTyped
<1>7. acked \subseteq 1..delivered /\ \A i \in acked : Bar(i) \in DOMAIN stored
  BY DEF PipelineInv, RowsTyped, AcknowledgedIsStored
<1> QED BY <1>1, <1>2, <1>3, <1>4, <1>5, <1>6, <1>7

\* Nothing is left of a handler that raised.
LEMMA RaiseKeeps ==
  ASSUME PipelineInv, NEW c \in Consumers, Raise(c), crashes' \in 0..MaxCrashes,
         UNCHANGED <<stream, tables, thesis, orderly>>
  PROVE  PipelineInv'
<1>1. UNCHANGED <<log, delivered, acked, stored, alerts, metrics, outbox, explained, thesis, orderly>>
  BY DEF stream, tables
<1>2. /\ c \in Processes /\ c # Monitor /\ RowsTyped /\ delivered \in delivered..Len(log)
      /\ acked \subseteq 1..delivered /\ \A i \in acked : Bar(i) \in DOMAIN stored
  BY WorkerIs
<1>3. Idle \in TxRow /\ Idle.step = "idle" /\ Idle.alert = {} /\ ~ Idle.inTurn BY DEF Idle, TxRow
<1>4. tx' \in [Processes -> TxRow] /\ tx'[c] = Idle /\ \A p \in Processes \ {c} : tx'[p] = tx[p]
  BY <1>2, <1>3 DEF Raise, RowsTyped
<1>5. /\ hand' \in [Consumers -> Seq(1..delivered)]
      /\ \A d \in Consumers \ {c} : hand'[d] = hand[d]
  BY <1>2 DEF Raise, RowsTyped
<1>6. DecidedInv(c)' BY <1>3, <1>4 DEF DecidedInv
<1>7. ConsumerInv(c)' BY <1>3, <1>4 DEF ConsumerInv
<1>8. Inserted(c)' = {} BY <1>3, <1>4 DEF Inserted
<1> QED BY <1>1, <1>2, <1>4, <1>5, <1>6, <1>7, <1>8, QuietStep

\* Messages in hand do not matter before they are handled.
LEMMA HandKeeps ==
  ASSUME PipelineInv, NEW c \in Consumers, Free(c),
         NEW s \in Seq(1..delivered'), hand' = [hand EXCEPT ![c] = s],
         delivered' \in delivered..Len(log),
         UNCHANGED <<log, acked, tx, tables, thesis, orderly, crashes>>
  PROVE  PipelineInv'
<1>1. UNCHANGED <<stored, alerts, metrics, outbox, explained>> BY DEF tables
<1>2. /\ c \in Processes /\ c # Monitor /\ RowsTyped /\ ConsumerInv(c) /\ DecidedInv(c)
      /\ tx[c].step \notin {"persisted", "decided", "alerted"} => Inserted(c) = {}
      /\ tx[c].step \notin {"decided", "alerted"} => ~ tx[c].inTurn
      /\ acked \subseteq 1..delivered /\ \A i \in acked : Bar(i) \in DOMAIN stored
  BY WorkerIs
<1>3. tx[c].step = "idle" BY <1>2 DEF Free, ConsumerInv
<1>4. delivered \in Nat /\ delivered' \in Int /\ delivered <= delivered' BY <1>2, LogTyped
<1>5. \A d \in Consumers : hand[d] \in Seq(1..delivered')
  <2> SUFFICES ASSUME NEW d \in Consumers PROVE hand[d] \in Seq(1..delivered') OBVIOUS
  <2>1. hand[d] \in Seq(1..delivered) BY <1>2 DEF RowsTyped
  <2>2. 1..delivered \subseteq 1..delivered' BY <1>4
  <2> QED BY <2>1, <2>2, SeqLarger
<1>6. hand' \in [Consumers -> Seq(1..delivered')] BY <1>2, <1>5 DEF RowsTyped
<1>7. \A d \in Consumers \ {c} : hand'[d] = hand[d] BY <1>2 DEF RowsTyped
<1>8. acked' \subseteq 1..delivered' BY <1>2, <1>4
<1>9. DecidedInv(c)' BY <1>2, <1>3 DEF DecidedInv
<1>10. ConsumerInv(c)' BY <1>2, <1>3 DEF ConsumerInv
<1>11. Inserted(c)' = {} BY <1>3 DEF Inserted
<1>12. tx' \in [Processes -> TxRow] /\ crashes' \in 0..MaxCrashes BY <1>2 DEF RowsTyped
<1>13. \A p \in Processes \ {c} : tx'[p] = tx[p] OBVIOUS
<1>14. \A d \in Consumers \ {c} : Inserted(c)' \cap Inserted(d) = {} BY <1>11
<1> QED BY <1>1, <1>2, <1>6, <1>7, <1>8, <1>9, <1>10, <1>12, <1>13, <1>14, QuietStep

\* Pending messages are claimed.
LEMMA ClaimKeeps ==
  ASSUME PipelineInv, NEW c \in Consumers, Claim(c)
  PROVE  PipelineInv'
<1>1. PICK idle \in SUBSET Pending : hand' = [hand EXCEPT ![c] = InOrder(FirstOf(idle))]
  BY DEF Claim
<1>2. delivered \in Nat /\ delivered \in delivered..Len(log) BY WorkerIs, LogTyped
<1>3. /\ UNCHANGED <<log, acked, tx, tables, thesis, orderly, crashes>> /\ delivered' = delivered
      /\ Free(c)
  BY DEF Claim, stream
<1>4. PICK S \in SUBSET (1..delivered) : S = FirstOf(idle) BY DEF Pending, FirstOf
<1>5. IsFiniteSet(1..delivered) BY <1>2, FS_Interval
<1>6. IsFiniteSet(S) /\ S \in SUBSET Nat
  <2>1. IsFiniteSet(S) BY <1>5, FS_Subset
  <2>2. \A i \in 1..delivered : i \in Nat BY <1>2
  <2> QED BY <2>1, <2>2
<1>7. InOrder(S) \in Seq(S) BY <1>6, InOrderType
<1>8. InOrder(S) \in Seq(1..delivered) BY <1>7, SeqLarger
<1>9. hand' = [hand EXCEPT ![c] = InOrder(S)] BY <1>1, <1>4
<1> QED BY <1>2, <1>3, <1>8, <1>9, HandKeeps

\* New messages are read.
LEMMA ReadNewKeeps ==
  ASSUME PipelineInv, NEW c \in Consumers, ReadNew(c)
  PROVE  PipelineInv'
<1>1. delivered \in Nat /\ Len(log) \in Nat BY WorkerIs, LogTyped
<1>2. PICK new : new = FirstOf((delivered + 1)..Len(log)) OBVIOUS
<1>3. /\ hand' = [hand EXCEPT ![c] = InOrder(new)] /\ delivered' = delivered + Cardinality(new)
      /\ delivered < Len(log) /\ Free(c)
      /\ UNCHANGED <<log, acked, tx, tables, thesis, orderly, crashes>>
  BY <1>2 DEF ReadNew
<1>4. PICK d \in delivered..Len(log) : new = (delivered + 1)..d /\ Cardinality(new) = d - delivered
  BY <1>1, <1>2, <1>3, FirstOfNew
<1>5. delivered' = d /\ d \in Nat BY <1>1, <1>3, <1>4
<1>6. PICK a \in Int : a = delivered + 1 BY <1>1
<1>7. IsFiniteSet(a..d) BY <1>5, FS_Interval
<1>8. IsFiniteSet(new) /\ new \in SUBSET Nat /\ new \subseteq 1..d BY <1>1, <1>4, <1>5, <1>6, <1>7
<1>9. InOrder(new) \in Seq(new) BY <1>8, InOrderType
<1>10. InOrder(new) \in Seq(1..delivered') BY <1>5, <1>8, <1>9, SeqLarger
<1> QED BY <1>3, <1>4, <1>5, <1>10, HandKeeps

\* A step of one worker's transaction.
LEMMA WorkerStep ==
  ASSUME PipelineInv, NEW c \in Consumers, NEW next \in TxRow, tx' = [tx EXCEPT ![c] = next],
         UNCHANGED <<stream, hand, tables, thesis, orderly, crashes>>,
         DecidedInv(c)', ConsumerInv(c)',
         \A d \in Consumers \ {c} : Inserted(c)' \cap Inserted(d) = {}
  PROVE  PipelineInv'
<1>1. UNCHANGED <<log, delivered, acked, stored, alerts, metrics, outbox, explained>>
  BY DEF stream, tables
<1>2. /\ c \in Processes /\ c # Monitor /\ RowsTyped /\ delivered \in delivered..Len(log)
      /\ acked \subseteq 1..delivered /\ \A i \in acked : Bar(i) \in DOMAIN stored
  BY WorkerIs
<1>3. tx' \in [Processes -> TxRow] /\ \A p \in Processes \ {c} : tx'[p] = tx[p]
  BY <1>2 DEF RowsTyped
<1>4. hand' \in [Consumers -> Seq(1..delivered')] /\ crashes' \in 0..MaxCrashes
  BY <1>1, <1>2 DEF RowsTyped
<1> QED BY <1>1, <1>2, <1>3, <1>4, QuietStep

\* A worker looks for its bar.
LEMMA LookKeeps ==
  ASSUME PipelineInv, NEW c \in Consumers, Look(c)
  PROVE  PipelineInv'
<1>1. PICK outcome : outcome = Persistence(Bar(Current(c))) OBVIOUS
<1>2. /\ hand[c] # <<>> /\ tx[c].step = "idle"
      /\ tx' = [tx EXCEPT ![c].outcome = outcome,
                          ![c].step = IF outcome = "DUPLICATE" THEN "persisted" ELSE "looked"]
      /\ UNCHANGED <<stream, hand, tables, thesis, orderly, crashes>>
  BY <1>1 DEF Look, At
<1>3. tx[c] \in TxRow /\ ~ tx[c].inTurn /\ RowsTyped /\ c \in Processes /\ DecidedInv(c)
  BY <1>2, WorkerIs
<1>4. PICK next : next = [tx[c] EXCEPT !.outcome = outcome,
                                     !.step = IF outcome = "DUPLICATE" THEN "persisted" ELSE "looked"]
  OBVIOUS
<1>5. /\ outcome \in {"NEW", "DUPLICATE", "OUT_OF_ORDER"}
      /\ outcome = "DUPLICATE" <=> Bar(Current(c)) \in DOMAIN stored
  BY <1>1 DEF Persistence
<1>6. /\ next \in TxRow /\ next.outcome = outcome /\ next.alert = tx[c].alert /\ ~ next.inTurn
      /\ next.step = IF outcome = "DUPLICATE" THEN "persisted" ELSE "looked"
  BY <1>3, <1>4, <1>5 DEF TxRow
<1>7. tx' = [tx EXCEPT ![c] = next] /\ tx'[c] = next BY <1>2, <1>3, <1>4 DEF RowsTyped
<1>8. DecidedInv(c)' BY <1>3, <1>6, <1>7 DEF DecidedInv
<1>9. hand' = hand /\ log' = log /\ stored' = stored BY <1>2 DEF stream, tables
<1>10. Current(c)' = Current(c) /\ Bar(Current(c))' = Bar(Current(c)) BY <1>9 DEF Current, Bar
<1>11. ConsumerInv(c)' BY <1>2, <1>5, <1>6, <1>7, <1>9, <1>10 DEF ConsumerInv
<1>12. Inserted(c)' = {} BY <1>6, <1>7 DEF Inserted
<1>13. \A d \in Consumers \ {c} : Inserted(c)' \cap Inserted(d) = {} BY <1>12
<1>14. UNCHANGED <<stream, hand, tables, thesis, orderly, crashes>> BY <1>2
<1>15. next \in TxRow /\ tx' = [tx EXCEPT ![c] = next] BY <1>6, <1>7
<1> QED BY <1>8, <1>11, <1>13, <1>14, <1>15, WorkerStep

\* A bar is inserted that nobody else inserts.
LEMMA InsertKeeps ==
  ASSUME PipelineInv, NEW c \in Consumers, Insert(c)
  PROVE  PipelineInv'
<1>1. /\ tx[c].step = "looked" /\ \A d \in Consumers \ {c} : Bar(Current(c)) \notin Inserted(d)
      /\ UNCHANGED <<stream, tables, thesis, orderly, crashes>>
  BY DEF Insert, At
<1>2. /\ tx[c] \in TxRow /\ ~ tx[c].inTurn /\ RowsTyped /\ c \in Processes /\ DecidedInv(c)
      /\ ConsumerInv(c)
  BY <1>1, WorkerIs
<1>3. CASE Raise(c)
  <2>1. crashes' \in 0..MaxCrashes BY <1>1, <1>2 DEF RowsTyped
  <2> QED BY <1>1, <1>3, <2>1, RaiseKeeps
<1>4. CASE Bar(Current(c)) \notin DOMAIN stored /\ Move(c, "persisted") /\ UNCHANGED hand
  <2>1. PICK next : next = [tx[c] EXCEPT !.step = "persisted"] OBVIOUS
  <2>2. /\ next \in TxRow /\ next.outcome = tx[c].outcome /\ next.alert = tx[c].alert /\ ~ next.inTurn
        /\ next.step = "persisted"
    BY <1>2, <2>1 DEF TxRow
  <2>3. tx' = [tx EXCEPT ![c] = next] /\ tx'[c] = next BY <1>2, <1>4, <2>1 DEF RowsTyped, Move
  <2>4. DecidedInv(c)' BY <1>2, <2>2, <2>3 DEF DecidedInv
  <2>5. hand' = hand /\ log' = log /\ stored' = stored BY <1>1, <1>4 DEF stream, tables
  <2>6. Current(c)' = Current(c) /\ Bar(Current(c))' = Bar(Current(c)) BY <2>5 DEF Current, Bar
  <2>7. ConsumerInv(c)' BY <1>1, <1>2, <1>4, <2>2, <2>3, <2>5, <2>6 DEF ConsumerInv
  <2>8. Inserted(c)' \subseteq {Bar(Current(c))} BY <2>6 DEF Inserted
  <2>9. UNCHANGED <<stream, hand, tables, thesis, orderly, crashes>> BY <1>1, <1>4
  <2>10. \A d \in Consumers \ {c} : Inserted(c)' \cap Inserted(d) = {} BY <1>1, <2>8
  <2> QED BY <2>2, <2>3, <2>4, <2>7, <2>9, <2>10, WorkerStep
<1> QED BY <1>3, <1>4 DEF Insert

\* A worker decides on the table as it sees it.
LEMMA DecideKeeps ==
  ASSUME PipelineInv, NEW c \in Consumers, Decide(c)
  PROVE  PipelineInv'
<1>1. PICK found : found = IF tx[c].outcome = "OUT_OF_ORDER"
                           THEN {}
                           ELSE Evaluation(Seen(c), Bar(Current(c)).minute, Current(c))
  OBVIOUS
<1>2. PICK turn \in BOOLEAN :
        turn = (1..(Current(c) - 1) \subseteq acked /\ tx[c].outcome # "OUT_OF_ORDER")
  OBVIOUS
<1>3. /\ tx[c].step = "persisted"
      /\ IF found # {} /\ ~HasThesis(Current(c))
         THEN Raise(c)
         ELSE /\ tx' = [tx EXCEPT ![c].step = "decided", ![c].alert = found, ![c].inTurn = turn]
              /\ UNCHANGED hand
      /\ UNCHANGED <<stream, tables, thesis, orderly, crashes>>
  BY <1>1, <1>2 DEF Decide, At
<1>4. /\ tx[c] \in TxRow /\ RowsTyped /\ c \in Processes /\ ConsumerInv(c) /\ hand[c] # <<>>
  BY <1>3, WorkerIs DEF ConsumerInv
<1>5. CASE Raise(c)
  <2>1. crashes' \in 0..MaxCrashes BY <1>3, <1>4 DEF RowsTyped
  <2> QED BY <1>3, <1>5, <2>1, RaiseKeeps
<1>6. CASE /\ found = {} \/ HasThesis(Current(c))
           /\ tx' = [tx EXCEPT ![c].step = "decided", ![c].alert = found, ![c].inTurn = turn]
           /\ UNCHANGED hand
  <2>1. PICK i \in Nat : i = Current(c) BY <1>4, CurrentTyped
  <2>2. PICK table : table = Seen(c) OBVIOUS
  <2>3. /\ DOMAIN table \subseteq AllBars /\ AllBars \subseteq Contents /\ IsFiniteSet(DOMAIN table)
    BY <1>4, <2>2, SeenTyped, LogTyped
  <2>4. PICK m : m = Bar(Current(c)).minute OBVIOUS
  <2>5. \A alert \in found : /\ Follows(alert, table) /\ alert \in Alert
                             /\ Evaluation(table, m, i) = {alert}
    BY <1>1, <1>6, <2>1, <2>2, <2>3, <2>4, FoundFollows
  <2>6. \A a, b \in found : a = b BY <1>1, <2>1, <2>2, <2>4, <2>5
  <2>7. PICK next : next = [tx[c] EXCEPT !.step = "decided", !.alert = found, !.inTurn = turn] OBVIOUS
  <2>8. found \subseteq Alert BY <2>5
  <2>9. /\ next \in TxRow /\ next.outcome = tx[c].outcome /\ next.alert = found /\ next.inTurn = turn
        /\ next.step = "decided"
    BY <1>4, <2>7, <2>8 DEF TxRow
  <2>10. tx' = [tx EXCEPT ![c] = next] /\ tx'[c] = next BY <1>4, <1>6, <2>7 DEF RowsTyped
  <2>11. hand' = hand /\ log' = log /\ stored' = stored /\ acked' = acked
    BY <1>3, <1>6 DEF stream, tables
  <2>12. Current(c)' = Current(c) /\ Bar(Current(c))' = Bar(Current(c)) BY <2>11 DEF Current, Bar
  <2>13. Inserted(c)' = Inserted(c) BY <1>3, <2>9, <2>10, <2>12 DEF Inserted
  <2>14. Seen(c)' = table BY <2>2, <2>11, <2>12, <2>13 DEF Seen
  <2>15. \A alert \in found : Follows(alert, table)' BY <1>3, <2>5 DEF Follows, HasThesis
  <2>16. DecidedInv(c)' BY <2>6, <2>9, <2>10, <2>14, <2>15 DEF DecidedInv
  <2>17. m = Bar(Current(c))'.minute BY <2>4, <2>12
  <2>18. turn => found = Evaluation(table, m, i) /\ 1..(i - 1) \subseteq acked
    BY <1>1, <1>2, <2>1, <2>2, <2>4
  <2>19. ConsumerInv(c)'
    BY <1>3, <1>4, <2>1, <2>9, <2>10, <2>11, <2>12, <2>14, <2>17, <2>18 DEF ConsumerInv
  <2>20. UNCHANGED <<stream, hand, tables, thesis, orderly, crashes>> BY <1>3, <1>6
  <2>21. \A d \in Consumers \ {c} : Inserted(c)' \cap Inserted(d) = {}
    BY <2>13 DEF PipelineInv, InsertedOnce
  <2> QED BY <2>9, <2>10, <2>16, <2>19, <2>20, <2>21, WorkerStep
<1> QED BY <1>3, <1>5, <1>6

\* The lock is taken for what was decided.
LEMMA PersistKeeps ==
  ASSUME PipelineInv, NEW c \in Consumers, PersistAlert(c)
  PROVE  PipelineInv'
<1>1. PICK status \in {"DISABLED", "SUCCEEDED", "FAILED"} :
        tx' = [tx EXCEPT ![c].step = "alerted", ![c].status = status]
  BY DEF PersistAlert
<1>2. /\ tx[c].step = "decided" /\ UNCHANGED <<stream, hand, tables, thesis, orderly, crashes>>
  BY DEF PersistAlert, At
<1>3. /\ tx[c] \in TxRow /\ RowsTyped /\ c \in Processes /\ ConsumerInv(c) /\ DecidedInv(c)
  BY WorkerIs
<1>4. PICK next : next = [tx[c] EXCEPT !.step = "alerted", !.status = status] OBVIOUS
<1>5. /\ next \in TxRow /\ next.outcome = tx[c].outcome /\ next.alert = tx[c].alert
      /\ next.inTurn = tx[c].inTurn /\ next.step = "alerted"
  BY <1>3, <1>4 DEF TxRow
<1>6. tx' = [tx EXCEPT ![c] = next] /\ tx'[c] = next BY <1>1, <1>3, <1>4 DEF RowsTyped
<1>7. hand' = hand /\ log' = log /\ stored' = stored /\ acked' = acked /\ thesis' = thesis
  BY <1>2 DEF stream, tables
<1>8. PICK i : i = Current(c) /\ i = Current(c)' BY <1>7 DEF Current
<1>9. PICK b : b = Bar(Current(c)) /\ b = Bar(Current(c))' BY <1>7, <1>8 DEF Bar
<1>10. Inserted(c)' = Inserted(c) BY <1>2, <1>5, <1>6, <1>9 DEF Inserted
<1>11. PICK table : table = Seen(c) /\ table = Seen(c)' BY <1>7, <1>8, <1>10 DEF Seen
<1>12. \A alert : Follows(alert, table) => Follows(alert, table)' BY <1>7 DEF Follows, HasThesis
<1>13. DecidedInv(c)' BY <1>2, <1>3, <1>5, <1>6, <1>11, <1>12 DEF DecidedInv
<1>14. ConsumerInv(c)' BY <1>2, <1>3, <1>5, <1>6, <1>7, <1>8, <1>9, <1>11 DEF ConsumerInv
<1>15. \A d \in Consumers \ {c} : Inserted(c)' \cap Inserted(d) = {}
  BY <1>10 DEF PipelineInv, InsertedOnce
<1> QED BY <1>2, <1>5, <1>6, <1>13, <1>14, <1>15, WorkerStep

\* A message that is acknowledged is stored.
LEMMA AckKeeps ==
  ASSUME PipelineInv, NEW c \in Consumers, Ack(c)
  PROVE  PipelineInv'
<1>1. /\ tx[c].step = "committed" /\ acked' = acked \cup {Current(c)}
      /\ hand' = [hand EXCEPT ![c] = Tail(hand[c])] /\ tx' = [tx EXCEPT ![c] = Idle]
      /\ UNCHANGED <<log, delivered, tables, thesis, orderly, crashes>>
  BY DEF Ack, DurableStep
<1>2. /\ c \in Processes /\ c # Monitor /\ RowsTyped /\ delivered \in delivered..Len(log)
      /\ acked \subseteq 1..delivered /\ \A i \in acked : Bar(i) \in DOMAIN stored
      /\ ConsumerInv(c) /\ hand[c] \in Seq(1..delivered)
  BY WorkerIs
<1>3. hand[c] # <<>> /\ Bar(Current(c)) \in DOMAIN stored BY <1>1, <1>2 DEF ConsumerInv
<1>4. Current(c) \in 1..delivered BY <1>2, <1>3, CurrentTyped
<1>5. UNCHANGED <<stored, alerts, metrics, outbox, explained>> BY <1>1 DEF tables
<1>6. acked' \subseteq 1..delivered' /\ \A i \in acked' : Bar(i) \in DOMAIN stored
  BY <1>1, <1>2, <1>3, <1>4
<1>7. Tail(hand[c]) \in Seq(1..delivered)
  <2>1. PICK S : S = 1..delivered OBVIOUS
  <2>2. PICK s \in Seq(S) : s = hand[c] BY <1>2, <2>1
  <2>3. Tail(s) \in Seq(S) BY <1>3, <2>2
  <2> QED BY <2>1, <2>2, <2>3
<1>8. /\ hand' \in [Consumers -> Seq(1..delivered')]
      /\ \A d \in Consumers \ {c} : hand'[d] = hand[d]
  BY <1>1, <1>2, <1>7 DEF RowsTyped
<1>9. Idle \in TxRow /\ Idle.step = "idle" /\ Idle.alert = {} /\ ~ Idle.inTurn BY DEF Idle, TxRow
<1>10. /\ tx' \in [Processes -> TxRow] /\ tx'[c] = Idle
       /\ \A p \in Processes \ {c} : tx'[p] = tx[p]
  BY <1>1, <1>2, <1>9 DEF RowsTyped
<1>11. DecidedInv(c)' BY <1>9, <1>10 DEF DecidedInv
<1>12. ConsumerInv(c)' BY <1>9, <1>10 DEF ConsumerInv
<1>13. Inserted(c)' = {} BY <1>9, <1>10 DEF Inserted
<1>14. crashes' \in 0..MaxCrashes BY <1>1, <1>2 DEF RowsTyped
<1>15. delivered' \in delivered..Len(log) BY <1>1, <1>2
<1> QED BY <1>1, <1>2, <1>5, <1>6, <1>8, <1>10, <1>11, <1>12, <1>13, <1>14, <1>15, QuietStep

\* A worker dies.
LEMMA DiesKeeps ==
  ASSUME PipelineInv, NEW c \in Consumers, WorkerDies(c)
  PROVE  PipelineInv'
<1>1. /\ crashes < MaxCrashes /\ crashes' = crashes + 1 /\ Raise(c)
      /\ UNCHANGED <<stream, tables, thesis, orderly>>
  BY DEF WorkerDies
<1>2. crashes' \in 0..MaxCrashes BY <1>1, WorkerIs, PipelineAssumption DEF RowsTyped
<1> QED BY <1>1, <1>2, RaiseKeeps

\* The monitor decides on what is stored.
LEMMA MonitorKeeps ==
  ASSUME PipelineInv, (\E i \in DOMAIN log : MonitorDecide(Bar(i).minute)) \/ PersistAlert(Monitor)
  PROVE  PipelineInv'
<1>1. /\ Monitor \in Processes /\ Monitor \notin Consumers /\ RowsTyped /\ MonitorInv
      /\ DecidedInv(Monitor) /\ AcknowledgedIsStored
  BY PipelineAssumption DEF Processes, PipelineInv
<1>2. /\ UNCHANGED <<stream, hand, tables, thesis, orderly, crashes>>
  BY DEF MonitorDecide, PersistAlert
<1>3. UNCHANGED <<log, delivered, acked, stored, alerts, metrics, outbox, explained>>
  BY <1>2 DEF stream, tables
<1>4. /\ delivered' \in delivered..Len(log) /\ acked' \subseteq 1..delivered'
      /\ \A i \in acked' : Bar(i) \in DOMAIN stored
      /\ hand' \in [Consumers -> Seq(1..delivered')] /\ crashes' \in 0..MaxCrashes
  BY <1>1, <1>2, <1>3, LogTyped DEF RowsTyped, AcknowledgedIsStored
<1>5. tx[Monitor] \in TxRow /\ Seen(Monitor) = stored /\ Seen(Monitor)' = stored
  BY <1>1, <1>3 DEF RowsTyped, Seen
<1>6. ASSUME NEW next \in TxRow, tx' = [tx EXCEPT ![Monitor] = next],
             next.step \in {"decided", "alerted"}, ~ next.inTurn,
             \A a, b \in next.alert : a = b, \A alert \in next.alert : Follows(alert, stored)
      PROVE  PipelineInv'
  <2>1. /\ tx' \in [Processes -> TxRow] /\ tx'[Monitor] = next
        /\ \A p \in Processes \ {Monitor} : tx'[p] = tx[p]
    BY <1>1, <1>6 DEF RowsTyped
  <2>2. MonitorInv' BY <1>6, <2>1 DEF MonitorInv
  <2>3. PICK table : table = stored OBVIOUS
  <2>4. \A alert \in next.alert : Follows(alert, table)' BY <1>2, <1>6, <2>3 DEF Follows, HasThesis
  <2>5. DecidedInv(Monitor)' BY <1>5, <1>6, <2>1, <2>3, <2>4 DEF DecidedInv
  <2>6. \A c \in Consumers \ {Monitor} : hand'[c] = hand[c] BY <1>2
  <2> QED BY <1>1, <1>2, <1>3, <1>4, <2>1, <2>2, <2>5, <2>6, QuietStep
<1>7. CASE PersistAlert(Monitor)
  <2>1. PICK status \in {"DISABLED", "SUCCEEDED", "FAILED"} :
          tx' = [tx EXCEPT ![Monitor].step = "alerted", ![Monitor].status = status]
    BY <1>7 DEF PersistAlert
  <2>2. tx[Monitor].step = "decided" BY <1>7 DEF PersistAlert, At
  <2>3. PICK next : next = [tx[Monitor] EXCEPT !.step = "alerted", !.status = status] OBVIOUS
  <2>4. next \in TxRow /\ next.alert = tx[Monitor].alert /\ next.inTurn = tx[Monitor].inTurn
        /\ next.step = "alerted"
    BY <1>5, <2>3 DEF TxRow
  <2>5. tx' = [tx EXCEPT ![Monitor] = next] BY <1>1, <2>1, <2>3 DEF RowsTyped
  <2>6. /\ \A a, b \in next.alert : a = b
        /\ \A alert \in next.alert : Follows(alert, stored)
    BY <1>1, <1>5, <2>2, <2>4 DEF DecidedInv
  <2>7. ~ next.inTurn BY <1>1, <2>4 DEF MonitorInv
  <2> QED BY <1>6, <2>4, <2>5, <2>6, <2>7
<1>8. CASE \E i \in DOMAIN log : MonitorDecide(Bar(i).minute)
  <2>1. PICK minute : MonitorDecide(minute) BY <1>8
  <2>2. PICK alert \in Evaluation(stored, minute, Len(log)) :
          tx' = [tx EXCEPT ![Monitor].step = "decided", ![Monitor].alert = {alert}]
    BY <2>1 DEF MonitorDecide
  <2>3. HasThesis(Len(log)) BY <2>1 DEF MonitorDecide
  <2>4. /\ Len(log) \in Nat /\ DOMAIN stored \subseteq AllBars /\ AllBars \subseteq Contents
        /\ IsFiniteSet(DOMAIN stored)
    BY <1>1, LogTyped DEF RowsTyped
  <2>5. Follows(alert, stored) /\ alert \in Alert BY <2>2, <2>3, <2>4, FoundFollows
  <2>6. PICK next : next = [tx[Monitor] EXCEPT !.step = "decided", !.alert = {alert}] OBVIOUS
  <2>7. next \in TxRow /\ next.alert = {alert} /\ next.inTurn = tx[Monitor].inTurn
        /\ next.step = "decided"
    BY <1>5, <2>5, <2>6 DEF TxRow
  <2>8. tx' = [tx EXCEPT ![Monitor] = next] BY <1>1, <2>2, <2>6 DEF RowsTyped
  <2>9. ~ next.inTurn BY <1>1, <2>7 DEF MonitorInv
  <2> QED BY <1>6, <2>5, <2>7, <2>8, <2>9
<1> QED BY <1>7, <1>8

\* What a transaction stores when it commits: its bar, which nobody acknowledged.
LEMMA CommitStores ==
  ASSUME PipelineInv, NEW q \in Processes, tx[q].step \in {"decided", "alerted"}, stored' = Seen(q)
  PROVE  /\ DOMAIN stored \subseteq DOMAIN stored' /\ \A b \in DOMAIN stored : stored'[b] = stored[b]
         /\ IsFiniteSet(DOMAIN stored')
         /\ \A b \in DOMAIN stored' : b \in AllBars /\ stored'[b] \in 0..Len(log)
         /\ \A b \in DOMAIN stored' \ DOMAIN stored :
              /\ q \in Consumers /\ b \in Inserted(q) /\ b = Bar(Current(q))
              /\ stored'[b] = Current(q) /\ Current(q) \in 1..Len(log) \ acked
         /\ q \in Consumers => hand[q] # <<>> /\ Bar(Current(q)) \in DOMAIN stored'
<1>1. RowsTyped /\ \A i \in acked : Bar(i) \in DOMAIN stored BY DEF PipelineInv, AcknowledgedIsStored
<1>2. q \in Consumers => /\ hand[q] # <<>>
                         /\ tx[q].outcome = "DUPLICATE" <=> Bar(Current(q)) \in DOMAIN stored
  BY DEF PipelineInv, ConsumerInv
<1>3. /\ q \notin Consumers => Seen(q) = stored
      /\ q \in Consumers => /\ DOMAIN Seen(q) = DOMAIN stored \cup Inserted(q)
                            /\ Inserted(q) \subseteq {Bar(Current(q))}
                            /\ \A b \in Inserted(q) \ DOMAIN stored : Seen(q)[b] = Current(q)
      /\ DOMAIN stored \subseteq DOMAIN Seen(q)
      /\ \A b \in DOMAIN stored : Seen(q)[b] = stored[b]
      /\ DOMAIN Seen(q) \subseteq AllBars /\ IsFiniteSet(DOMAIN Seen(q))
      /\ \A b \in DOMAIN Seen(q) : Seen(q)[b] \in 0..Len(log)
  BY <1>1, <1>2, SeenTyped
<1>4. ASSUME NEW b \in DOMAIN stored' \ DOMAIN stored
      PROVE  /\ q \in Consumers /\ b \in Inserted(q) /\ b = Bar(Current(q))
             /\ stored'[b] = Current(q) /\ Current(q) \in 1..Len(log) \ acked
  <2>1. q \in Consumers /\ b \in Inserted(q) /\ b = Bar(Current(q)) /\ stored'[b] = Current(q)
    BY <1>3
  <2>2. Current(q) \in 1..Len(log) BY <1>1, <1>2, <2>1, CurrentTyped
  <2>3. Current(q) \notin acked BY <1>1, <2>1
  <2> QED BY <2>1, <2>2, <2>3
<1>5. q \in Consumers => Bar(Current(q)) \in DOMAIN stored'
  <2>1. q \in Consumers /\ tx[q].outcome # "DUPLICATE" => Inserted(q) = {Bar(Current(q))} BY DEF Inserted
  <2> QED BY <1>2, <1>3, <2>1
<1> QED BY <1>2, <1>3, <1>4, <1>5

\* What comes later than a message changes nothing for it.
LEMMA EvaluationKept ==
  ASSUME NEW i \in Nat, 1..(i - 1) \subseteq acked, NEW minute, NEW t, NEW u,
         DOMAIN t \subseteq DOMAIN u, \A b \in DOMAIN t : u[b] = t[b],
         \A b \in DOMAIN u \ DOMAIN t : u[b] \in 1..Len(log) \ acked /\ u[b] # i
  PROVE  Evaluation(t, minute, i) = Evaluation(u, minute, i)
<1>1. ASSUME NEW b \in DOMAIN u \ DOMAIN t PROVE ~ (u[b] <= i)
  <2>1. PICK j \in 1..Len(log) : j = u[b] OBVIOUS
  <2>2. j \notin acked /\ j # i BY <2>1
  <2>3. j \notin 1..(i - 1) BY <2>2
  <2>4. j \in Int /\ 1 <= j BY <2>1
  <2> QED BY <2>1, <2>2, <2>3, <2>4
<1>2. Visible(t, minute, i) = Visible(u, minute, i) BY <1>1 DEF Visible
<1>3. \A b \in Visible(t, minute, i) : t[b] = u[b] BY DEF Visible
<1> QED BY <1>2, <1>3, EvaluationSame

\* A commit keeps what the other processes know.
LEMMA OthersKeep ==
  ASSUME PipelineInv, NEW q \in Processes, tx[q].step \in {"decided", "alerted"}, stored' = Seen(q),
         UNCHANGED <<log, delivered, acked, hand, thesis>>, NEW p \in Processes \ {q}, tx'[p] = tx[p]
  PROVE  /\ DecidedInv(p)'
         /\ p \in Consumers => ConsumerInv(p)' /\ Inserted(p)' = Inserted(p)
<1>1. PICK i : i = Current(p) /\ i = Current(p)' BY DEF Current
<1>2. \A n : Bar(n)' = Bar(n) BY DEF Bar
<1>3. PICK bar : bar = Bar(Current(p)) /\ bar = Bar(Current(p))' BY <1>1, <1>2 DEF Bar
<1>4. p \in Consumers => Inserted(p)' = Inserted(p) BY <1>3 DEF Inserted
<1>5. RowsTyped /\ DecidedInv(p) /\ (p \in Consumers => ConsumerInv(p)) BY DEF PipelineInv
<1>6. /\ DOMAIN stored \subseteq DOMAIN stored' /\ \A b \in DOMAIN stored : stored'[b] = stored[b]
      /\ \A b \in DOMAIN stored' \ DOMAIN stored :
           /\ q \in Consumers /\ b \in Inserted(q) /\ b = Bar(Current(q))
           /\ stored'[b] = Current(q) /\ Current(q) \in 1..Len(log) \ acked
  BY CommitStores
<1>7. ASSUME NEW b \in DOMAIN stored' \ DOMAIN stored, p \in Consumers PROVE b \notin Inserted(p)
  BY <1>6, <1>7 DEF PipelineInv, InsertedOnce
<1>8. PICK table : table = Seen(p) OBVIOUS
<1>9. PICK larger : larger = Seen(p)' OBVIOUS
<1>10. /\ DOMAIN table \subseteq DOMAIN larger /\ \A b \in DOMAIN table : larger[b] = table[b]
       /\ \A b \in DOMAIN larger \ DOMAIN table :
            b \in DOMAIN stored' \ DOMAIN stored /\ larger[b] = stored'[b]
  <2>1. CASE p \notin Consumers
    <3>1. table = stored /\ larger = stored' BY <1>8, <1>9, <2>1 DEF Seen
    <3> QED BY <1>6, <3>1
  <2>2. CASE p \in Consumers
    <3>1. PICK new : new = stored' OBVIOUS
    <3>2. table = [b \in DOMAIN stored \cup Inserted(p) |-> IF b \in DOMAIN stored THEN stored[b] ELSE i]
      BY <1>1, <1>8, <2>2 DEF Seen
    <3>3. larger = [b \in DOMAIN new \cup Inserted(p) |-> IF b \in DOMAIN new THEN new[b] ELSE i]
      BY <1>1, <1>4, <1>9, <2>2, <3>1 DEF Seen
    <3>4. DOMAIN table = DOMAIN stored \cup Inserted(p) /\ DOMAIN larger = DOMAIN new \cup Inserted(p)
      BY <3>2, <3>3
    <3>5. /\ DOMAIN stored \subseteq DOMAIN new /\ \A b \in DOMAIN stored : new[b] = stored[b]
          /\ \A b \in DOMAIN new \ DOMAIN stored : b \notin Inserted(p)
      BY <1>6, <1>7, <2>2, <3>1
    <3>6. \A b \in DOMAIN table : larger[b] = table[b]
      <4> SUFFICES ASSUME NEW b \in DOMAIN table PROVE larger[b] = table[b] OBVIOUS
      <4>1. CASE b \in DOMAIN stored BY <3>2, <3>3, <3>4, <3>5, <4>1
      <4>2. CASE b \notin DOMAIN stored
        <5>1. b \in Inserted(p) /\ b \notin DOMAIN new BY <3>4, <3>5, <4>2
        <5> QED BY <3>2, <3>3, <3>4, <4>2, <5>1
      <4> QED BY <4>1, <4>2
    <3>7. \A b \in DOMAIN larger \ DOMAIN table : b \in DOMAIN new \ DOMAIN stored /\ larger[b] = new[b]
      BY <3>3, <3>4
    <3> QED BY <3>1, <3>4, <3>5, <3>6, <3>7
  <2> QED BY <2>1, <2>2
<1>11. DecidedInv(p)'
  <2>1. \A alert : Follows(alert, table) => Follows(alert, larger)' BY <1>10 DEF Follows, HasThesis
  <2> QED BY <1>5, <1>8, <1>9, <2>1 DEF DecidedInv
<1>12. ASSUME p \in Consumers PROVE ConsumerInv(p)'
  <2>1. ConsumerInv(p) BY <1>5, <1>12
  <2>2. ASSUME tx[p].step \in {"persisted", "decided", "alerted"}
        PROVE  tx[p].outcome = "DUPLICATE" <=> bar \in DOMAIN stored'
    <3>1. tx[p].outcome = "DUPLICATE" <=> bar \in DOMAIN stored BY <1>3, <2>1, <2>2 DEF ConsumerInv
    <3>2. tx[p].outcome # "DUPLICATE" => bar \in Inserted(p) BY <1>3, <2>2 DEF Inserted
    <3> QED BY <1>6, <1>7, <1>12, <3>1, <3>2
  <2>3. ASSUME tx[p].inTurn PROVE tx[p].alert = Evaluation(larger, bar.minute, i)
    <3>1. /\ tx[p].step \in {"decided", "alerted"} /\ 1..(i - 1) \subseteq acked
          /\ tx[p].alert = Evaluation(table, bar.minute, i) /\ hand[p] # <<>>
      BY <1>1, <1>3, <1>8, <2>1, <2>3 DEF ConsumerInv
    <3>2. i \in Nat BY <1>1, <1>5, <1>12, <3>1, CurrentTyped
    <3>3. bar \in DOMAIN stored \/ bar \in Inserted(p)
      BY <1>3, <2>1, <3>1 DEF Inserted, ConsumerInv
    <3>4. ASSUME NEW b \in DOMAIN larger \ DOMAIN table
          PROVE  larger[b] \in 1..Len(log) \ acked /\ larger[b] # i
      <4>1. b \in DOMAIN stored' \ DOMAIN stored /\ larger[b] = stored'[b] BY <1>10
      <4>2. b = Bar(Current(q)) /\ stored'[b] = Current(q) /\ Current(q) \in 1..Len(log) \ acked
        BY <1>6, <4>1
      <4>3. b # bar BY <1>7, <1>12, <3>3, <4>1
      <4>4. Current(q) # i BY <1>1, <1>3, <4>2, <4>3
      <4> QED BY <4>1, <4>2, <4>4
    <3>5. Evaluation(table, bar.minute, i) = Evaluation(larger, bar.minute, i)
      BY <1>10, <3>1, <3>2, <3>4, EvaluationKept
    <3> QED BY <3>1, <3>5
  <2>4. tx[p].step = "committed" => bar \in DOMAIN stored' BY <1>3, <1>6, <2>1 DEF ConsumerInv
  <2>5. tx[p].inTurn => tx[p].step \in {"decided", "alerted"} /\ 1..(i - 1) \subseteq acked
    BY <1>1, <2>1 DEF ConsumerInv
  <2> QED BY <1>1, <1>3, <1>9, <2>1, <2>2, <2>3, <2>4, <2>5 DEF ConsumerInv
<1> QED BY <1>4, <1>11, <1>12

\* The alert a transaction writes is whole, and so are the others.
LEMMA WritesKeep ==
  ASSUME PipelineInv, NEW q \in Processes, tx[q].step = "alerted", WritesAlert(q), stored' = Seen(q),
         UNCHANGED <<log, thesis>>
  PROVE  /\ AlertsFollow' /\ MetricsInv'
         /\ DOMAIN alerts \subseteq DOMAIN alerts'
         /\ \A alert \in tx[q].alert : Bucket(alert.minute) \in DOMAIN alerts'
         /\ \A k \in DOMAIN alerts : alerts'[k] = alerts[k] /\ explained'[k] = explained[k]
<1>1. PICK alert \in tx[q].alert :
        /\ alerts' = Added(alerts, Bucket(alert.minute), alert)
        /\ metrics' = Added(metrics, <<Bucket(alert.minute), alert.minute>>, alert.at)
        /\ outbox' = outbox \cup {Bucket(alert.minute)}
        /\ explained' = Added(explained, Bucket(alert.minute), tx[q].status)
  BY DEF WritesAlert, FirstAlert
<1>2. PICK k : k = Bucket(alert.minute) OBVIOUS
<1>3. /\ alerts' = Added(alerts, k, alert)
      /\ metrics' = Added(metrics, <<k, alert.minute>>, alert.at)
      /\ outbox' = outbox \cup {k}
      /\ explained' = Added(explained, k, tx[q].status)
  BY <1>1, <1>2
<1>4. AlertsFollow /\ MetricsInv /\ DecidedInv(q) BY DEF PipelineInv
<1>5. PICK new : new = stored' OBVIOUS
<1>6. DOMAIN stored \subseteq DOMAIN new /\ \A b \in DOMAIN stored : new[b] = stored[b]
  BY <1>5, CommitStores
<1>7. Follows(alert, new) BY <1>3, <1>4, <1>5 DEF DecidedInv
<1>8. \A a \in tx[q].alert : a = alert BY <1>3, <1>4 DEF DecidedInv
<1>9. /\ DOMAIN alerts' = DOMAIN alerts \cup {k} /\ \A l \in DOMAIN alerts : alerts'[l] = alerts[l]
      /\ k \notin DOMAIN alerts => alerts'[k] = alert
  BY <1>3 DEF Added
<1>10. /\ DOMAIN explained' = DOMAIN explained \cup {k}
      /\ \A l \in DOMAIN explained : explained'[l] = explained[l]
  BY <1>3 DEF Added
<1>11. PICK cell : cell = <<k, alert.minute>> OBVIOUS
<1>12. /\ DOMAIN metrics' = DOMAIN metrics \cup {cell}
       /\ \A l \in DOMAIN metrics : metrics'[l] = metrics[l]
       /\ cell \notin DOMAIN metrics => metrics'[cell] = alert.at
  BY <1>3, <1>11 DEF Added
<1>13. DOMAIN alerts' = outbox' /\ DOMAIN explained' = outbox' BY <1>3, <1>4, <1>9, <1>10 DEF AlertsFollow
<1>14. ASSUME NEW l \in DOMAIN alerts'
       PROVE  /\ Bucket(alerts'[l].minute) = l
              /\ metrics'[<<l, alerts'[l].minute>>] = alerts'[l].at
              /\ <<l, alerts'[l].minute>> \in DOMAIN metrics'
              /\ Follows(alerts'[l], new)
  <2>1. CASE l \in DOMAIN alerts
    <3>1. PICK a : a = alerts[l] /\ a = alerts'[l] BY <1>9, <2>1
    <3>2. /\ Bucket(a.minute) = l /\ metrics[<<l, a.minute>>] = a.at
          /\ Follows(a, stored) /\ <<l, a.minute>> \in DOMAIN metrics
      BY <1>4, <2>1, <3>1 DEF AlertsFollow, MetricsInv, Follows
    <3>3. Follows(a, new) BY <1>6, <3>2, FollowsLarger
    <3> QED BY <1>12, <3>1, <3>2, <3>3
  <2>2. CASE l \notin DOMAIN alerts
    <3>1. l = k /\ alerts'[l] = alert BY <1>9, <2>2
    <3>2. cell \notin DOMAIN metrics BY <1>4, <1>11, <2>2, <3>1 DEF MetricsInv
    <3> QED BY <1>2, <1>3, <1>7, <1>11, <1>12, <3>1, <3>2
  <2> QED BY <2>1, <2>2
<1>15. AlertsFollow'
  <2>1. \A a : Follows(a, new) => /\ \A b \in Range(a.window) :
                                      b \in DOMAIN new /\ new[b] <= a.at /\ b.minute <= a.minute
                                 /\ Triggered(a.window, a.gap) /\ HasThesis(a.at)'
    BY DEF Follows, HasThesis
  <2> QED BY <1>5, <1>13, <1>14, <2>1 DEF AlertsFollow
<1>16. MetricsInv'
  <2>1. ASSUME NEW l, NEW m, <<l, m>> \in DOMAIN metrics' PROVE l \in DOMAIN alerts'
    <3>1. CASE <<l, m>> \in DOMAIN metrics BY <1>4, <1>9, <3>1 DEF MetricsInv
    <3>2. CASE <<l, m>> = cell BY <1>9, <1>11, <3>2
    <3> QED BY <1>12, <2>1, <3>1, <3>2
  <2> QED BY <1>14, <2>1 DEF MetricsInv
<1>17. \A l \in DOMAIN alerts : explained'[l] = explained[l] BY <1>4, <1>10 DEF AlertsFollow
<1>18. \A a \in tx[q].alert : Bucket(a.minute) \in DOMAIN alerts' BY <1>2, <1>8, <1>9
<1> QED BY <1>9, <1>15, <1>16, <1>17, <1>18

\* A commit changes no alert, and writes the one that was decided on.
LEMMA CommitWrites ==
  ASSUME PipelineInv, NEW q \in Processes, Commit(q)
  PROVE  /\ AlertsFollow' /\ MetricsInv'
         /\ DOMAIN alerts \subseteq DOMAIN alerts'
         /\ \A alert \in tx[q].alert : Bucket(alert.minute) \in DOMAIN alerts'
         /\ \A k \in DOMAIN alerts : alerts'[k] = alerts[k] /\ explained'[k] = explained[k]
<1>1. stored' = Seen(q) /\ UNCHANGED <<log, thesis>> BY DEF Commit, stream
<1>2. CASE tx[q].step = "alerted" /\ WritesAlert(q) BY <1>1, <1>2, WritesKeep
<1>3. CASE tx[q].step = "decided" /\ tx[q].alert = {} /\ UNCHANGED <<alerts, metrics, outbox, explained>>
  <2>1. AlertsFollow /\ MetricsInv BY DEF PipelineInv
  <2>2. PICK new : new = stored' OBVIOUS
  <2>3. DOMAIN stored \subseteq DOMAIN new /\ \A b \in DOMAIN stored : new[b] = stored[b]
    BY <1>1, <1>3, <2>2, CommitStores
  <2>4. ASSUME NEW k \in DOMAIN alerts PROVE Follows(alerts[k], new)
    <3>1. Follows(alerts[k], stored) BY <2>1 DEF AlertsFollow, Follows
    <3> QED BY <2>3, <3>1, FollowsLarger
  <2>5. AlertsFollow'
    <3>1. \A a : Follows(a, new) => /\ \A b \in Range(a.window) :
                                        b \in DOMAIN new /\ new[b] <= a.at /\ b.minute <= a.minute
                                   /\ Triggered(a.window, a.gap) /\ HasThesis(a.at)'
      BY <1>1 DEF Follows, HasThesis
    <3> QED BY <1>3, <2>1, <2>2, <2>4, <3>1 DEF AlertsFollow
  <2>6. MetricsInv' BY <1>3, <2>1 DEF MetricsInv
  <2> QED BY <1>3, <2>5, <2>6
<1> QED BY <1>2, <1>3 DEF Commit, At

\* What was decided on in its turn has its alert when it is stored, and keeps it.
LEMMA CommitTurns ==
  ASSUME PipelineInv, NEW q \in Processes, Commit(q), NEW i \in orderly'
  PROVE  TurnInv(i)'
<1>1. /\ stored' = Seen(q) /\ log' = log /\ acked' = acked /\ tx[q].step \in {"decided", "alerted"}
      /\ orderly' = IF tx[q].inTurn THEN orderly \cup {Current(q)} ELSE orderly
  BY DEF Commit, stream, At
<1>2. \A n : Bar(n)' = Bar(n) BY <1>1 DEF Bar
<1>3. PICK bar : bar = Bar(i) /\ bar = Bar(i)' BY <1>2
<1>4. PICK new : new = stored' OBVIOUS
<1>5. /\ DOMAIN stored \subseteq DOMAIN new /\ \A b \in DOMAIN stored : new[b] = stored[b]
      /\ \A b \in DOMAIN new \ DOMAIN stored :
           /\ b = Bar(Current(q)) /\ new[b] = Current(q) /\ Current(q) \in 1..Len(log) \ acked
      /\ q \in Consumers => hand[q] # <<>> /\ Bar(Current(q)) \in DOMAIN new
  BY <1>1, <1>4, CommitStores
<1>6. SUFFICES /\ i \in 1..Len(log) /\ 1..(i - 1) \subseteq acked /\ bar \in DOMAIN new
               /\ \A alert \in Evaluation(new, bar.minute, i) : Bucket(alert.minute) \in DOMAIN alerts'
  BY <1>1, <1>2, <1>3, <1>4 DEF TurnInv
<1>7. CASE i \in orderly
  <2>1. TurnInv(i) BY <1>7 DEF PipelineInv
  <2>2. i \in Nat BY <2>1 DEF TurnInv
  <2>3. ASSUME NEW b \in DOMAIN new \ DOMAIN stored
        PROVE  new[b] \in 1..Len(log) \ acked /\ new[b] # i
    <3>1. b # bar BY <1>3, <2>1 DEF TurnInv
    <3>2. Current(q) # i BY <1>3, <1>5, <3>1
    <3> QED BY <1>5, <3>2
  <2>4. Evaluation(stored, bar.minute, i) = Evaluation(new, bar.minute, i)
    BY <1>5, <2>1, <2>2, <2>3, EvaluationKept DEF TurnInv
  <2>5. DOMAIN alerts \subseteq DOMAIN alerts' BY CommitWrites
  <2> QED BY <1>3, <1>5, <2>1, <2>4, <2>5 DEF TurnInv
<1>8. CASE tx[q].inTurn /\ i = Current(q)
  <2>1. q \in Consumers BY <1>8 DEF PipelineInv, MonitorInv, Processes
  <2>2. ConsumerInv(q) /\ RowsTyped BY <2>1 DEF PipelineInv
  <2>3. 1..(i - 1) \subseteq acked /\ tx[q].alert = Evaluation(new, bar.minute, i)
    BY <1>1, <1>3, <1>4, <1>8, <2>2 DEF ConsumerInv
  <2>4. i \in 1..Len(log) BY <1>5, <1>8, <2>1, <2>2, CurrentTyped
  <2>5. bar \in DOMAIN new BY <1>3, <1>5, <1>8, <2>1
  <2>6. \A alert \in tx[q].alert : Bucket(alert.minute) \in DOMAIN alerts' BY CommitWrites
  <2> QED BY <2>3, <2>4, <2>5, <2>6
<1> QED BY <1>1, <1>7, <1>8

\* A transaction commits.
LEMMA CommitKeeps ==
  ASSUME PipelineInv, NEW q \in Processes, Commit(q)
  PROVE  PipelineInv'
<1>1. /\ stored' = Seen(q) /\ tx[q].step \in {"decided", "alerted"}
      /\ tx' = [tx EXCEPT ![q] = IF q = Monitor THEN Idle ELSE [Idle EXCEPT !.step = "committed"]]
      /\ UNCHANGED <<log, delivered, acked, hand, thesis, crashes>>
  BY DEF Commit, stream, At
<1>2. RowsTyped /\ AcknowledgedIsStored BY DEF PipelineInv
<1>3. PICK next : next = IF q = Monitor THEN Idle ELSE [Idle EXCEPT !.step = "committed"] OBVIOUS
<1>4. /\ next \in TxRow /\ next.alert = {} /\ ~ next.inTurn
      /\ next.step = IF q = Monitor THEN "idle" ELSE "committed"
  BY <1>3 DEF Idle, TxRow
<1>5. /\ tx' \in [Processes -> TxRow] /\ tx'[q] = next
      /\ \A p \in Processes \ {q} : tx'[p] = tx[p]
  BY <1>1, <1>2, <1>3, <1>4 DEF RowsTyped
<1>6. PICK new : new = stored' OBVIOUS
<1>7. /\ DOMAIN stored \subseteq DOMAIN new /\ IsFiniteSet(DOMAIN new)
      /\ \A b \in DOMAIN new : b \in AllBars /\ new[b] \in 0..Len(log)
      /\ q \in Consumers => hand[q] # <<>> /\ Bar(Current(q)) \in DOMAIN new
  BY <1>1, <1>6, CommitStores
<1>8. RowsTyped' BY <1>1, <1>2, <1>5, <1>6, <1>7 DEF RowsTyped
<1>9. \A n : Bar(n)' = Bar(n) BY <1>1 DEF Bar
<1>10. AcknowledgedIsStored' BY <1>1, <1>2, <1>6, <1>7, <1>9 DEF AcknowledgedIsStored
<1>11. ASSUME NEW p \in Processes, p # q
       PROVE  /\ DecidedInv(p)'
              /\ p \in Consumers => ConsumerInv(p)' /\ Inserted(p)' = Inserted(p)
  BY <1>1, <1>5, <1>11, OthersKeep
<1>12. DecidedInv(q)' BY <1>4, <1>5 DEF DecidedInv
<1>13. q \in Consumers => q # Monitor BY PipelineAssumption
<1>14. ASSUME q \in Consumers PROVE ConsumerInv(q)' /\ Inserted(q)' = {}
  <2>1. Inserted(q)' = {} BY <1>4, <1>5, <1>13, <1>14 DEF Inserted
  <2>2. Current(q)' = Current(q) BY <1>1 DEF Current
  <2>3. PICK bar : bar = Bar(Current(q)) /\ bar = Bar(Current(q))' BY <1>9, <2>2 DEF Bar
  <2>4. bar \in DOMAIN stored' /\ hand'[q] # <<>> BY <1>1, <1>6, <1>7, <1>14, <2>3
  <2>5. tx'[q].step = "committed" /\ ~ tx'[q].inTurn BY <1>4, <1>5, <1>13, <1>14
  <2> QED BY <2>1, <2>3, <2>4, <2>5 DEF ConsumerInv
<1>15. \A p \in Processes : DecidedInv(p)' BY <1>11, <1>12
<1>16. \A c \in Consumers : ConsumerInv(c)' BY <1>11, <1>14 DEF Processes
<1>17. MonitorInv'
  <2>1. CASE q = Monitor BY <1>4, <1>5, <2>1 DEF MonitorInv
  <2>2. CASE q # Monitor BY <1>5, <2>2 DEF PipelineInv, MonitorInv, Processes
  <2> QED BY <2>1, <2>2
<1>18. InsertedOnce'
  <2> SUFFICES ASSUME NEW c \in Consumers, NEW d \in Consumers, c # d
               PROVE  Inserted(c)' \cap Inserted(d)' = {}
    BY DEF InsertedOnce
  <2>1. \A e \in Consumers \ {q} : Inserted(e)' = Inserted(e) BY <1>11 DEF Processes
  <2>2. CASE c = q BY <1>14, <2>2
  <2>3. CASE d = q BY <1>14, <2>3
  <2>4. CASE c # q /\ d # q BY <2>1, <2>4 DEF PipelineInv, InsertedOnce
  <2> QED BY <2>2, <2>3, <2>4
<1>19. AlertsFollow' /\ MetricsInv' BY CommitWrites
<1>20. \A i \in orderly' : TurnInv(i)' BY CommitTurns
<1> QED BY <1>8, <1>10, <1>15, <1>16, <1>17, <1>18, <1>19, <1>20 DEF PipelineInv

\* Nothing is stored but the old bars, and nobody has begun.
LEMMA PipelineStarts == AlertInit => PipelineInv
<1> SUFFICES ASSUME AlertInit PROVE PipelineInv OBVIOUS
<1>1. PICK none : none = <<>> OBVIOUS
<1>2. DOMAIN none = {} BY <1>1
<1>3. /\ log \in Feeds /\ delivered = 0 /\ acked = {} /\ hand = [c \in Consumers |-> none]
      /\ tx = [p \in Processes |-> Idle] /\ stored = [b \in OldBars |-> 0] /\ thesis \in Theses
      /\ alerts = none /\ metrics = none /\ outbox = {} /\ explained = none
      /\ orderly = {} /\ crashes = 0
  BY <1>1 DEF AlertInit
<1>4. Idle \in TxRow /\ Idle.step = "idle" /\ Idle.alert = {} /\ ~ Idle.inTurn BY DEF Idle, TxRow
<1>5. log \in Seq(Contents) BY <1>3, PipelineAssumption
<1>6. Len(log) \in Nat BY <1>5
<1>7. RowsTyped
  <2>1. none \in Seq(1..delivered) BY <1>1
  <2>2. hand \in [Consumers -> Seq(1..delivered)] BY <1>3, <2>1
  <2>3. \A b \in DOMAIN stored : b \in AllBars /\ stored[b] \in 0..Len(log)
    BY <1>3, <1>6 DEF AllBars
  <2>4. IsFiniteSet(DOMAIN stored) BY <1>3, PipelineAssumption
  <2>5. crashes \in 0..MaxCrashes BY <1>3, PipelineAssumption
  <2> QED BY <1>3, <1>4, <1>6, <2>2, <2>3, <2>4, <2>5 DEF RowsTyped
<1>8. AcknowledgedIsStored BY <1>3 DEF AcknowledgedIsStored
<1>9. \A p \in Processes : tx[p] = Idle BY <1>3
<1>10. \A p \in Processes : DecidedInv(p) BY <1>4, <1>9 DEF DecidedInv
<1>11. \A c \in Consumers : ConsumerInv(c) BY <1>4, <1>9 DEF ConsumerInv, Processes
<1>12. MonitorInv BY <1>4, <1>9 DEF MonitorInv, Processes
<1>13. InsertedOnce
  <2>1. \A c \in Consumers : Inserted(c) = {} BY <1>4, <1>9 DEF Inserted, Processes
  <2> QED BY <2>1 DEF InsertedOnce
<1>14. AlertsFollow /\ MetricsInv BY <1>2, <1>3 DEF AlertsFollow, MetricsInv
<1> QED BY <1>3, <1>7, <1>8, <1>10, <1>11, <1>12, <1>13, <1>14 DEF PipelineInv

\* Every step keeps what the pipeline rests on.
LEMMA PipelineGoesOn == PipelineInv /\ [AlertNext]_alertVars => PipelineInv'
<1> SUFFICES ASSUME PipelineInv, [AlertNext]_alertVars PROVE PipelineInv' OBVIOUS
<1>1. ASSUME NEW c \in Consumers, Claim(c) \/ ReadNew(c) \/ Work(c) \/ WorkerDies(c) PROVE PipelineInv'
  <2>1. c \in Processes BY DEF Processes
  <2> QED
    BY <1>1, <2>1, ClaimKeeps, ReadNewKeeps, LookKeeps, InsertKeeps, DecideKeeps, PersistKeeps,
       CommitKeeps, AckKeeps, DiesKeeps
    DEF Work
<1>2. CASE (\E i \in DOMAIN log : MonitorDecide(Bar(i).minute)) \/ PersistAlert(Monitor)
  BY <1>2, MonitorKeeps
<1>3. CASE Commit(Monitor) BY <1>3, CommitKeeps DEF Processes
<1>4. CASE UNCHANGED alertVars
  <2>1. /\ UNCHANGED <<log, delivered, acked, hand, tx, stored, alerts, metrics, outbox, explained>>
        /\ UNCHANGED <<thesis, orderly, crashes>>
    BY <1>4 DEF alertVars, stream, tables
  <2>2. Monitor \in Processes /\ Monitor \notin Consumers BY PipelineAssumption DEF Processes
  <2>3. RowsTyped /\ MonitorInv /\ \A i \in acked : Bar(i) \in DOMAIN stored
    BY DEF PipelineInv, AcknowledgedIsStored
  <2>4. DecidedInv(Monitor)' BY <2>1, <2>2, OthersStay
  <2>5. MonitorInv' BY <2>1, <2>3 DEF MonitorInv
  <2>6. /\ delivered' \in delivered..Len(log) /\ acked \subseteq acked' /\ acked' \subseteq 1..delivered'
        /\ crashes' \in 0..MaxCrashes /\ tx' \in [Processes -> TxRow]
        /\ hand' \in [Consumers -> Seq(1..delivered')]
    BY <2>1, <2>3, LogTyped DEF RowsTyped
  <2> QED BY <2>1, <2>2, <2>3, <2>4, <2>5, <2>6, QuietStep
<1> QED BY <1>1, <1>2, <1>3, <1>4 DEF AlertNext

\* The invariant gives the types, and that what is acknowledged is stored.
LEMMA PipelineInvSound == PipelineInv => PipelineSound
<1> SUFFICES ASSUME PipelineInv PROVE PipelineSound OBVIOUS
<1>1. RowsTyped /\ AcknowledgedIsStored /\ \A p \in Processes : DecidedInv(p) BY DEF PipelineInv
<1>2. \A p \in Processes : tx[p] \in TxRow BY <1>1 DEF RowsTyped
<1>3. ASSUME NEW p \in Processes PROVE Cardinality(tx[p].alert) <= 1
  <2>1. PICK S : S = tx[p].alert OBVIOUS
  <2>2. \A a, b \in S : a = b BY <1>1, <2>1 DEF DecidedInv
  <2>3. CASE S = {} BY <2>1, <2>3, FS_EmptySet
  <2>4. CASE S # {}
    <3>1. PICK a : S = {a} BY <2>2, <2>4
    <3>2. Cardinality({a}) = 1 BY FS_Singleton
    <3> QED BY <2>1, <3>1, <3>2
  <2> QED BY <2>3, <2>4
<1>4. \A p \in Processes :
        /\ tx[p].step \in {"idle", "looked", "persisted", "decided", "alerted", "committed"}
        /\ tx[p].outcome \in {"NEW", "DUPLICATE", "OUT_OF_ORDER"}
        /\ tx[p].alert \subseteq Alert
  BY <1>2 DEF TxRow
<1>5. \A c \in Consumers : hand[c] \in Seq(1..delivered) BY <1>1 DEF RowsTyped
<1>6. AlertTypeOK BY <1>1, <1>3, <1>4, <1>5 DEF RowsTyped, AlertTypeOK
<1> QED BY <1>1, <1>6 DEF PipelineSound

\* Always, the types hold, and a message that the group will not deliver again has
\* its bar in the table.
THEOREM PipelineIsSound == AlertSpec => []PipelineSound
<1>1. AlertSpec => []PipelineInv BY PipelineStarts, PipelineGoesOn, PTL DEF AlertSpec
<1> QED BY <1>1, PipelineInvSound, PTL

\* Always, every alert follows from bars and a thesis that were there when it was
\* decided, and a message that was decided on in its turn has the alert that the
\* same evaluation finds on today's table.
THEOREM AlertsDoAgree == AlertSpec => []AlertsAgree
<1>1. AlertSpec => []PipelineInv BY PipelineStarts, PipelineGoesOn, PTL DEF AlertSpec
<1>2. PipelineInv => AlertsAgree BY DEF PipelineInv, TurnInv, AlertsAgree, ReplayAgrees
<1> QED BY <1>1, <1>2, PTL

\* No step changes what an alert says, or how it was explained.
THEOREM AlertsAreFinal == AlertSpec => AlertIsFinal
<1>1. AlertSpec => []PipelineInv BY PipelineStarts, PipelineGoesOn, PTL DEF AlertSpec
<1>2. ASSUME PipelineInv, [AlertNext]_alertVars
      PROVE  [\A k \in DOMAIN alerts : /\ k \in DOMAIN alerts' /\ alerts'[k] = alerts[k]
                                       /\ explained'[k] = explained[k]]_alertVars
  <2>1. CASE \E q \in Processes : Commit(q)
    <3>1. PICK q \in Processes : Commit(q) BY <2>1
    <3>2. /\ DOMAIN alerts \subseteq DOMAIN alerts'
          /\ \A k \in DOMAIN alerts : alerts'[k] = alerts[k] /\ explained'[k] = explained[k]
      BY <1>2, <3>1, CommitWrites
    <3> QED BY <3>2
  <2>2. CASE alerts' = alerts /\ explained' = explained BY <2>2
  <2>3. (\E q \in Processes : Commit(q)) \/ (alerts' = alerts /\ explained' = explained)
    BY <1>2
    DEF AlertNext, Work, Claim, ReadNew, Look, Insert, Decide, PersistAlert, Ack, WorkerDies,
        MonitorDecide, alertVars, tables, Processes
  <2> QED BY <2>1, <2>2, <2>3
<1> QED BY <1>1, <1>2, PTL DEF AlertSpec, AlertIsFinal

-----------------------------------------------------------------------------
(* The paper portfolio: sums. *)

\* Among finite sets there is one none of whose proper subsets is among them.
LEMMA SmallestSet ==
  ASSUME NEW C, C # {}, \A A \in C : IsFiniteSet(A)
  PROVE  \E A \in C : \A B \in C : ~ (B \subseteq A /\ B # A)
<1> DEFINE Z == UNION C
<1>1. \A A \in C : A \in SUBSET Z OBVIOUS
<1>2. C \subseteq FiniteSubsetsOf(Z) BY <1>1 DEF FiniteSubsetsOf
<1>3. IsWellFoundedOn(StrictSubsetOrdering(Z), FiniteSubsetsOf(Z))
  BY FS_StrictSubsetOrderingWellFounded
<1>4. PICK A \in C : \A B \in C : ~ (<<B, A>> \in StrictSubsetOrdering(Z))
  <2> HIDE DEF Z
  <2> QED BY <1>2, <1>3, WFMin
<1>5. \A B \in C : B \subseteq A /\ B # A => <<B, A>> \in StrictSubsetOrdering(Z)
  BY <1>1 DEF StrictSubsetOrdering
<1>6. \A B \in C : ~ (B \subseteq A /\ B # A) BY <1>4, <1>5
<1> QED BY <1>6

\* What the sum of w over Z is defined by.
Sums(s, w, Z) ==
  s = [A \in SUBSET Z |->
         IF A = {} THEN 0 ELSE w[CHOOSE x \in A : TRUE] + s[A \ {CHOOSE x \in A : TRUE}]]

\* What the definition of a sum comes to.
LEMMA SumIs ==
  ASSUME NEW w, NEW Z
  PROVE  SumFunctionOnSet(w, Z) = (CHOOSE s : Sums(s, w, Z))[Z]
BY DEF SumFunctionOnSet, FoldFunctionOnSet, MapThenFoldSet, Sums

\* The sum over a finite set is that over the set without its chosen element, and
\* that element's part.
Splits(w, A) ==
  SumFunctionOnSet(w, A) =
    IF A = {} THEN 0
    ELSE w[CHOOSE x \in A : TRUE] + SumFunctionOnSet(w, A \ {CHOOSE x \in A : TRUE})

\* Every finite set splits off its chosen element.
LEMMA SumSplits ==
  ASSUME NEW w, NEW Z, IsFiniteSet(Z)
  PROVE  Splits(w, Z)
<1> DEFINE C == {A \in SUBSET Z : ~ Splits(w, A)}
<1> SUFFICES ASSUME C # {} PROVE FALSE
  <2>1. Z \in SUBSET Z OBVIOUS
  <2> HIDE DEF C
  <2> QED BY <2>1 DEF C
<1>1. \A A \in C : IsFiniteSet(A)
  BY FS_Subset
<1>2. PICK A \in C : \A B \in C : ~ (B \subseteq A /\ B # A)
  <2> HIDE DEF C
  <2> QED BY <1>1, SmallestSet
<1>3. \A B \in SUBSET A : B # A => Splits(w, B)
  <2>1. \A B \in SUBSET A : B \in SUBSET Z BY <1>2
  <2> QED BY <1>2, <2>1
<1>4. \E s : Sums(s, w, A)
  <2> DEFINE F(B) == SumFunctionOnSet(w, B)
             G(B) == IF B = {} THEN 0
                     ELSE w[CHOOSE x \in B : TRUE] + F(B \ {CHOOSE x \in B : TRUE})
  <2>1. PICK s : s = [B \in SUBSET A |-> G(B)] OBVIOUS
  <2>2. \A B \in SUBSET A : s[B] = G(B) BY <2>1
  <2>3. \A B \in SUBSET A : B # A => F(B) = G(B) BY <1>3 DEF Splits
  <2>4. ASSUME NEW B \in SUBSET A, B # {}, NEW x \in B
        PROVE  s[B \ {x}] = F(B \ {x})
    <3>1. PICK D : D = B \ {x} OBVIOUS
    <3>2. D \in SUBSET A /\ D # A BY <3>1
    <3> HIDE DEF F, G
    <3> QED BY <2>2, <2>3, <3>1, <3>2
  <2>5. ASSUME NEW B \in SUBSET A
        PROVE  G(B) = IF B = {} THEN 0
                      ELSE w[CHOOSE x \in B : TRUE] + s[B \ {CHOOSE x \in B : TRUE}]
    <3>1. CASE B = {} BY <3>1
    <3>2. CASE B # {}
      <4>1. PICK x : x = CHOOSE y \in B : TRUE OBVIOUS
      <4>2. x \in B BY <3>2, <4>1
      <4>3. s[B \ {x}] = F(B \ {x}) BY <2>4, <3>2, <4>2
      <4> QED BY <3>2, <4>1, <4>3
    <3> QED BY <3>1, <3>2
  <2> HIDE DEF G
  <2>6. Sums(s, w, A) BY <2>1, <2>5 DEF Sums
  <2> QED BY <2>6
<1>5. PICK s : s = CHOOSE t : Sums(t, w, A) OBVIOUS
<1>6. Sums(s, w, A) BY <1>4, <1>5
<1>7. \A B \in SUBSET A : s[B] = IF B = {} THEN 0
                          ELSE w[CHOOSE x \in B : TRUE] + s[B \ {CHOOSE x \in B : TRUE}]
  BY <1>6 DEF Sums
<1>8. SumFunctionOnSet(w, A) = s[A] BY <1>5, SumIs
<1>9. \A B \in SUBSET A : B # A => s[B] = SumFunctionOnSet(w, B)
  <2> DEFINE E == {B \in SUBSET A : B # A /\ s[B] # SumFunctionOnSet(w, B)}
  <2> SUFFICES ASSUME E # {} PROVE FALSE OBVIOUS
  <2>1. \A B \in E : IsFiniteSet(B)
    <3>1. A \in SUBSET Z /\ IsFiniteSet(A) BY <1>1, <1>2
    <3> QED BY <3>1, FS_Subset
  <2>2. PICK B \in E : \A D \in E : ~ (D \subseteq B /\ D # B)
    <3> HIDE DEF E
    <3> QED BY <2>1, SmallestSet
  <2>3. B # {} BY <1>3, <1>7, <2>2 DEF Splits
  <2>4. PICK x : x = CHOOSE y \in B : TRUE OBVIOUS
  <2>5. x \in B BY <2>3, <2>4
  <2>6. s[B \ {x}] = SumFunctionOnSet(w, B \ {x})
    <3>1. B \ {x} \in SUBSET A /\ B \ {x} # A /\ B \ {x} # B BY <2>5
    <3> QED BY <2>2, <3>1
  <2>7. s[B] = w[x] + s[B \ {x}] BY <1>7, <2>3, <2>4
  <2>8. SumFunctionOnSet(w, B) = w[x] + SumFunctionOnSet(w, B \ {x})
    BY <1>3, <2>2, <2>3, <2>4 DEF Splits
  <2> QED BY <2>2, <2>6, <2>7, <2>8
<1>10. Splits(w, A)
  <2>1. CASE A = {} BY <1>7, <1>8, <2>1 DEF Splits
  <2>2. CASE A # {}
    <3>1. PICK x : x = CHOOSE y \in A : TRUE OBVIOUS
    <3>2. x \in A BY <2>2, <3>1
    <3>3. s[A \ {x}] = SumFunctionOnSet(w, A \ {x})
      <4>1. A \ {x} \in SUBSET A /\ A \ {x} # A BY <3>2
      <4> QED BY <1>9, <4>1
    <3> QED BY <1>7, <1>8, <2>2, <3>1, <3>3 DEF Splits
  <2> QED BY <2>1, <2>2
<1> QED BY <1>2, <1>10

\* The sum of integers is one; of none it is 0.
LEMMA SumType ==
  ASSUME NEW w, NEW Z, IsFiniteSet(Z), \A x \in Z : w[x] \in Int
  PROVE  /\ SumFunctionOnSet(w, Z) \in Int
         /\ SumFunctionOnSet(w, {}) = 0
<1> DEFINE C == {A \in SUBSET Z : SumFunctionOnSet(w, A) \notin Int}
<1>1. C = {}
  <2> SUFFICES ASSUME C # {} PROVE FALSE OBVIOUS
  <2>1. \A A \in C : IsFiniteSet(A)
    BY FS_Subset
  <2>2. PICK A \in C : \A B \in C : ~ (B \subseteq A /\ B # A)
    <3> HIDE DEF C
    <3> QED BY <2>1, SmallestSet
  <2>3. Splits(w, A) BY <2>1, <2>2, SumSplits
  <2>4. A # {} BY <2>2, <2>3 DEF Splits
  <2>5. PICK x : x = CHOOSE y \in A : TRUE OBVIOUS
  <2>6. x \in A BY <2>4, <2>5
  <2>7. SumFunctionOnSet(w, A \ {x}) \in Int BY <2>2, <2>6
  <2>8. w[x] \in Int BY <2>2, <2>6
  <2> QED BY <2>2, <2>3, <2>4, <2>5, <2>7, <2>8 DEF Splits
<1>2. Splits(w, {}) BY FS_EmptySet, SumSplits
<1> QED BY <1>1, <1>2 DEF Splits

\* Any element's part can be taken out of a sum.
LEMMA SumRemoves ==
  ASSUME NEW w, NEW Z, IsFiniteSet(Z), \A x \in Z : w[x] \in Int
  PROVE  \A z \in Z : SumFunctionOnSet(w, Z) = w[z] + SumFunctionOnSet(w, Z \ {z})
<1> DEFINE F(A) == SumFunctionOnSet(w, A)
           C == {A \in SUBSET Z : \E z \in A : F(A) # w[z] + F(A \ {z})}
<1> SUFFICES ASSUME C # {} PROVE FALSE
  <2>1. Z \in SUBSET Z OBVIOUS
  <2> QED BY <2>1
<1>1. \A A \in C : IsFiniteSet(A)
  BY FS_Subset
<1>2. PICK A \in C : \A B \in C : ~ (B \subseteq A /\ B # A)
  <2> HIDE DEF C
  <2> QED BY <1>1, SmallestSet
<1>3. PICK z \in A : F(A) # w[z] + F(A \ {z}) BY <1>2
<1>4. PICK x : x = CHOOSE y \in A : TRUE OBVIOUS
<1>5. x \in A /\ z \in A /\ A \in SUBSET Z BY <1>2, <1>3, <1>4
<1>6. F(A) = w[x] + F(A \ {x})
  <2>1. Splits(w, A) BY <1>1, <1>2, SumSplits
  <2> QED BY <1>4, <1>5, <2>1 DEF Splits
<1>7. x # z BY <1>3, <1>6
<1>8. ASSUME NEW u \in A, NEW v \in A, u # v
      PROVE  F(A \ {u}) = w[v] + F((A \ {u}) \ {v})
  <2>1. PICK B : B = A \ {u} OBVIOUS
  <2>2. B \in SUBSET Z /\ B \subseteq A /\ B # A /\ v \in B BY <1>5, <1>8, <2>1
  <2>3. B \notin C BY <1>2, <2>2
  <2>4. F(B) = w[v] + F(B \ {v}) BY <2>2, <2>3
  <2> QED BY <2>1, <2>4
<1>9. PICK B : B = (A \ {x}) \ {z} /\ B = (A \ {z}) \ {x} OBVIOUS
<1>10. w[x] \in Int /\ w[z] \in Int /\ F(B) \in Int
  <2>1. IsFiniteSet(B) /\ B \subseteq Z BY <1>1, <1>2, <1>5, <1>9, FS_Subset
  <2>2. F(B) \in Int BY <2>1, SumType
  <2> QED BY <1>5, <2>2
<1>11. F(A \ {x}) = w[z] + F(B) /\ F(A \ {z}) = w[x] + F(B)
  BY <1>5, <1>7, <1>8, <1>9
<1> QED BY <1>3, <1>6, <1>10, <1>11

\* A sum depends on the parts only.
LEMMA SumCongruence ==
  ASSUME NEW w, NEW v, NEW Z, IsFiniteSet(Z), \A x \in Z : w[x] \in Int /\ w[x] = v[x]
  PROVE  SumFunctionOnSet(w, Z) = SumFunctionOnSet(v, Z)
<1> DEFINE C == {A \in SUBSET Z : SumFunctionOnSet(w, A) # SumFunctionOnSet(v, A)}
<1> SUFFICES ASSUME C # {} PROVE FALSE
  <2>1. Z \in SUBSET Z OBVIOUS
  <2> QED BY <2>1
<1>1. \A A \in C : IsFiniteSet(A)
  BY FS_Subset
<1>2. PICK A \in C : \A B \in C : ~ (B \subseteq A /\ B # A)
  <2> HIDE DEF C
  <2> QED BY <1>1, SmallestSet
<1>3. Splits(w, A) /\ Splits(v, A) BY <1>1, <1>2, SumSplits
<1>4. A # {} BY <1>2, <1>3 DEF Splits
<1>5. PICK x : x = CHOOSE y \in A : TRUE OBVIOUS
<1>6. x \in A BY <1>4, <1>5
<1>7. w[x] = v[x] BY <1>2, <1>6
<1>8. SumFunctionOnSet(w, A \ {x}) = SumFunctionOnSet(v, A \ {x}) BY <1>2, <1>6
<1> QED BY <1>2, <1>3, <1>4, <1>5, <1>7, <1>8 DEF Splits

\* The sum over two sets that have nothing in common.
LEMMA SumUnion ==
  ASSUME NEW w, NEW Y, NEW Z, IsFiniteSet(Y), IsFiniteSet(Z), Y \cap Z = {},
         \A x \in Y \cup Z : w[x] \in Int
  PROVE  SumFunctionOnSet(w, Y \cup Z) = SumFunctionOnSet(w, Y) + SumFunctionOnSet(w, Z)
<1> DEFINE F(A) == SumFunctionOnSet(w, A)
           C == {A \in SUBSET Z : F(Y \cup A) # F(Y) + F(A)}
<1> SUFFICES ASSUME C # {} PROVE FALSE
  <2>1. Z \in SUBSET Z OBVIOUS
  <2> QED BY <2>1
<1>1. \A A \in C : IsFiniteSet(A)
  BY FS_Subset
<1>2. PICK A \in C : \A B \in C : ~ (B \subseteq A /\ B # A)
  <2> HIDE DEF C
  <2> QED BY <1>1, SmallestSet
<1>3. F(Y) \in Int /\ F({}) = 0 BY SumType
<1>4. A # {}
  <2>1. Y \cup {} = Y OBVIOUS
  <2>2. F(Y \cup {}) = F(Y) + F({}) BY <1>3, <2>1
  <2> QED BY <1>2, <2>2
<1>5. PICK x \in A : TRUE BY <1>4
<1>6. A \in SUBSET Z /\ x \in Z /\ x \notin Y BY <1>2
<1>7. PICK B : B = A \ {x} OBVIOUS
<1>8. F(Y \cup B) = F(Y) + F(B)
  <2>1. B \in SUBSET Z /\ B \subseteq A /\ B # A BY <1>6, <1>7
  <2> QED BY <1>2, <2>1
<1>9. F(A) = w[x] + F(B)
  <2>1. IsFiniteSet(A) /\ \A y \in A : w[y] \in Int BY <1>1, <1>2, <1>6
  <2> QED BY <1>7, <2>1, SumRemoves
<1>10. F(Y \cup A) = w[x] + F(Y \cup B)
  <2>1. PICK D : D = Y \cup A OBVIOUS
  <2>2. IsFiniteSet(D) BY <1>1, <1>2, <2>1, FS_Union
  <2>3. D \ {x} = Y \cup B /\ x \in D /\ \A y \in D : w[y] \in Int BY <1>6, <1>7, <2>1
  <2>4. F(D) = w[x] + F(D \ {x}) BY <2>2, <2>3, SumRemoves
  <2> QED BY <2>1, <2>3, <2>4
<1>11. w[x] \in Int /\ F(B) \in Int
  <2>1. IsFiniteSet(B) /\ B \subseteq Z BY <1>1, <1>2, <1>6, <1>7, FS_Subset
  <2>2. F(B) \in Int BY <2>1, SumType
  <2> QED BY <1>6, <2>2
<1> QED BY <1>2, <1>3, <1>8, <1>9, <1>10, <1>11

\* If no part of one sum is above that of the other, neither is the sum.
LEMMA SumMonotone ==
  ASSUME NEW w, NEW v, NEW Z, IsFiniteSet(Z),
         \A x \in Z : w[x] \in Int /\ v[x] \in Int /\ w[x] <= v[x]
  PROVE  SumFunctionOnSet(w, Z) <= SumFunctionOnSet(v, Z)
<1> DEFINE C == {A \in SUBSET Z : ~ (SumFunctionOnSet(w, A) <= SumFunctionOnSet(v, A))}
<1> SUFFICES ASSUME C # {} PROVE FALSE
  <2>1. Z \in SUBSET Z OBVIOUS
  <2> QED BY <2>1
<1>1. \A A \in C : IsFiniteSet(A)
  BY FS_Subset
<1>2. PICK A \in C : \A B \in C : ~ (B \subseteq A /\ B # A)
  <2> HIDE DEF C
  <2> QED BY <1>1, SmallestSet
<1>3. Splits(w, A) /\ Splits(v, A) BY <1>1, <1>2, SumSplits
<1>4. A # {} BY <1>2, <1>3 DEF Splits
<1>5. PICK x : x = CHOOSE y \in A : TRUE OBVIOUS
<1>6. x \in A BY <1>4, <1>5
<1>7. w[x] \in Int /\ v[x] \in Int /\ w[x] <= v[x] BY <1>2, <1>6
<1>8. SumFunctionOnSet(w, A \ {x}) <= SumFunctionOnSet(v, A \ {x}) BY <1>2, <1>6
<1>9. SumFunctionOnSet(w, A \ {x}) \in Int /\ SumFunctionOnSet(v, A \ {x}) \in Int
  <2>1. PICK B : B = A \ {x} OBVIOUS
  <2>2. IsFiniteSet(B) /\ B \subseteq Z BY <1>1, <1>2, <2>1, FS_Subset
  <2>3. SumFunctionOnSet(w, B) \in Int /\ SumFunctionOnSet(v, B) \in Int BY <2>2, SumType
  <2> QED BY <2>1, <2>3
<1>10. SumFunctionOnSet(w, A) = w[x] + SumFunctionOnSet(w, A \ {x})
  BY <1>3, <1>4, <1>5 DEF Splits
<1>11. SumFunctionOnSet(v, A) = v[x] + SumFunctionOnSet(v, A \ {x})
  BY <1>3, <1>4, <1>5 DEF Splits
<1> QED BY <1>2, <1>7, <1>8, <1>9, <1>10, <1>11

\* The values of a function are finitely many if its arguments are.
LEMMA FiniteRange ==
  ASSUME NEW f, IsFiniteSet(DOMAIN f)
  PROVE  IsFiniteSet(Range(f))
<1>1. PICK D : D = DOMAIN f OBVIOUS
<1>2. PICK g : g = [x \in D |-> f[x]] OBVIOUS
<1>3. g \in Surjection(D, Range(f)) BY <1>1, <1>2 DEF Surjection, Range
<1> QED BY <1>1, <1>3, FS_Surjection

\* The watched symbols are finitely many, each with one index.
LEMMA SymbolsFinite ==
  /\ IsFiniteSet(Listed)
  /\ Len(Symbols) \in Nat /\ DOMAIN Symbols = 1..Len(Symbols)
  /\ \A i \in DOMAIN Symbols : Symbols[i] \in Listed
  /\ \A s \in Listed : \E i \in DOMAIN Symbols : Symbols[i] = s
  /\ \A i, j \in DOMAIN Symbols : Symbols[i] = Symbols[j] => i = j
<1>1. Symbols \in Seq(Range(Symbols)) /\ IsInjective(Symbols) BY PortfolioAssumption
<1>2. Len(Symbols) \in Nat /\ DOMAIN Symbols = 1..Len(Symbols) BY <1>1
<1>3. IsFiniteSet(DOMAIN Symbols) BY <1>2, FS_Interval
<1>4. IsFiniteSet(Listed) BY <1>3, FiniteRange DEF Listed
<1> QED BY <1>1, <1>2, <1>4 DEF Listed, Range, IsInjective

\* Sums add up part by part.
LEMMA SumAdds ==
  ASSUME NEW w, NEW v, NEW u, NEW Z, IsFiniteSet(Z),
         \A x \in Z : w[x] \in Int /\ v[x] \in Int /\ u[x] = w[x] + v[x]
  PROVE  SumFunctionOnSet(u, Z) = SumFunctionOnSet(w, Z) + SumFunctionOnSet(v, Z)
<1> DEFINE F(f, A) == SumFunctionOnSet(f, A)
           C == {A \in SUBSET Z : F(u, A) # F(w, A) + F(v, A)}
<1> SUFFICES ASSUME C # {} PROVE FALSE
  <2>1. Z \in SUBSET Z OBVIOUS
  <2> QED BY <2>1
<1>1. \A A \in C : IsFiniteSet(A)
  BY FS_Subset
<1>2. PICK A \in C : \A B \in C : ~ (B \subseteq A /\ B # A)
  <2> HIDE DEF C
  <2> QED BY <1>1, SmallestSet
<1>3. Splits(w, A) /\ Splits(v, A) /\ Splits(u, A) BY <1>1, <1>2, SumSplits
<1>4. A # {} BY <1>2, <1>3 DEF Splits
<1>5. PICK x : x = CHOOSE y \in A : TRUE OBVIOUS
<1>6. x \in A BY <1>4, <1>5
<1>7. w[x] \in Int /\ v[x] \in Int /\ u[x] = w[x] + v[x] BY <1>2, <1>6
<1>8. PICK B : B = A \ {x} OBVIOUS
<1>9. F(u, B) = F(w, B) + F(v, B)
  <2>1. B \in SUBSET Z /\ B \subseteq A /\ B # A BY <1>2, <1>6, <1>8
  <2> QED BY <1>2, <2>1
<1>10. F(w, B) \in Int /\ F(v, B) \in Int
  <2>1. IsFiniteSet(B) /\ B \subseteq Z BY <1>1, <1>2, <1>8, FS_Subset
  <2> QED BY <2>1, SumType
<1>11. F(w, A) = w[x] + F(w, B) /\ F(v, A) = v[x] + F(v, B) /\ F(u, A) = u[x] + F(u, B)
  BY <1>3, <1>4, <1>5, <1>8 DEF Splits
<1>12. F(u, A) # F(w, A) + F(v, A) BY <1>2
<1> HIDE DEF F
<1> QED BY <1>7, <1>9, <1>10, <1>11, <1>12

\* A sum of zeros is zero.
LEMMA SumZero ==
  ASSUME NEW w, NEW Z, IsFiniteSet(Z), \A x \in Z : w[x] = 0
  PROVE  SumFunctionOnSet(w, Z) = 0
<1>1. \A x \in Z : w[x] \in Int /\ w[x] = w[x] + w[x] OBVIOUS
<1>2. SumFunctionOnSet(w, Z) = SumFunctionOnSet(w, Z) + SumFunctionOnSet(w, Z)
  BY <1>1, SumAdds
<1>3. PICK n \in Int : n = SumFunctionOnSet(w, Z) BY <1>1, SumType
<1>4. n = n + n BY <1>2, <1>3
<1>5. n = 0 BY <1>4
<1> QED BY <1>3, <1>5

\* A sum without a negative part is not negative.
LEMMA SumNotNegative ==
  ASSUME NEW w, NEW Z, IsFiniteSet(Z), \A x \in Z : w[x] \in Nat
  PROVE  SumFunctionOnSet(w, Z) \in Nat
<1>1. PICK z : z = [x \in Z |-> 0] OBVIOUS
<1>2. \A x \in Z : z[x] \in Int /\ w[x] \in Int /\ z[x] <= w[x] BY <1>1
<1>3. SumFunctionOnSet(z, Z) <= SumFunctionOnSet(w, Z) BY <1>2, SumMonotone
<1>4. SumFunctionOnSet(z, Z) = 0 BY <1>1, SumZero
<1>5. SumFunctionOnSet(w, Z) \in Int BY <1>2, SumType
<1> QED BY <1>3, <1>4, <1>5

\* A negated sum is the sum of the negated parts.
LEMMA SumNegates ==
  ASSUME NEW w, NEW v, NEW Z, IsFiniteSet(Z), \A x \in Z : w[x] \in Int /\ v[x] = -w[x]
  PROVE  SumFunctionOnSet(v, Z) = -SumFunctionOnSet(w, Z)
<1>1. PICK z : z = [x \in Z |-> 0] OBVIOUS
<1>2. \A x \in Z : w[x] \in Int /\ v[x] \in Int /\ z[x] = w[x] + v[x] BY <1>1
<1>3. SumFunctionOnSet(z, Z) = SumFunctionOnSet(w, Z) + SumFunctionOnSet(v, Z)
  BY <1>2, SumAdds
<1>4. SumFunctionOnSet(z, Z) = 0 BY <1>1, SumZero
<1>5. SumFunctionOnSet(w, Z) \in Int /\ SumFunctionOnSet(v, Z) \in Int BY <1>2, SumType
<1> QED BY <1>3, <1>4, <1>5

-----------------------------------------------------------------------------
\* Bars

\* What a bar is.
LEMMA BarTyped ==
  ASSUME NEW b \in Bars
  PROVE  /\ b.symbol \in Listed /\ b.event \in Times /\ b.at \in Times
         /\ b.open \in Nat /\ b.volume \in Nat /\ b.event <= b.at /\ b.open > Spread
BY PortfolioAssumption

\* The same one is the last of some revisions each time.
LEMMA LatestIs ==
  ASSUME NEW R \in SUBSET Bars, R # {}
  PROVE  Latest(R) \in R
<1> DEFINE T == {b.at : b \in R}
<1>1. T \in SUBSET Nat /\ T # {} /\ IsFiniteSet(T)
  <2>1. T \subseteq Times /\ Times \subseteq Nat BY BarTyped DEF Times
  <2>2. IsFiniteSet(Times) BY PortfolioAssumption, FS_Interval DEF Times
  <2>3. T # {} OBVIOUS
  <2> HIDE DEF T
  <2> QED BY <2>1, <2>2, <2>3, FS_Subset
<1>2. PICK n \in T : \A m \in T : m <= n
  <2> HIDE DEF T
  <2> QED BY <1>1, GreatestNatural
<1>3. \E b \in R : \A c \in R : c.at <= b.at BY <1>2
<1> QED BY <1>3 DEF Latest

\* A run observes at most one revision of a bar, and only what was there by then.
LEMMA ObservedIs ==
  ASSUME NEW seen \in Times
  PROVE  /\ Observed[seen] \in SUBSET Bars /\ IsFiniteSet(Observed[seen])
         /\ \A b \in Observed[seen] : b.at <= seen
         /\ \A b, c \in Observed[seen] : b.symbol = c.symbol /\ b.event = c.event => b = c
<1> DEFINE R(b) == {c \in Bars : c.symbol = b.symbol /\ c.event = b.event /\ c.at <= seen}
<1>1. Observed[seen] = {Latest(R(b)) : b \in {c \in Bars : c.at <= seen}} BY DEF Observed
<1>2. ASSUME NEW b \in Bars, b.at <= seen PROVE Latest(R(b)) \in R(b)
  <2>1. b \in R(b) /\ R(b) \in SUBSET Bars BY <1>2
  <2> HIDE DEF R
  <2> QED BY <2>1, LatestIs
<1>3. \A c \in Observed[seen] : /\ c \in Bars /\ c.at <= seen /\ c = Latest(R(c))
  <2> SUFFICES ASSUME NEW c \in Observed[seen]
               PROVE c \in Bars /\ c.at <= seen /\ c = Latest(R(c))
    OBVIOUS
  <2>1. PICK b \in Bars : b.at <= seen /\ c = Latest(R(b)) BY <1>1
  <2>2. c \in R(b) BY <1>2, <2>1
  <2>3. R(c) = R(b) BY <2>2
  <2> QED BY <2>1, <2>2, <2>3
<1>4. \A b, c \in Observed[seen] : b.symbol = c.symbol /\ b.event = c.event => R(b) = R(c)
  OBVIOUS
<1>5. Observed[seen] \in SUBSET Bars /\ IsFiniteSet(Observed[seen])
  BY <1>3, PortfolioAssumption, FS_Subset
<1> HIDE DEF R
<1> QED BY <1>3, <1>4, <1>5

\* A symbol with a mark has a price, which leaves something when the spread is paid.
LEMMA PriceIs ==
  ASSUME NEW in, in.seen \in Times, NEW s \in Listed, NEW t \in Times, Marks[in.seen][s][t] # {}
  PROVE  Price(in, s, t) \in Nat \ {0}
<1> PICK M : M = Marks[in.seen][s][t] OBVIOUS
<1>1. M \in SUBSET Bars BY ObservedIs DEF Marks
<1> DEFINE T == {b.event : b \in M}
<1>2. T \in SUBSET Nat /\ T # {} /\ IsFiniteSet(T)
  <2>1. T \subseteq Times /\ Times \subseteq Nat BY <1>1, BarTyped DEF Times
  <2>2. IsFiniteSet(Times) BY PortfolioAssumption, FS_Interval DEF Times
  <2>3. T # {} OBVIOUS
  <2> HIDE DEF T
  <2> QED BY <2>1, <2>2, <2>3, FS_Subset
<1>3. PICK n \in T : \A m \in T : m <= n
  <2> HIDE DEF T
  <2> QED BY <1>2, GreatestNatural
<1>4. \E b \in M : \A c \in M : c.event <= b.event BY <1>3
<1>5. PICK b : b = CHOOSE x \in M : \A c \in M : c.event <= x.event OBVIOUS
<1>6. b \in M BY <1>4, <1>5
<1>7. Price(in, s, t) = b.open BY <1>5 DEF Price
<1>8. b.open \in Nat /\ b.open > Spread /\ Spread \in Nat
  BY <1>1, <1>6, BarTyped, PortfolioAssumption
<1> QED BY <1>7, <1>8

\* The least of two numbers is the lesser.
LEMMA LesserOf ==
  ASSUME NEW m \in Int, NEW n \in Int
  PROVE  Min({m, n}) = IF m <= n THEN m ELSE n
<1> DEFINE S == {m, n}
<1>1. PICK k : k = IF m <= n THEN m ELSE n OBVIOUS
<1>2. k \in S /\ \A x \in S : k <= x BY <1>1
<1>3. Min(S) \in S /\ \A x \in S : Min(S) <= x BY <1>2 DEF Min
<1> QED BY <1>1, <1>2, <1>3

\* The bars that may fill an order are finitely many, one for each event, and all of
\* after the decision.
LEMMA EligibleIs ==
  ASSUME NEW in, in.seen \in Times, NEW s, NEW t \in Times
  PROVE  /\ Eligible(in, s, t) \in SUBSET Bars /\ IsFiniteSet(Eligible(in, s, t))
         /\ \A b \in Eligible(in, s, t) : b.symbol = s /\ b.event > t
         /\ \A b, c \in Eligible(in, s, t) : b.event = c.event => b = c
<1>1. PICK E : E = Eligible(in, s, t) OBVIOUS
<1>2. E \in SUBSET Observed[in.seen] BY <1>1 DEF Eligible
<1>3. IsFiniteSet(E) BY <1>2, ObservedIs, FS_Subset
<1> QED BY <1>1, <1>2, <1>3, ObservedIs DEF Eligible

\* What bars of different events give grows by each in turn.
LEMMA TakenGrows ==
  ASSUME NEW E \in SUBSET Bars, IsFiniteSet(E), \A b, c \in E : b.event = c.event => b = c,
         NEW n \in Nat
  PROVE  /\ Taken(E, n) \in Nat
         /\ \A b \in E : b.event = n => Taken(E, n + 1) = Taken(E, n) + b.volume
         /\ (\A b \in E : b.event # n) => Taken(E, n + 1) = Taken(E, n)
<1> DEFINE Before(m) == {c \in E : c.event < m}
<1>1. PICK w : w = [b \in E |-> b.volume] OBVIOUS
<1>2. \A b \in E : w[b] \in Nat /\ w[b] = b.volume /\ b.event \in Nat
  BY <1>1, BarTyped DEF Times
<1>3. ASSUME NEW m \in Int
      PROVE  /\ IsFiniteSet(Before(m)) /\ Taken(E, m) = SumFunctionOnSet(w, Before(m))
             /\ Before(m) \in SUBSET E
  <2>1. PICK B : B = Before(m) OBVIOUS
  <2>2. B \in SUBSET E /\ IsFiniteSet(B) BY <2>1, FS_Subset
  <2>3. PICK v : v = [b \in B |-> b.volume] OBVIOUS
  <2>4. Taken(E, m) = SumFunctionOnSet(v, B) BY <2>1, <2>3 DEF Taken, SumFunction
  <2>5. \A b \in B : v[b] \in Int /\ v[b] = w[b] BY <1>2, <2>2, <2>3
  <2>6. SumFunctionOnSet(v, B) = SumFunctionOnSet(w, B) BY <2>2, <2>5, SumCongruence
  <2> QED BY <2>1, <2>2, <2>4, <2>6
<1>4. Taken(E, n) \in Nat
  <2>1. PICK B : B = Before(n) OBVIOUS
  <2>2. IsFiniteSet(B) /\ \A b \in B : w[b] \in Nat BY <1>2, <1>3, <2>1
  <2>3. SumFunctionOnSet(w, B) \in Nat BY <2>2, SumNotNegative
  <2> QED BY <1>3, <2>1, <2>3
<1>5. ASSUME NEW b \in E, b.event = n PROVE Taken(E, n + 1) = Taken(E, n) + b.volume
  <2>1. PICK B : B = Before(n + 1) OBVIOUS
  <2>2. IsFiniteSet(B) /\ B \in SUBSET E /\ Taken(E, n + 1) = SumFunctionOnSet(w, B)
    BY <1>3, <2>1
  <2>3. b \in B BY <1>5, <2>1
  <2>4. B \ {b} = Before(n)
    <3>1. \A c \in E : c.event < n + 1 /\ c # b <=> c.event < n
      BY <1>2, <1>5
    <3> QED BY <2>1, <3>1
  <2>5. \A c \in B : w[c] \in Int BY <1>2, <2>2
  <2>6. SumFunctionOnSet(w, B) = w[b] + SumFunctionOnSet(w, B \ {b})
    BY <2>2, <2>3, <2>5, SumRemoves
  <2>7. Taken(E, n) = SumFunctionOnSet(w, B \ {b}) BY <1>3, <2>4
  <2>8. w[b] = b.volume /\ w[b] \in Nat BY <1>2
  <2> QED BY <1>4, <2>2, <2>6, <2>7, <2>8
<1>6. ASSUME \A b \in E : b.event # n PROVE Taken(E, n + 1) = Taken(E, n)
  <2>1. \A c \in E : c.event < n + 1 <=> c.event < n BY <1>2, <1>6
  <2>2. Before(n + 1) = Before(n) BY <2>1
  <2>3. n \in Int /\ n + 1 \in Int OBVIOUS
  <2> HIDE DEF Before
  <2> QED BY <1>3, <2>2, <2>3
<1> QED BY <1>4, <1>5, <1>6

FillsOf(X) == SumFunction([f \in X |-> f.quantity])

\* The fills of an order are of its run, its symbol and its side, later than the
\* decision, and never more than it.
LEMMA ExecuteIs ==
  ASSUME NEW in, in.seen \in Times, NEW t \in Times,
         NEW o, o.run \in Runs, o.symbol \in Listed, o.side \in {"BUY", "SELL"},
         o.quantity \in Nat
  PROVE  LET X == Execute(in, o, t)
         IN /\ X \in SUBSET Fill /\ IsFiniteSet(X)
            /\ \A f \in X : /\ f.run = o.run /\ f.symbol = o.symbol /\ f.side = o.side
                            /\ f.at > t
            /\ FillsOf(X) \in 0..o.quantity
<1>1. PICK E : E = Eligible(in, o.symbol, t) OBVIOUS
<1>2. /\ E \in SUBSET Bars /\ IsFiniteSet(E)
      /\ \A b \in E : b.symbol = o.symbol /\ b.event > t
      /\ \A b, c \in E : b.event = c.event => b = c
  BY <1>1, EligibleIs
<1> DEFINE Quantity(b) == Min({b.volume, Positive(o.quantity - Taken(E, b.event))})
           Fi(b) == FillAt(o, b, Quantity(b))
<1>3. PICK X : X = Execute(in, o, t) OBVIOUS
<1>4. X = {Fi(b) : b \in {c \in E : Quantity(c) > 0}} BY <1>1, <1>3 DEF Execute
<1>5. ASSUME NEW b \in E
      PROVE  /\ Taken(E, b.event) \in Nat /\ b.event \in Nat /\ b.volume \in Nat
             /\ Quantity(b) = IF b.volume <= Positive(o.quantity - Taken(E, b.event))
                              THEN b.volume ELSE Positive(o.quantity - Taken(E, b.event))
             /\ Quantity(b) \in Nat
  <2>1. b.event \in Nat /\ b.volume \in Nat BY <1>2, BarTyped DEF Times
  <2>2. Taken(E, b.event) \in Nat BY <1>2, <2>1, TakenGrows
  <2>3. Positive(o.quantity - Taken(E, b.event)) \in Nat BY <2>2 DEF Positive
  <2> QED BY <2>1, <2>2, <2>3, LesserOf
<1>6. ASSUME NEW b \in E, Quantity(b) > 0
      PROVE  /\ Fi(b) \in Fill /\ Fi(b).event = b.event /\ Fi(b).quantity = Quantity(b)
             /\ Fi(b).run = o.run /\ Fi(b).symbol = o.symbol /\ Fi(b).side = o.side
             /\ Fi(b).at > t
  <2>1. PICK q : q = Quantity(b) OBVIOUS
  <2>2. q \in Nat \ {0} BY <1>5, <1>6, <2>1
  <2>3. PICK p : p = IF o.side = "BUY" THEN b.open + Spread ELSE b.open - Spread OBVIOUS
  <2>4. b \in Bars /\ b.event > t BY <1>2
  <2>5. /\ b.event \in Times /\ b.at \in Times /\ b.open \in Nat /\ b.event <= b.at
        /\ b.open > Spread /\ Spread \in Nat
    BY <2>4, BarTyped, PortfolioAssumption
  <2>6. p \in Nat BY <2>3, <2>5
  <2>7. b.at > t BY <2>4, <2>5 DEF Times
  <2>8. Fi(b) = [run |-> o.run, symbol |-> o.symbol, side |-> o.side, quantity |-> q,
                 price |-> p, event |-> b.event, at |-> b.at]
    BY <2>1, <2>3 DEF FillAt
  <2> HIDE DEF Fi, Quantity
  <2> QED BY <2>1, <2>2, <2>5, <2>6, <2>7, <2>8 DEF Fill
<1>7. IsFiniteSet(X)
  <2>1. PICK D : D = {c \in E : Quantity(c) > 0} OBVIOUS
  <2>2. IsFiniteSet(D) BY <1>2, <2>1, FS_Subset
  <2>3. PICK g : g = [b \in D |-> Fi(b)] OBVIOUS
  <2>4. Range(g) = X BY <1>4, <2>1, <2>3 DEF Range
  <2>5. IsFiniteSet(DOMAIN g) BY <2>2, <2>3
  <2> QED BY <2>4, <2>5, FiniteRange
<1>8. \A f \in X : \E b \in E : Quantity(b) > 0 /\ f = Fi(b)
  <2> HIDE DEF Quantity, Fi
  <2> QED BY <1>4
<1>9. \A f \in X : f.quantity \in Nat /\ f.event \in 0..MaxTime
  <2> SUFFICES ASSUME NEW f \in X PROVE f.quantity \in Nat /\ f.event \in 0..MaxTime OBVIOUS
  <2>1. PICK b \in E : Quantity(b) > 0 /\ f = Fi(b) BY <1>8
  <2>2. Quantity(b) \in Nat BY <1>5
  <2>3. b \in Bars BY <1>2
  <2>4. b.event \in 0..MaxTime BY <2>3, BarTyped DEF Times
  <2> HIDE DEF Fi, Quantity
  <2> QED BY <1>6, <2>1, <2>2, <2>4
<1>10. PICK w : w = [f \in X |-> f.quantity] OBVIOUS
<1>11. \A f \in X : w[f] \in Int /\ w[f] \in Nat /\ w[f] = f.quantity BY <1>9, <1>10
<1> DEFINE P(n) == {f \in X : f.event < n}
           G(n) == SumFunctionOnSet(w, P(n))
           Holds(n) == G(n) <= o.quantity /\ G(n) <= Taken(E, n)
<1>12. ASSUME NEW n \in Nat
       PROVE  IsFiniteSet(P(n)) /\ P(n) \in SUBSET X /\ G(n) \in Nat /\ Taken(E, n) \in Nat
  <2>1. IsFiniteSet(P(n)) /\ P(n) \in SUBSET X BY <1>7, FS_Subset
  <2>2. PICK B : B = P(n) OBVIOUS
  <2>3. SumFunctionOnSet(w, B) \in Nat BY <1>11, <2>1, <2>2, SumNotNegative
  <2>4. Taken(E, n) \in Nat BY <1>2, TakenGrows
  <2> QED BY <2>1, <2>2, <2>3, <2>4
<1>13. Holds(0)
  <2>1. P(0) = {}
    <3>1. \A f \in X : ~ (f.event < 0) BY <1>9
    <3> QED BY <3>1
  <2>2. G(0) = 0
    <3>1. SumFunctionOnSet(w, {}) = 0 BY <1>7, <1>11, SumType
    <3> QED BY <2>1, <3>1
  <2>3. Taken(E, 0) \in Nat BY <1>12
  <2> QED BY <2>2, <2>3
<1>14. ASSUME NEW n \in Nat, Holds(n) PROVE Holds(n + 1)
  <2>1. CASE \E b \in E : b.event = n
    <3>1. PICK b \in E : b.event = n BY <2>1
    <3>2. PICK a \in Nat : a = Taken(E, n) BY <1>12
    <3>3. PICK k \in Nat : k = G(n) BY <1>12
    <3>4. PICK m \in Nat : m = b.volume BY <1>5
    <3>5. PICK q \in Nat : q = Quantity(b) BY <1>5
    <3>6. Taken(E, n + 1) = a + m BY <1>2, <3>1, <3>2, <3>4, TakenGrows
    <3>7. q = IF m <= Positive(o.quantity - a) THEN m ELSE Positive(o.quantity - a)
      BY <1>5, <3>1, <3>2, <3>4, <3>5
    <3>8. G(n + 1) = k + q
      <4>1. CASE q = 0
        <5>1. \A f \in X : f.event # n
          <6> SUFFICES ASSUME NEW f \in X, f.event = n PROVE FALSE OBVIOUS
          <6>1. PICK c \in E : Quantity(c) > 0 /\ f = Fi(c) BY <1>8
          <6>2. c.event = n BY <1>6, <6>1
          <6>3. c = b BY <1>2, <3>1, <6>2
          <6>4. q > 0 BY <3>5, <6>1, <6>3
          <6> QED BY <4>1, <6>4
        <5>2. \A f \in X : f.event < n + 1 <=> f.event < n BY <1>9, <5>1
        <5>3. P(n + 1) = P(n) BY <5>2
        <5>4. G(n + 1) = k BY <3>3, <5>3
        <5> HIDE DEF G
        <5> QED BY <4>1, <5>4
      <4>2. CASE q > 0
        <5>1. PICK f : f = Fi(b) OBVIOUS
        <5>2. f \in X
          <6> HIDE DEF Fi, Quantity
          <6> QED BY <1>4, <3>5, <4>2, <5>1
        <5>3. f.event = n /\ f.quantity = q
          <6>1. Quantity(b) > 0 BY <3>5, <4>2
          <6> HIDE DEF Fi, Quantity
          <6> QED BY <1>6, <3>1, <3>5, <5>1, <6>1
        <5>4. \A g \in X : g.event = n => g = f
          <6> SUFFICES ASSUME NEW g \in X, g.event = n PROVE g = f OBVIOUS
          <6>1. PICK c \in E : Quantity(c) > 0 /\ g = Fi(c) BY <1>8
          <6>2. c.event = n BY <1>6, <6>1
          <6>3. c = b BY <1>2, <3>1, <6>2
          <6> QED BY <5>1, <6>1, <6>3
        <5>5. PICK B : B = P(n + 1) OBVIOUS
        <5>6. f \in B BY <5>2, <5>3, <5>5
        <5>7. B \ {f} = P(n)
          <6>1. \A g \in X : g.event < n + 1 /\ g # f <=> g.event < n
            BY <1>9, <5>3, <5>4
          <6> QED BY <5>5, <6>1
        <5>8. IsFiniteSet(B) /\ \A g \in B : w[g] \in Int BY <1>11, <1>12, <5>5
        <5>9. SumFunctionOnSet(w, B) = w[f] + SumFunctionOnSet(w, B \ {f})
          BY <5>6, <5>8, SumRemoves
        <5>10. w[f] = q BY <1>11, <5>2, <5>3
        <5>11. G(n + 1) = q + G(n) BY <5>5, <5>7, <5>9, <5>10
        <5> HIDE DEF G
        <5> QED BY <3>3, <5>11
      <4> QED BY <4>1, <4>2
    <3>9. k <= o.quantity /\ k <= a BY <1>14, <3>2, <3>3
    <3>10. k + q <= o.quantity /\ k + q <= a + m BY <3>7, <3>9 DEF Positive
    <3> QED BY <3>6, <3>8, <3>10
  <2>2. CASE \A b \in E : b.event # n
    <3>1. Taken(E, n + 1) = Taken(E, n) BY <1>2, <2>2, TakenGrows
    <3>2. \A f \in X : f.event # n
      <4> SUFFICES ASSUME NEW f \in X, f.event = n PROVE FALSE OBVIOUS
      <4>1. PICK c \in E : Quantity(c) > 0 /\ f = Fi(c) BY <1>8
      <4>2. c.event = n BY <1>6, <4>1
      <4> QED BY <2>2, <4>2
    <3>3. \A f \in X : f.event < n + 1 <=> f.event < n BY <1>9, <3>2
    <3>4. P(n + 1) = P(n) BY <3>3
    <3> QED BY <1>14, <3>1, <3>4
  <2> QED BY <2>1, <2>2
<1>15. \A n \in Nat : Holds(n)
  <2> DEFINE S == {n \in Nat : ~ Holds(n)}
  <2> SUFFICES ASSUME S # {} PROVE FALSE OBVIOUS
  <2>1. PICK n \in S : \A m \in S : n <= m
    <3>1. S \in SUBSET Nat OBVIOUS
    <3> HIDE DEF S
    <3> QED BY <3>1, LeastNatural
  <2> HIDE DEF Holds
  <2>2. n # 0 BY <1>13, <2>1
  <2>3. n - 1 \in Nat /\ n - 1 \notin S BY <2>1, <2>2
  <2>4. Holds(n - 1) /\ (n - 1) + 1 = n BY <2>3
  <2> QED BY <1>14, <2>1, <2>3, <2>4
<1>16. FillsOf(X) \in 0..o.quantity
  <2>1. MaxTime \in Nat BY PortfolioAssumption
  <2>2. P(MaxTime + 1) = X
    <3>1. \A f \in X : f.event < MaxTime + 1 BY <1>9, <2>1
    <3> QED BY <3>1
  <2>3. Holds(MaxTime + 1) BY <1>15, <2>1
  <2>4. G(MaxTime + 1) = FillsOf(X) BY <1>10, <2>2 DEF FillsOf, SumFunction
  <2>5. G(MaxTime + 1) \in Nat
    <3>1. PICK n \in Nat : n = MaxTime + 1 BY <2>1
    <3>2. G(n) \in Nat BY <1>12
    <3> QED BY <3>1, <3>2
  <2> HIDE DEF G
  <2> QED BY <2>3, <2>4, <2>5
<1>17. \A f \in X : /\ f \in Fill /\ f.run = o.run /\ f.symbol = o.symbol /\ f.side = o.side
                    /\ f.at > t
  <2> HIDE DEF Fi, Quantity
  <2> QED BY <1>6, <1>8
<1> QED BY <1>3, <1>7, <1>16, <1>17

\* What entries and fills add up to.
LEMMA CashIs ==
  ASSUME NEW A \in SUBSET Entry, IsFiniteSet(A)
  PROVE  CashOf(A) \in Int
<1>1. PICK w : w = [e \in A |-> e.cash] OBVIOUS
<1>2. \A e \in A : w[e] \in Int BY <1>1 DEF Entry
<1>3. CashOf(A) = SumFunctionOnSet(w, A) BY <1>1 DEF CashOf, SumFunction
<1> QED BY <1>2, <1>3, SumType

\* An opening balance is an entry of the opening cash.
LEMMA FundingIs ==
  ASSUME NEW t \in Times
  PROVE  Funding(t) \in Entry /\ CashOf({Funding(t)}) = OpeningCash
<1>1. PICK e : e = Funding(t) OBVIOUS
<1>2. OpeningCash \in Nat BY PortfolioAssumption
<1>3. e.cash = OpeningCash /\ e \in Entry BY <1>1, <1>2 DEF Funding, Entry
<1>4. PICK w : w = [x \in {e} |-> x.cash] OBVIOUS
<1>5. IsFiniteSet({e}) /\ w[e] = OpeningCash BY <1>3, <1>4, FS_Singleton
<1>6. CashOf({e}) = SumFunctionOnSet(w, {e}) BY <1>4 DEF CashOf, SumFunction
<1>7. SumFunctionOnSet(w, {e}) = w[e] + SumFunctionOnSet(w, {e} \ {e})
  BY <1>2, <1>5, SumRemoves
<1>8. {e} \ {e} = {} OBVIOUS
<1>9. SumFunctionOnSet(w, {}) = 0 BY <1>2, <1>5, SumType
<1> QED BY <1>1, <1>2, <1>3, <1>5, <1>6, <1>7, <1>8, <1>9

\* The part of a fill in a position.
Signed(f) == IF f.side = "BUY" THEN f.quantity ELSE -f.quantity

\* A position is a number, and the sum of its fills' parts.
LEMMA PositionIs ==
  ASSUME NEW A \in SUBSET Fill, IsFiniteSet(A), NEW s
  PROVE  /\ Position(A, s) \in Int
         /\ \A w : (\A f \in A : f.symbol = s => w[f] = Signed(f))
              => Position(A, s) = SumFunctionOnSet(w, {f \in A : f.symbol = s})
<1>1. PICK B : B = {f \in A : f.symbol = s} OBVIOUS
<1>2. B \in SUBSET A /\ IsFiniteSet(B) BY <1>1, FS_Subset
<1>3. PICK v : v = [f \in B |-> IF f.side = "BUY" THEN f.quantity ELSE -f.quantity] OBVIOUS
<1>4. \A f \in B : v[f] = Signed(f) /\ v[f] \in Int
  BY <1>2, <1>3 DEF Signed, Fill
<1>5. Position(A, s) = SumFunctionOnSet(v, B) BY <1>1, <1>3 DEF Position, SumFunction
<1>6. ASSUME NEW w, \A f \in A : f.symbol = s => w[f] = Signed(f)
      PROVE  SumFunctionOnSet(v, B) = SumFunctionOnSet(w, B)
  <2>1. \A f \in B : v[f] \in Int /\ v[f] = w[f] BY <1>1, <1>4, <1>6
  <2> QED BY <1>2, <2>1, SumCongruence
<1>7. SumFunctionOnSet(v, B) \in Int BY <1>2, <1>4, SumType
<1> QED BY <1>1, <1>5, <1>6, <1>7

\* The positions of two sets of fills that share none add up.
LEMMA PositionUnion ==
  ASSUME NEW A \in SUBSET Fill, NEW B \in SUBSET Fill, IsFiniteSet(A), IsFiniteSet(B),
         A \cap B = {}, NEW s
  PROVE  Position(A \cup B, s) = Position(A, s) + Position(B, s)
<1>1. PICK w : w = [f \in A \cup B |-> Signed(f)] OBVIOUS
<1>2. \A f \in A \cup B : w[f] = Signed(f) /\ w[f] \in Int BY <1>1 DEF Signed, Fill
<1>3. A \cup B \in SUBSET Fill /\ IsFiniteSet(A \cup B) BY FS_Union
<1>4. PICK X, Y : X = {f \in A : f.symbol = s} /\ Y = {f \in B : f.symbol = s} OBVIOUS
<1>5. IsFiniteSet(X) /\ IsFiniteSet(Y) /\ X \subseteq A /\ Y \subseteq B BY <1>4, FS_Subset
<1>6. {f \in A \cup B : f.symbol = s} = X \cup Y BY <1>4
<1>7. X \cap Y = {} /\ \A f \in X \cup Y : w[f] \in Int BY <1>2, <1>5
<1>8. SumFunctionOnSet(w, X \cup Y) = SumFunctionOnSet(w, X) + SumFunctionOnSet(w, Y)
  BY <1>5, <1>7, SumUnion
<1>9. Position(A \cup B, s) = SumFunctionOnSet(w, X \cup Y)
  BY <1>2, <1>3, <1>6, PositionIs
<1>10. Position(A, s) = SumFunctionOnSet(w, X) /\ Position(B, s) = SumFunctionOnSet(w, Y)
  BY <1>2, <1>4, PositionIs
<1> QED BY <1>8, <1>9, <1>10

\* The position fills of one side add or take away, and that of no fill.
LEMMA PositionOfSide ==
  ASSUME NEW A \in SUBSET Fill, IsFiniteSet(A), NEW s
  PROVE  /\ (\A f \in A : f.symbol = s /\ f.side = "BUY") => Position(A, s) = FillsOf(A)
         /\ (\A f \in A : f.symbol = s /\ f.side = "SELL") => Position(A, s) = -FillsOf(A)
         /\ (\A f \in A : f.symbol # s) => Position(A, s) = 0
<1>1. PICK v, w : v = [f \in A |-> f.quantity] /\ w = [f \in A |-> Signed(f)] OBVIOUS
<1>2. \A f \in A : v[f] \in Int /\ v[f] = f.quantity /\ w[f] = Signed(f) BY <1>1 DEF Fill
<1>3. FillsOf(A) = SumFunctionOnSet(v, A) BY <1>1 DEF FillsOf, SumFunction
<1>4. ASSUME \A f \in A : f.symbol = s PROVE Position(A, s) = SumFunctionOnSet(w, A)
  <2>1. {f \in A : f.symbol = s} = A BY <1>4
  <2> QED BY <1>2, <2>1, PositionIs
<1>5. ASSUME \A f \in A : f.symbol = s /\ f.side = "BUY" PROVE Position(A, s) = FillsOf(A)
  <2>1. \A f \in A : v[f] \in Int /\ v[f] = w[f] BY <1>2, <1>5 DEF Signed
  <2>2. SumFunctionOnSet(v, A) = SumFunctionOnSet(w, A) BY <2>1, SumCongruence
  <2> QED BY <1>3, <1>4, <1>5, <2>2
<1>6. ASSUME \A f \in A : f.symbol = s /\ f.side = "SELL" PROVE Position(A, s) = -FillsOf(A)
  <2>1. \A f \in A : v[f] \in Int /\ w[f] = -v[f] BY <1>2, <1>6 DEF Signed
  <2>2. SumFunctionOnSet(w, A) = -SumFunctionOnSet(v, A) BY <2>1, SumNegates
  <2> QED BY <1>3, <1>4, <1>6, <2>2
<1>7. ASSUME \A f \in A : f.symbol # s PROVE Position(A, s) = 0
  <2>1. {f \in A : f.symbol = s} = {} BY <1>7
  <2>2. Position(A, s) = SumFunctionOnSet(w, {}) BY <1>2, <2>1, PositionIs
  <2>3. \A f \in A : w[f] \in Int BY <1>2 DEF Signed
  <2>4. SumFunctionOnSet(w, {}) = 0 BY <2>3, SumType
  <2> QED BY <2>2, <2>4
<1> QED BY <1>5, <1>6, <1>7

\* No fills, no position.
LEMMA NoPosition == \A s : Position({}, s) = 0
<1>1. IsFiniteSet({}) /\ {} \in SUBSET Fill BY FS_EmptySet
<1> QED BY <1>1, PositionOfSide

-----------------------------------------------------------------------------
\* What a run knows of the books

\* Books that are there to be read, as of t.
Readable(in, t) ==
  /\ in \in Input /\ t \in Times
  /\ IsFiniteSet(in.fills) /\ IsFiniteSet(in.ledger)

\* What a position is worth is a number, and a position held has a price.
LEMMA WorthIs ==
  ASSUME NEW in, NEW t, Readable(in, t), Valued(in, t), NEW s \in Listed
  PROVE  /\ Worth(in, s, t) \in Int
         /\ s \in Held(in.fills) => Price(in, s, t) \in Nat \ {0}
         /\ s \in Held(in.fills) <=> Position(in.fills, s) # 0
<1>1. in.seen \in Times /\ in.fills \in SUBSET Fill /\ IsFiniteSet(in.fills) /\ t \in Times
  BY DEF Readable, Input
<1>2. Position(in.fills, s) \in Int BY <1>1, PositionIs
<1>3. s \in Held(in.fills) => Price(in, s, t) \in Nat \ {0} BY <1>1, PriceIs DEF Valued
<1>4. CASE s \in Held(in.fills)
  <2>1. PICK n \in Int : n = Position(in.fills, s) BY <1>2
  <2>2. PICK p \in Nat : p = Price(in, s, t) BY <1>3, <1>4
  <2>3. n * p \in Int OBVIOUS
  <2> QED BY <1>3, <1>4, <2>1, <2>2, <2>3 DEF Worth, Held
<1>5. CASE s \notin Held(in.fills) BY <1>5 DEF Worth, Held
<1> QED BY <1>4, <1>5

\* The NAV of books that can be valued is positive, and cash and exposure make it up.
LEMMA NavIs ==
  ASSUME NEW in, NEW t, Readable(in, t), Valued(in, t)
  PROVE  /\ CashOf(in.ledger) \in Int /\ Gross(in, t) \in Int
         /\ NavOf(in, t) = CashOf(in.ledger) + Gross(in, t)
         /\ NavOf(in, t) \in Nat \ {0}
         /\ Turnover(in, t) \in Nat
<1>1. CashOf(in.ledger) \in Int BY CashIs DEF Readable, Input
<1>2. Gross(in, t) \in Int
  <2>1. PICK w : w = [s \in Listed |-> Worth(in, s, t)] OBVIOUS
  <2>2. \A s \in Listed : w[s] \in Int BY <2>1, WorthIs
  <2>3. SumFunctionOnSet(w, Listed) \in Int BY <2>2, SymbolsFinite, SumType
  <2> QED BY <2>1, <2>3 DEF Gross, SumFunction
<1>3. Turnover(in, t) \in Nat
  <2>1. PICK A : A = {g \in in.fills : g.at \div DayLength = t \div DayLength} OBVIOUS
  <2>2. IsFiniteSet(A) /\ A \in SUBSET Fill BY <2>1, FS_Subset DEF Readable, Input
  <2>3. PICK w : w = [f \in A |-> f.quantity * f.price] OBVIOUS
  <2>4. \A f \in A : w[f] \in Nat
    <3> SUFFICES ASSUME NEW f \in A PROVE w[f] \in Nat OBVIOUS
    <3>1. PICK m \in Nat : m = f.quantity BY <2>2 DEF Fill
    <3>2. PICK n \in Nat : n = f.price BY <2>2 DEF Fill
    <3>3. m * n \in Nat OBVIOUS
    <3> QED BY <2>3, <3>1, <3>2, <3>3
  <2>5. SumFunctionOnSet(w, A) \in Nat BY <2>2, <2>4, SumNotNegative
  <2> QED BY <2>1, <2>3, <2>5 DEF Turnover, SumFunction
<1>4. NavOf(in, t) > 0 BY DEF Valued
<1> QED BY <1>1, <1>2, <1>3, <1>4 DEF NavOf

\* The least of the amounts a position is cut to, and the greater of two.
LEMMA LeastOfFive ==
  ASSUME NEW a \in Int, NEW b \in Int, NEW c \in Int, NEW d \in Int, NEW e \in Int
  PROVE  LET m == Min({a, b, c, d, e})
         IN /\ m \in {a, b, c, d, e}
            /\ m <= a /\ m <= b /\ m <= c /\ m <= d /\ m <= e
<1>1. PICK x : x = IF a <= b THEN a ELSE b OBVIOUS
<1>2. PICK y : y = IF x <= c THEN x ELSE c OBVIOUS
<1>3. PICK z : z = IF y <= d THEN y ELSE d OBVIOUS
<1>4. PICK k : k = IF z <= e THEN z ELSE e OBVIOUS
<1>5. PICK S : S = {a, b, c, d, e} OBVIOUS
<1>6. k \in S /\ \A n \in S : k <= n BY <1>1, <1>2, <1>3, <1>4, <1>5
<1>7. Min(S) \in S /\ \A n \in S : Min(S) <= n BY <1>6 DEF Min
<1> QED BY <1>5, <1>7

\* The greatest of two numbers is the greater.
LEMMA GreaterOf ==
  ASSUME NEW m \in Int, NEW n \in Int
  PROVE  Max({m, n}) = IF m >= n THEN m ELSE n
<1> DEFINE S == {m, n}
<1>1. PICK k : k = IF m >= n THEN m ELSE n OBVIOUS
<1>2. k \in S /\ \A x \in S : k >= x BY <1>1
<1>3. Max(S) \in S /\ \A x \in S : Max(S) >= x BY <1>2 DEF Max
<1> QED BY <1>1, <1>2, <1>3

\* The shares an amount buys.
LEMMA Division ==
  ASSUME NEW a \in Nat, NEW p \in Nat \ {0}
  PROVE  /\ a \div p \in Nat /\ (a \div p) * p <= a /\ a <= (a \div p) * p + p - 1
         /\ \A n \in Nat : a <= n * p => a \div p <= n
<1>1. PICK q : q = a \div p OBVIOUS
<1>2. q \in Nat /\ q * p <= a /\ a < q * p + p BY <1>1
<1>3. ASSUME NEW n \in Nat, a <= n * p, q > n PROVE FALSE
  <2>1. PICK k \in Nat : q = n + 1 + k
    <3>1. q - n - 1 \in Nat /\ q = n + 1 + (q - n - 1) BY <1>2, <1>3
    <3> QED BY <3>1
  <2>2. q * p = n * p + p + k * p /\ k * p \in Nat /\ n * p \in Nat BY <2>1
  <2> QED BY <1>2, <1>3, <2>2
<1>4. q * p \in Nat BY <1>2
<1> QED BY <1>1, <1>2, <1>3, <1>4

\* A share of the NAV is an amount.
LEMMA ShareIs ==
  ASSUME NEW w \in Nat, NEW nav \in Nat
  PROVE  Share(w, nav) \in Nat
<1>1. w * nav \in Nat OBVIOUS
<1>2. WeightUnit \in Nat \ {0} BY RiskPolicyAssumption
<1> QED BY <1>1, <1>2, Division DEF Share

\* Every limit of the policy is an amount.
LEMMA LimitIs ==
  ASSUME NEW nav \in Nat
  PROVE  /\ Share(MaxPosition, nav) \in Nat /\ Share(MaxGross, nav) \in Nat
         /\ Share(MinReserve, nav) \in Nat /\ Share(MaxTurnover, nav) \in Nat
<1>1. {MaxPosition, MaxGross, MinReserve, MaxTurnover} \subseteq Nat
  BY RiskPolicyAssumption
<1> QED BY <1>1, ShareIs

-----------------------------------------------------------------------------
\* The gateway

Proposed(p) ==
  p.current \in Int /\ p.current >= 0 /\ p.target \in Int /\ p.target >= 0

Roomy(room) == room.cash \in Int /\ room.gross \in Int /\ room.turnover \in Nat

\* What the gateway makes of a proposal: a position that grows stays within every
\* limit; one that is reduced stays one, and is reduced by no more than the turnover
\* allows unless it was above its limit and should have grown.
LEMMA DecidedIs ==
  ASSUME NEW p, NEW room, NEW nav \in Nat, Proposed(p), Roomy(room)
  PROVE  LET a == Decided(p, room, nav)
         IN /\ a \in Nat
            /\ a # p.current => ~p.blocked
            /\ a > p.current =>
                 /\ a <= Share(MaxPosition, nav)
                 /\ a - p.current <= Positive(Share(MaxGross, nav) - room.gross)
                 /\ a - p.current <= Positive(room.cash - Share(MinReserve, nav))
                 /\ a - p.current <= room.turnover
            /\ a < p.current =>
                 \/ p.target > p.current
                 \/ p.target < p.current /\ p.current - a <= room.turnover
<1>1. PICK a : a = Decided(p, room, nav) OBVIOUS
<1>2. PICK c : c = Clipped(p, room, nav) OBVIOUS
<1>3. a = IF Refused(p, c) THEN p.current ELSE c BY <1>1, <1>2 DEF Decided
<1>4. PICK x \in Nat, y \in Nat : x = p.current /\ y = p.target BY DEF Proposed
<1>5. PICK m \in Nat : m = Share(MaxPosition, nav) BY LimitIs
<1>6. PICK g \in Nat : g = Positive(Share(MaxGross, nav) - room.gross)
  BY LimitIs DEF Positive, Roomy
<1>7. PICK r \in Nat : r = Positive(room.cash - Share(MinReserve, nav))
  BY LimitIs DEF Positive, Roomy
<1>8. PICK t \in Nat : t = room.turnover BY DEF Roomy
<1>9. CASE y > x
  <2>1. c = Min({y, m, x + g, x + r, x + t})
    BY <1>2, <1>4, <1>5, <1>6, <1>7, <1>8, <1>9 DEF Clipped
  <2>2. c \in {y, m, x + g, x + r, x + t} /\ c <= m /\ c <= x + g /\ c <= x + r /\ c <= x + t
    <3>1. PICK gg \in Int, rr \in Int, tt \in Int : gg = x + g /\ rr = x + r /\ tt = x + t
      OBVIOUS
    <3>2. x \in Int /\ y \in Int /\ m \in Int OBVIOUS
    <3>3. c = Min({y, m, gg, rr, tt}) BY <2>1, <3>1
    <3>4. c \in {y, m, gg, rr, tt} /\ c <= m /\ c <= gg /\ c <= rr /\ c <= tt
      BY <3>2, <3>3, LeastOfFive
    <3> QED BY <3>1, <3>4
  <2>3. c \in Nat BY <2>2
  <2> QED BY <1>1, <1>3, <1>4, <1>5, <1>6, <1>7, <1>8, <1>9, <2>2, <2>3 DEF Refused
<1>10. CASE ~ (y > x)
  <2>1. c = Max({y, Positive(x - t)})
    BY <1>2, <1>4, <1>8, <1>10 DEF Clipped
  <2>2. PICK k \in Nat : k = Positive(x - t) BY DEF Positive
  <2>3. c = IF y >= k THEN y ELSE k BY <2>1, <2>2, GreaterOf
  <2>4. k <= x /\ x - k <= t BY <2>2 DEF Positive
  <2>5. c \in Nat /\ c <= x /\ x - c <= t /\ (y = x => c = x) BY <1>10, <2>3, <2>4
  <2> QED BY <1>1, <1>3, <1>4, <1>8, <1>10, <2>5 DEF Refused
<1> QED BY <1>9, <1>10

\* A proposal takes from the cash, the exposure and the turnover what it changes.
LEMMA RemainingIs ==
  ASSUME NEW p, NEW room, NEW nav \in Nat, Proposed(p), Roomy(room)
  PROVE  LET delta == Decided(p, room, nav) - p.current
             left == Remaining(p, room, nav)
         IN /\ Roomy(left)
            /\ left.cash = room.cash - delta /\ left.gross = room.gross + delta
            /\ left.turnover = Positive(room.turnover - Distance(delta, 0))
<1>1. Decided(p, room, nav) \in Nat BY DecidedIs
<1>2. PICK n \in Int : n = Decided(p, room, nav) - p.current BY <1>1 DEF Proposed
<1>3. Remaining(p, room, nav) =
        [cash |-> room.cash - n, gross |-> room.gross + n,
         turnover |-> Positive(room.turnover - Distance(n, 0))]
  BY <1>2 DEF Remaining
<1>4. Positive(room.turnover - Distance(n, 0)) \in Nat BY DEF Positive, Distance, Roomy
<1> QED BY <1>2, <1>3, <1>4 DEF Roomy

\* What is left before and after each proposal.
Rooms(room, proposals, start, nav) ==
  room = [i \in 0..Len(proposals) |->
            IF i = 0 THEN start ELSE Remaining(proposals[i], room[i - 1], nav)]

\* What is left after each proposal is well defined.
LEMMA RoomsExist ==
  ASSUME NEW proposals, Len(proposals) \in Nat, NEW start, NEW nav
  PROVE  \E room : Rooms(room, proposals, start, nav)
<1> DEFINE R(f, n) == f = [i \in 0..n |-> IF i = 0 THEN start
                                          ELSE Remaining(proposals[i], f[i - 1], nav)]
           S == {n \in Nat : ~ \E f : R(f, n)}
<1> SUFFICES ASSUME S # {} PROVE FALSE
  <2> HIDE DEF R
  <2>1. \E f : R(f, Len(proposals)) OBVIOUS
  <2> QED BY <2>1 DEF Rooms, R
<1>1. PICK n \in S : \A m \in S : n <= m
  <2>1. S \in SUBSET Nat OBVIOUS
  <2> HIDE DEF S
  <2> QED BY <2>1, LeastNatural
<1>2. n # 0
  <2>1. PICK f : f = [i \in 0..0 |-> start] OBVIOUS
  <2>2. \A i \in 0..0 : i = 0 OBVIOUS
  <2>3. R(f, 0) BY <2>1, <2>2
  <2> QED BY <2>3
<1>3. PICK m \in Nat : n = m + 1
  <2>1. n - 1 \in Nat /\ n = (n - 1) + 1 BY <1>2
  <2> QED BY <2>1
<1>4. PICK f : R(f, m)
  <2>1. ~ (n <= m) BY <1>3
  <2>2. m \notin S
    <3> HIDE DEF S
    <3> QED BY <1>1, <2>1
  <2> HIDE DEF R
  <2> QED BY <2>2
<1>5. PICK g : g = [i \in 0..n |-> IF i = n THEN Remaining(proposals[n], f[m], nav) ELSE f[i]]
  OBVIOUS
<1>6. \A i \in 0..n : g[i] = IF i = n THEN Remaining(proposals[n], f[m], nav) ELSE f[i]
  BY <1>5
<1>7. \A i \in 0..n : g[i] = IF i = 0 THEN start ELSE Remaining(proposals[i], g[i - 1], nav)
  <2> SUFFICES ASSUME NEW i \in 0..n
               PROVE  g[i] = IF i = 0 THEN start ELSE Remaining(proposals[i], g[i - 1], nav)
    OBVIOUS
  <2>1. CASE i = n
    <3>1. i - 1 = m /\ m \in 0..n /\ m # n BY <1>3, <2>1
    <3> QED BY <1>2, <1>6, <2>1, <3>1
  <2>2. CASE i # n
    <3>1. i \in 0..m BY <1>3, <2>2
    <3>2. f[i] = IF i = 0 THEN start ELSE Remaining(proposals[i], f[i - 1], nav)
      BY <1>4, <3>1
    <3>3. i # 0 => i - 1 \in 0..n /\ i - 1 # n BY <1>3, <3>1
    <3> QED BY <1>6, <2>2, <3>2, <3>3
  <2> QED BY <2>1, <2>2
<1>8. R(g, n) BY <1>5, <1>7
<1> QED BY <1>1, <1>8

\* The gateway decides proposal after proposal, each with what is left by those before.
Walk(room, proposals, start, nav) ==
  /\ room[0] = start
  /\ \A i \in 0..Len(proposals) : Roomy(room[i])
  /\ \A i \in 1..Len(proposals) :
       /\ room[i] = Remaining(proposals[i], room[i - 1], nav)
       /\ Evaluate(proposals, start, nav)[i] = Decided(proposals[i], room[i - 1], nav)

\* The gateway decides each proposal with what those before it have left.
LEMMA EvaluateIs ==
  ASSUME NEW proposals, Len(proposals) \in Nat, NEW start, Roomy(start), NEW nav \in Nat,
         \A i \in 1..Len(proposals) : Proposed(proposals[i])
  PROVE  \E room : Walk(room, proposals, start, nav)
<1>1. PICK room : room = CHOOSE f : Rooms(f, proposals, start, nav) OBVIOUS
<1>2. Rooms(room, proposals, start, nav) BY <1>1, RoomsExist
<1>3. \A i \in 0..Len(proposals) :
        room[i] = IF i = 0 THEN start ELSE Remaining(proposals[i], room[i - 1], nav)
  BY <1>2 DEF Rooms
<1>4. Evaluate(proposals, start, nav) =
        [i \in 1..Len(proposals) |-> Decided(proposals[i], room[i - 1], nav)]
  BY <1>1 DEF Evaluate, Rooms
<1>5. \A i \in 0..Len(proposals) : Roomy(room[i])
  <2> DEFINE S == {i \in 0..Len(proposals) : ~ Roomy(room[i])}
  <2> SUFFICES ASSUME S # {} PROVE FALSE OBVIOUS
  <2>1. PICK n \in S : \A m \in S : n <= m
    <3>1. S \in SUBSET Nat OBVIOUS
    <3> HIDE DEF S
    <3> QED BY <3>1, LeastNatural
  <2>2. n # 0 BY <1>3, <2>1
  <2>3. n \in 1..Len(proposals) /\ n - 1 \in 0..Len(proposals) /\ n - 1 \notin S
    BY <2>1, <2>2
  <2>4. Roomy(room[n - 1]) BY <2>3
  <2>5. Roomy(Remaining(proposals[n], room[n - 1], nav)) BY <2>3, <2>4, RemainingIs
  <2> QED BY <1>3, <2>1, <2>2, <2>5
<1>6. room[0] = start BY <1>3
<1>7. \A i \in 1..Len(proposals) : room[i] = Remaining(proposals[i], room[i - 1], nav)
  BY <1>3
<1>8. Walk(room, proposals, start, nav) BY <1>4, <1>5, <1>6, <1>7 DEF Walk
<1> QED BY <1>8

\* Books a run can decide d on.
Decidable(in, d) ==
  /\ Readable(in, d.at) /\ Valued(in, d.at) /\ Sound(in, d.at)
  /\ d.run \in Runs /\ d.research \in [Listed -> Opinions]

\* What a run proposes for each symbol.
LEMMA ProposalsAre ==
  ASSUME NEW in, NEW d, Decidable(in, d)
  PROVE  /\ Len(Proposals(in, d)) = Len(Symbols)
         /\ \A i \in 1..Len(Symbols) :
              LET p == Proposals(in, d)[i]
              IN /\ Proposed(p)
                 /\ p.current = Worth(in, Symbols[i], d.at)
                 /\ p.target = CASE d.research[Symbols[i]] = "BULLISH" -> NavOf(in, d.at) \div 2
                                 [] d.research[Symbols[i]] = "BEARISH" -> 0
                                 [] OTHER -> Worth(in, Symbols[i], d.at)
                 /\ ~p.blocked => Marks[in.seen][Symbols[i]][d.at] # {}
<1>1. DOMAIN Symbols = 1..Len(Symbols) /\ Len(Symbols) \in Nat BY SymbolsFinite
<1>2. PICK P : P = Proposals(in, d) OBVIOUS
<1>3. P = [i \in 1..Len(Symbols) |->
             Proposal(in, d.research[Symbols[i]], Symbols[i], d.at)]
  BY <1>1, <1>2 DEF Proposals
<1>4. Len(P) = Len(Symbols)
  <2>1. DOMAIN P = 1..Len(Symbols) BY <1>3
  <2> QED BY <1>1, <1>3, <2>1
<1>5. ASSUME NEW i \in 1..Len(Symbols)
      PROVE  /\ Proposed(P[i]) /\ P[i].current = Worth(in, Symbols[i], d.at)
             /\ P[i].target = CASE d.research[Symbols[i]] = "BULLISH" -> NavOf(in, d.at) \div 2
                                [] d.research[Symbols[i]] = "BEARISH" -> 0
                                [] OTHER -> Worth(in, Symbols[i], d.at)
             /\ ~P[i].blocked => Marks[in.seen][Symbols[i]][d.at] # {}
  <2>1. PICK s \in Listed : s = Symbols[i] BY <1>1, SymbolsFinite
  <2>2. PICK n \in Nat : n = Worth(in, s, d.at)
    <3>1. Worth(in, s, d.at) \in Int /\ Worth(in, s, d.at) >= 0
      BY WorthIs DEF Decidable, Sound
    <3> QED BY <3>1
  <2>3. PICK k \in Nat : k = NavOf(in, d.at) BY NavIs DEF Decidable
  <2>4. k \div 2 \in Nat OBVIOUS
  <2>5. P[i] = Proposal(in, d.research[s], s, d.at) BY <1>3, <2>1
  <2>6. PICK y : y = CASE d.research[s] = "BULLISH" -> k \div 2
                       [] d.research[s] = "BEARISH" -> 0
                       [] OTHER -> n
    OBVIOUS
  <2>7. y \in Nat BY <2>4, <2>6
  <2>8. P[i].current = n /\ P[i].target = y
    BY <2>2, <2>3, <2>5, <2>6 DEF Proposal
  <2>9. ~P[i].blocked => Marks[in.seen][s][d.at] # {}
    <3>1. PICK b : b = (d.research[s] = "ABSTAIN" \/ Marks[in.seen][s][d.at] = {}) OBVIOUS
    <3>2. P[i].blocked = b BY <2>5, <3>1 DEF Proposal
    <3>3. ~b => Marks[in.seen][s][d.at] # {} BY <3>1, Zenon
    <3> QED BY <3>2, <3>3, Zenon
  <2>10. P[i].target = CASE d.research[s] = "BULLISH" -> NavOf(in, d.at) \div 2
                         [] d.research[s] = "BEARISH" -> 0
                         [] OTHER -> Worth(in, s, d.at)
    BY <2>2, <2>3, <2>6, <2>8
  <2>11. Proposed(P[i]) BY <2>7, <2>8 DEF Proposed
  <2> QED BY <2>1, <2>2, <2>8, <2>9, <2>10, <2>11
<1> QED BY <1>2, <1>4, <1>5

\* What a run approves for each symbol, with what the symbols before it have left.
LEMMA ApprovedIs ==
  ASSUME NEW in, NEW d, Decidable(in, d)
  PROVE  \E room :
           /\ room[0] = Snapshot(in, d.at)
           /\ \A i \in 0..Len(Symbols) : Roomy(room[i])
           /\ \A i \in 1..Len(Symbols) :
                /\ room[i] = Remaining(Proposals(in, d)[i], room[i - 1], NavOf(in, d.at))
                /\ Approved(in, d)[i]
                     = Decided(Proposals(in, d)[i], room[i - 1], NavOf(in, d.at))
<1>1. PICK P : P = Proposals(in, d) OBVIOUS
<1>2. PICK start : start = Snapshot(in, d.at) OBVIOUS
<1>3. PICK nav \in Nat : nav = NavOf(in, d.at) BY NavIs DEF Decidable
<1>4. Roomy(start)
  <2>1. /\ CashOf(in.ledger) \in Int /\ Gross(in, d.at) \in Int /\ Turnover(in, d.at) \in Nat
    BY NavIs DEF Decidable
  <2>2. Positive(Share(MaxTurnover, nav) - Turnover(in, d.at)) \in Nat
    BY <2>1, LimitIs DEF Positive
  <2> QED BY <1>2, <1>3, <2>1, <2>2 DEF Snapshot, Roomy
<1>5. Len(P) = Len(Symbols) BY <1>1, ProposalsAre
<1>8. Len(P) \in Nat BY <1>5, SymbolsFinite
<1>9. \A i \in 1..Len(P) : Proposed(P[i]) BY <1>1, <1>5, ProposalsAre
<1>6. Approved(in, d) = Evaluate(P, start, nav) BY <1>1, <1>2, <1>3 DEF Approved
<1>7. PICK room : Walk(room, P, start, nav)
  BY <1>4, <1>8, <1>9, EvaluateIs
<1> QED BY <1>1, <1>2, <1>3, <1>5, <1>6, <1>7 DEF Walk

\* By how much the position with index i is to change.
Change(in, d, i) == Approved(in, d)[i] - Worth(in, Symbols[i], d.at)

\* Every change is a number, and where there is one there is a price.
LEMMA ChangeIs ==
  ASSUME NEW in, NEW d, Decidable(in, d), NEW i \in 1..Len(Symbols)
  PROVE  /\ Approved(in, d)[i] \in Nat /\ Worth(in, Symbols[i], d.at) \in Nat
         /\ Change(in, d, i) \in Int
         /\ Change(in, d, i) # 0 => Price(in, Symbols[i], d.at) \in Nat \ {0}
<1>1. PICK room : /\ \A j \in 0..Len(Symbols) : Roomy(room[j])
                  /\ \A j \in 1..Len(Symbols) :
                       Approved(in, d)[j]
                         = Decided(Proposals(in, d)[j], room[j - 1], NavOf(in, d.at))
  BY ApprovedIs
<1>2. PICK nav \in Nat : nav = NavOf(in, d.at) BY NavIs DEF Decidable
<1>3. PICK p : p = Proposals(in, d)[i] OBVIOUS
<1>4. /\ Proposed(p) /\ p.current = Worth(in, Symbols[i], d.at)
      /\ ~p.blocked => Marks[in.seen][Symbols[i]][d.at] # {}
  BY <1>3, ProposalsAre
<1>5. i - 1 \in 0..Len(Symbols) BY SymbolsFinite
<1>6. PICK before : before = room[i - 1] OBVIOUS
<1>7. Roomy(before) /\ Approved(in, d)[i] = Decided(p, before, nav)
  BY <1>1, <1>2, <1>3, <1>5, <1>6
<1>8. Approved(in, d)[i] \in Nat /\ (Approved(in, d)[i] # p.current => ~p.blocked)
  BY <1>4, <1>7, DecidedIs
<1>9. Worth(in, Symbols[i], d.at) \in Nat BY <1>4 DEF Proposed
<1>10. Marks[in.seen][Symbols[i]][d.at] # {} => Price(in, Symbols[i], d.at) \in Nat \ {0}
  <2>1. in.seen \in Times /\ d.at \in Times BY DEF Decidable, Readable, Input
  <2>2. Symbols[i] \in Listed BY SymbolsFinite
  <2> QED BY <2>1, <2>2, PriceIs
<1>11. Change(in, d, i) # 0 => Approved(in, d)[i] # p.current
  BY <1>4, <1>8, <1>9 DEF Change
<1> QED BY <1>4, <1>8, <1>9, <1>10, <1>11 DEF Change

\* The order for the symbol with index i.
IntentOf(in, d, i) ==
  [run |-> d.run, symbol |-> Symbols[i],
   quantity |-> Distance(Change(in, d, i), 0) \div Price(in, Symbols[i], d.at),
   side |-> IF Change(in, d, i) > 0 THEN "BUY" ELSE "SELL"]

\* The orders of a run: one for each change that comes to a share, each of a symbol of
\* its own, and none sells more than is held.
LEMMA IntentsAre ==
  ASSUME NEW in, NEW d, Decidable(in, d)
  PROVE  /\ \A o : o \in Intents(in, d) <=>
              \E i \in 1..Len(Symbols) :
                /\ o = IntentOf(in, d, i)
                /\ Change(in, d, i) # 0
                /\ Distance(Change(in, d, i), 0) \div Price(in, Symbols[i], d.at) > 0
         /\ \A o \in Intents(in, d) :
              /\ o.run = d.run /\ o.symbol \in Listed /\ o.side \in {"BUY", "SELL"}
              /\ o.quantity \in Nat \ {0}
              /\ o.side = "SELL" => o.quantity <= Position(in.fills, o.symbol)
         /\ \A o, p \in Intents(in, d) : o.symbol = p.symbol => o = p
         /\ IsFiniteSet(Intents(in, d))
<1>1. DOMAIN Symbols = 1..Len(Symbols) /\ Len(Symbols) \in Nat BY SymbolsFinite
<1>2. PICK I : I = {i \in 1..Len(Symbols) :
                      /\ Change(in, d, i) # 0
                      /\ Distance(Change(in, d, i), 0) \div Price(in, Symbols[i], d.at) > 0}
  OBVIOUS
<1>3. Intents(in, d) = {IntentOf(in, d, i) : i \in I}
  BY <1>1, <1>2 DEF Intents, Change, IntentOf
<1>4. ASSUME NEW i \in I, NEW o, o = IntentOf(in, d, i)
      PROVE  /\ o.run = d.run /\ o.symbol = Symbols[i] /\ o.symbol \in Listed
             /\ o.side \in {"BUY", "SELL"} /\ o.quantity \in Nat \ {0}
             /\ o.side = "SELL" => o.quantity <= Position(in.fills, o.symbol)
  <2>1. i \in 1..Len(Symbols) BY <1>2
  <2>2. PICK a \in Nat, x \in Nat : a = Approved(in, d)[i] /\ x = Worth(in, Symbols[i], d.at)
    BY <2>1, ChangeIs
  <2>3. PICK c \in Int : c = Change(in, d, i) BY <2>1, ChangeIs
  <2>4. c = a - x BY <2>2, <2>3 DEF Change
  <2>5. c # 0 BY <1>2, <2>3
  <2>6. PICK p \in Nat \ {0} : p = Price(in, Symbols[i], d.at) BY <2>1, <2>3, <2>5, ChangeIs
  <2>7. PICK q : q = Distance(c, 0) \div p OBVIOUS
  <2>8. Distance(c, 0) \in Nat BY DEF Distance
  <2>9. q \in Nat /\ q > 0 BY <1>2, <2>3, <2>6, <2>7, <2>8, Division
  <2>10. o = [run |-> d.run, symbol |-> Symbols[i], quantity |-> q,
              side |-> IF c > 0 THEN "BUY" ELSE "SELL"]
    BY <1>4, <2>3, <2>6, <2>7 DEF IntentOf
  <2>11. Symbols[i] \in Listed BY <2>1, SymbolsFinite
  <2>12. ASSUME c < 0 PROVE q <= Position(in.fills, Symbols[i])
    <3>1. Readable(in, d.at) /\ Valued(in, d.at) BY DEF Decidable
    <3>2. x > 0 /\ Distance(c, 0) = x - a BY <2>4, <2>12 DEF Distance
    <3>3. Symbols[i] \in Held(in.fills) BY <2>2, <3>2 DEF Worth
    <3>4. PICK n \in Int : n = Position(in.fills, Symbols[i])
      BY <3>1, PositionIs DEF Readable, Input
    <3>5. x = n * p BY <2>2, <2>6, <3>3, <3>4 DEF Worth
    <3>6. n \in Nat
      <4>1. CASE n < 0
        <5>1. n * p <= 0 BY <4>1
        <5> QED BY <3>2, <3>5, <5>1
      <4> QED BY <4>1
    <3>7. x - a <= n * p /\ x - a \in Nat BY <2>4, <2>12, <3>5
    <3> QED BY <2>7, <3>2, <3>4, <3>6, <3>7, Division
  <2>13. o.side = "SELL" => c < 0 BY <2>5, <2>10
  <2> QED BY <2>9, <2>10, <2>11, <2>12, <2>13
<1>5. \A o \in Intents(in, d) : \E i \in I : o = IntentOf(in, d, i)
  BY <1>3
<1>6. ASSUME NEW o \in Intents(in, d), NEW p \in Intents(in, d), o.symbol = p.symbol
      PROVE  o = p
  <2>1. PICK i \in I : o = IntentOf(in, d, i) BY <1>5
  <2>2. PICK j \in I : p = IntentOf(in, d, j) BY <1>5
  <2>3. Symbols[i] = Symbols[j] BY <1>4, <1>6, <2>1, <2>2
  <2>4. i = j BY <1>1, <1>2, <2>3, SymbolsFinite
  <2> QED BY <2>1, <2>2, <2>4
<1>7. IsFiniteSet(Intents(in, d))
  <2>1. IsFiniteSet(1..Len(Symbols)) BY <1>1, FS_Interval
  <2>2. IsFiniteSet(I) BY <1>2, <2>1, FS_Subset
  <2>3. PICK g : g = [i \in I |-> IntentOf(in, d, i)] OBVIOUS
  <2>4. Range(g) = Intents(in, d) /\ DOMAIN g = I BY <1>3, <2>3 DEF Range
  <2> QED BY <2>2, <2>4, FiniteRange
<1>8. \A o : o \in Intents(in, d) <=>
         \E i \in 1..Len(Symbols) :
           /\ o = IntentOf(in, d, i)
           /\ Change(in, d, i) # 0
           /\ Distance(Change(in, d, i), 0) \div Price(in, Symbols[i], d.at) > 0
  BY <1>2, <1>3
<1>9. \A o \in Intents(in, d) :
        /\ o.run = d.run /\ o.symbol \in Listed /\ o.side \in {"BUY", "SELL"}
        /\ o.quantity \in Nat \ {0}
        /\ o.side = "SELL" => o.quantity <= Position(in.fills, o.symbol)
  BY <1>4, <1>5
<1> QED BY <1>6, <1>7, <1>8, <1>9

\* A position a run has read is long.
LEMMA LongIs ==
  ASSUME NEW in, NEW t, Readable(in, t), Valued(in, t), Sound(in, t), NEW s \in Listed
  PROVE  Position(in.fills, s) \in Nat
<1>1. PICK n \in Int : n = Position(in.fills, s) BY PositionIs DEF Readable, Input
<1>2. CASE s \in Held(in.fills)
  <2>1. PICK p \in Nat \ {0} : p = Price(in, s, t) BY <1>2, WorthIs
  <2>2. n * p >= 0 BY <1>1, <1>2, <2>1 DEF Sound, Worth
  <2>3. n >= 0
    <3>1. CASE n < 0
      <4>1. n * p < 0 BY <3>1
      <4> QED BY <2>2, <4>1
    <3> QED BY <3>1
  <2> QED BY <1>1, <2>3
<1>3. CASE s \notin Held(in.fills) BY <1>1, <1>3 DEF Held
<1> QED BY <1>2, <1>3

\* The fills of all orders of a run are of that run, later than its decision, each of
\* an order; those of an order are no more than it, and no position gets short.
LEMMA NewFillsAre ==
  ASSUME NEW in, NEW d, Decidable(in, d)
  PROVE  LET new == NewFills(in, d)
         IN /\ new \in SUBSET Fill /\ IsFiniteSet(new)
            /\ \A f \in new : /\ f.run = d.run /\ f.at > d.at
                              /\ \E o \in Intents(in, d) : o.symbol = f.symbol /\ o.side = f.side
            /\ \A o \in Intents(in, d) : Filled(o, new) \in 0..o.quantity
            /\ \A s \in Listed : Position(in.fills, s) + Position(new, s) >= 0
<1>1. in.seen \in Times /\ d.at \in Times /\ d.run \in Runs BY DEF Decidable, Readable, Input
<1>2. PICK new : new = NewFills(in, d) OBVIOUS
<1>3. new = UNION {Execute(in, o, d.at) : o \in Intents(in, d)} BY <1>2 DEF NewFills
<1>4. ASSUME NEW o \in Intents(in, d)
      PROVE  /\ Execute(in, o, d.at) \in SUBSET Fill /\ IsFiniteSet(Execute(in, o, d.at))
             /\ \A f \in Execute(in, o, d.at) :
                  /\ f.run = d.run /\ f.symbol = o.symbol /\ f.side = o.side /\ f.at > d.at
             /\ FillsOf(Execute(in, o, d.at)) \in 0..o.quantity
  <2>1. /\ o.run \in Runs /\ o.symbol \in Listed /\ o.side \in {"BUY", "SELL"}
        /\ o.quantity \in Nat /\ o.run = d.run
    BY <1>1, IntentsAre
  <2> QED BY <1>1, <2>1, ExecuteIs
<1>5. new \in SUBSET Fill BY <1>3, <1>4
<1>6. IsFiniteSet(new)
  <2>1. PICK I : I = Intents(in, d) OBVIOUS
  <2>2. IsFiniteSet(I) BY <2>1, IntentsAre
  <2>3. PICK g : g = [o \in I |-> Execute(in, o, d.at)] OBVIOUS
  <2>4. Range(g) = {Execute(in, o, d.at) : o \in I} /\ DOMAIN g = I BY <2>3 DEF Range
  <2>5. IsFiniteSet(Range(g)) BY <2>2, <2>4, FiniteRange
  <2>6. \A X \in Range(g) : IsFiniteSet(X) BY <1>4, <2>1, <2>4
  <2>7. IsFiniteSet(UNION Range(g)) BY <2>5, <2>6, FS_UNION
  <2> QED BY <1>3, <2>1, <2>4, <2>7
<1>7. \A f \in new : /\ f.run = d.run /\ f.at > d.at
                     /\ \E o \in Intents(in, d) : o.symbol = f.symbol /\ o.side = f.side
  BY <1>3, <1>4
<1>8. ASSUME NEW o \in Intents(in, d)
      PROVE  {f \in new : f.symbol = o.symbol} = Execute(in, o, d.at)
  <2>1. \A p \in Intents(in, d) : p # o => p.symbol # o.symbol BY IntentsAre
  <2> QED BY <1>3, <1>4, <2>1
<1>9. ASSUME NEW o \in Intents(in, d) PROVE Filled(o, new) = FillsOf(Execute(in, o, d.at))
  BY <1>8 DEF Filled, FillsOf
<1>10. ASSUME NEW s \in Listed PROVE Position(in.fills, s) + Position(new, s) >= 0
  <2>1. Position(in.fills, s) \in Nat BY LongIs DEF Decidable
  <2>2. CASE \E o \in Intents(in, d) : o.symbol = s
    <3>1. PICK o \in Intents(in, d) : o.symbol = s BY <2>2
    <3>2. PICK X : X = Execute(in, o, d.at) OBVIOUS
    <3>3. X \in SUBSET Fill /\ IsFiniteSet(X) /\ FillsOf(X) \in 0..o.quantity BY <1>4, <3>2
    <3>4. PICK k \in Nat : k = FillsOf(X) /\ k <= o.quantity
      <4>1. o.quantity \in Nat BY IntentsAre
      <4> QED BY <3>3, <4>1
    <3>5. Position(new, s) = Position(X, s)
      <4>1. {f \in new : f.symbol = s} = X BY <1>8, <3>1, <3>2
      <4>2. {f \in X : f.symbol = s} = X BY <4>1
      <4>3. PICK w : w = [f \in X |-> Signed(f)] OBVIOUS
      <4>4. \A f \in new : f.symbol = s => w[f] = Signed(f)
        <5>1. \A f \in new : f.symbol = s => f \in X BY <4>1
        <5> QED BY <4>3, <5>1
      <4>5. \A f \in X : f.symbol = s => w[f] = Signed(f) BY <4>3
      <4>6. Position(new, s) = SumFunctionOnSet(w, X) BY <1>5, <1>6, <4>1, <4>4, PositionIs
      <4>7. Position(X, s) = SumFunctionOnSet(w, X) BY <3>3, <4>2, <4>5, PositionIs
      <4> QED BY <4>6, <4>7
    <3>6. CASE o.side = "BUY"
      <4>1. \A f \in X : f.symbol = s /\ f.side = "BUY" BY <1>4, <3>1, <3>2, <3>6
      <4>2. Position(X, s) = k BY <3>3, <3>4, <4>1, PositionOfSide
      <4> QED BY <2>1, <3>5, <4>2
    <3>7. CASE o.side = "SELL"
      <4>1. \A f \in X : f.symbol = s /\ f.side = "SELL" BY <1>4, <3>1, <3>2, <3>7
      <4>2. Position(X, s) = -k BY <3>3, <3>4, <4>1, PositionOfSide
      <4>3. o.quantity \in Nat /\ o.quantity <= Position(in.fills, s) BY <3>1, <3>7, IntentsAre
      <4> QED BY <2>1, <3>4, <3>5, <4>2, <4>3
    <3>8. o.side \in {"BUY", "SELL"} BY IntentsAre
    <3> QED BY <3>6, <3>7, <3>8
  <2>3. CASE ~ \E o \in Intents(in, d) : o.symbol = s
    <3>1. \A f \in new : f.symbol # s BY <1>7, <2>3
    <3>2. Position(new, s) = 0 BY <1>5, <1>6, <3>1, PositionOfSide
    <3> QED BY <2>1, <3>2
  <2> QED BY <2>2, <2>3
<1>11. \A o \in Intents(in, d) : Filled(o, new) \in 0..o.quantity BY <1>4, <1>9
<1> QED BY <1>2, <1>5, <1>6, <1>7, <1>10, <1>11

-----------------------------------------------------------------------------
\* What is posted

\* The entry of a fill is one, dated as the fill, and no opening balance.
LEMMA EntryIs ==
  ASSUME NEW f \in Fill
  PROVE  EntryOf(f) \in Entry /\ EntryOf(f).fill # <<>> /\ EntryOf(f).at = f.at
<1>1. PICK q \in Nat, p \in Nat : q = f.quantity /\ p = f.price BY DEF Fill
<1>2. PICK m \in Nat, n \in Nat : m = MinimumFee /\ n = FeePerShare BY PortfolioAssumption
<1>3. PICK k \in Nat : k = n * q OBVIOUS
<1>4. Fee(q) = Max({m, k}) BY <1>2, <1>3 DEF Fee
<1>5. Fee(q) \in Int BY <1>4, GreaterOf
<1>6. PICK v \in Nat : v = q * p OBVIOUS
<1>7. PICK c \in Int : c = IF f.side = "BUY" THEN -v - Fee(q) ELSE v - Fee(q)
  BY <1>5
<1>8. EntryOf(f) = [fill |-> <<f.run, f.symbol, f.event>>, at |-> f.at, cash |-> c]
  BY <1>1, <1>6, <1>7 DEF EntryOf
<1>9. f.run \in Runs /\ f.symbol \in Listed /\ f.event \in Times /\ f.at \in Times BY DEF Fill
<1>10. <<f.run, f.symbol, f.event>> \in Runs \X Listed \X Times BY <1>9
<1>11. <<f.run, f.symbol, f.event>> # <<>> OBVIOUS
<1> QED BY <1>8, <1>9, <1>10, <1>11 DEF Entry

\* Finitely many fills have finitely many entries.
LEMMA EntriesFinite ==
  ASSUME NEW A \in SUBSET Fill, IsFiniteSet(A)
  PROVE  {EntryOf(f) : f \in A} \in SUBSET Entry /\ IsFiniteSet({EntryOf(f) : f \in A})
<1>1. PICK g : g = [f \in A |-> EntryOf(f)] OBVIOUS
<1>2. Range(g) = {EntryOf(f) : f \in A} /\ DOMAIN g = A BY <1>1 DEF Range
<1> QED BY <1>2, FiniteRange, EntryIs

\* A NAV is struck at or after its decision and after all it posts, at the time of one
\* of them.
LEMMA NavTimeIs ==
  ASSUME NEW t \in Times, NEW A \in SUBSET Fill, IsFiniteSet(A)
  PROVE  /\ NavTime(A, t) \in Times /\ t <= NavTime(A, t)
         /\ \A f \in A : f.at <= NavTime(A, t)
         /\ NavTime(A, t) = t \/ \E f \in A : NavTime(A, t) = f.at
<1>1. PICK S : S = {t} \cup {f.at : f \in A} OBVIOUS
<1>2. S \in SUBSET Times BY <1>1 DEF Fill
<1>3. S \in SUBSET Nat /\ IsFiniteSet(S) /\ S # {}
  <2>1. IsFiniteSet(Times) BY PortfolioAssumption, FS_Interval DEF Times
  <2>2. IsFiniteSet(S) BY <1>2, <2>1, FS_Subset
  <2>3. Times \subseteq Nat BY DEF Times
  <2> QED BY <1>1, <1>2, <2>2, <2>3
<1>4. PICK n \in S : \A m \in S : m <= n BY <1>3, GreatestNatural
<1>5. \A m \in S : m \in Int BY <1>3
<1>6. \A m \in S : n >= m BY <1>4, <1>5
<1>7. Max(S) \in S /\ \A m \in S : Max(S) >= m BY <1>6 DEF Max
<1>8. \A m \in S : m <= Max(S) BY <1>5, <1>7
<1>9. NavTime(A, t) = Max(S) BY <1>1 DEF NavTime
<1> QED BY <1>1, <1>2, <1>7, <1>8, <1>9

\* Among fills there is one posted last.
LEMMA LastPosted ==
  ASSUME NEW A \in SUBSET Fill, IsFiniteSet(A), A # {}
  PROVE  \E g \in A : \A f \in A : PostedBy(f, g)
<1> DEFINE Rank(x) == CHOOSE i \in DOMAIN Symbols : Symbols[i] = x.symbol
           R == {Rank(f) : f \in A}
<1>1. \A f \in A : /\ Rank(f) \in 1..Len(Symbols) /\ Symbols[Rank(f)] = f.symbol
                   /\ f.event \in Times
  BY SymbolsFinite DEF Fill
<1>2. PICK g \in A : \A f \in A : Rank(f) <= Rank(g)
  <2>1. R \in SUBSET (1..Len(Symbols)) BY <1>1
  <2>2. R \in SUBSET Nat BY <2>1
  <2>3. IsFiniteSet(R)
    <3>1. IsFiniteSet(1..Len(Symbols)) BY SymbolsFinite, FS_Interval
    <3> HIDE DEF R
    <3> QED BY <2>1, <3>1, FS_Subset
  <2>4. PICK n \in R : \A m \in R : m <= n
    <3>1. R # {} OBVIOUS
    <3> HIDE DEF R
    <3> QED BY <2>2, <2>3, <3>1, GreatestNatural
  <2>5. PICK g \in A : n = Rank(g) BY <2>4
  <2>6. \A f \in A : Rank(f) \in R OBVIOUS
  <2> HIDE DEF R, Rank
  <2> QED BY <2>4, <2>5, <2>6
<1> DEFINE E == {f.event : f \in {h \in A : h.symbol = g.symbol}}
<1>3. PICK l \in A : l.symbol = g.symbol /\ \A f \in A : f.symbol = g.symbol => f.event <= l.event
  <2>1. E \in SUBSET Times BY <1>1
  <2>2. E \in SUBSET Nat BY <2>1 DEF Times
  <2>3. IsFiniteSet(Times) BY PortfolioAssumption, FS_Interval DEF Times
  <2>4. IsFiniteSet(E) BY <2>1, <2>3, FS_Subset
  <2>5. PICK n \in E : \A m \in E : m <= n
    <3>1. E # {} OBVIOUS
    <3> HIDE DEF E
    <3> QED BY <2>2, <2>4, <3>1, GreatestNatural
  <2> QED BY <2>5
<1>4. Rank(l) = Rank(g) BY <1>3
<1>5. ASSUME NEW f \in A PROVE PostedBy(f, l)
  <2>1. PICK i \in Nat, j \in Nat : i = Rank(f) /\ j = Rank(l) BY <1>1
  <2>2. i <= j BY <1>2, <1>4, <2>1
  <2>3. CASE i < j BY <2>1, <2>3 DEF PostedBy
  <2>4. CASE i = j
    <3>1. f.symbol = g.symbol BY <1>1, <1>4, <2>1, <2>4
    <3>2. f.event <= l.event BY <1>3, <3>1
    <3> QED BY <1>3, <3>1, <3>2 DEF PostedBy
  <2> QED BY <2>2, <2>3, <2>4
<1> QED BY <1>5

\* What the books of a run hold once its fills are posted.
LEMMA PostedIs ==
  ASSUME NEW in \in Input, NEW A
  PROVE  /\ Posted(in, A).fills = in.fills \cup A
         /\ Posted(in, A).ledger = in.ledger \cup {EntryOf(f) : f \in A}
BY DEF Posted, Input

\* A run whose fills are all paid leaves cash.
LEMMA PaidIs ==
  ASSUME NEW in, NEW t, Readable(in, t), Sound(in, t), NEW A \in SUBSET Fill, IsFiniteSet(A),
         Payable(in, A)
  PROVE  CashOf(Posted(in, A).ledger) >= 0
<1>1. in \in Input BY DEF Readable
<1>2. CASE A = {}
  <2>1. PICK E : E = {EntryOf(f) : f \in A} OBVIOUS
  <2>3. Posted(in, A).ledger = in.ledger
    <3>1. E = {} BY <1>2, <2>1
    <3>2. Posted(in, A).ledger = in.ledger \cup E BY <1>1, <2>1, PostedIs
    <3> QED BY <3>1, <3>2
  <2>2. CashOf(in.ledger) >= 0 BY DEF Sound
  <2> QED BY <2>2, <2>3
<1>3. CASE A # {}
  <2>1. PICK g \in A : \A f \in A : PostedBy(f, g) BY <1>3, LastPosted
  <2>2. {h \in A : PostedBy(h, g)} = A BY <2>1
  <2>3. CashOf(in.ledger \cup {EntryOf(f) : f \in A}) >= 0 BY <2>2 DEF Payable
  <2> QED BY <1>1, <2>3, PostedIs
<1> QED BY <1>2, <1>3

\* What a run as of t has read of the ledger: an opening balance if there was nothing.
ReadLedger(entries, t) ==
  \/ entries = {Funding(t)}
  \/ entries # {} /\ entries \subseteq ledger /\ \A e \in entries : e.at <= t

Known(in, t) ==
  /\ in.fills \subseteq fills /\ \A f \in in.fills : f.at <= t
  /\ ReadLedger(in.ledger, t)

\* What the attempt of r has read, and what r decides on, was in the books and is of
\* its date.
ReadOf(r) ==
  /\ view[r] # Nothing =>
       /\ view[r].fills \subseteq fills /\ \A f \in view[r].fills : f.at <= run[r].decision
       /\ view[r].stage # "FILLS" => ReadLedger(view[r].ledger, run[r].decision)
       /\ view[r].stage = "GRAPH" => checkpoint[r] # Nothing /\ ~run[r].denied
  /\ checkpoint[r] # Nothing =>
       /\ run[r].status # "ABSENT"
       /\ Known(checkpoint[r], run[r].decision)
       /\ Valued(checkpoint[r], run[r].decision)

ReadInv == \A r \in Runs : ReadOf(r)

\* The orders of a completed run are those of what it decided on.
OrdersOf(r) ==
  /\ checkpoint[r] # Nothing
  /\ Sound(checkpoint[r], run[r].decision)
  /\ {o \in orders : o.run = r}
       = {OrderRow(o, NewFills(checkpoint[r], Decision(r))) :
            o \in Intents(checkpoint[r], Decision(r))}

\* Only who has completed has posted something.
PostedInv ==
  /\ \A f \in fills : run[f.run].status = "COMPLETED"
  /\ \A o \in orders : run[o.run].status = "COMPLETED"
  /\ \A r \in Runs : run[r].status = "COMPLETED" /\ ~run[r].denied => OrdersOf(r)

\* Something is in the ledger as late as every NAV, or its run decided as late.
NavInv ==
  /\ navs # {} => ledger # {}
  /\ \A n \in navs :
       \/ \E e \in ledger : n.at <= e.at
       \/ n.run \in Runs /\ run[n.run].status = "COMPLETED" /\ n.at <= run[n.run].decision

\* In order, there is one opening balance.
FundingInv ==
  disordered = {} /\ ledger # {} => \E e \in ledger : {x \in ledger : x.fill = <<>>} = {e}

PortfolioInv ==
  /\ PortfolioTypeOK
  /\ IsFiniteSet(ledger) /\ IsFiniteSet(fills)
  /\ ReadInv /\ PostedInv /\ NavInv /\ FundingInv
  /\ BooksAgree /\ AccountSound /\ NavReproducible

\* What depends on the tables only.
TablesInv ==
  /\ IsFiniteSet(ledger) /\ IsFiniteSet(fills)
  /\ FundingInv /\ BooksAgree /\ AccountSound /\ NavReproducible

-----------------------------------------------------------------------------
\* The start

\* Nothing is posted at first.
LEMMA PortfolioStarts == PortfolioInit => PortfolioInv
<1> SUFFICES ASSUME PortfolioInit PROVE PortfolioInv OBVIOUS
<1>1. PICK found \in Research :
        run = [r \in Runs |-> [status |-> "ABSENT", attempt |-> 0, decision |-> 0,
                               denied |-> FALSE, research |-> found[r]]]
  BY DEF PortfolioInit
<1>2. /\ now = 0 /\ view = [r \in Runs |-> Nothing] /\ checkpoint = [r \in Runs |-> Nothing]
      /\ ledger = {} /\ orders = {} /\ fills = {} /\ navs = {} /\ disordered = {}
  BY DEF PortfolioInit
<1>3. PortfolioTypeOK
  <2>1. 0 \in Times /\ 0 \in 0..MaxAttempts BY PortfolioAssumption DEF Times
  <2>2. found \in [Runs -> [Listed -> Opinions]] BY PortfolioAssumption
  <2>3. run \in [Runs -> RunRow] BY <1>1, <2>1, <2>2 DEF RunRow, Statuses
  <2>4. \A r \in Runs : view[r] # Nothing <=> run[r].status = "RUNNING" BY <1>1, <1>2
  <2>5. /\ view \in [Runs -> View \cup {Nothing}] /\ checkpoint \in [Runs -> Input \cup {Nothing}]
    BY <1>2
  <2> QED BY <1>2, <2>1, <2>3, <2>4, <2>5 DEF PortfolioTypeOK
<1>4. IsFiniteSet({}) /\ Cardinality({}) = 0 BY FS_EmptySet
<1>5. ReadInv BY <1>2 DEF ReadInv, ReadOf
<1>6. PostedInv BY <1>1, <1>2 DEF PostedInv
<1>7. NavInv /\ FundingInv /\ NavReproducible BY <1>2 DEF NavInv, FundingInv, NavReproducible
<1>8. BooksAgree
  <2>1. {EntryOf(f) : f \in {}} = {} /\ {e \in {} : e.fill # <<>>} = {} OBVIOUS
  <2> QED BY <1>2, <2>1 DEF BooksAgree
<1>9. AccountSound
  <2>1. CashOf({}) = 0
    <3>1. PICK w : w = [e \in {} |-> e.cash] OBVIOUS
    <3>2. SumFunctionOnSet(w, {}) = 0 BY <1>4, SumZero
    <3> QED BY <3>1, <3>2 DEF CashOf, SumFunction
  <2>2. \A s \in Listed : Position({}, s) = 0 BY NoPosition
  <2>3. {e \in {} : e.fill = <<>>} = {} OBVIOUS
  <2> QED BY <1>2, <1>4, <2>1, <2>2, <2>3 DEF AccountSound
<1> QED BY <1>2, <1>3, <1>4, <1>5, <1>6, <1>7, <1>8, <1>9 DEF PortfolioInv

-----------------------------------------------------------------------------
\* Steps that post nothing

\* What the row, the reads and the checkpoint of a run are.
LEMMA PortfolioTyped ==
  ASSUME PortfolioTypeOK, NEW r \in Runs
  PROVE  /\ run[r] \in RunRow /\ run[r].status \in Statuses /\ run[r].decision \in Times
         /\ run[r].attempt \in 0..MaxAttempts /\ run[r].denied \in BOOLEAN
         /\ run[r].research \in [Listed -> Opinions]
         /\ view[r] # Nothing => view[r] \in View
         /\ checkpoint[r] # Nothing => checkpoint[r] \in Input
BY DEF PortfolioTypeOK, RunRow

\* The run of an attempt that ends keeps all but its status.
LEMMA EndsIs ==
  ASSUME PortfolioTypeOK, NEW r \in Runs, NEW status \in Statuses \ {"RUNNING"},
         Ends(r, status)
  PROVE  /\ run' \in [Runs -> RunRow] /\ view' \in [Runs -> View \cup {Nothing}]
         /\ \A q \in Runs : view'[q] # Nothing <=> run'[q].status = "RUNNING"
         /\ \A q \in Runs : q # r => run'[q] = run[q] /\ view'[q] = view[q]
         /\ view'[r] = Nothing /\ run'[r].status = status
         /\ run'[r].decision = run[r].decision /\ run'[r].denied = run[r].denied
         /\ run'[r].research = run[r].research
<1>1. run \in [Runs -> RunRow] /\ view \in [Runs -> View \cup {Nothing}] BY DEF PortfolioTypeOK
<1>2. run' = [run EXCEPT ![r].status = status] /\ view' = [view EXCEPT ![r] = Nothing]
  BY DEF Ends
<1>3. \A q \in Runs : q # r => run'[q] = run[q] /\ view'[q] = view[q] BY <1>1, <1>2
<1>4. view'[r] = Nothing /\ view' \in [Runs -> View \cup {Nothing}] BY <1>1, <1>2
<1>5. run'[r] = [run[r] EXCEPT !.status = status] BY <1>1, <1>2
<1>6. run[r] \in RunRow BY <1>1
<1>7. /\ run'[r].status = status /\ run'[r].decision = run[r].decision
      /\ run'[r].denied = run[r].denied /\ run'[r].research = run[r].research
      /\ run'[r] \in RunRow
  BY <1>5, <1>6 DEF RunRow
<1>8. run' \in [Runs -> RunRow] BY <1>1, <1>2, <1>7
<1>9. \A q \in Runs : view'[q] # Nothing <=> run'[q].status = "RUNNING"
  BY <1>3, <1>4, <1>7 DEF PortfolioTypeOK
<1> QED BY <1>3, <1>4, <1>7, <1>8, <1>9

\* What was read stays in the books.
LEMMA ReadIsKept ==
  ASSUME NEW r \in Runs, ReadOf(r), fills \subseteq fills', ledger \subseteq ledger',
         run'[r].decision = run[r].decision, run'[r].denied = run[r].denied,
         run[r].status # "ABSENT" => run'[r].status # "ABSENT",
         view'[r] = view[r] \/ view'[r] = Nothing, checkpoint'[r] = checkpoint[r]
  PROVE  ReadOf(r)'
<1>1. PICK t : t = run[r].decision OBVIOUS
<1>2. PICK c : c = checkpoint[r] OBVIOUS
<1>3. PICK v : v = view[r] OBVIOUS
<1>4. \A L : ReadLedger(L, t) => ReadLedger(L, t)' BY DEF ReadLedger
<1>5. Known(c, t) => Known(c, t)' BY <1>4 DEF Known
<1>6. Valued(c, t) => Valued(c, t)' OBVIOUS
<1>7. Known(checkpoint[r], run[r].decision)' = Known(c, t)' BY <1>1, <1>2
<1>8. Valued(checkpoint[r], run[r].decision)' = Valued(c, t)' BY <1>1, <1>2
<1>9. CASE view'[r] = Nothing
  BY <1>1, <1>2, <1>5, <1>6, <1>7, <1>8, <1>9 DEF ReadOf
<1>10. CASE view'[r] = view[r]
  <2>1. ReadLedger(view[r].ledger, run[r].decision)' = ReadLedger(v.ledger, t)'
    BY <1>1, <1>3, <1>10
  <2> QED BY <1>1, <1>2, <1>3, <1>4, <1>5, <1>6, <1>7, <1>8, <1>10, <2>1 DEF ReadOf
<1> QED BY <1>9, <1>10

\* A step that writes no table, and completes no run, keeps the books as sound as
\* they were.
LEMMA TablesKept ==
  ASSUME TablesInv, UNCHANGED <<books, disordered>>
  PROVE  TablesInv'
<1>1. ledger' = ledger /\ orders' = orders /\ fills' = fills /\ navs' = navs
      /\ disordered' = disordered
  BY DEF books
<1>2. FundingInv' BY <1>1 DEF TablesInv, FundingInv
<1>3. BooksAgree' BY <1>1 DEF TablesInv, BooksAgree
<1>4. AccountSound' BY <1>1 DEF TablesInv, AccountSound
<1>5. NavReproducible' BY <1>1 DEF TablesInv, NavReproducible
<1> QED BY <1>1, <1>2, <1>3, <1>4, <1>5 DEF TablesInv

\* The orders of a run that is left alone stay those of its decision.
LEMMA OrdersKept ==
  ASSUME NEW r \in Runs, OrdersOf(r), run'[r] = run[r], checkpoint'[r] = checkpoint[r],
         {o \in orders' : o.run = r} = {o \in orders : o.run = r}
  PROVE  OrdersOf(r)'
<1>1. PICK d : d = Decision(r) OBVIOUS
<1>2. Decision(r)' = d BY <1>1 DEF Decision
<1>3. PICK c, t : c = checkpoint[r] /\ t = run[r].decision OBVIOUS
<1>4. PICK X : X = {OrderRow(o, NewFills(c, d)) : o \in Intents(c, d)} OBVIOUS
<1>5. c # Nothing /\ Sound(c, t) /\ {o \in orders : o.run = r} = X
  BY <1>1, <1>3, <1>4 DEF OrdersOf
<1>6. {OrderRow(o, NewFills(checkpoint[r], Decision(r))) :
         o \in Intents(checkpoint[r], Decision(r))}' = X
  BY <1>2, <1>3, <1>4
<1>7. Sound(checkpoint[r], run[r].decision)' BY <1>3, <1>5
<1> QED BY <1>3, <1>5, <1>6, <1>7 DEF OrdersOf

\* A step that writes no table and completes no run keeps the invariant, if it keeps
\* the types and what was read.
LEMMA QuietKeeps ==
  ASSUME PortfolioInv, PortfolioTypeOK', ReadInv', UNCHANGED <<books, disordered>>,
         \A q \in Runs : run[q].status = "COMPLETED" =>
           run'[q] = run[q] /\ checkpoint'[q] = checkpoint[q],
         \A q \in Runs : run'[q].status = "COMPLETED" => run[q].status = "COMPLETED"
  PROVE  PortfolioInv'
<1>1. ledger' = ledger /\ orders' = orders /\ fills' = fills /\ navs' = navs
      /\ disordered' = disordered
  BY DEF books
<1>2. TablesInv' BY TablesKept DEF PortfolioInv, TablesInv
<1>3. \A f \in fills : f.run \in Runs BY DEF PortfolioInv, PortfolioTypeOK, Fill
<1>4. \A o \in orders : o.run \in Runs BY DEF PortfolioInv, PortfolioTypeOK, Order
<1>5. PostedInv'
  <2>1. \A f \in fills' : run'[f.run].status = "COMPLETED"
    BY <1>1, <1>3 DEF PortfolioInv, PostedInv
  <2>2. \A o \in orders' : run'[o.run].status = "COMPLETED"
    BY <1>1, <1>4 DEF PortfolioInv, PostedInv
  <2>3. ASSUME NEW q \in Runs, run'[q].status = "COMPLETED", ~run'[q].denied
        PROVE  OrdersOf(q)'
    <3>1. run'[q] = run[q] /\ checkpoint'[q] = checkpoint[q] BY <2>3
    <3>2. OrdersOf(q) BY <2>3, <3>1 DEF PortfolioInv, PostedInv
    <3> QED BY <1>1, <3>1, <3>2, OrdersKept
  <2> QED BY <2>1, <2>2, <2>3 DEF PostedInv
<1>6. NavInv'
  <2>1. navs' # {} => ledger' # {} BY <1>1 DEF PortfolioInv, NavInv
  <2>2. ASSUME NEW n \in navs
        PROVE  \/ \E e \in ledger : n.at <= e.at
               \/ n.run \in Runs /\ run'[n.run].status = "COMPLETED" /\ n.at <= run'[n.run].decision
    BY DEF PortfolioInv, NavInv
  <2> QED BY <1>1, <2>1, <2>2 DEF NavInv
<1> QED BY <1>2, <1>5, <1>6 DEF PortfolioInv, TablesInv

\* Time passes.
LEMMA TickKeeps == ASSUME PortfolioInv, Tick PROVE PortfolioInv'
<1>1. UNCHANGED <<run, view, checkpoint, books, disordered>> /\ now < MaxTime /\ now' = now + 1
  BY DEF Tick
<1>2. now' \in Times BY <1>1, PortfolioAssumption DEF PortfolioInv, PortfolioTypeOK, Times
<1>3. PortfolioTypeOK' BY <1>1, <1>2 DEF PortfolioInv, PortfolioTypeOK, books
<1>4. ReadInv'
  <2> SUFFICES ASSUME NEW q \in Runs PROVE ReadOf(q)' BY DEF ReadInv
  <2>1. ReadOf(q) BY DEF PortfolioInv, ReadInv
  <2> QED BY <1>1, <2>1, ReadIsKept DEF books
<1> QED BY <1>1, <1>3, <1>4, QuietKeeps

\* A run that is admitted has read nothing.
LEMMA AdmitKeeps ==
  ASSUME PortfolioInv, NEW r \in Runs, NEW t \in Times, NEW denied \in BOOLEAN,
         Admit(r, t, denied)
  PROVE  PortfolioInv'
<1>1. /\ run[r].status = "ABSENT"
      /\ run' = [run EXCEPT ![r].status = "QUEUED", ![r].decision = t, ![r].denied = denied]
      /\ UNCHANGED <<now, view, checkpoint, books, disordered>>
  BY DEF Admit
<1>2. PortfolioTypeOK BY DEF PortfolioInv
<1>3. run[r] \in RunRow /\ run \in [Runs -> RunRow] BY <1>2 DEF PortfolioTypeOK
<1>4. run'[r] = [run[r] EXCEPT !.status = "QUEUED", !.decision = t, !.denied = denied]
  BY <1>1, <1>3
<1>5. run'[r] \in RunRow /\ run'[r].status = "QUEUED" BY <1>3, <1>4 DEF RunRow, Statuses
<1>6. \A q \in Runs : q # r => run'[q] = run[q] BY <1>1, <1>3
<1>7. run' \in [Runs -> RunRow] BY <1>1, <1>3, <1>5
<1>8. view[r] = Nothing /\ checkpoint[r] = Nothing
  BY <1>1, <1>2 DEF PortfolioInv, ReadInv, ReadOf, PortfolioTypeOK
<1>9. PortfolioTypeOK'
  <2>1. \A q \in Runs : view'[q] # Nothing <=> run'[q].status = "RUNNING"
    BY <1>1, <1>2, <1>5, <1>6, <1>8 DEF PortfolioTypeOK
  <2> QED BY <1>1, <1>2, <1>7, <2>1 DEF PortfolioTypeOK, books
<1>10. ReadInv'
  <2> SUFFICES ASSUME NEW q \in Runs PROVE ReadOf(q)' BY DEF ReadInv
  <2>1. CASE q = r BY <1>1, <1>8, <2>1 DEF ReadOf
  <2>2. CASE q # r
    <3>1. ReadOf(q) BY DEF PortfolioInv, ReadInv
    <3> QED BY <1>1, <1>6, <2>2, <3>1, ReadIsKept DEF books
  <2> QED BY <2>1, <2>2
<1> QED BY <1>1, <1>5, <1>6, <1>9, <1>10, QuietKeeps

\* An attempt reads fills that are in the books and of its date.
LEMMA StartKeeps ==
  ASSUME PortfolioInv, NEW r \in Runs, Start(r)
  PROVE  PortfolioInv'
<1>1. /\ run[r].status = "QUEUED" /\ run[r].attempt < MaxAttempts
      /\ run' = [run EXCEPT ![r].status = "RUNNING", ![r].attempt = @ + 1]
      /\ view' = [view EXCEPT ![r] = [stage |-> "FILLS", seen |-> now, ledger |-> {},
                                      fills |-> LoadFills(run[r].decision)]]
      /\ UNCHANGED <<now, checkpoint, books, disordered>>
  BY DEF Start
<1>2. PortfolioTypeOK BY DEF PortfolioInv
<1>3. /\ run[r] \in RunRow /\ run \in [Runs -> RunRow] /\ view \in [Runs -> View \cup {Nothing}]
      /\ now \in Times
  BY <1>2 DEF PortfolioTypeOK
<1>4. run'[r] = [run[r] EXCEPT !.status = "RUNNING", !.attempt = run[r].attempt + 1]
  BY <1>1, <1>3
<1>5. run[r].attempt + 1 \in 0..MaxAttempts BY <1>1, <1>3, PortfolioAssumption DEF RunRow
<1>6. /\ run'[r] \in RunRow /\ run'[r].status = "RUNNING"
      /\ run'[r].decision = run[r].decision /\ run'[r].denied = run[r].denied
  BY <1>3, <1>4, <1>5 DEF RunRow, Statuses
<1>7. \A q \in Runs : q # r => run'[q] = run[q] /\ view'[q] = view[q] BY <1>1, <1>3
<1>8. PICK v : v = [stage |-> "FILLS", seen |-> now, ledger |-> {},
                    fills |-> LoadFills(run[r].decision)]
  OBVIOUS
<1>9. view'[r] = v BY <1>1, <1>3, <1>8
<1>10. v \in View /\ v # Nothing
  <2>1. LoadFills(run[r].decision) \in SUBSET Fill BY <1>2 DEF LoadFills, PortfolioTypeOK
  <2>2. v \in View BY <1>3, <1>8, <2>1 DEF View
  <2> QED BY <2>2, NothingAssumption
<1>11. PortfolioTypeOK'
  <2>1. run' \in [Runs -> RunRow] BY <1>1, <1>3, <1>6
  <2>2. view' \in [Runs -> View \cup {Nothing}] BY <1>1, <1>3, <1>9, <1>10
  <2>3. \A q \in Runs : view'[q] # Nothing <=> run'[q].status = "RUNNING"
    BY <1>2, <1>6, <1>7, <1>9, <1>10 DEF PortfolioTypeOK
  <2> QED BY <1>1, <1>2, <2>1, <2>2, <2>3 DEF PortfolioTypeOK, books
<1>12. ReadInv'
  <2> SUFFICES ASSUME NEW q \in Runs PROVE ReadOf(q)' BY DEF ReadInv
  <2>1. ReadOf(q) BY DEF PortfolioInv, ReadInv
  <2>2. CASE q # r BY <1>1, <1>7, <2>1, <2>2, ReadIsKept DEF books
  <2>3. CASE q = r
    <3>1. PICK t : t = run[r].decision OBVIOUS
    <3>2. v.stage = "FILLS" /\ v.fills = {f \in fills : f.at <= t}
      BY <1>8, <3>1 DEF LoadFills
    <3>3. PICK c : c = checkpoint[r] OBVIOUS
    <3>4. c # Nothing => Known(c, t) /\ Valued(c, t) BY <2>1, <2>3, <3>1, <3>3 DEF ReadOf
    <3>5. Known(c, t)' = Known(c, t) BY <1>1 DEF Known, ReadLedger, books
    <3>6. c # Nothing => Known(checkpoint[r], run[r].decision)'
      BY <1>1, <1>6, <3>1, <3>3, <3>4, <3>5
    <3>7. c # Nothing => Valued(checkpoint[r], run[r].decision)'
      BY <1>1, <1>6, <3>1, <3>3, <3>4
    <3> QED BY <1>1, <1>6, <1>9, <2>3, <3>1, <3>2, <3>3, <3>6, <3>7 DEF ReadOf, books
  <2> QED BY <2>2, <2>3
<1> QED BY <1>1, <1>6, <1>7, <1>11, <1>12, QuietKeeps

\* An attempt that ends without having written anything.
LEMMA EndsKeeps ==
  ASSUME PortfolioInv, NEW r \in Runs, NEW status \in Statuses \ {"RUNNING", "COMPLETED", "ABSENT"},
         Ends(r, status), UNCHANGED <<now, checkpoint, books, disordered>>,
         run[r].status # "COMPLETED"
  PROVE  PortfolioInv'
<1>1. PortfolioTypeOK /\ ReadInv BY DEF PortfolioInv
<1>2. /\ run' \in [Runs -> RunRow] /\ view' \in [Runs -> View \cup {Nothing}]
      /\ \A q \in Runs : view'[q] # Nothing <=> run'[q].status = "RUNNING"
      /\ \A q \in Runs : q # r => run'[q] = run[q] /\ view'[q] = view[q]
      /\ view'[r] = Nothing /\ run'[r].status = status
      /\ run'[r].decision = run[r].decision /\ run'[r].denied = run[r].denied
  BY <1>1, EndsIs
<1>3. checkpoint' = checkpoint /\ fills' = fills /\ ledger' = ledger BY DEF books
<1>4. PortfolioTypeOK' BY <1>1, <1>2 DEF PortfolioTypeOK, books
<1>5. ReadInv'
  <2> SUFFICES ASSUME NEW q \in Runs PROVE ReadOf(q)' BY DEF ReadInv
  <2>1. ReadOf(q) BY <1>1 DEF ReadInv
  <2>2. CASE q # r BY <1>2, <1>3, <2>1, <2>2, ReadIsKept
  <2>3. CASE q = r BY <1>2, <1>3, <2>1, <2>3, ReadIsKept
  <2> QED BY <2>2, <2>3
<1> QED BY <1>2, <1>3, <1>4, <1>5, QuietKeeps

\* An attempt that is lost has written nothing.
LEMMA LoseKeeps == ASSUME PortfolioInv, NEW r \in Runs, Lose(r) PROVE PortfolioInv'
<1>1. run[r].status = "RUNNING" /\ UNCHANGED <<now, checkpoint, books, disordered>> BY DEF Lose
<1>2. PICK status : status = IF run[r].attempt < MaxAttempts THEN "QUEUED" ELSE "FAILED" OBVIOUS
<1>3. Ends(r, status) BY <1>2 DEF Lose
<1>4. status \in Statuses \ {"RUNNING", "COMPLETED", "ABSENT"} BY <1>2 DEF Statuses
<1> QED BY <1>1, <1>3, <1>4, EndsKeeps

\* A failed run has written nothing, and is queued again as it was.
LEMMA RequeueKeeps == ASSUME PortfolioInv, NEW r \in Runs, Requeue(r) PROVE PortfolioInv'
<1>1. /\ run[r].status = "FAILED" /\ UNCHANGED <<now, checkpoint, books, disordered>>
      /\ Ends(r, "QUEUED")
  BY DEF Requeue
<1>2. "QUEUED" \in Statuses \ {"RUNNING", "COMPLETED", "ABSENT"} BY DEF Statuses
<1> QED BY <1>1, <1>2, EndsKeeps

\* An attempt whose graph raises has written nothing.
LEMMA GraphFailsKeeps == ASSUME PortfolioInv, NEW r \in Runs, GraphFails(r) PROVE PortfolioInv'
<1>1. /\ view[r] # Nothing /\ UNCHANGED <<now, checkpoint, books, disordered>>
      /\ Ends(r, "FAILED")
  BY DEF GraphFails
<1>2. "FAILED" \in Statuses \ {"RUNNING", "COMPLETED", "ABSENT"} BY DEF Statuses
<1>3. run[r].status # "COMPLETED" BY <1>1 DEF PortfolioInv, PortfolioTypeOK
<1> QED BY <1>1, <1>2, <1>3, EndsKeeps

\* An attempt reads a ledger of its date, or begins one.
LEMMA LoadLedgerKeeps == ASSUME PortfolioInv, NEW r \in Runs, LoadLedger(r) PROVE PortfolioInv'
<1>1. PortfolioTypeOK /\ ReadInv BY DEF PortfolioInv
<1>2. PICK v : v = view[r] OBVIOUS
<1>3. v # Nothing /\ v.stage = "FILLS" /\ UNCHANGED <<now, run, checkpoint, books, disordered>>
  BY <1>2 DEF LoadLedger
<1>4. PICK t \in Times : t = run[r].decision BY <1>1, PortfolioTyped
<1>5. PICK L : L = IF {e \in ledger : e.at <= t} = {} THEN {Funding(t)}
                   ELSE {e \in ledger : e.at <= t}
  OBVIOUS
<1>6. view' = [view EXCEPT ![r].stage = "LEDGER", ![r].ledger = L]
  BY <1>4, <1>5 DEF LoadLedger
<1>7. v \in View /\ view \in [Runs -> View \cup {Nothing}]
  BY <1>1, <1>2, <1>3, PortfolioTyped DEF PortfolioTypeOK
<1>8. view'[r] = [v EXCEPT !.stage = "LEDGER", !.ledger = L] BY <1>2, <1>6, <1>7
<1>9. L \in SUBSET Entry
  <2>1. Funding(t) \in Entry BY FundingIs
  <2>2. {e \in ledger : e.at <= t} \in SUBSET Entry BY <1>1 DEF PortfolioTypeOK
  <2> QED BY <1>5, <2>1, <2>2
<1>10. view'[r] \in View /\ view'[r] # Nothing
       /\ view'[r].fills = v.fills /\ view'[r].stage = "LEDGER" /\ view'[r].ledger = L
  <2>1. /\ view'[r] \in View /\ view'[r].fills = v.fills /\ view'[r].stage = "LEDGER"
        /\ view'[r].ledger = L
    BY <1>7, <1>8, <1>9 DEF View
  <2> QED BY <2>1, NothingAssumption
<1>11. \A q \in Runs : q # r => view'[q] = view[q] BY <1>6, <1>7
<1>12. run' = run /\ checkpoint' = checkpoint /\ fills' = fills /\ ledger' = ledger
  BY <1>3 DEF books
<1>13. PortfolioTypeOK'
  <2>1. view' \in [Runs -> View \cup {Nothing}] BY <1>6, <1>7, <1>10
  <2>2. \A q \in Runs : view'[q] # Nothing <=> run'[q].status = "RUNNING"
    BY <1>1, <1>2, <1>3, <1>10, <1>11, <1>12 DEF PortfolioTypeOK
  <2> QED BY <1>1, <1>3, <2>1, <2>2 DEF PortfolioTypeOK, books
<1>14. ReadInv'
  <2> SUFFICES ASSUME NEW q \in Runs PROVE ReadOf(q)' BY DEF ReadInv
  <2>1. ReadOf(q) BY <1>1 DEF ReadInv
  <2>2. CASE q # r BY <1>11, <1>12, <2>1, <2>2, ReadIsKept
  <2>3. CASE q = r
    <3>1. PICK c : c = checkpoint[r] OBVIOUS
    <3>2. c # Nothing => Known(c, t) /\ Valued(c, t) /\ run[r].status # "ABSENT"
      BY <1>4, <2>1, <2>3, <3>1 DEF ReadOf
    <3>3. Known(c, t)' = Known(c, t) BY <1>12 DEF Known, ReadLedger
    <3>4. c # Nothing => Known(checkpoint[r], run[r].decision)'
      BY <1>4, <1>12, <3>1, <3>2, <3>3
    <3>5. c # Nothing => Valued(checkpoint[r], run[r].decision)'
      BY <1>4, <1>12, <3>1, <3>2
    <3>6. v.fills \subseteq fills /\ \A f \in v.fills : f.at <= t
      BY <1>2, <1>3, <1>4, <2>1, <2>3 DEF ReadOf
    <3>7. ReadLedger(L, t) BY <1>5 DEF ReadLedger
    <3>8. ReadLedger(L, t)' BY <1>12, <3>7 DEF ReadLedger
    <3>9. ReadLedger(view[r].ledger, run[r].decision)'
      BY <1>4, <1>10, <1>12, <3>8
    <3> QED BY <1>4, <1>10, <1>12, <2>3, <3>1, <3>2, <3>4, <3>5, <3>6, <3>9 DEF ReadOf
  <2> QED BY <2>2, <2>3
<1> QED BY <1>3, <1>12, <1>13, <1>14, QuietKeeps

\* What an attempt has read becomes an input.
LEMMA InputIs ==
  ASSUME PortfolioTypeOK, NEW r \in Runs, view[r] # Nothing
  PROVE  /\ Input0(r) \in Input /\ Input0(r) # Nothing /\ Input0(r).seen = view[r].seen
         /\ Input0(r).fills = view[r].fills /\ Input0(r).ledger = view[r].ledger
<1>1. PICK v \in View : v = view[r] BY PortfolioTyped
<1>2. Input0(r) = [seen |-> v.seen, fills |-> v.fills, ledger |-> v.ledger]
  BY <1>1 DEF Input0
<1>3. Input0(r) \in Input BY <1>2 DEF View, Input
<1> QED BY <1>1, <1>2, <1>3, NothingAssumption

\* What is checkpointed is what an attempt has read, of this date and valued.
LEMMA InvokeKeeps == ASSUME PortfolioInv, NEW r \in Runs, Invoke(r) PROVE PortfolioInv'
<1>1. PortfolioTypeOK /\ ReadInv BY DEF PortfolioInv
<1>2. PICK v : v = view[r] OBVIOUS
<1>3. /\ v # Nothing /\ v.stage = "LEDGER" /\ ~run[r].denied
      /\ UNCHANGED <<now, books, disordered>>
  BY <1>2 DEF Invoke
<1>4. PICK t \in Times : t = run[r].decision BY <1>1, PortfolioTyped
<1>5. PICK in \in Input : in = Input0(r) BY <1>1, <1>2, <1>3, InputIs
<1>6. CASE ~ Valued(in, t)
  <2>1. Ends(r, "FAILED") /\ UNCHANGED checkpoint BY <1>4, <1>5, <1>6 DEF Invoke
  <2>2. "FAILED" \in Statuses \ {"RUNNING", "COMPLETED", "ABSENT"} BY DEF Statuses
  <2>3. run[r].status # "COMPLETED" BY <1>1, <1>2, <1>3 DEF PortfolioTypeOK
  <2> QED BY <1>3, <2>1, <2>2, <2>3, EndsKeeps
<1>7. CASE Valued(in, t)
  <2>1. /\ checkpoint' = [checkpoint EXCEPT ![r] = IF @ = Nothing THEN Input0(r) ELSE @]
        /\ view' = [view EXCEPT ![r].stage = "GRAPH"]
        /\ UNCHANGED run
    BY <1>4, <1>5, <1>7 DEF Invoke
  <2>2. v \in View /\ view \in [Runs -> View \cup {Nothing}]
        /\ checkpoint \in [Runs -> Input \cup {Nothing}]
    BY <1>1, <1>2, <1>3, PortfolioTyped DEF PortfolioTypeOK
  <2>3. PICK c : c = IF checkpoint[r] = Nothing THEN in ELSE checkpoint[r] OBVIOUS
  <2>4. checkpoint'[r] = c /\ \A q \in Runs : q # r => checkpoint'[q] = checkpoint[q]
    BY <1>5, <2>1, <2>2, <2>3
  <2>5. c \in Input /\ c # Nothing BY <2>2, <2>3, NothingAssumption
  <2>6. view'[r] = [v EXCEPT !.stage = "GRAPH"] /\ \A q \in Runs : q # r => view'[q] = view[q]
    BY <1>2, <2>1, <2>2
  <2>7. /\ view'[r] \in View /\ view'[r].fills = v.fills /\ view'[r].stage = "GRAPH"
        /\ view'[r].ledger = v.ledger
    BY <2>2, <2>6 DEF View
  <2>8. view'[r] # Nothing BY <2>7, NothingAssumption
  <2>9. run' = run /\ fills' = fills /\ ledger' = ledger BY <1>3, <2>1 DEF books
  <2>10. PortfolioTypeOK'
    <3>1. view' \in [Runs -> View \cup {Nothing}] BY <2>1, <2>2, <2>7
    <3>2. checkpoint' \in [Runs -> Input \cup {Nothing}] BY <2>1, <2>2, <2>4, <2>5
    <3>3. \A q \in Runs : view'[q] # Nothing <=> run'[q].status = "RUNNING"
      BY <1>1, <1>2, <1>3, <2>6, <2>8, <2>9 DEF PortfolioTypeOK
    <3> QED BY <1>1, <1>3, <2>9, <3>1, <3>2, <3>3 DEF PortfolioTypeOK, books
  <2>11. ReadInv'
    <3> SUFFICES ASSUME NEW q \in Runs PROVE ReadOf(q)' BY DEF ReadInv
    <3>1. ReadOf(q) BY <1>1 DEF ReadInv
    <3>2. CASE q # r BY <2>4, <2>6, <2>9, <3>1, <3>2, ReadIsKept
    <3>3. CASE q = r
      <4>1. ReadLedger(v.ledger, t) /\ v.fills \subseteq fills /\ \A f \in v.fills : f.at <= t
        BY <1>2, <1>3, <1>4, <3>1, <3>3 DEF ReadOf
      <4>2. in.fills = v.fills /\ in.ledger = v.ledger BY <1>1, <1>2, <1>3, <1>5, InputIs
      <4>3. Known(in, t) BY <4>1, <4>2 DEF Known
      <4>4. Known(c, t) /\ Valued(c, t)
        BY <1>4, <1>7, <2>3, <3>1, <3>3, <4>3 DEF ReadOf
      <4>5. Known(c, t)' BY <2>9, <4>4 DEF Known, ReadLedger
      <4>6. Known(checkpoint[r], run[r].decision)' BY <1>4, <2>4, <2>9, <4>5
      <4>7. Valued(checkpoint[r], run[r].decision)' BY <1>4, <2>4, <2>9, <4>4
      <4>8. ReadLedger(v.ledger, t)' BY <2>9, <4>1 DEF ReadLedger
      <4>9. ReadLedger(view[r].ledger, run[r].decision)' BY <1>4, <2>7, <2>9, <4>8
      <4>10. run[r].status = "RUNNING" BY <1>1, <1>2, <1>3 DEF PortfolioTypeOK
      <4> QED BY <1>3, <1>4, <2>4, <2>5, <2>7, <2>9, <3>3, <4>1, <4>6, <4>7, <4>9, <4>10 DEF ReadOf
    <3> QED BY <3>2, <3>3
  <2>12. run[r].status # "COMPLETED" BY <1>1, <1>2, <1>3 DEF PortfolioTypeOK
  <2> QED BY <1>3, <2>4, <2>9, <2>10, <2>11, <2>12, QuietKeeps
<1> QED BY <1>6, <1>7

\* What a row of the NAV table holds.
LEMMA NavRowIs ==
  ASSUME NEW r \in Runs \cup {Nothing}, NEW t \in Times, NEW in,
         in.ledger \in SUBSET Entry, IsFiniteSet(in.ledger),
         in.fills \in SUBSET Fill, IsFiniteSet(in.fills)
  PROVE  LET n == NavRow(r, in, t)
         IN /\ n \in [run : Runs \cup {Nothing}, at : Times, cash : Int, held : [Listed -> Int]]
            /\ n.run = r /\ n.at = t /\ n.cash = CashOf(in.ledger)
            /\ \A s \in Listed : n.held[s] = Position(in.fills, s)
<1>1. CashOf(in.ledger) \in Int BY CashIs
<1>2. \A s \in Listed : Position(in.fills, s) \in Int BY PositionIs
<1> QED BY <1>1, <1>2 DEF NavRow

\* Initializing the portfolio keeps the books sound: in order, nothing was posted before.
LEMMA InitializeKeeps == ASSUME PortfolioInv, NEW t \in Times, Initialize(t) PROVE PortfolioInv'
<1>1. PortfolioTypeOK /\ ReadInv /\ PostedInv /\ NavInv /\ FundingInv /\ BooksAgree
      /\ IsFiniteSet(ledger) /\ IsFiniteSet(fills) /\ AccountSound /\ NavReproducible
  BY DEF PortfolioInv
<1>2. PICK F : F = Funding(t) OBVIOUS
<1>3. PICK b : b = [fills |-> {}, ledger |-> {F}] OBVIOUS
<1>4. PICK n : n = NavRow(Nothing, b, t) OBVIOUS
<1>5. /\ \A e \in ledger : e.fill # <<>>
      /\ ledger' = ledger \cup {F} /\ navs' = navs \cup {n}
      /\ UNCHANGED <<now, run, view, checkpoint, orders, fills, disordered>>
  BY <1>2, <1>3, <1>4 DEF Initialize
<1>6. F \in Entry /\ CashOf({F}) = OpeningCash /\ F.fill = <<>> /\ F.at = t
  BY <1>2, FundingIs DEF Funding
<1>7. IsFiniteSet({F}) /\ Cardinality({F}) = 1 BY FS_Singleton
<1>8. b.ledger = {F} /\ b.fills = {} BY <1>3
<1>9. /\ n \in [run : Runs \cup {Nothing}, at : Times, cash : Int, held : [Listed -> Int]]
      /\ n.at = t /\ n.cash = OpeningCash /\ \A s \in Listed : n.held[s] = Position({}, s)
  <2>1. IsFiniteSet({}) BY FS_EmptySet
  <2>2. b.ledger \in SUBSET Entry /\ IsFiniteSet(b.ledger) /\ b.fills \in SUBSET Fill
        /\ IsFiniteSet(b.fills)
    BY <1>6, <1>7, <1>8, <2>1
  <2>3. /\ n \in [run : Runs \cup {Nothing}, at : Times, cash : Int, held : [Listed -> Int]]
        /\ n.at = t /\ n.cash = CashOf(b.ledger)
        /\ \A s \in Listed : n.held[s] = Position(b.fills, s)
    BY <1>4, <2>2, NavRowIs
  <2>4. CashOf(b.ledger) = OpeningCash BY <1>6, <1>8, Zenon
  <2>5. \A s \in Listed : n.held[s] = Position({}, s) BY <1>8, <2>3, Zenon
  <2> QED BY <2>3, <2>4, <2>5
<1>10. PortfolioTypeOK' BY <1>1, <1>5, <1>6, <1>9 DEF PortfolioTypeOK
<1>11. IsFiniteSet(ledger') /\ IsFiniteSet(fills') BY <1>1, <1>5, <1>7, FS_Union
<1>12. ReadInv'
  <2> SUFFICES ASSUME NEW q \in Runs PROVE ReadOf(q)' BY DEF ReadInv
  <2>1. ReadOf(q) BY <1>1 DEF ReadInv
  <2>2. ledger \subseteq ledger' /\ fills \subseteq fills' /\ run' = run /\ view' = view
        /\ checkpoint' = checkpoint
    BY <1>5
  <2> QED BY <2>1, <2>2, ReadIsKept
<1>13. PostedInv'
  <2>1. run' = run /\ fills' = fills /\ orders' = orders /\ checkpoint' = checkpoint BY <1>5
  <2>2. ASSUME NEW q \in Runs, run'[q].status = "COMPLETED", ~run'[q].denied
        PROVE  OrdersOf(q)'
    <3>1. OrdersOf(q) BY <1>1, <2>1, <2>2 DEF PostedInv
    <3> QED BY <2>1, <3>1, OrdersKept
  <2> QED BY <1>1, <2>1, <2>2 DEF PostedInv
<1>14. NavInv'
  <2>1. ledger' # {} /\ F \in ledger' /\ n.at <= F.at BY <1>5, <1>6, <1>9 DEF Times
  <2>2. run' = run /\ navs' = navs \cup {n} /\ ledger \subseteq ledger' BY <1>5
  <2>3. \A m \in navs : \/ \E e \in ledger' : m.at <= e.at
                        \/ m.run \in Runs /\ run'[m.run].status = "COMPLETED"
                           /\ m.at <= run'[m.run].decision
    BY <1>1, <2>2 DEF NavInv
  <2> QED BY <2>1, <2>2, <2>3 DEF NavInv
<1>15. disordered' = {} => ledger = {} /\ fills = {} /\ navs = {} /\ ledger' = {F}
  <2> SUFFICES ASSUME disordered' = {} PROVE ledger = {} /\ fills = {} /\ navs = {} BY <1>5
  <2>1. ledger = {} BY <1>1, <1>5 DEF FundingInv
  <2>2. navs = {} BY <1>1, <2>1 DEF NavInv
  <2>3. \A f \in fills : EntryOf(f) \in ledger BY <1>1 DEF BooksAgree
  <2> QED BY <2>1, <2>2, <2>3
<1>16. FundingInv' BY <1>6, <1>15 DEF FundingInv
<1>17. BooksAgree'
  <2>1. {e \in ledger' : e.fill # <<>>} = {e \in ledger : e.fill # <<>>} BY <1>5, <1>6
  <2>2. fills' = fills /\ orders' = orders BY <1>5
  <2> QED BY <1>1, <2>1, <2>2 DEF BooksAgree
<1>18. AccountSound'
  <2> SUFFICES ASSUME disordered' = {}
               PROVE  /\ CashOf(ledger') >= 0 /\ \A s \in Listed : Position(fills', s) >= 0
                      /\ Cardinality({e \in ledger' : e.fill = <<>>}) <= 1
    BY DEF AccountSound
  <2>1. CashOf(ledger') >= 0
    <3>1. CashOf(ledger') = CashOf({F}) BY <1>15, Zenon
    <3>2. OpeningCash \in Nat BY PortfolioAssumption
    <3> QED BY <1>6, <3>1, <3>2
  <2>2. \A s \in Listed : Position(fills', s) >= 0
    <3>1. \A s \in Listed : Position(fills', s) = Position({}, s) BY <1>5, <1>15, Zenon
    <3> QED BY <3>1, NoPosition
  <2>3. {e \in ledger' : e.fill = <<>>} = {F} BY <1>6, <1>15
  <2>4. Cardinality({e \in ledger' : e.fill = <<>>}) = 1 BY <1>7, <2>3, Zenon
  <2> QED BY <2>1, <2>2, <2>4
<1>19. NavReproducible'
  <2> SUFFICES ASSUME disordered' = {}
               PROVE  \A m \in navs' :
                        /\ m.cash = CashOf({e \in ledger' : e.at <= m.at})
                        /\ \A s \in Listed : m.held[s] = Position({f \in fills' : f.at <= m.at}, s)
    BY DEF NavReproducible
  <2>1. navs' = {n} BY <1>5, <1>15
  <2>2. {e \in ledger' : e.at <= n.at} = {F} BY <1>6, <1>9, <1>15 DEF Times
  <2>3. {f \in fills' : f.at <= n.at} = {} BY <1>5, <1>15
  <2> QED BY <1>6, <1>9, <2>1, <2>2, <2>3
<1> QED BY <1>10, <1>11, <1>12, <1>13, <1>14, <1>16, <1>17, <1>18, <1>19 DEF PortfolioInv

-----------------------------------------------------------------------------
\* A run posts

\* What run r posts: new fills for the orders it places, all of after its decision.
Postable(r, in, new, placed) ==
  /\ view[r] # Nothing
  /\ in \in Input /\ Known(in, run[r].decision)
  /\ new \in SUBSET Fill /\ IsFiniteSet(new)
  /\ \A f \in new : f.run = r /\ f.at > run[r].decision
  /\ \A f \in new : \E o \in placed : o.symbol = f.symbol /\ o.side = f.side
  /\ placed \in SUBSET Order
  /\ \A o \in placed : /\ o.run = r /\ Filled(o, new) <= o.quantity
                       /\ o.status = "FILLED" <=> Filled(o, new) = o.quantity
                       /\ o.status = "PENDING" <=> Filled(o, new) = 0
  /\ ~run[r].denied =>
       /\ in = checkpoint[r] /\ Sound(in, run[r].decision)
       /\ placed = {OrderRow(o, NewFills(in, Decision(r))) : o \in Intents(in, Decision(r))}
  /\ disordered = {} /\ ledger \subseteq in.ledger /\ fills \subseteq in.fills =>
       /\ CashOf(Posted(in, new).ledger) >= 0
       /\ \A s \in Listed : Position(in.fills, s) + Position(new, s) >= 0

\* Deny and CommitRun, as far as the books go.
Posts(r, in, new, placed) ==
  /\ ledger' = ledger \cup Posted(in, new).ledger
  /\ navs' = navs \cup {NavRow(r, Posted(in, new), NavTime(new, run[r].decision))}
  /\ orders' = orders \cup placed
  /\ fills' = fills \cup new
  /\ Completes(r, in)
  /\ UNCHANGED <<now, checkpoint>>

\* What is known of the posting run and of the tables after it.
LEMMA PostsIs ==
  ASSUME PortfolioInv, NEW r \in Runs, NEW in, NEW new, NEW placed,
         Postable(r, in, new, placed), Posts(r, in, new, placed)
  PROVE  /\ ledger' = (ledger \cup in.ledger) \cup {EntryOf(f) : f \in new}
         /\ in.ledger # {} /\ in.ledger \in SUBSET Entry /\ IsFiniteSet(in.ledger)
         /\ in.fills \in SUBSET Fill /\ IsFiniteSet(in.fills) /\ in.fills \subseteq fills
         /\ {EntryOf(f) : f \in new} \in SUBSET Entry /\ IsFiniteSet({EntryOf(f) : f \in new})
         /\ \A e \in {EntryOf(f) : f \in new} : e.fill # <<>> /\ e.at > run[r].decision
         /\ \A e \in in.ledger : e.at <= run[r].decision /\ (e.fill # <<>> => e \in ledger)
         /\ run[r].status = "RUNNING" /\ run[r].decision \in Times
         /\ \A f \in fills : f.run # r
         /\ \A o \in orders : o.run # r
<1>1. PICK d : d = run[r].decision OBVIOUS
<1>2. PortfolioTypeOK /\ PostedInv /\ IsFiniteSet(ledger) /\ IsFiniteSet(fills)
  BY DEF PortfolioInv
<1>3. in \in Input /\ Known(in, d) /\ new \in SUBSET Fill /\ IsFiniteSet(new)
      /\ view[r] # Nothing /\ \A f \in new : f.at > d
  BY <1>1 DEF Postable
<1>4. run[r].status = "RUNNING" /\ d \in Times
  BY <1>1, <1>2, <1>3, PortfolioTyped DEF PortfolioTypeOK
<1>5. \A f \in fills : f.run # r BY <1>2, <1>4 DEF PostedInv
<1>6. \A o \in orders : o.run # r BY <1>2, <1>4 DEF PostedInv
<1>7. in.ledger \in SUBSET Entry /\ in.fills \in SUBSET Fill BY <1>3 DEF Input
<1>8. in.fills \subseteq fills /\ IsFiniteSet(in.fills) BY <1>2, <1>3, FS_Subset DEF Known
<1>9. ReadLedger(in.ledger, d) BY <1>3 DEF Known
<1>10. IsFiniteSet(in.ledger) BY <1>2, <1>9, FS_Subset, FS_Singleton DEF ReadLedger
<1>11. in.ledger # {} BY <1>9 DEF ReadLedger
<1>12. \A e \in in.ledger : e.at <= d /\ (e.fill # <<>> => e \in ledger)
  <2>1. Funding(d).at = d /\ Funding(d).fill = <<>> BY DEF Funding
  <2> QED BY <1>4, <1>9, <2>1 DEF ReadLedger, Times
<1>13. PICK E : E = {EntryOf(f) : f \in new} OBVIOUS
<1>14. E \in SUBSET Entry /\ IsFiniteSet(E) BY <1>3, <1>13, EntriesFinite
<1>15. \A e \in E : e.fill # <<>> /\ e.at > d
  <2>1. \A f \in new : EntryOf(f).fill # <<>> /\ EntryOf(f).at > d BY <1>3, EntryIs
  <2> QED BY <1>13, <2>1
<1>16. Posted(in, new).ledger = in.ledger \cup E BY <1>3, <1>13, PostedIs
<1>17. ledger' = (ledger \cup in.ledger) \cup E BY <1>16 DEF Posts
<1> QED BY <1>1, <1>4, <1>5, <1>6, <1>7, <1>8, <1>10, <1>11, <1>12, <1>13, <1>14, <1>15, <1>17

\* What is known if it posts in order.
LEMMA PostsInOrder ==
  ASSUME PortfolioInv, NEW r \in Runs, NEW in, NEW new, NEW placed,
         Postable(r, in, new, placed), Posts(r, in, new, placed), disordered' = {}
  PROVE  /\ disordered = {} /\ in.fills = fills
         /\ ledger' = in.ledger \cup {EntryOf(f) : f \in new}
         /\ ledger = in.ledger \/ (ledger = {} /\ in.ledger = {Funding(run[r].decision)})
         /\ CashOf(ledger') >= 0
         /\ \A s \in Listed : Position(in.fills, s) + Position(new, s) >= 0
         /\ \A q \in Runs : run[q].status = "COMPLETED" => run[q].decision <= run[r].decision
<1>1. disordered' =
        IF /\ ledger \subseteq in.ledger /\ fills \subseteq in.fills
           /\ \A q \in Runs : run[q].status = "COMPLETED" => run[q].decision <= run[r].decision
          THEN disordered ELSE disordered \cup {r}
  BY DEF Posts, Completes
<1>2. /\ ledger \subseteq in.ledger /\ fills \subseteq in.fills /\ disordered = {}
      /\ \A q \in Runs : run[q].status = "COMPLETED" => run[q].decision <= run[r].decision
  BY <1>1
<1>3. in \in Input /\ Known(in, run[r].decision) BY DEF Postable
<1>4. in.fills = fills BY <1>2, <1>3 DEF Known
<1>5. ledger = in.ledger \/ (ledger = {} /\ in.ledger = {Funding(run[r].decision)})
  BY <1>2, <1>3 DEF Known, ReadLedger
<1>6. ledger' = in.ledger \cup {EntryOf(f) : f \in new}
  <2>1. PICK E : E = {EntryOf(f) : f \in new} OBVIOUS
  <2>2. ledger' = (ledger \cup in.ledger) \cup E BY <2>1, PostsIs
  <2> QED BY <1>2, <2>1, <2>2
<1>7. Posted(in, new).ledger = in.ledger \cup {EntryOf(f) : f \in new} BY <1>3, PostedIs
<1>8. /\ CashOf(Posted(in, new).ledger) >= 0
      /\ \A s \in Listed : Position(in.fills, s) + Position(new, s) >= 0
  BY <1>2 DEF Postable
<1> QED BY <1>2, <1>4, <1>5, <1>6, <1>7, <1>8

\* The tables stay typed and finite.
LEMMA PostsTyped ==
  ASSUME PortfolioInv, NEW r \in Runs, NEW in, NEW new, NEW placed,
         Postable(r, in, new, placed), Posts(r, in, new, placed)
  PROVE  PortfolioTypeOK' /\ IsFiniteSet(ledger') /\ IsFiniteSet(fills')
<1>1. PortfolioTypeOK /\ IsFiniteSet(ledger) /\ IsFiniteSet(fills) BY DEF PortfolioInv
<1>2. /\ in \in Input /\ new \in SUBSET Fill /\ IsFiniteSet(new) /\ placed \in SUBSET Order
  BY DEF Postable
<1>3. PICK E : E = {EntryOf(f) : f \in new} OBVIOUS
<1>4. /\ ledger' = (ledger \cup in.ledger) \cup E
      /\ in.ledger \in SUBSET Entry /\ IsFiniteSet(in.ledger)
      /\ in.fills \in SUBSET Fill /\ IsFiniteSet(in.fills)
      /\ E \in SUBSET Entry /\ IsFiniteSet(E)
      /\ run[r].decision \in Times
  BY <1>3, PostsIs
<1>5. PICK p, T : p = Posted(in, new) /\ T = NavTime(new, run[r].decision) OBVIOUS
<1>6. p.fills = in.fills \cup new /\ p.ledger = in.ledger \cup E BY <1>2, <1>3, <1>5, PostedIs
<1>7. T \in Times BY <1>2, <1>4, <1>5, NavTimeIs
<1>8. p.ledger \in SUBSET Entry /\ IsFiniteSet(p.ledger) /\ p.fills \in SUBSET Fill
      /\ IsFiniteSet(p.fills)
  <2>1. IsFiniteSet(in.ledger \cup E) /\ IsFiniteSet(in.fills \cup new) BY <1>2, <1>4, FS_Union
  <2> QED BY <1>2, <1>4, <1>6, <2>1
<1>9. NavRow(r, p, T) \in [run : Runs \cup {Nothing}, at : Times, cash : Int, held : [Listed -> Int]]
  BY <1>7, <1>8, NavRowIs
<1>10. navs' = navs \cup {NavRow(r, p, T)} /\ orders' = orders \cup placed
       /\ fills' = fills \cup new /\ UNCHANGED <<now, checkpoint>> /\ Completes(r, in)
  BY <1>5 DEF Posts
<1>11. "COMPLETED" \in Statuses \ {"RUNNING"} BY DEF Statuses
<1>12. /\ run' \in [Runs -> RunRow] /\ view' \in [Runs -> View \cup {Nothing}]
       /\ \A q \in Runs : view'[q] # Nothing <=> run'[q].status = "RUNNING"
  <2>1. Ends(r, "COMPLETED") BY <1>10 DEF Completes
  <2> QED BY <1>1, <1>11, <2>1, EndsIs
<1>13. disordered' \subseteq Runs BY <1>1, <1>10 DEF Completes, PortfolioTypeOK
<1>14. PortfolioTypeOK'
  BY <1>1, <1>2, <1>4, <1>9, <1>10, <1>12, <1>13 DEF PortfolioTypeOK
<1>15. IsFiniteSet(ledger') BY <1>1, <1>4, FS_Union
<1>16. IsFiniteSet(fills') BY <1>1, <1>2, <1>10, FS_Union
<1> QED BY <1>14, <1>15, <1>16

\* What was read and what was posted by others stays; r's orders are those of its input.
LEMMA PostsPosted ==
  ASSUME PortfolioInv, NEW r \in Runs, NEW in, NEW new, NEW placed,
         Postable(r, in, new, placed), Posts(r, in, new, placed)
  PROVE  ReadInv' /\ PostedInv'
<1>1. PortfolioTypeOK /\ ReadInv /\ PostedInv BY DEF PortfolioInv
<1>2. orders' = orders \cup placed /\ fills' = fills \cup new /\ checkpoint' = checkpoint
      /\ Ends(r, "COMPLETED")
  BY DEF Posts, Completes
<1>3. "COMPLETED" \in Statuses \ {"RUNNING"} BY DEF Statuses
<1>4. /\ \A q \in Runs : q # r => run'[q] = run[q] /\ view'[q] = view[q]
      /\ view'[r] = Nothing /\ run'[r].status = "COMPLETED"
      /\ run'[r].decision = run[r].decision /\ run'[r].denied = run[r].denied
      /\ run'[r].research = run[r].research
  BY <1>1, <1>2, <1>3, EndsIs
<1>5. /\ \A f \in fills : f.run # r
      /\ \A o \in orders : o.run # r
      /\ ledger \subseteq ledger'
  <2>1. ledger' = (ledger \cup in.ledger) \cup {EntryOf(f) : f \in new} BY PostsIs
  <2> QED BY <2>1, PostsIs
<1>6. ReadInv'
  <2> SUFFICES ASSUME NEW q \in Runs PROVE ReadOf(q)' BY DEF ReadInv
  <2>1. ReadOf(q) BY <1>1 DEF ReadInv
  <2>2. CASE q # r BY <1>2, <1>4, <1>5, <2>1, <2>2, ReadIsKept
  <2>3. CASE q = r BY <1>2, <1>4, <1>5, <2>1, <2>3, ReadIsKept
  <2> QED BY <2>2, <2>3
<1>7. /\ \A f \in new : f.run = r
      /\ \A o \in placed : o.run = r
  BY DEF Postable
<1>8. \A f \in fills' : run'[f.run].status = "COMPLETED"
  <2>1. \A f \in fills : f.run \in Runs BY <1>1 DEF PortfolioTypeOK, Fill
  <2> QED BY <1>1, <1>2, <1>4, <1>5, <1>7, <2>1 DEF PostedInv
<1>9. \A o \in orders' : run'[o.run].status = "COMPLETED"
  <2>1. \A o \in orders : o.run \in Runs BY <1>1 DEF PortfolioTypeOK, Order
  <2> QED BY <1>1, <1>2, <1>4, <1>5, <1>7, <2>1 DEF PostedInv
<1>10. ASSUME NEW q \in Runs, run'[q].status = "COMPLETED", ~run'[q].denied
       PROVE  OrdersOf(q)'
  <2>1. CASE q # r
    <3>1. OrdersOf(q) BY <1>1, <1>4, <1>10, <2>1 DEF PostedInv
    <3>2. {o \in orders' : o.run = q} = {o \in orders : o.run = q} BY <1>2, <1>7, <2>1
    <3> QED BY <1>2, <1>4, <2>1, <3>1, <3>2, OrdersKept
  <2>2. CASE q = r
    <3>1. PICK t : t = run[r].decision OBVIOUS
    <3>2. PICK D : D = Decision(r) OBVIOUS
    <3>3. Decision(r)' = D BY <1>4, <3>2 DEF Decision
    <3>4. /\ in = checkpoint[r] /\ Sound(in, t)
          /\ placed = {OrderRow(o, NewFills(in, D)) : o \in Intents(in, D)}
      BY <1>4, <1>10, <2>2, <3>1, <3>2 DEF Postable
    <3>5. in # Nothing BY NothingAssumption DEF Postable
    <3>6. {o \in orders' : o.run = r} = placed BY <1>2, <1>5, <1>7
    <3>7. {OrderRow(o, NewFills(checkpoint[r], Decision(r))) :
             o \in Intents(checkpoint[r], Decision(r))}' = placed
      BY <1>2, <3>3, <3>4
    <3>8. Sound(checkpoint[r], run[r].decision)' BY <1>2, <1>4, <3>1, <3>4
    <3> QED BY <1>2, <2>2, <3>4, <3>5, <3>6, <3>7, <3>8 DEF OrdersOf
  <2> QED BY <2>1, <2>2
<1> QED BY <1>6, <1>8, <1>9, <1>10 DEF PostedInv

\* The books still agree.
LEMMA PostsAgree ==
  ASSUME PortfolioInv, NEW r \in Runs, NEW in, NEW new, NEW placed,
         Postable(r, in, new, placed), Posts(r, in, new, placed)
  PROVE  BooksAgree'
<1>1. PortfolioTypeOK /\ BooksAgree BY DEF PortfolioInv
<1>2. orders' = orders \cup placed /\ fills' = fills \cup new BY DEF Posts
<1>3. PICK E : E = {EntryOf(f) : f \in new} OBVIOUS
<1>4. /\ ledger' = (ledger \cup in.ledger) \cup E
      /\ \A e \in E : e.fill # <<>>
      /\ \A e \in in.ledger : e.fill # <<>> => e \in ledger
      /\ \A f \in fills : f.run # r
      /\ \A o \in orders : o.run # r
  BY <1>3, PostsIs
<1>5. /\ \A f \in new : f.run = r
      /\ \A o \in placed : o.run = r
      /\ \A f \in new : \E o \in placed : o.symbol = f.symbol /\ o.side = f.side
  BY DEF Postable
<1>6. {EntryOf(f) : f \in fills'} = {e \in ledger' : e.fill # <<>>}
  <2>1. {EntryOf(f) : f \in fills'} = {EntryOf(f) : f \in fills} \cup E BY <1>2, <1>3
  <2>2. {e \in ledger' : e.fill # <<>>} = {e \in ledger : e.fill # <<>>} \cup E BY <1>4
  <2> QED BY <1>1, <2>1, <2>2 DEF BooksAgree
<1>7. \A f \in fills' : \E o \in orders' : o.run = f.run /\ o.symbol = f.symbol /\ o.side = f.side
  BY <1>1, <1>2, <1>5 DEF BooksAgree
<1>8. ASSUME NEW o \in orders'
      PROVE  LET filled == Filled(o, {f \in fills' : f.run = o.run})
             IN /\ filled <= o.quantity
                /\ o.status = "FILLED" <=> filled = o.quantity
                /\ o.status = "PENDING" <=> filled = 0
  <2>1. CASE o \in orders
    <3>1. {f \in fills' : f.run = o.run} = {f \in fills : f.run = o.run} BY <1>2, <1>4, <1>5, <2>1
    <3> QED BY <1>1, <2>1, <3>1 DEF BooksAgree
  <2>2. CASE o \in placed
    <3>1. {f \in fills' : f.run = o.run} = new BY <1>2, <1>4, <1>5, <2>2
    <3> QED BY <2>2, <3>1 DEF Postable
  <2> QED BY <1>2, <2>1, <2>2
<1> QED BY <1>6, <1>7, <1>8 DEF BooksAgree

\* In order, the account stays sound.
LEMMA PostsAccount ==
  ASSUME PortfolioInv, NEW r \in Runs, NEW in, NEW new, NEW placed,
         Postable(r, in, new, placed), Posts(r, in, new, placed)
  PROVE  AccountSound' /\ FundingInv'
<1> SUFFICES ASSUME disordered' = {}
             PROVE  /\ CashOf(ledger') >= 0 /\ \A s \in Listed : Position(fills', s) >= 0
                    /\ Cardinality({e \in ledger' : e.fill = <<>>}) <= 1
                    /\ \E e \in ledger' : {x \in ledger' : x.fill = <<>>} = {e}
  BY DEF AccountSound, FundingInv
<1>1. PICK E : E = {EntryOf(f) : f \in new} OBVIOUS
<1>2. PICK F : F = Funding(run[r].decision) OBVIOUS
<1>3. /\ disordered = {} /\ in.fills = fills /\ ledger' = in.ledger \cup E
      /\ ledger = in.ledger \/ (ledger = {} /\ in.ledger = {F})
      /\ CashOf(ledger') >= 0
      /\ \A s \in Listed : Position(in.fills, s) + Position(new, s) >= 0
  BY <1>1, <1>2, PostsInOrder
<1>4. /\ in.ledger # {} /\ in.fills \in SUBSET Fill /\ IsFiniteSet(in.fills)
      /\ \A f \in fills : f.run # r
      /\ \A e \in E : e.fill # <<>>
  BY <1>1, PostsIs
<1>5. new \in SUBSET Fill /\ IsFiniteSet(new) /\ \A f \in new : f.run = r BY DEF Postable
<1>6. fills' = in.fills \cup new /\ in.fills \cap new = {} BY <1>3, <1>4, <1>5 DEF Posts
<1>7. \A s \in Listed : Position(fills', s) >= 0
  <2>1. \A s \in Listed : Position(fills', s) = Position(in.fills, s) + Position(new, s)
    BY <1>4, <1>5, <1>6, PositionUnion
  <2> QED BY <1>3, <2>1
<1>8. \E e \in ledger' : {x \in ledger' : x.fill = <<>>} = {e}
  <2>1. CASE ledger = in.ledger
    <3>1. PICK e \in ledger : {x \in ledger : x.fill = <<>>} = {e}
      BY <1>3, <1>4, <2>1 DEF PortfolioInv, FundingInv
    <3>2. {x \in ledger' : x.fill = <<>>} = {e} /\ e \in ledger' BY <1>3, <1>4, <2>1, <3>1
    <3> QED BY <3>2
  <2>2. CASE in.ledger = {F}
    <3>1. F.fill = <<>> BY <1>2 DEF Funding
    <3>2. {x \in ledger' : x.fill = <<>>} = {F} /\ F \in ledger' BY <1>3, <1>4, <2>2, <3>1
    <3> QED BY <3>2
  <2> QED BY <1>3, <2>1, <2>2
<1>9. Cardinality({e \in ledger' : e.fill = <<>>}) <= 1
  <2>1. PICK e : {x \in ledger' : x.fill = <<>>} = {e} BY <1>8
  <2>2. Cardinality({e}) = 1 BY FS_Singleton
  <2>3. Cardinality({x \in ledger' : x.fill = <<>>}) = 1 BY <2>1, <2>2, Zenon
  <2> QED BY <2>3
<1> QED BY <1>3, <1>7, <1>8, <1>9

\* In order, a NAV is struck of all there is, and nothing is posted behind another.
LEMMA PostsReproducible ==
  ASSUME PortfolioInv, NEW r \in Runs, NEW in, NEW new, NEW placed,
         Postable(r, in, new, placed), Posts(r, in, new, placed)
  PROVE  NavInv' /\ NavReproducible'
<1>1. PortfolioTypeOK /\ NavInv /\ NavReproducible BY DEF PortfolioInv
<1>2. PICK E : E = {EntryOf(f) : f \in new} OBVIOUS
<1>3. PICK d : d = run[r].decision OBVIOUS
<1>4. PICK p, T : p = Posted(in, new) /\ T = NavTime(new, d) OBVIOUS
<1>5. PICK n : n = NavRow(r, p, T) OBVIOUS
<1>6. /\ ledger' = (ledger \cup in.ledger) \cup E
      /\ in.ledger # {} /\ in.ledger \in SUBSET Entry /\ IsFiniteSet(in.ledger)
      /\ in.fills \in SUBSET Fill /\ IsFiniteSet(in.fills)
      /\ E \in SUBSET Entry /\ IsFiniteSet(E)
      /\ \A e \in E : e.fill # <<>> /\ e.at > d
      /\ \A e \in in.ledger : e.at <= d
      /\ run[r].status = "RUNNING" /\ d \in Times
  BY <1>2, <1>3, PostsIs
<1>7. /\ in \in Input /\ new \in SUBSET Fill /\ IsFiniteSet(new)
      /\ \A f \in new : f.run = r /\ f.at > d
      /\ \A f \in in.fills : f.at <= d
  BY <1>3 DEF Postable, Known
<1>8. fills' = fills \cup new /\ navs' = navs \cup {n} /\ Ends(r, "COMPLETED")
  BY <1>3, <1>4, <1>5 DEF Posts, Completes
<1>9. "COMPLETED" \in Statuses \ {"RUNNING"} BY DEF Statuses
<1>10. /\ \A q \in Runs : q # r => run'[q] = run[q]
       /\ run'[r].status = "COMPLETED" /\ run'[r].decision = d
  BY <1>1, <1>3, <1>8, <1>9, EndsIs
<1>11. p.fills = in.fills \cup new /\ p.ledger = in.ledger \cup E BY <1>2, <1>4, <1>7, PostedIs
<1>12. /\ T \in Times /\ d <= T /\ (\A f \in new : f.at <= T)
       /\ T = d \/ \E f \in new : T = f.at
  BY <1>4, <1>6, <1>7, NavTimeIs
<1>13. /\ n.run = r /\ n.at = T /\ n.cash = CashOf(p.ledger)
       /\ \A s \in Listed : n.held[s] = Position(p.fills, s)
  <2>1. p.ledger \in SUBSET Entry /\ IsFiniteSet(p.ledger) /\ p.fills \in SUBSET Fill
        /\ IsFiniteSet(p.fills)
    <3>1. IsFiniteSet(in.ledger \cup E) /\ IsFiniteSet(in.fills \cup new)
      BY <1>6, <1>7, FS_Union
    <3> QED BY <1>6, <1>7, <1>11, <3>1
  <2> QED BY <1>5, <1>12, <2>1, NavRowIs
<1>14. NavInv'
  <2>1. ledger' # {} BY <1>6
  <2>2. ASSUME NEW m \in navs
        PROVE  \/ \E e \in ledger' : m.at <= e.at
               \/ m.run \in Runs /\ run'[m.run].status = "COMPLETED" /\ m.at <= run'[m.run].decision
    <3>1. CASE \E e \in ledger : m.at <= e.at BY <1>6, <3>1
    <3>2. CASE m.run \in Runs /\ run[m.run].status = "COMPLETED" /\ m.at <= run[m.run].decision
      <4>1. m.run # r BY <1>6, <3>2
      <4> QED BY <1>10, <3>2, <4>1
    <3> QED BY <1>1, <3>1, <3>2 DEF NavInv
  <2>3. \/ \E e \in ledger' : n.at <= e.at
        \/ n.run \in Runs /\ run'[n.run].status = "COMPLETED" /\ n.at <= run'[n.run].decision
    <3>1. CASE T = d BY <1>6, <1>10, <1>13, <3>1 DEF Times
    <3>2. CASE \E f \in new : T = f.at
      <4>1. PICK f \in new : T = f.at BY <3>2
      <4>2. EntryOf(f) \in ledger' /\ EntryOf(f).at = T BY <1>2, <1>6, <1>7, <4>1, EntryIs
      <4> QED BY <1>12, <1>13, <4>2 DEF Times
    <3> QED BY <1>12, <3>1, <3>2
  <2> QED BY <1>8, <2>1, <2>2, <2>3 DEF NavInv
<1>15. NavReproducible'
  <2> SUFFICES ASSUME disordered' = {}
               PROVE  \A m \in navs' :
                        /\ m.cash = CashOf({e \in ledger' : e.at <= m.at})
                        /\ \A s \in Listed : m.held[s] = Position({f \in fills' : f.at <= m.at}, s)
    BY DEF NavReproducible
  <2>1. /\ disordered = {} /\ in.fills = fills /\ ledger' = in.ledger \cup E
        /\ ledger = in.ledger \/ ledger = {}
        /\ \A q \in Runs : run[q].status = "COMPLETED" => run[q].decision <= d
    BY <1>2, <1>3, PostsInOrder
  <2>2. /\ \A e \in in.ledger : e.at \in Nat
        /\ \A e \in E : e.at \in Nat
        /\ \A f \in fills' : f.at \in Nat
        /\ d \in Nat /\ T \in Nat
    BY <1>6, <1>7, <1>8, <1>12, <2>1 DEF Entry, Fill, Times
  <2>3. ASSUME NEW m \in navs
        PROVE  /\ m.cash = CashOf({e \in ledger' : e.at <= m.at})
               /\ \A s \in Listed : m.held[s] = Position({f \in fills' : f.at <= m.at}, s)
    <3>1. ledger = in.ledger BY <1>1, <2>1, <2>3 DEF NavInv
    <3>2. m.at \in Nat BY <1>1, <2>3 DEF PortfolioTypeOK, Times
    <3>3. m.at <= d
      <4>1. CASE \E e \in ledger : m.at <= e.at
        <5>1. PICK e \in in.ledger : m.at <= e.at BY <3>1, <4>1
        <5>2. e.at \in Nat /\ e.at <= d BY <1>6, <2>2
        <5> QED BY <2>2, <3>2, <5>1, <5>2
      <4>2. CASE m.run \in Runs /\ run[m.run].status = "COMPLETED" /\ m.at <= run[m.run].decision
        <5>1. PICK c \in Nat : c = run[m.run].decision
          BY <1>1, <4>2, PortfolioTyped DEF Times
        <5>2. c <= d BY <2>1, <4>2, <5>1
        <5> QED BY <2>2, <3>2, <4>2, <5>1, <5>2
      <4> QED BY <1>1, <2>3, <4>1, <4>2 DEF NavInv
    <3>4. {e \in ledger' : e.at <= m.at} = {e \in ledger : e.at <= m.at}
      BY <1>6, <2>1, <2>2, <3>1, <3>2, <3>3
    <3>5. {f \in fills' : f.at <= m.at} = {f \in fills : f.at <= m.at}
      BY <1>7, <1>8, <2>2, <3>2, <3>3
    <3> QED BY <1>1, <2>1, <3>4, <3>5 DEF NavReproducible
  <2>4. {e \in ledger' : e.at <= n.at} = p.ledger
    <3>1. \A e \in in.ledger : e.at <= T BY <1>6, <1>12, <2>2
    <3>2. \A e \in E : e.at <= T
      <4>1. \A f \in new : EntryOf(f).at <= T BY <1>7, <1>12, EntryIs
      <4> QED BY <1>2, <4>1
    <3> QED BY <1>11, <1>13, <2>1, <3>1, <3>2
  <2>5. {f \in fills' : f.at <= n.at} = p.fills
    <3>1. \A f \in in.fills : f.at <= T
      <4> SUFFICES ASSUME NEW f \in in.fills PROVE f.at <= T OBVIOUS
      <4>1. f.at \in Nat /\ f.at <= d BY <1>7, <1>8, <2>1, <2>2
      <4> QED BY <1>12, <2>2, <4>1
    <3> QED BY <1>8, <1>11, <1>12, <1>13, <2>1, <3>1
  <2> QED BY <1>8, <1>13, <2>3, <2>4, <2>5
<1> QED BY <1>14, <1>15

\* A run that posts keeps the invariant.
LEMMA PostsKeeps ==
  ASSUME PortfolioInv, NEW r \in Runs, NEW in, NEW new, NEW placed,
         Postable(r, in, new, placed), Posts(r, in, new, placed)
  PROVE  PortfolioInv'
BY PostsTyped, PostsPosted, PostsAgree, PostsAccount, PostsReproducible DEF PortfolioInv

\* A denied run posts no fill: it records the cash it has read.
LEMMA DenyKeeps == ASSUME PortfolioInv, NEW r \in Runs, Deny(r) PROVE PortfolioInv'
<1>1. PortfolioTypeOK /\ ReadInv /\ AccountSound BY DEF PortfolioInv
<1>2. PICK d \in Times : d = run[r].decision BY <1>1, PortfolioTyped
<1>3. PICK v : v = view[r] OBVIOUS
<1>4. /\ v # Nothing /\ v.stage = "LEDGER" /\ run[r].denied /\ v.fills = {}
      /\ ledger' = ledger \cup v.ledger /\ navs' = navs \cup {NavRow(r, Input0(r), d)}
      /\ Completes(r, Input0(r)) /\ UNCHANGED <<now, checkpoint, orders, fills>>
  BY <1>2, <1>3 DEF Deny
<1>5. PICK in \in Input : in = Input0(r) BY <1>1, <1>3, <1>4, InputIs
<1>6. in.fills = {} /\ in.ledger = v.ledger BY <1>1, <1>3, <1>4, <1>5, InputIs
<1>7. ReadLedger(in.ledger, d)
  <2>1. ReadOf(r) BY <1>1 DEF ReadInv
  <2> QED BY <1>2, <1>3, <1>4, <1>6, <2>1 DEF ReadOf
<1>8. Known(in, d) BY <1>6, <1>7 DEF Known
<1>9. {EntryOf(f) : f \in {}} = {} OBVIOUS
<1>10. PICK p : p = Posted(in, {}) OBVIOUS
<1>11. p.ledger = in.ledger /\ p.fills = {}
  <2>1. p.fills = in.fills \cup {} /\ p.ledger = in.ledger \cup {EntryOf(f) : f \in {}}
    BY <1>10, PostedIs
  <2> QED BY <1>6, <1>9, <2>1
<1>12. IsFiniteSet({}) BY FS_EmptySet
<1>13. disordered = {} /\ ledger \subseteq in.ledger =>
         /\ CashOf(p.ledger) >= 0
         /\ \A s \in Listed : Position(in.fills, s) + Position({}, s) >= 0
  <2> SUFFICES ASSUME disordered = {}, ledger \subseteq in.ledger
               PROVE  /\ CashOf(p.ledger) >= 0
                      /\ \A s \in Listed : Position(in.fills, s) + Position({}, s) >= 0
    OBVIOUS
  <2>1. CashOf(in.ledger) >= 0
    <3>1. CASE in.ledger = {Funding(d)}
      <4>1. CashOf(in.ledger) = OpeningCash BY <3>1, FundingIs, Zenon
      <4>2. OpeningCash \in Nat BY PortfolioAssumption
      <4> QED BY <4>1, <4>2
    <3>2. CASE in.ledger \subseteq ledger
      <4>1. in.ledger = ledger BY <3>2
      <4>2. CashOf(in.ledger) = CashOf(ledger) BY <4>1, Zenon
      <4> QED BY <1>1, <4>2 DEF AccountSound
    <3> QED BY <1>7, <3>1, <3>2 DEF ReadLedger
  <2>2. CashOf(p.ledger) = CashOf(in.ledger) BY <1>11, Zenon
  <2>3. \A s \in Listed : Position(in.fills, s) = Position({}, s) BY <1>6, Zenon
  <2>4. \A s \in Listed : Position({}, s) = 0 BY NoPosition
  <2> QED BY <2>1, <2>2, <2>3, <2>4
<1>14. Postable(r, in, {}, {})
  BY <1>2, <1>3, <1>4, <1>8, <1>10, <1>12, <1>13 DEF Postable
<1>15. NavTime({}, d) = d BY <1>2, <1>12, NavTimeIs
<1>16. NavRow(r, in, d) = NavRow(r, p, d)
  <2>1. CashOf(p.ledger) = CashOf(in.ledger) BY <1>11, Zenon
  <2>2. \A s \in Listed : Position(in.fills, s) = Position(p.fills, s) BY <1>6, <1>11, Zenon
  <2> QED BY <2>1, <2>2 DEF NavRow
<1>17. Posts(r, in, {}, {})
  <2>1. ledger' = ledger \cup p.ledger BY <1>4, <1>6, <1>11
  <2>2. navs' = navs \cup {NavRow(r, p, NavTime({}, d))} BY <1>4, <1>5, <1>15, <1>16
  <2> QED BY <1>2, <1>4, <1>5, <1>10, <2>1, <2>2 DEF Posts
<1> QED BY <1>14, <1>17, PostsKeeps

\* What a run that has been asked decides on is sound once its graph does not raise.
LEMMA DecisionIs ==
  ASSUME PortfolioTypeOK, NEW r \in Runs
  PROVE  /\ Decision(r).run = r /\ Decision(r).at = run[r].decision
         /\ Decision(r).research = run[r].research
         /\ Decision(r).at \in Times /\ Decision(r).research \in [Listed -> Opinions]
<1>1. run[r].decision \in Times /\ run[r].research \in [Listed -> Opinions] BY PortfolioTyped
<1> QED BY <1>1 DEF Decision

\* What is known of a book as of t can be read.
LEMMA KnownIs ==
  ASSUME PortfolioInv, NEW in \in Input, NEW t \in Times, Known(in, t)
  PROVE  Readable(in, t)
<1>1. IsFiniteSet(in.fills) BY FS_Subset DEF Known, PortfolioInv
<1>2. IsFiniteSet(in.ledger) BY FS_Subset, FS_Singleton DEF Known, ReadLedger, PortfolioInv
<1> QED BY <1>1, <1>2 DEF Readable

\* The row of an order holds the order.
LEMMA OrderRowIs ==
  ASSUME NEW o, NEW new, o.run \in Runs, o.symbol \in Listed, o.side \in {"BUY", "SELL"},
         o.quantity \in Nat \ {0}, Filled(o, new) \in 0..o.quantity
  PROVE  LET x == OrderRow(o, new)
         IN /\ x \in Order /\ x.run = o.run /\ x.symbol = o.symbol /\ x.side = o.side
            /\ x.quantity = o.quantity /\ Filled(x, new) = Filled(o, new)
            /\ x.status = "FILLED" <=> Filled(o, new) = o.quantity
            /\ x.status = "PENDING" <=> Filled(o, new) = 0
<1>1. PICK n, q : n = Filled(o, new) /\ q = o.quantity OBVIOUS
<1>2. PICK c : c = CASE n = q -> "FILLED" [] n \in 1..(q - 1) -> "PARTIALLY_FILLED"
                     [] OTHER -> "PENDING"
  OBVIOUS
<1>3. PICK x : x = OrderRow(o, new) OBVIOUS
<1>4. x = [run |-> o.run, symbol |-> o.symbol, side |-> o.side, quantity |-> q, status |-> c]
  BY <1>1, <1>2, <1>3 DEF OrderRow
<1>5. n \in 0..q /\ q \in Nat \ {0} BY <1>1
<1>6. /\ c \in {"PENDING", "PARTIALLY_FILLED", "FILLED"}
      /\ c = "FILLED" <=> n = q
      /\ c = "PENDING" <=> n = 0
  <2>1. CASE n = q BY <1>2, <1>5, <2>1
  <2>2. CASE n # q /\ n \in 1..(q - 1) BY <1>2, <1>5, <2>2
  <2>3. CASE n # q /\ n \notin 1..(q - 1) BY <1>2, <1>5, <2>3
  <2> QED BY <2>1, <2>2, <2>3
<1>7. x \in Order BY <1>1, <1>4, <1>6 DEF Order
<1>8. Filled(x, new) = n BY <1>1, <1>4 DEF Filled
<1> QED BY <1>1, <1>3, <1>4, <1>6, <1>7, <1>8

\* A run whose graph does not raise posts its orders and fills.
LEMMA CommitRunKeeps == ASSUME PortfolioInv, NEW r \in Runs, CommitRun(r) PROVE PortfolioInv'
<1>1. PortfolioTypeOK /\ ReadInv BY DEF PortfolioInv
<1>2. PICK c, D : c = checkpoint[r] /\ D = Decision(r) OBVIOUS
<1>3. PICK new : new = NewFills(c, D) OBVIOUS
<1>4. PICK placed : placed = {OrderRow(o, new) : o \in Intents(c, D)} OBVIOUS
<1>5. PICK p : p = Posted(c, new) OBVIOUS
<1>6. view[r] # Nothing /\ view[r].stage = "GRAPH" /\ ~Raises(c, D) BY <1>2 DEF CommitRun
<1>7. /\ ledger' = ledger \cup p.ledger
      /\ navs' = navs \cup {NavRow(r, p, NavTime(new, run[r].decision))}
      /\ orders' = orders \cup placed /\ fills' = fills \cup new
      /\ Completes(r, c) /\ UNCHANGED <<now, checkpoint>>
  BY <1>2, <1>3, <1>4, <1>5, Zenon DEF CommitRun
<1>8. ReadOf(r) BY <1>1 DEF ReadInv
<1>9. c # Nothing /\ Known(c, run[r].decision) /\ Valued(c, run[r].decision) /\ ~run[r].denied
  BY <1>2, <1>6, <1>8 DEF ReadOf
<1>10. c \in Input BY <1>1, <1>2, <1>9, PortfolioTyped
<1>11. /\ D.run = r /\ D.at = run[r].decision /\ D.at \in Times
       /\ D.research \in [Listed -> Opinions]
  BY <1>1, <1>2, DecisionIs
<1>12. Sound(c, D.at) /\ Payable(c, new) BY <1>3, <1>6 DEF Raises
<1>13. Readable(c, D.at) BY <1>9, <1>10, <1>11, KnownIs
<1>14. Decidable(c, D) BY <1>9, <1>11, <1>12, <1>13 DEF Decidable
<1>15. /\ new \in SUBSET Fill /\ IsFiniteSet(new)
       /\ \A f \in new : /\ f.run = r /\ f.at > D.at
                         /\ \E o \in Intents(c, D) : o.symbol = f.symbol /\ o.side = f.side
       /\ \A o \in Intents(c, D) : Filled(o, new) \in 0..o.quantity
       /\ \A s \in Listed : Position(c.fills, s) + Position(new, s) >= 0
  BY <1>3, <1>11, <1>14, NewFillsAre
<1>16. \A o \in Intents(c, D) :
         /\ o.run = r /\ o.symbol \in Listed /\ o.side \in {"BUY", "SELL"}
         /\ o.quantity \in Nat \ {0}
  BY <1>11, <1>14, IntentsAre
<1>17. \A o \in Intents(c, D) :
         LET x == OrderRow(o, new)
         IN /\ x \in Order /\ x.run = r /\ x.symbol = o.symbol /\ x.side = o.side
            /\ Filled(x, new) <= x.quantity
            /\ x.status = "FILLED" <=> Filled(x, new) = x.quantity
            /\ x.status = "PENDING" <=> Filled(x, new) = 0
  <2> SUFFICES ASSUME NEW o \in Intents(c, D)
               PROVE  LET x == OrderRow(o, new)
                      IN /\ x \in Order /\ x.run = r /\ x.symbol = o.symbol /\ x.side = o.side
                         /\ Filled(x, new) <= x.quantity
                         /\ x.status = "FILLED" <=> Filled(x, new) = x.quantity
                         /\ x.status = "PENDING" <=> Filled(x, new) = 0
    OBVIOUS
  <2>1. PICK x : x = OrderRow(o, new) OBVIOUS
  <2>2. /\ x \in Order /\ x.run = o.run /\ x.symbol = o.symbol /\ x.side = o.side
        /\ x.quantity = o.quantity /\ Filled(x, new) = Filled(o, new)
        /\ x.status = "FILLED" <=> Filled(o, new) = o.quantity
        /\ x.status = "PENDING" <=> Filled(o, new) = 0
    BY <1>15, <1>16, <2>1, OrderRowIs
  <2>3. Filled(o, new) <= o.quantity BY <1>15, <1>16
  <2> QED BY <1>16, <2>1, <2>2, <2>3
<1>18. /\ placed \in SUBSET Order
       /\ \A o \in placed : /\ o.run = r /\ Filled(o, new) <= o.quantity
                            /\ o.status = "FILLED" <=> Filled(o, new) = o.quantity
                            /\ o.status = "PENDING" <=> Filled(o, new) = 0
       /\ \A f \in new : \E o \in placed : o.symbol = f.symbol /\ o.side = f.side
  BY <1>4, <1>15, <1>17
<1>19. CashOf(p.ledger) >= 0 BY <1>5, <1>12, <1>13, <1>15, PaidIs
<1>20. Postable(r, c, new, placed)
  <2>1. placed = {OrderRow(o, NewFills(c, D)) : o \in Intents(c, D)} BY <1>3, <1>4
  <2>2. \A f \in new : f.run = r /\ f.at > run[r].decision BY <1>11, <1>15
  <2> QED BY <1>2, <1>5, <1>6, <1>9, <1>10, <1>11, <1>12, <1>15, <1>18, <1>19, <2>1, <2>2
          DEF Postable
<1>21. Posts(r, c, new, placed) BY <1>5, <1>7 DEF Posts
<1> QED BY <1>20, <1>21, PostsKeeps

-----------------------------------------------------------------------------
\* Every step keeps the invariant of the portfolio.
LEMMA PortfolioStepKeeps ==
  ASSUME PortfolioInv, [PortfolioNext]_portfolioVars
  PROVE  PortfolioInv'
<1>1. CASE UNCHANGED portfolioVars
  <2>1. UNCHANGED <<now, run, view, checkpoint, books, disordered>> BY <1>1 DEF portfolioVars
  <2>2. PortfolioTypeOK' BY <2>1 DEF PortfolioInv, PortfolioTypeOK, books
  <2>3. ReadInv'
    <3> SUFFICES ASSUME NEW q \in Runs PROVE ReadOf(q)' BY DEF ReadInv
    <3>1. ReadOf(q) BY DEF PortfolioInv, ReadInv
    <3> QED BY <2>1, <3>1, ReadIsKept DEF books
  <2> QED BY <2>1, <2>2, <2>3, QuietKeeps
<1>2. CASE Tick BY <1>2, TickKeeps
<1>3. ASSUME NEW t \in Times, Initialize(t) PROVE PortfolioInv' BY <1>3, InitializeKeeps
<1>4. ASSUME NEW r \in Runs, NEW t \in Times, NEW denied \in BOOLEAN, Admit(r, t, denied)
      PROVE  PortfolioInv'
  BY <1>4, AdmitKeeps
<1>5. ASSUME NEW r \in Runs,
             Start(r) \/ LoadLedger(r) \/ Deny(r) \/ Invoke(r)
             \/ GraphFails(r) \/ CommitRun(r) \/ Lose(r) \/ Requeue(r)
      PROVE  PortfolioInv'
  <2>1. CASE Start(r) BY <2>1, StartKeeps
  <2>2. CASE LoadLedger(r) BY <2>2, LoadLedgerKeeps
  <2>3. CASE Deny(r) BY <2>3, DenyKeeps
  <2>4. CASE Invoke(r) BY <2>4, InvokeKeeps
  <2>5. CASE GraphFails(r) BY <2>5, GraphFailsKeeps
  <2>6. CASE CommitRun(r) BY <2>6, CommitRunKeeps
  <2>7. CASE Lose(r) BY <2>7, LoseKeeps
  <2>8. CASE Requeue(r) BY <2>8, RequeueKeeps
  <2> QED BY <1>5, <2>1, <2>2, <2>3, <2>4, <2>5, <2>6, <2>7, <2>8
<1>6. CASE PortfolioNext
  <2>1. \/ Tick
        \/ \E t \in Times : Initialize(t)
        \/ \E r \in Runs : \E t \in Times, denied \in BOOLEAN : Admit(r, t, denied)
        \/ \E r \in Runs : Start(r) \/ LoadLedger(r) \/ Deny(r) \/ Invoke(r)
                           \/ GraphFails(r) \/ CommitRun(r) \/ Lose(r) \/ Requeue(r)
    BY <1>6 DEF PortfolioNext
  <2> QED BY <1>2, <1>3, <1>4, <1>5, <2>1
<1> QED BY <1>1, <1>6

\* Whatever runs overlap, are lost, resume or execute late, the paper portfolio's
\* books agree; in order, its account is cash-only and long-only and every NAV can be
\* rebuilt from what is posted.
THEOREM PortfolioBooksAreSound == PortfolioSpec => []BooksSound
<1>1. PortfolioInit => PortfolioInv BY PortfolioStarts
<1>2. PortfolioInv /\ [PortfolioNext]_portfolioVars => PortfolioInv' BY PortfolioStepKeeps
<1>3. PortfolioInv => BooksSound BY DEF PortfolioInv, BooksSound
<1> QED BY <1>1, <1>2, <1>3, PTL DEF PortfolioSpec

\* The sum over B is that over A, and with one element more, its value more.
Extends(w, A, B) ==
  /\ SumFunctionOnSet(w, A) \in Int /\ SumFunctionOnSet(w, B) \in Int
  /\ (\A x \in B : x \in A) => SumFunctionOnSet(w, B) = SumFunctionOnSet(w, A)
  /\ \A z \in B : z \notin A /\ (\A x \in B : x \in A \/ x = z)
       => SumFunctionOnSet(w, B) = SumFunctionOnSet(w, A) + w[z]

\* Sums over growing sets extend each other.
LEMMA SumExtends ==
  ASSUME NEW w, NEW A, NEW B, IsFiniteSet(B), A \subseteq B, \A x \in B : w[x] \in Int
  PROVE  Extends(w, A, B)
<1>1. IsFiniteSet(A) BY FS_Subset
<1>2. SumFunctionOnSet(w, A) \in Int /\ SumFunctionOnSet(w, B) \in Int BY <1>1, SumType
<1>3. ASSUME \A x \in B : x \in A
      PROVE  SumFunctionOnSet(w, B) = SumFunctionOnSet(w, A)
  <2>1. A = B BY <1>3
  <2> QED BY <2>1, Zenon
<1>4. ASSUME NEW z \in B, z \notin A, \A x \in B : x \in A \/ x = z
      PROVE  SumFunctionOnSet(w, B) = SumFunctionOnSet(w, A) + w[z]
  <2>1. B \ {z} = A BY <1>4
  <2>2. SumFunctionOnSet(w, B \ {z}) = SumFunctionOnSet(w, A) BY <2>1, Zenon
  <2>3. SumFunctionOnSet(w, B) = w[z] + SumFunctionOnSet(w, B \ {z}) BY SumRemoves
  <2>4. w[z] \in Int OBVIOUS
  <2> QED BY <1>2, <2>2, <2>3, <2>4
<1> QED BY <1>2, <1>3, <1>4 DEF Extends

\* The first i symbols.
Leading(i) == {Symbols[j] : j \in 1..i}

\* The first symbols are one more each time, and all in the end.
LEMMA LeadingIs ==
  /\ Leading(0) = {} /\ Leading(Len(Symbols)) = Listed
  /\ \A i \in 1..Len(Symbols) :
       /\ Leading(i) = Leading(i - 1) \cup {Symbols[i]} /\ Symbols[i] \notin Leading(i - 1)
       /\ Symbols[i] \in Listed /\ Leading(i) \subseteq Listed /\ Leading(i - 1) \subseteq Listed
<1>1. /\ Len(Symbols) \in Nat /\ DOMAIN Symbols = 1..Len(Symbols)
      /\ \A i \in DOMAIN Symbols : Symbols[i] \in Listed
      /\ \A s \in Listed : \E i \in DOMAIN Symbols : Symbols[i] = s
      /\ \A i, j \in DOMAIN Symbols : Symbols[i] = Symbols[j] => i = j
  BY SymbolsFinite
<1>2. Leading(0) = {} BY DEF Leading
<1>3. Leading(Len(Symbols)) = Listed BY <1>1 DEF Leading
<1>4. ASSUME NEW i \in 1..Len(Symbols)
      PROVE  /\ Leading(i) = Leading(i - 1) \cup {Symbols[i]} /\ Symbols[i] \notin Leading(i - 1)
             /\ Symbols[i] \in Listed /\ Leading(i) \subseteq Listed /\ Leading(i - 1) \subseteq Listed
  <2>1. 1..i = (1..(i - 1)) \cup {i} /\ i \notin 1..(i - 1) /\ 1..i \subseteq DOMAIN Symbols
    BY <1>1
  <2>2. Leading(i) = Leading(i - 1) \cup {Symbols[i]} BY <2>1 DEF Leading
  <2>3. Symbols[i] \notin Leading(i - 1) BY <1>1, <2>1 DEF Leading
  <2>4. Symbols[i] \in Listed /\ Leading(i) \subseteq Listed BY <1>1, <2>1 DEF Leading
  <2> QED BY <2>2, <2>3, <2>4
<1> QED BY <1>2, <1>3, <1>4

\* The orders are those of the changes that come to a share.
PlacedFor(placed, in, d) ==
  /\ IsFiniteSet(placed)
  /\ \A o, p \in placed : o.symbol = p.symbol => o = p
  /\ \A o \in placed : \E i \in 1..Len(Symbols) :
       /\ o.symbol = Symbols[i] /\ Change(in, d, i) # 0
       /\ o.side = IF Change(in, d, i) > 0 THEN "BUY" ELSE "SELL"
       /\ o.quantity = Distance(Change(in, d, i), 0) \div Price(in, Symbols[i], d.at)
  /\ \A i \in 1..Len(Symbols) :
       /\ Change(in, d, i) # 0
       /\ Distance(Change(in, d, i), 0) \div Price(in, Symbols[i], d.at) > 0
       => \E o \in placed : o.symbol = Symbols[i]

OrdersIn(placed, side, A) == {o \in placed : o.side = side /\ o.symbol \in A}

\* What the order for the symbol of index i is worth at the decision's price.
Amount(in, d, i, side) ==
  IF \/ side = "BUY" /\ Change(in, d, i) > 0
     \/ side = "SELL" /\ Change(in, d, i) < 0
    THEN (Distance(Change(in, d, i), 0) \div Price(in, Symbols[i], d.at))
           * Price(in, Symbols[i], d.at)
    ELSE 0

\* An order is worth its change but for a part of a share.
LEMMA AmountIs ==
  ASSUME NEW in, NEW d, Decidable(in, d), NEW i \in 1..Len(Symbols)
  PROVE  LET c == Change(in, d, i)
             b == Amount(in, d, i, "BUY")
             s == Amount(in, d, i, "SELL")
             p == Price(in, Symbols[i], d.at)
         IN /\ b \in Nat /\ s \in Nat /\ c \in Int
            /\ c > 0 => b <= c /\ s = 0
            /\ c = 0 => b = 0 /\ s = 0
            /\ c < 0 => /\ b = 0 /\ s <= -c /\ -c <= s + p - 1 /\ p \in Nat \ {0}
                        /\ Symbols[i] \in Held(in.fills)
<1>1. PICK c, p, b, s : /\ c = Change(in, d, i) /\ p = Price(in, Symbols[i], d.at)
                        /\ b = Amount(in, d, i, "BUY") /\ s = Amount(in, d, i, "SELL")
  OBVIOUS
<1>2. /\ Approved(in, d)[i] \in Nat /\ Worth(in, Symbols[i], d.at) \in Nat
      /\ c \in Int /\ (c # 0 => p \in Nat \ {0})
  BY <1>1, ChangeIs
<1>3. PICK q : q = Distance(c, 0) OBVIOUS
<1>4. q \in Nat /\ q = IF c > 0 THEN c ELSE -c BY <1>2, <1>3 DEF Distance
<1>5. /\ b = IF c > 0 THEN (q \div p) * p ELSE 0
      /\ s = IF c < 0 THEN (q \div p) * p ELSE 0
  BY <1>1, <1>3 DEF Amount
<1>6. c # 0 => /\ (q \div p) * p \in Nat /\ (q \div p) * p <= q
               /\ q <= (q \div p) * p + p - 1
  <2> SUFFICES ASSUME c # 0
               PROVE  /\ (q \div p) * p \in Nat /\ (q \div p) * p <= q
                      /\ q <= (q \div p) * p + p - 1
    OBVIOUS
  <2>1. p \in Nat \ {0} BY <1>2
  <2>2. q \div p \in Nat /\ (q \div p) * p <= q /\ q <= (q \div p) * p + p - 1
    BY <1>4, <2>1, Division
  <2>3. PICK k \in Nat : k = q \div p BY <2>2
  <2>4. k * p \in Nat BY <2>1, <2>3
  <2> QED BY <2>2, <2>3, <2>4
<1>7. PICK x : x = (q \div p) * p OBVIOUS
<1>8. /\ b = IF c > 0 THEN x ELSE 0
      /\ s = IF c < 0 THEN x ELSE 0
      /\ c # 0 => x \in Nat /\ x <= q /\ q <= x + p - 1
  BY <1>5, <1>6, <1>7
<1>9. c < 0 => Symbols[i] \in Held(in.fills)
  <2>1. PICK W, a \in Nat : W = Worth(in, Symbols[i], d.at) /\ a = Approved(in, d)[i] BY <1>2
  <2>2. c = a - W BY <1>1, <2>1 DEF Change
  <2>3. c < 0 => W # 0 BY <2>1, <2>2
  <2> QED BY <2>1, <2>3 DEF Worth
<1>10. /\ b \in Nat /\ s \in Nat
       /\ c > 0 => b <= c /\ s = 0
       /\ c = 0 => b = 0 /\ s = 0
       /\ c < 0 => b = 0 /\ s <= -c /\ -c <= s + p - 1 /\ p \in Nat \ {0}
  <2>1. CASE c > 0 BY <1>2, <1>4, <1>8, <2>1
  <2>2. CASE c = 0 BY <1>8, <2>2
  <2>3. CASE c < 0 BY <1>2, <1>4, <1>8, <2>3
  <2> QED BY <1>2, <2>1, <2>2, <2>3
<1> QED BY <1>1, <1>2, <1>9, <1>10

\* The orders of a side for the first i symbols are worth what those for the symbols
\* before are and the amount for the last.
LEMMA OrdersAdd ==
  ASSUME NEW in, NEW d, Decidable(in, d), NEW placed, PlacedFor(placed, in, d),
         NEW side \in {"BUY", "SELL"}, NEW i \in 1..Len(Symbols), NEW w,
         \A o \in placed : w[o] = o.quantity * Price(in, o.symbol, d.at)
  PROVE  LET new == SumFunctionOnSet(w, OrdersIn(placed, side, Leading(i)))
             old == SumFunctionOnSet(w, OrdersIn(placed, side, Leading(i - 1)))
         IN new \in Int /\ old \in Int /\ new = old + Amount(in, d, i, side)
<1>1. /\ Leading(i) = Leading(i - 1) \cup {Symbols[i]} /\ Symbols[i] \notin Leading(i - 1)
  BY LeadingIs
<1>2. PICK A, B : A = OrdersIn(placed, side, Leading(i - 1)) /\ B = OrdersIn(placed, side, Leading(i))
  OBVIOUS
<1>3. A \subseteq B /\ B \subseteq placed BY <1>1, <1>2 DEF OrdersIn
<1>4. IsFiniteSet(B) BY <1>3, FS_Subset DEF PlacedFor
<1>5. \A j \in 1..Len(Symbols) :
        /\ Change(in, d, j) \in Int
        /\ Change(in, d, j) # 0 => Price(in, Symbols[j], d.at) \in Nat \ {0}
  BY ChangeIs
<1>6. \A o \in placed : w[o] \in Int
  <2> SUFFICES ASSUME NEW o \in placed PROVE w[o] \in Int OBVIOUS
  <2>1. PICK j \in 1..Len(Symbols) :
          /\ o.symbol = Symbols[j] /\ Change(in, d, j) # 0
          /\ o.quantity = Distance(Change(in, d, j), 0) \div Price(in, Symbols[j], d.at)
    BY DEF PlacedFor
  <2>2. PICK p \in Nat \ {0} : p = Price(in, Symbols[j], d.at) BY <1>5, <2>1
  <2>3. Distance(Change(in, d, j), 0) \in Nat BY <1>5 DEF Distance
  <2>4. PICK q \in Nat : q = Distance(Change(in, d, j), 0) BY <2>3
  <2>5. q \div p \in Nat BY <2>2, <2>4, Division
  <2>6. PICK k \in Nat : k = q \div p BY <2>5
  <2>7. w[o] = k * p BY <2>1, <2>2, <2>4, <2>6
  <2> QED BY <2>2, <2>6, <2>7
<1>7. Extends(w, A, B)
  <2>1. \A x \in B : w[x] \in Int BY <1>3, <1>6
  <2> QED BY <1>3, <1>4, <2>1, SumExtends
<1>8. \A x \in B : x \in A \/ x.symbol = Symbols[i] BY <1>1, <1>2 DEF OrdersIn
<1>9. PICK c, p, q : /\ c = Change(in, d, i) /\ p = Price(in, Symbols[i], d.at)
                     /\ q = Distance(c, 0) \div p
  OBVIOUS
<1>10. \A o \in placed : o.symbol = Symbols[i] =>
         /\ c # 0 /\ o.quantity = q /\ w[o] = q * p
         /\ o.side = IF c > 0 THEN "BUY" ELSE "SELL"
  <2> SUFFICES ASSUME NEW o \in placed, o.symbol = Symbols[i]
               PROVE  /\ c # 0 /\ o.quantity = q /\ w[o] = q * p
                      /\ o.side = IF c > 0 THEN "BUY" ELSE "SELL"
    OBVIOUS
  <2>1. PICK j \in 1..Len(Symbols) :
          /\ o.symbol = Symbols[j] /\ Change(in, d, j) # 0
          /\ o.side = IF Change(in, d, j) > 0 THEN "BUY" ELSE "SELL"
          /\ o.quantity = Distance(Change(in, d, j), 0) \div Price(in, Symbols[j], d.at)
    BY DEF PlacedFor
  <2>2. i = j BY <2>1, SymbolsFinite
  <2> QED BY <1>9, <2>1, <2>2
<1>11. PICK m : m = Amount(in, d, i, side) OBVIOUS
<1>12. m = IF (side = "BUY" /\ c > 0) \/ (side = "SELL" /\ c < 0) THEN q * p ELSE 0
  BY <1>9, <1>11 DEF Amount
<1>13. c \in Int BY <1>5, <1>9
<1>14. SumFunctionOnSet(w, B) = SumFunctionOnSet(w, A) + m
  <2>1. CASE \E o \in B : o.symbol = Symbols[i]
    <3>1. PICK o \in B : o.symbol = Symbols[i] BY <2>1
    <3>2. o \notin A BY <1>1, <1>2, <3>1 DEF OrdersIn
    <3>3. \A x \in B : x \in A \/ x = o BY <1>3, <1>8, <3>1 DEF PlacedFor
    <3>4. SumFunctionOnSet(w, B) = SumFunctionOnSet(w, A) + w[o] BY <1>7, <3>1, <3>2, <3>3 DEF Extends
    <3>5. o.side = side BY <1>2, <3>1 DEF OrdersIn
    <3>6. m = w[o] BY <1>3, <1>10, <1>12, <1>13, <3>1, <3>5
    <3> QED BY <3>4, <3>6
  <2>2. CASE ~ \E o \in B : o.symbol = Symbols[i]
    <3>1. SumFunctionOnSet(w, B) = SumFunctionOnSet(w, A) BY <1>7, <1>8, <2>2 DEF Extends
    <3>2. m = 0
      <4>1. CASE c # 0 /\ q > 0
        <5>1. PICK o \in placed : o.symbol = Symbols[i] BY <1>9, <4>1 DEF PlacedFor
        <5>2. o.side # side BY <1>1, <1>2, <2>2, <5>1 DEF OrdersIn
        <5> QED BY <1>10, <1>12, <1>13, <5>1, <5>2
      <4>2. CASE c = 0 BY <1>12, <4>2
      <4>3. CASE c # 0 /\ ~ (q > 0)
        <5>1. p \in Nat \ {0} BY <1>5, <1>9, <4>3
        <5>2. Distance(c, 0) \in Nat BY <1>13 DEF Distance
        <5>3. q \in Nat BY <1>9, <5>1, <5>2, Division
        <5>4. q = 0 BY <4>3, <5>3
        <5>5. q * p = 0 BY <5>1, <5>4
        <5> QED BY <1>12, <5>5
      <4> QED BY <4>1, <4>2, <4>3
    <3> QED BY <1>7, <3>1, <3>2 DEF Extends
  <2> QED BY <2>1, <2>2
<1> QED BY <1>2, <1>7, <1>11, <1>14 DEF Extends

\* The positions that may keep a part of a share more than they were approved for.
KeptSymbols(in, placed) ==
  {h \in Held(in.fills) : \A o \in placed : o.side = "BUY" => o.symbol # h}

KeptIn(in, placed, A) == KeptSymbols(in, placed) \cap A

\* What the positions of the first i symbols may keep grows with i, by all but one of
\* a share's price where the last is reduced.
LEMMA KeptAdds ==
  ASSUME NEW in, NEW d, Decidable(in, d), NEW placed, PlacedFor(placed, in, d),
         NEW i \in 1..Len(Symbols), NEW v,
         \A s \in Held(in.fills) : v[s] = Price(in, s, d.at) - 1
  PROVE  LET new == SumFunctionOnSet(v, KeptIn(in, placed, Leading(i)))
             old == SumFunctionOnSet(v, KeptIn(in, placed, Leading(i - 1)))
         IN /\ new \in Int /\ old \in Int /\ new >= old
            /\ Change(in, d, i) < 0 => new = old + Price(in, Symbols[i], d.at) - 1
<1>1. /\ Leading(i) = Leading(i - 1) \cup {Symbols[i]} /\ Symbols[i] \notin Leading(i - 1)
      /\ Leading(i) \subseteq Listed
  BY LeadingIs
<1>2. PICK A, B : /\ A = KeptIn(in, placed, Leading(i - 1))
                  /\ B = KeptIn(in, placed, Leading(i))
  OBVIOUS
<1>3. A \subseteq B /\ B \subseteq Listed /\ B \subseteq Held(in.fills)
  BY <1>1, <1>2 DEF KeptIn, KeptSymbols
<1>4. IsFiniteSet(B) BY <1>3, SymbolsFinite, FS_Subset
<1>5. \A x \in B : v[x] \in Nat
  <2> SUFFICES ASSUME NEW x \in B PROVE v[x] \in Nat OBVIOUS
  <2>1. Price(in, x, d.at) \in Nat \ {0} BY <1>3, WorthIs DEF Decidable
  <2>2. v[x] = Price(in, x, d.at) - 1 BY <1>3
  <2> QED BY <2>1, <2>2
<1>6. Extends(v, A, B)
  <2>1. \A x \in B : v[x] \in Int BY <1>5
  <2> QED BY <1>3, <1>4, <2>1, SumExtends
<1>7. \A x \in B : x \in A \/ x = Symbols[i] BY <1>1, <1>2 DEF KeptIn
<1>8. Symbols[i] \notin A BY <1>1, <1>2 DEF KeptIn
<1>9. PICK new, old : new = SumFunctionOnSet(v, B) /\ old = SumFunctionOnSet(v, A) OBVIOUS
<1>10. new \in Int /\ old \in Int BY <1>6, <1>9 DEF Extends
<1>11. Symbols[i] \in B => new = old + v[Symbols[i]] BY <1>6, <1>7, <1>8, <1>9 DEF Extends
<1>12. new >= old
  <2>1. CASE Symbols[i] \in B
    <3>1. PICK k \in Nat : k = v[Symbols[i]] BY <1>5, <2>1
    <3>2. new = old + k BY <1>11, <2>1, <3>1
    <3> QED BY <1>10, <3>2
  <2>2. CASE Symbols[i] \notin B
    <3>1. \A x \in B : x \in A BY <1>7, <2>2
    <3>2. new = old BY <1>6, <1>9, <3>1 DEF Extends
    <3> QED BY <1>10, <3>2
  <2> QED BY <2>1, <2>2
<1>13. ASSUME Change(in, d, i) < 0
       PROVE  new = old + Price(in, Symbols[i], d.at) - 1
  <2>1. /\ Price(in, Symbols[i], d.at) \in Nat \ {0} /\ Symbols[i] \in Held(in.fills)
        /\ Change(in, d, i) \in Int
    BY <1>13, AmountIs
  <2>2. ASSUME NEW o \in placed, o.side = "BUY" PROVE o.symbol # Symbols[i]
    <3>1. PICK j \in 1..Len(Symbols) :
            o.symbol = Symbols[j] /\ o.side = IF Change(in, d, j) > 0 THEN "BUY" ELSE "SELL"
      BY DEF PlacedFor
    <3>2. Change(in, d, j) > 0 BY <2>2, <3>1
    <3>3. i # j BY <1>13, <2>1, <3>2
    <3> QED BY <3>1, <3>3, SymbolsFinite
  <2>3. Symbols[i] \in B BY <1>1, <1>2, <2>1, <2>2 DEF KeptIn, KeptSymbols
  <2>4. PICK p \in Nat \ {0} : p = Price(in, Symbols[i], d.at) BY <2>1
  <2>5. v[Symbols[i]] = p - 1 BY <2>1, <2>4
  <2>6. new = old + (p - 1) BY <1>11, <2>3, <2>5
  <2> QED BY <1>10, <2>4, <2>6
<1> QED BY <1>2, <1>9, <1>10, <1>12, <1>13

\* What the gateway leaves after each proposal bounds what the orders so far come to.
Bounded(room, start, nav, b, s, k, cuts) ==
  /\ room.cash + room.gross = start.cash + start.gross
  /\ room.cash <= start.cash - b + s + k
  /\ b \in Nat /\ s \in Nat /\ k \in Int
  /\ b > 0 => room.cash >= Share(MinReserve, nav) /\ room.gross <= Share(MaxGross, nav)
  /\ ~cuts => b + s + room.turnover <= start.turnover

\* What one proposal more, which changes a position by c, brings: mb bought or ms sold
\* of it, and k grown to k1 by what a position at this price may keep.
Ordered(p, room, nav, c, mb, ms, k, k1, price, cuts) ==
  /\ Proposed(p) /\ Roomy(room) /\ c = Decided(p, room, nav) - p.current
  /\ mb \in Nat /\ ms \in Nat /\ k1 \in Int /\ k1 >= k /\ price \in Int
  /\ c > 0 => mb <= c /\ ms = 0
  /\ c = 0 => mb = 0 /\ ms = 0
  /\ c < 0 => mb = 0 /\ ms <= -c /\ -c <= ms + price - 1 /\ k1 = k + price - 1
  /\ c < 0 /\ p.target > p.current /\ ms > 0 => cuts

\* One proposal more, of which amounts b and s are ordered, keeps these bounds.
LEMMA BoundedStep ==
  ASSUME NEW p, NEW room, NEW start, NEW nav \in Nat, Roomy(start), NEW cuts \in BOOLEAN,
         NEW b, NEW s, NEW k, Bounded(room, start, nav, b, s, k, cuts),
         NEW c, NEW mb, NEW ms, NEW k1, NEW price,
         Ordered(p, room, nav, c, mb, ms, k, k1, price, cuts)
  PROVE  Bounded(Remaining(p, room, nav), start, nav, b + mb, s + ms, k1, cuts)
<1>0. /\ Proposed(p) /\ Roomy(room) /\ c = Decided(p, room, nav) - p.current
      /\ b \in Nat /\ s \in Nat /\ k \in Int /\ k1 \in Int /\ k1 >= k /\ price \in Int
      /\ mb \in Nat /\ ms \in Nat
      /\ c > 0 => mb <= c /\ ms = 0
      /\ c = 0 => mb = 0 /\ ms = 0
      /\ c < 0 => mb = 0 /\ ms <= -c /\ -c <= ms + price - 1 /\ k1 = k + price - 1
      /\ c < 0 /\ p.target > p.current /\ ms > 0 => cuts
  BY DEF Ordered, Bounded
<1>1. PICK a, cur : a = Decided(p, room, nav) /\ cur = p.current OBVIOUS
<1>2. PICK res, mg : res = Share(MinReserve, nav) /\ mg = Share(MaxGross, nav) OBVIOUS
<1>3. res \in Nat /\ mg \in Nat BY <1>2, LimitIs
<1>4. PICK x, y, z : x = room.cash /\ y = room.gross /\ z = room.turnover OBVIOUS
<1>5. x \in Int /\ y \in Int /\ z \in Nat BY <1>0, <1>4 DEF Roomy
<1>6. PICK x0, y0, z0 : x0 = start.cash /\ y0 = start.gross /\ z0 = start.turnover OBVIOUS
<1>7. x0 \in Int /\ y0 \in Int /\ z0 \in Nat BY <1>6 DEF Roomy
<1>8. a \in Nat /\ cur \in Nat /\ p.target \in Int /\ c = a - cur /\ c \in Int
  <2>1. a \in Nat BY <1>0, <1>1, DecidedIs
  <2> QED BY <1>0, <1>1, <2>1 DEF Proposed
<1>9. c > 0 => /\ c <= Positive(mg - y) /\ c <= Positive(x - res) /\ c <= z
  BY <1>0, <1>1, <1>2, <1>4, <1>8, DecidedIs
<1>10. c < 0 => p.target > cur \/ -c <= z
  <2>1. c < 0 => p.target > cur \/ cur - a <= z BY <1>0, <1>1, <1>4, <1>8, DecidedIs
  <2> QED BY <1>8, <2>1
<1>11. PICK left : left = Remaining(p, room, nav) OBVIOUS
<1>12. PICK x1, y1, z1 : x1 = left.cash /\ y1 = left.gross /\ z1 = left.turnover OBVIOUS
<1>13. x1 = x - c /\ y1 = y + c /\ z1 = Positive(z - Distance(c, 0))
  BY <1>0, <1>1, <1>4, <1>11, <1>12, RemainingIs
<1>14. /\ x + y = x0 + y0 /\ x <= x0 - b + s + k
       /\ b > 0 => x >= res /\ y <= mg
       /\ ~cuts => b + s + z <= z0
  BY <1>2, <1>4, <1>6 DEF Bounded
<1>15. x1 + y1 = x0 + y0 BY <1>0, <1>5, <1>7, <1>8, <1>13, <1>14
<1>16. x1 <= x0 - (b + mb) + (s + ms) + k1
  <2>1. CASE c > 0 BY <1>0, <1>5, <1>7, <1>8, <1>13, <1>14, <2>1
  <2>2. CASE c = 0 BY <1>0, <1>5, <1>7, <1>8, <1>13, <1>14, <2>2
  <2>3. CASE c < 0 BY <1>0, <1>5, <1>7, <1>8, <1>13, <1>14, <2>3
  <2> QED BY <1>8, <2>1, <2>2, <2>3
<1>17. b + mb > 0 => x1 >= res /\ y1 <= mg
  <2>1. CASE c > 0 BY <1>0, <1>3, <1>5, <1>8, <1>9, <1>13, <2>1 DEF Positive
  <2>2. CASE c = 0 BY <1>0, <1>3, <1>5, <1>8, <1>13, <1>14, <2>2
  <2>3. CASE c < 0 BY <1>0, <1>3, <1>5, <1>8, <1>13, <1>14, <2>3
  <2> QED BY <1>8, <2>1, <2>2, <2>3
<1>18. ~cuts => (b + mb) + (s + ms) + z1 <= z0
  <2> SUFFICES ASSUME ~cuts PROVE (b + mb) + (s + ms) + z1 <= z0 OBVIOUS
  <2>1. b + s + z <= z0 BY <1>14
  <2>2. CASE c > 0 BY <1>0, <1>5, <1>7, <1>8, <1>9, <1>13, <2>1, <2>2 DEF Positive, Distance
  <2>3. CASE c = 0 BY <1>0, <1>5, <1>7, <1>8, <1>13, <2>1, <2>3 DEF Positive, Distance
  <2>4. CASE c < 0 /\ -c <= z
    BY <1>0, <1>5, <1>7, <1>8, <1>13, <2>1, <2>4 DEF Positive, Distance
  <2>5. CASE c < 0 /\ p.target > cur
    <3>1. ms = 0 /\ mb = 0 BY <1>0, <1>1, <2>5
    <3> QED BY <1>0, <1>5, <1>7, <1>8, <1>13, <2>1, <2>5, <3>1 DEF Positive, Distance
  <2> QED BY <1>8, <1>10, <2>2, <2>3, <2>4, <2>5
<1> QED BY <1>0, <1>2, <1>6, <1>11, <1>12, <1>15, <1>16, <1>17, <1>18 DEF Bounded

\* The bounds hold after all proposals.
LEMMA LimitsWalk ==
  ASSUME NEW in, NEW d, Decidable(in, d), NEW placed, PlacedFor(placed, in, d), NEW w, NEW v,
         \A o \in placed : w[o] = o.quantity * Price(in, o.symbol, d.at),
         \A s \in Held(in.fills) : v[s] = Price(in, s, d.at) - 1,
         NEW cuts \in BOOLEAN,
         \A o \in placed : o.side = "SELL" /\ d.research[o.symbol] # "BEARISH" => cuts
  PROVE  \E room : /\ Roomy(room)
                   /\ Bounded(room, Snapshot(in, d.at), NavOf(in, d.at),
                              SumFunctionOnSet(w, OrdersIn(placed, "BUY", Listed)),
                              SumFunctionOnSet(w, OrdersIn(placed, "SELL", Listed)),
                              SumFunctionOnSet(v, KeptSymbols(in, placed)), cuts)
<1>1. PICK N \in Nat : N = Len(Symbols) BY SymbolsFinite
<1>2. PICK nav \in Nat \ {0} : nav = NavOf(in, d.at) BY NavIs DEF Decidable
<1>3. PICK start : start = Snapshot(in, d.at) OBVIOUS
<1>4. PICK room : /\ room[0] = start
                  /\ \A i \in 0..N : Roomy(room[i])
                  /\ \A i \in 1..N :
                       /\ room[i] = Remaining(Proposals(in, d)[i], room[i - 1], nav)
                       /\ Approved(in, d)[i] = Decided(Proposals(in, d)[i], room[i - 1], nav)
  BY <1>1, <1>2, <1>3, ApprovedIs
<1>5. PICK bs, ss, ks :
        /\ bs = [i \in 0..N |-> SumFunctionOnSet(w, OrdersIn(placed, "BUY", Leading(i)))]
        /\ ss = [i \in 0..N |-> SumFunctionOnSet(w, OrdersIn(placed, "SELL", Leading(i)))]
        /\ ks = [i \in 0..N |-> SumFunctionOnSet(v, KeptIn(in, placed, Leading(i)))]
  OBVIOUS
<1> DEFINE J(i) == Bounded(room[i], start, nav, bs[i], ss[i], ks[i], cuts)
<1>6. J(0)
  <2>1. Leading(0) = {} BY LeadingIs
  <2>2. OrdersIn(placed, "BUY", Leading(0)) = {} /\ OrdersIn(placed, "SELL", Leading(0)) = {}
    BY <2>1 DEF OrdersIn
  <2>3. KeptIn(in, placed, Leading(0)) = {} BY <2>1 DEF KeptIn
  <2>4. IsFiniteSet({}) BY FS_EmptySet
  <2>5. \A u : SumFunctionOnSet(u, {}) = 0 BY <2>4, SumType
  <2>6. 0 \in 0..N BY <1>1
  <2>7. bs[0] = SumFunctionOnSet(w, {}) /\ ss[0] = SumFunctionOnSet(w, {})
        /\ ks[0] = SumFunctionOnSet(v, {})
    BY <1>5, <2>2, <2>3, <2>6, Zenon
  <2>8. bs[0] = 0 /\ ss[0] = 0 /\ ks[0] = 0 BY <2>5, <2>7
  <2>9. start.cash \in Int /\ start.gross \in Int /\ start.turnover \in Nat
    BY <1>4, <2>6 DEF Roomy
  <2> QED BY <1>4, <2>8, <2>9 DEF Bounded
<1>7. ASSUME NEW i \in 1..N, J(i - 1) PROVE J(i)
  <2>1. i \in 0..N /\ i - 1 \in 0..N /\ i \in 1..Len(Symbols) BY <1>1
  <2>2. PICK mb, ms, c, price :
          /\ mb = Amount(in, d, i, "BUY") /\ ms = Amount(in, d, i, "SELL")
          /\ c = Change(in, d, i) /\ price = Price(in, Symbols[i], d.at)
    OBVIOUS
  <2>3. /\ mb \in Nat /\ ms \in Nat /\ c \in Int
        /\ c > 0 => mb <= c /\ ms = 0
        /\ c = 0 => mb = 0 /\ ms = 0
        /\ c < 0 => mb = 0 /\ ms <= -c /\ -c <= ms + price - 1 /\ price \in Nat \ {0}
    BY <2>1, <2>2, AmountIs
  <2>4. bs[i] = bs[i - 1] + mb BY <1>5, <2>1, <2>2, OrdersAdd
  <2>5. ss[i] = ss[i - 1] + ms BY <1>5, <2>1, <2>2, OrdersAdd
  <2>6. /\ ks[i] \in Int /\ ks[i - 1] \in Int /\ ks[i] >= ks[i - 1]
        /\ c < 0 => ks[i] = ks[i - 1] + price - 1
    <3>1. PICK new, old :
            /\ new = SumFunctionOnSet(v, KeptIn(in, placed, Leading(i)))
            /\ old = SumFunctionOnSet(v, KeptIn(in, placed, Leading(i - 1)))
      OBVIOUS
    <3>2. /\ new \in Int /\ old \in Int /\ new >= old
          /\ c < 0 => new = old + price - 1
      BY <2>1, <2>2, <3>1, KeptAdds
    <3>3. ks[i] = new /\ ks[i - 1] = old BY <1>5, <2>1, <3>1
    <3> QED BY <3>2, <3>3
  <2>7. PICK p : p = Proposals(in, d)[i] OBVIOUS
  <2>8. /\ Proposed(p) /\ p.current = Worth(in, Symbols[i], d.at)
        /\ p.target = CASE d.research[Symbols[i]] = "BULLISH" -> NavOf(in, d.at) \div 2
                        [] d.research[Symbols[i]] = "BEARISH" -> 0
                        [] OTHER -> Worth(in, Symbols[i], d.at)
    BY <2>1, <2>7, ProposalsAre
  <2>9. c = Decided(p, room[i - 1], nav) - p.current
    BY <1>4, <2>2, <2>7, <2>8 DEF Change
  <2>10. c < 0 /\ p.target > p.current /\ ms > 0 => cuts
    <3> SUFFICES ASSUME c < 0, p.target > p.current, ms > 0 PROVE cuts OBVIOUS
    <3>1. d.research[Symbols[i]] # "BEARISH"
      <4> SUFFICES ASSUME d.research[Symbols[i]] = "BEARISH" PROVE FALSE OBVIOUS
      <4>1. p.target = 0 BY <2>8
      <4> QED BY <2>8, <4>1 DEF Proposed
    <3>2. PICK q : q = Distance(c, 0) \div price OBVIOUS
    <3>3. ms = q * price BY <2>2, <3>2 DEF Amount
    <3>4. price \in Nat \ {0} BY <2>3
    <3>5. Distance(c, 0) \in Nat BY <2>3 DEF Distance
    <3>6. q \in Nat BY <3>2, <3>4, <3>5, Division
    <3>7. q # 0
      <4> SUFFICES ASSUME q = 0 PROVE FALSE OBVIOUS
      <4>1. ms = 0 BY <3>3, <3>4
      <4> QED BY <4>1
    <3>8. PICK o \in placed : o.symbol = Symbols[i]
      <4>1. Change(in, d, i) # 0 BY <2>2, <2>3
      <4>2. Distance(Change(in, d, i), 0) \div Price(in, Symbols[i], d.at) > 0
        BY <2>2, <3>2, <3>6, <3>7
      <4> QED BY <2>1, <4>1, <4>2 DEF PlacedFor
    <3>9. o.side = "SELL"
      <4>1. PICK j \in 1..Len(Symbols) :
              o.symbol = Symbols[j] /\ o.side = IF Change(in, d, j) > 0 THEN "BUY" ELSE "SELL"
        BY DEF PlacedFor
      <4>2. i = j BY <2>1, <3>8, <4>1, SymbolsFinite
      <4> QED BY <2>2, <2>3, <4>1, <4>2
    <3> QED BY <3>1, <3>8, <3>9
  <2>11. PICK pr \in Int : c < 0 => pr = price BY <2>3
  <2>12. Roomy(room[i - 1]) /\ Roomy(start) /\ bs[i - 1] \in Nat /\ ss[i - 1] \in Nat
    BY <1>1, <1>4, <1>7, <2>1 DEF Bounded
  <2>13. Bounded(Remaining(p, room[i - 1], nav), start, nav,
                 bs[i - 1] + mb, ss[i - 1] + ms, ks[i], cuts)
    <3>1. c < 0 => mb = 0 /\ ms <= -c /\ -c <= ms + pr - 1 /\ ks[i] = ks[i - 1] + pr - 1
      BY <2>3, <2>6, <2>11
    <3>2. PICK x, b, s, k, k1 : /\ x = room[i - 1] /\ b = bs[i - 1] /\ s = ss[i - 1]
                                /\ k = ks[i - 1] /\ k1 = ks[i]
      OBVIOUS
    <3>3. Bounded(x, start, nav, b, s, k, cuts) BY <1>7, <3>2
    <3>4. /\ Roomy(x) /\ Roomy(start) /\ b \in Nat /\ s \in Nat /\ k \in Int /\ k1 \in Int
          /\ k1 >= k /\ Proposed(p) /\ mb \in Nat /\ ms \in Nat
      BY <2>3, <2>6, <2>8, <2>12, <3>2
    <3>5. /\ c = Decided(p, x, nav) - p.current
          /\ c > 0 => mb <= c /\ ms = 0
          /\ c = 0 => mb = 0 /\ ms = 0
          /\ c < 0 => mb = 0 /\ ms <= -c /\ -c <= ms + pr - 1 /\ k1 = k + pr - 1
      BY <2>3, <2>9, <3>1, <3>2
    <3> HIDE DEF J
    <3>6. Bounded(Remaining(p, x, nav), start, nav, b + mb, s + ms, k1, cuts)
      <4>1. Ordered(p, x, nav, c, mb, ms, k, k1, pr, cuts)
        BY <2>10, <3>4, <3>5 DEF Ordered
      <4> QED BY <3>3, <3>4, <4>1, BoundedStep
    <3> QED BY <3>2, <3>6
  <2>14. room[i] = Remaining(p, room[i - 1], nav) BY <1>4, <2>7
  <2> QED BY <2>4, <2>5, <2>13, <2>14
<1>8. J(N)
  <2> SUFFICES ASSUME ~J(N) PROVE FALSE OBVIOUS
  <2> HIDE DEF J
  <2>1. PICK S : S = {i \in 0..N : ~J(i)} OBVIOUS
  <2>2. S \in SUBSET Nat /\ S # {} BY <1>1, <2>1
  <2>3. PICK m \in S : \A n \in S : m <= n BY <2>2, LeastNatural
  <2>4. m \in 0..N /\ ~J(m) BY <2>1, <2>3
  <2>5. m # 0 BY <1>6, <2>4
  <2>6. m \in 1..N /\ m - 1 \in 0..N BY <1>1, <2>4, <2>5
  <2>7. m - 1 \notin S BY <2>3, <2>6
  <2>8. J(m - 1) BY <2>1, <2>6, <2>7
  <2> QED BY <1>7, <2>4, <2>6, <2>8
<1>9. Leading(N) = Listed BY <1>1, LeadingIs
<1>10. KeptIn(in, placed, Listed) = KeptSymbols(in, placed)
  BY DEF KeptIn, KeptSymbols, Held
<1>11. N \in 0..N BY <1>1
<1>12. /\ bs[N] = SumFunctionOnSet(w, OrdersIn(placed, "BUY", Listed))
       /\ ss[N] = SumFunctionOnSet(w, OrdersIn(placed, "SELL", Listed))
  BY <1>5, <1>9, <1>11
<1>13. ks[N] = SumFunctionOnSet(v, KeptSymbols(in, placed))
  <2>1. ks[N] = SumFunctionOnSet(v, KeptIn(in, placed, Listed)) BY <1>5, <1>9, <1>11
  <2> QED BY <1>10, <2>1, Zenon
<1> QED BY <1>2, <1>3, <1>4, <1>8, <1>11, <1>12, <1>13

\* A sum of a function is the sum over its domain of any function it agrees with there.
LEMMA SumFunctionIs ==
  ASSUME NEW g, NEW w, NEW Z, IsFiniteSet(Z), DOMAIN g = Z,
         \A x \in Z : g[x] \in Int /\ g[x] = w[x]
  PROVE  SumFunction(g) = SumFunctionOnSet(w, Z)
<1>1. SumFunctionOnSet(g, Z) = SumFunctionOnSet(w, Z) BY SumCongruence
<1> QED BY <1>1 DEF SumFunction

\* The orders a completed run has in the books are those of the changes its gateway
\* approved.
LEMMA PlacedIs ==
  ASSUME PortfolioInv, NEW r \in Runs, run[r].status = "COMPLETED", ~run[r].denied
  PROVE  /\ Decidable(checkpoint[r], Decision(r))
         /\ PlacedFor({o \in orders : o.run = r}, checkpoint[r], Decision(r))
<1>1. PortfolioTypeOK /\ ReadInv /\ PostedInv BY DEF PortfolioInv
<1>2. PICK c, D : c = checkpoint[r] /\ D = Decision(r) OBVIOUS
<1>3. PICK new : new = NewFills(c, D) OBVIOUS
<1>4. PICK placed : placed = {o \in orders : o.run = r} OBVIOUS
<1>5. /\ c # Nothing /\ Sound(c, run[r].decision)
      /\ placed = {OrderRow(o, new) : o \in Intents(c, D)}
  BY <1>1, <1>2, <1>3, <1>4 DEF PostedInv, OrdersOf
<1>6. c \in Input BY <1>1, <1>2, <1>5, PortfolioTyped
<1>7. ReadOf(r) BY <1>1 DEF ReadInv
<1>8. Known(c, run[r].decision) /\ Valued(c, run[r].decision) BY <1>2, <1>5, <1>7 DEF ReadOf
<1>9. /\ D.run = r /\ D.at = run[r].decision /\ D.at \in Times
      /\ D.research \in [Listed -> Opinions]
  BY <1>1, <1>2, DecisionIs
<1>10. Readable(c, D.at) BY <1>6, <1>8, <1>9, KnownIs
<1>11. Decidable(c, D) BY <1>5, <1>8, <1>9, <1>10 DEF Decidable
<1>12. /\ \A o : o \in Intents(c, D) <=>
             \E i \in 1..Len(Symbols) :
               /\ o = IntentOf(c, D, i)
               /\ Change(c, D, i) # 0
               /\ Distance(Change(c, D, i), 0) \div Price(c, Symbols[i], D.at) > 0
       /\ \A o, p \in Intents(c, D) : o.symbol = p.symbol => o = p
       /\ IsFiniteSet(Intents(c, D))
  BY <1>11, IntentsAre
<1>13. \A o : /\ OrderRow(o, new).symbol = o.symbol /\ OrderRow(o, new).side = o.side
              /\ OrderRow(o, new).quantity = o.quantity
  BY DEF OrderRow
<1>14. \A i : /\ IntentOf(c, D, i).symbol = Symbols[i]
              /\ IntentOf(c, D, i).side = IF Change(c, D, i) > 0 THEN "BUY" ELSE "SELL"
              /\ IntentOf(c, D, i).quantity
                   = Distance(Change(c, D, i), 0) \div Price(c, Symbols[i], D.at)
  BY DEF IntentOf
<1>15. IsFiniteSet(placed)
  <2>1. PICK I : I = Intents(c, D) OBVIOUS
  <2>2. PICK g : g = [o \in I |-> OrderRow(o, new)] OBVIOUS
  <2>3. IsFiniteSet(DOMAIN g) BY <1>12, <2>1, <2>2
  <2>4. IsFiniteSet(Range(g)) BY <2>3, FiniteRange
  <2>5. placed = Range(g) BY <1>5, <2>1, <2>2 DEF Range
  <2> QED BY <2>4, <2>5
<1>16. \A o, p \in placed : o.symbol = p.symbol => o = p BY <1>5, <1>12, <1>13
<1>17. ASSUME NEW o \in placed
       PROVE  \E i \in 1..Len(Symbols) :
                /\ o.symbol = Symbols[i] /\ Change(c, D, i) # 0
                /\ o.side = IF Change(c, D, i) > 0 THEN "BUY" ELSE "SELL"
                /\ o.quantity = Distance(Change(c, D, i), 0) \div Price(c, Symbols[i], D.at)
  <2>1. PICK x \in Intents(c, D) : o = OrderRow(x, new) BY <1>5
  <2>2. PICK i \in 1..Len(Symbols) : x = IntentOf(c, D, i) /\ Change(c, D, i) # 0 BY <1>12
  <2>3. o.symbol = x.symbol /\ o.side = x.side /\ o.quantity = x.quantity BY <1>13, <2>1
  <2> QED BY <1>14, <2>2, <2>3
<1>18. ASSUME NEW i \in 1..Len(Symbols), Change(c, D, i) # 0,
              Distance(Change(c, D, i), 0) \div Price(c, Symbols[i], D.at) > 0
       PROVE  \E o \in placed : o.symbol = Symbols[i]
  <2>1. IntentOf(c, D, i) \in Intents(c, D) BY <1>12, <1>18
  <2>2. OrderRow(IntentOf(c, D, i), new) \in placed BY <1>5, <2>1
  <2>3. OrderRow(IntentOf(c, D, i), new).symbol = Symbols[i] BY <1>13, <1>14
  <2> QED BY <2>2, <2>3
<1>19. PlacedFor(placed, c, D) BY <1>15, <1>16, <1>17, <1>18 DEF PlacedFor
<1> QED BY <1>2, <1>4, <1>11, <1>19

\* A buy is worth no more than the room its position has left.
LEMMA BuyIs ==
  ASSUME NEW in, NEW d, Decidable(in, d), NEW placed, PlacedFor(placed, in, d),
         NEW o \in placed, o.side = "BUY"
  PROVE  Worth(in, o.symbol, d.at) + o.quantity * Price(in, o.symbol, d.at)
           <= Share(MaxPosition, NavOf(in, d.at))
<1>1. PICK i \in 1..Len(Symbols) :
        /\ o.symbol = Symbols[i] /\ Change(in, d, i) # 0
        /\ o.side = IF Change(in, d, i) > 0 THEN "BUY" ELSE "SELL"
        /\ o.quantity = Distance(Change(in, d, i), 0) \div Price(in, Symbols[i], d.at)
  BY DEF PlacedFor
<1>2. PICK c, b : c = Change(in, d, i) /\ b = Amount(in, d, i, "BUY") OBVIOUS
<1>3. c > 0 BY <1>1, <1>2
<1>4. b \in Nat /\ b <= c BY <1>2, <1>3, AmountIs
<1>5. b = o.quantity * Price(in, o.symbol, d.at) BY <1>1, <1>2, <1>3 DEF Amount
<1>6. PICK nav \in Nat : nav = NavOf(in, d.at) BY NavIs DEF Decidable
<1>7. PICK a, x \in Nat : a = Approved(in, d)[i] /\ x = Worth(in, Symbols[i], d.at) BY ChangeIs
<1>8. c = a - x BY <1>2, <1>7 DEF Change
<1>9. PICK p : p = Proposals(in, d)[i] OBVIOUS
<1>10. Proposed(p) /\ p.current = x BY <1>7, <1>9, ProposalsAre
<1>11. PICK room : Roomy(room) /\ a = Decided(p, room, nav)
  <2>1. PICK rooms :
          /\ \A j \in 0..Len(Symbols) : Roomy(rooms[j])
          /\ \A j \in 1..Len(Symbols) :
               Approved(in, d)[j] = Decided(Proposals(in, d)[j], rooms[j - 1], NavOf(in, d.at))
    BY ApprovedIs
  <2>2. i - 1 \in 0..Len(Symbols) BY SymbolsFinite
  <2> QED BY <1>6, <1>7, <1>9, <2>1, <2>2
<1>12. PICK m : m = Share(MaxPosition, nav) OBVIOUS
<1>13. m \in Nat BY <1>12, LimitIs
<1>14. a <= m BY <1>3, <1>7, <1>8, <1>10, <1>11, <1>12, DecidedIs
<1>15. x + b <= m BY <1>4, <1>7, <1>8, <1>13, <1>14
<1> QED BY <1>1, <1>5, <1>6, <1>7, <1>12, <1>15

\* The limits hold of every completed run the invariant speaks of.
LEMMA LimitsHold == ASSUME PortfolioInv PROVE LimitsKept
<1> SUFFICES ASSUME NEW r \in Runs, run[r].status = "COMPLETED", ~run[r].denied
             PROVE  LET in == checkpoint[r]
                        t == run[r].decision
                        nav == NavOf(in, t)
                        Mine(side) == {o \in orders : o.run = r /\ o.side = side}
                        Value(o) == o.quantity * Price(in, o.symbol, t)
                        bought == SumFunction([o \in Mine("BUY") |-> Value(o)])
                        sold == SumFunction([o \in Mine("SELL") |-> Value(o)])
                        kept == SumFunction([s \in {h \in Held(in.fills) :
                                                      \A o \in Mine("BUY") : o.symbol # h}
                                               |-> Price(in, s, t) - 1])
                    IN /\ bought > 0 =>
                            /\ CashOf(in.ledger) - bought + sold + kept >= Share(MinReserve, nav)
                            /\ Gross(in, t) + bought - sold - kept <= Share(MaxGross, nav)
                       /\ \A o \in Mine("BUY") :
                            Worth(in, o.symbol, t) + Value(o) <= Share(MaxPosition, nav)
                       /\ (\A o \in Mine("SELL") : run[r].research[o.symbol] = "BEARISH")
                            => bought + sold <= Positive(Share(MaxTurnover, nav) - Turnover(in, t))
  BY DEF LimitsKept
<1>1. PortfolioTypeOK BY DEF PortfolioInv
<1>2. PICK in, d : in = checkpoint[r] /\ d = Decision(r) OBVIOUS
<1>3. PICK placed : placed = {o \in orders : o.run = r} OBVIOUS
<1>4. Decidable(in, d) /\ PlacedFor(placed, in, d) BY <1>2, <1>3, PlacedIs
<1>5. PICK t \in Times : t = d.at BY <1>1, <1>2, DecisionIs
<1>6. d.run = r /\ t = run[r].decision /\ d.research = run[r].research
  BY <1>1, <1>2, <1>5, DecisionIs
<1>7. PICK w : w = [o \in placed |-> o.quantity * Price(in, o.symbol, t)] OBVIOUS
<1>8. PICK v : v = [s \in Held(in.fills) |-> Price(in, s, t) - 1] OBVIOUS
<1>9. PICK B, S, K : /\ B = OrdersIn(placed, "BUY", Listed) /\ S = OrdersIn(placed, "SELL", Listed)
                     /\ K = KeptSymbols(in, placed)
  OBVIOUS
<1>10. \A o \in placed : o.symbol \in Listed /\ w[o] \in Int
  <2> SUFFICES ASSUME NEW o \in placed PROVE o.symbol \in Listed /\ w[o] \in Int OBVIOUS
  <2>1. PICK i \in 1..Len(Symbols) :
          /\ o.symbol = Symbols[i] /\ Change(in, d, i) # 0
          /\ o.quantity = Distance(Change(in, d, i), 0) \div Price(in, Symbols[i], d.at)
    BY <1>4 DEF PlacedFor
  <2>2. Change(in, d, i) \in Int /\ Price(in, Symbols[i], d.at) \in Nat \ {0} BY <1>4, <2>1, ChangeIs
  <2>3. PICK p \in Nat \ {0} : p = Price(in, Symbols[i], d.at) BY <2>2
  <2>4. Distance(Change(in, d, i), 0) \in Nat BY <2>2 DEF Distance
  <2>5. PICK q \in Nat : q = o.quantity BY <2>1, <2>3, <2>4, Division
  <2>6. w[o] = q * p BY <1>5, <1>7, <2>1, <2>3, <2>5
  <2>7. q * p \in Int BY <2>3, <2>5
  <2> QED BY <2>1, <2>6, <2>7, SymbolsFinite
<1>11. /\ B = {o \in orders : o.run = r /\ o.side = "BUY"}
       /\ S = {o \in orders : o.run = r /\ o.side = "SELL"}
       /\ B \subseteq placed /\ S \subseteq placed
  BY <1>3, <1>9, <1>10 DEF OrdersIn
<1>12. K = {h \in Held(in.fills) : \A o \in B : o.symbol # h} /\ K \subseteq Held(in.fills)
  BY <1>3, <1>9, <1>11 DEF KeptSymbols
<1>13. IsFiniteSet(B) /\ IsFiniteSet(S) /\ IsFiniteSet(K)
  <2>1. IsFiniteSet(placed) BY <1>4 DEF PlacedFor
  <2>2. K \subseteq Listed BY <1>12 DEF Held
  <2> QED BY <1>11, <2>1, <2>2, SymbolsFinite, FS_Subset
<1>14. PICK bought, sold, kept :
         /\ bought = SumFunction([o \in B |-> o.quantity * Price(in, o.symbol, t)])
         /\ sold = SumFunction([o \in S |-> o.quantity * Price(in, o.symbol, t)])
         /\ kept = SumFunction([s \in K |-> Price(in, s, t) - 1])
  OBVIOUS
<1>15. bought = SumFunctionOnSet(w, B)
  <2>1. PICK g : g = [o \in B |-> o.quantity * Price(in, o.symbol, t)] OBVIOUS
  <2>2. DOMAIN g = B /\ \A x \in B : g[x] = w[x] /\ g[x] \in Int BY <1>7, <1>10, <1>11, <2>1
  <2>3. SumFunction(g) = SumFunctionOnSet(w, B) BY <1>13, <2>2, SumFunctionIs
  <2> QED BY <1>14, <2>1, <2>3
<1>16. sold = SumFunctionOnSet(w, S)
  <2>1. PICK g : g = [o \in S |-> o.quantity * Price(in, o.symbol, t)] OBVIOUS
  <2>2. DOMAIN g = S /\ \A x \in S : g[x] = w[x] /\ g[x] \in Int BY <1>7, <1>10, <1>11, <2>1
  <2>3. SumFunction(g) = SumFunctionOnSet(w, S) BY <1>13, <2>2, SumFunctionIs
  <2> QED BY <1>14, <2>1, <2>3
<1>17. kept = SumFunctionOnSet(v, K)
  <2>1. PICK g : g = [s \in K |-> Price(in, s, t) - 1] OBVIOUS
  <2>2. \A s \in K : Price(in, s, t) - 1 \in Int
    <3> SUFFICES ASSUME NEW s \in K PROVE Price(in, s, t) - 1 \in Int OBVIOUS
    <3>1. s \in Listed /\ s \in Held(in.fills) BY <1>12 DEF Held
    <3>2. Price(in, s, t) \in Nat \ {0} BY <1>4, <1>5, <3>1, WorthIs DEF Decidable
    <3> QED BY <3>2
  <2>3. DOMAIN g = K /\ \A x \in K : g[x] = v[x] /\ g[x] \in Int BY <1>8, <1>12, <2>1, <2>2
  <2>4. SumFunction(g) = SumFunctionOnSet(v, K) BY <1>13, <2>3, SumFunctionIs
  <2> QED BY <1>14, <2>1, <2>4
<1>18. PICK cuts \in BOOLEAN :
         cuts <=> \E o \in placed : o.side = "SELL" /\ d.research[o.symbol] # "BEARISH"
  <2>1. (\E o \in placed : o.side = "SELL" /\ d.research[o.symbol] # "BEARISH") \in BOOLEAN OBVIOUS
  <2> QED BY <2>1, Zenon
<1>19. PICK nav : nav = NavOf(in, t) OBVIOUS
<1>20. PICK start : start = Snapshot(in, t) OBVIOUS
<1>21. PICK room : Roomy(room) /\ Bounded(room, start, nav, bought, sold, kept, cuts)
  <2>1. \A o \in placed : w[o] = o.quantity * Price(in, o.symbol, d.at) BY <1>5, <1>7
  <2>2. \A s \in Held(in.fills) : v[s] = Price(in, s, d.at) - 1 BY <1>5, <1>8
  <2>3. \A o \in placed : o.side = "SELL" /\ d.research[o.symbol] # "BEARISH" => cuts BY <1>18
  <2>4. \E x : /\ Roomy(x)
               /\ Bounded(x, Snapshot(in, d.at), NavOf(in, d.at),
                          SumFunctionOnSet(w, OrdersIn(placed, "BUY", Listed)),
                          SumFunctionOnSet(w, OrdersIn(placed, "SELL", Listed)),
                          SumFunctionOnSet(v, KeptSymbols(in, placed)), cuts)
    BY <1>4, <2>1, <2>2, <2>3, LimitsWalk
  <2> QED BY <1>5, <1>9, <1>15, <1>16, <1>17, <1>19, <1>20, <2>4
<1>22. /\ start.cash = CashOf(in.ledger) /\ start.gross = Gross(in, t)
       /\ start.turnover = Positive(Share(MaxTurnover, nav) - Turnover(in, t))
  BY <1>19, <1>20 DEF Snapshot
<1>23. CashOf(in.ledger) \in Int /\ Gross(in, t) \in Int /\ nav \in Nat /\ Turnover(in, t) \in Nat
  BY <1>4, <1>5, <1>19, NavIs DEF Decidable
<1>24. PICK cash, gross, res, mg, left :
         /\ cash = CashOf(in.ledger) /\ gross = Gross(in, t)
         /\ res = Share(MinReserve, nav) /\ mg = Share(MaxGross, nav)
         /\ left = Positive(Share(MaxTurnover, nav) - Turnover(in, t))
  OBVIOUS
<1>25. res \in Nat /\ mg \in Nat /\ cash \in Int /\ gross \in Int /\ left \in Int
  <2>1. Share(MaxTurnover, nav) \in Nat BY <1>23, LimitIs
  <2> QED BY <1>23, <1>24, <2>1, LimitIs DEF Positive
<1>26. PICK x, y, z : x = room.cash /\ y = room.gross /\ z = room.turnover OBVIOUS
<1>27. x \in Int /\ y \in Int /\ z \in Nat BY <1>21, <1>26 DEF Roomy
<1>28. /\ x + y = cash + gross /\ x <= cash - bought + sold + kept
       /\ bought \in Nat /\ sold \in Nat /\ kept \in Int
       /\ bought > 0 => x >= res /\ y <= mg
       /\ ~cuts => bought + sold + z <= left
  BY <1>21, <1>22, <1>24, <1>26 DEF Bounded
<1>29. bought > 0 => cash - bought + sold + kept >= res /\ gross + bought - sold - kept <= mg
  BY <1>25, <1>27, <1>28
<1>30. ~cuts => bought + sold <= left BY <1>25, <1>27, <1>28
<1>31. (\A o \in S : d.research[o.symbol] = "BEARISH") => ~cuts
  BY <1>3, <1>11, <1>18
<1>32. \A o \in B : Worth(in, o.symbol, t) + o.quantity * Price(in, o.symbol, t)
                      <= Share(MaxPosition, nav)
  <2> SUFFICES ASSUME NEW o \in B
               PROVE  Worth(in, o.symbol, t) + o.quantity * Price(in, o.symbol, t)
                        <= Share(MaxPosition, nav)
    OBVIOUS
  <2>1. o \in placed /\ o.side = "BUY" BY <1>11
  <2> QED BY <1>4, <1>5, <1>19, <2>1, BuyIs
<1> QED BY <1>2, <1>6, <1>11, <1>12, <1>14, <1>19, <1>24, <1>29, <1>30, <1>31, <1>32

\* The orders of a run, taken together and at the prices it decided at, keep the
\* policy's limits, in whatever order the symbols come.
THEOREM PortfolioLimitsAreKept == PortfolioSpec => []LimitsKept
<1>1. PortfolioInit => PortfolioInv BY PortfolioStarts
<1>2. PortfolioInv /\ [PortfolioNext]_portfolioVars => PortfolioInv' BY PortfolioStepKeeps
<1>3. PortfolioInv => LimitsKept BY LimitsHold
<1> QED BY <1>1, <1>2, <1>3, PTL DEF PortfolioSpec
=============================================================================
