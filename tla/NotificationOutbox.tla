-------------------------- MODULE NotificationOutbox --------------------------
(***************************************************************************)
(* The notification outbox of application/alerting/outbox.py: the rows an  *)
(* alert leaves behind and the dispatchers that deliver them.              *)
(*                                                                         *)
(* A pass of a dispatcher locks every row that is due, reads them all, and *)
(* then, row by row, sends on each channel not yet delivered and saves the *)
(* row.  Saving commits, and the first commit gives up all the locks of    *)
(* the pass, so the later rows are sent and saved from what was read       *)
(* before, with nothing to keep another dispatcher from them.              *)
(*                                                                         *)
(* What the outside world accepted is kept next to what the rows say.      *)
(* next_attempt_at is always the reading of a clock in the past: a row     *)
(* that is not delivered is due.                                           *)
(***************************************************************************)
EXTENDS Integers, FiniteSets

CONSTANTS
  Messages,     \* outbox rows ever inserted, numbered by created_at
  Channels,     \* the channels of each row
  Dispatchers,  \* processes running dispatch_due
  MaxFailures,  \* bounds the failed sends and crashes
  None          \* no lock, no pass

ASSUME OutboxAssumption ==
  /\ Messages \subseteq Nat
  /\ IsFiniteSet(Messages) /\ IsFiniteSet(Channels) /\ Channels # {}
  /\ MaxFailures \in Nat
  /\ None \notin Dispatchers

VARIABLES
  row,       \* table notification_outbox
  lock,      \* lock[m]: the dispatcher that holds the row lock of m
  pass,      \* pass[d]: the pass in progress of dispatcher d
  accepted,  \* accepted[m][c]: how often channel c took message m
  failures   \* failed sends and crashes so far

vars == <<row, lock, pass, accepted, failures>>

-----------------------------------------------------------------------------
ChannelState == [status : {"PENDING", "RETRY", "DELIVERED"}, attempts : Nat]

Row == [status : {"ABSENT", "PENDING", "RETRY", "DELIVERED"},
        attempts : Nat,
        channel : [Channels -> ChannelState]]

\* OutboxMessage.create
Created == [status |-> "PENDING",
            attempts |-> 0,
            channel |-> [c \in Channels |-> [status |-> "PENDING", attempts |-> 0]]]

NoRow == [Created EXCEPT !.status = "ABSENT"]

\* todo: the rows still to save, of which the first is being sent; seen: the
\* rows as they were read, the first with the outcomes so far; left: the
\* channels the first is still to be sent on.
Pass == [todo : SUBSET Messages, seen : [Messages -> Row], left : SUBSET Channels]

NoPass == [todo |-> {}, seen |-> [m \in Messages |-> NoRow], left |-> {}]

Init == /\ row = [m \in Messages |-> NoRow]
        /\ lock = [m \in Messages |-> None]
        /\ pass = [d \in Dispatchers |-> NoPass]
        /\ accepted = [m \in Messages |-> [c \in Channels |-> 0]]
        /\ failures = 0

\* persist_alert inserts the row with the alert, in one transaction.
Persist(m) ==
  /\ row[m].status = "ABSENT"
  /\ row' = [row EXCEPT ![m] = Created]
  /\ UNCHANGED <<lock, pass, accepted, failures>>

-----------------------------------------------------------------------------
(* dispatch_due *)

Undelivered(r) == {c \in Channels : r.channel[c].status # "DELIVERED"}

First(rows) == CHOOSE m \in rows : \A n \in rows : m <= n

\* The pass goes on to the first of the rows still to do.
PassOver(rows, seen) ==
  IF rows = {}
  THEN NoPass
  ELSE [todo |-> rows, seen |-> seen, left |-> Undelivered(seen[First(rows)])]

\* Seeded fault: what failed once is not looked at again.
DueOnce == {m \in Messages : row[m].status = "PENDING" /\ lock[m] = None}

\* FOR UPDATE SKIP LOCKED: what another pass has locked is not waited for.
DueRows == {m \in Messages : row[m].status \in {"PENDING", "RETRY"} /\ lock[m] = None}

Due(d) ==
  /\ pass[d].todo = {}
  /\ DueRows # {}
  /\ pass' = [pass EXCEPT ![d] = PassOver(DueRows, row)]
  /\ lock' = [m \in Messages |-> IF m \in DueRows THEN d ELSE lock[m]]
  /\ UNCHANGED <<row, accepted, failures>>

Tried(state, status) == [status |-> status, attempts |-> state.attempts + 1]

\* Seeded fault: one failed channel puts every channel back to retry.
OutcomeOfAll(d, c, status) ==
  LET m == First(pass[d].todo)
  IN pass' = [pass EXCEPT
       ![d].seen[m].channel = [x \in Channels |-> IF x = c \/ status = "RETRY"
                                                   THEN Tried(@[x], status) ELSE @[x]],
       ![d].left = @ \ {c}]

\* The outcome of channel c, in the memory of the pass.
Outcome(d, c, status) ==
  LET m == First(pass[d].todo)
  IN pass' = [pass EXCEPT ![d].seen[m].channel[c] = Tried(@, status),
                          ![d].left = @ \ {c}]

Accept(d, c) == accepted' = [accepted EXCEPT ![First(pass[d].todo)][c] = @ + 1]

Send(d, c) ==
  /\ c \in pass[d].left
  /\ Outcome(d, c, "DELIVERED")
  /\ Accept(d, c)
  /\ UNCHANGED <<row, lock, failures>>

Fail == failures < MaxFailures /\ failures' = failures + 1

\* The channel has no adapter, refuses, or times out, which it may also do
\* after it took the message.
SendFails(d, c) ==
  /\ c \in pass[d].left
  /\ Fail
  /\ Outcome(d, c, "RETRY")
  /\ Accept(d, c) \/ UNCHANGED accepted
  /\ UNCHANGED <<row, lock>>

\* Seeded fault: one delivered channel is enough.
AnyDelivered(r) == \E c \in Channels : r.channel[c].status = "DELIVERED"

Complete(r) == Undelivered(r) = {}

Updated(r) ==
  [r EXCEPT !.status = IF Complete(r) THEN "DELIVERED" ELSE "RETRY",
            !.attempts = @ + 1]

Unlocked(d) == [m \in Messages |-> IF lock[m] = d THEN None ELSE lock[m]]

\* save_delivery and commit; the UPDATE waits for a row another pass has locked.
Save(d) ==
  /\ pass[d].todo # {}
  /\ pass[d].left = {}
  /\ LET m == First(pass[d].todo)
     IN /\ lock[m] \in {None, d}
        /\ row' = [row EXCEPT ![m] = Updated(pass[d].seen[m])]
        /\ pass' = [pass EXCEPT ![d] = PassOver(@.todo \ {m}, @.seen)]
  /\ lock' = Unlocked(d)
  /\ UNCHANGED <<accepted, failures>>

\* The process is lost, or saving raises: what was not committed is forgotten.
Crash(d) ==
  /\ pass[d].todo # {}
  /\ Fail
  /\ pass' = [pass EXCEPT ![d] = NoPass]
  /\ lock' = Unlocked(d)
  /\ UNCHANGED <<row, accepted>>

Next ==
  \/ \E m \in Messages : Persist(m)
  \/ \E d \in Dispatchers : Due(d) \/ Save(d) \/ Crash(d)
  \/ \E d \in Dispatchers, c \in Channels : Send(d, c) \/ SendFails(d, c)

Spec == Init /\ [][Next]_vars

\* Somebody calls dispatch_due again and again, and a channel that is asked
\* often enough answers (failures are bounded).
Fairness == \A d \in Dispatchers : /\ WF_vars(Due(d))
                                   /\ WF_vars(Save(d))
                                   /\ \A c \in Channels : WF_vars(Send(d, c))

FairSpec == Spec /\ Fairness
-----------------------------------------------------------------------------
(* Properties *)

\* Every column keeps its type, ck_notification_outbox_status included.
TypeOK == /\ row \in [Messages -> Row]
          /\ lock \in [Messages -> Dispatchers \cup {None}]
          /\ pass \in [Dispatchers -> Pass]
          /\ accepted \in [Messages -> [Channels -> Nat]]
          /\ failures \in 0..MaxFailures

\* A notification the row calls delivered was delivered, by every channel,
\* even when the row was written from what a stale pass remembered.
DeliveredWasAccepted ==
  \A m \in Messages :
    /\ \A c \in Channels \ Undelivered(row[m]) : accepted[m][c] > 0
    /\ row[m].status = "DELIVERED" <=> Undelivered(row[m]) = {}

\* The counters of a row agree: a channel was tried in every pass the row
\* remembers until it was delivered, and in none after.
AttemptsAgree ==
  \A m \in Messages : \A c \in Channels :
    IF c \in Undelivered(row[m])
    THEN row[m].channel[c].attempts = row[m].attempts
    ELSE row[m].channel[c].attempts \in 1..row[m].attempts

\* What a row says is what happened: its types, its deliveries and its counters
\* hold under crashes and passes that save what they remember.
RowsSound == TypeOK /\ DeliveredWasAccepted /\ AttemptsAgree

\* A pass that still holds the lock of the row it saves takes no delivery back.
DeliveryIsKept ==
  [][\A d \in Dispatchers, m \in Messages :
       lock[m] = d => Undelivered(row'[m]) \subseteq Undelivered(row[m])]_vars

\* A row that is there is delivered at last and stays so, whatever crashes.
EventuallyDelivered ==
  \A m \in Messages : <>[](row[m].status \in {"ABSENT", "DELIVERED"})
=============================================================================
