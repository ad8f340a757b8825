----------------------------- MODULE AlertPipeline -----------------------------
(***************************************************************************)
(* From minute bars to alerts: the Redis stream and its consumer group     *)
(* (infrastructure/messaging/market_stream.py), the alert workers          *)
(* (workers/alert_worker.py), the market monitor of an agent run           *)
(* (workers/research_tasks.py) and the tables they share                   *)
(* (application/alerting/outbox.py).                                       *)
(*                                                                         *)
(* One symbol.  Time of arrival is counted in messages: the n-th message   *)
(* is received, available and ingested at n.  A worker handles a message   *)
(* in one transaction, whose writes others see when it commits; each of    *)
(* its statements reads what is committed by then.                         *)
(***************************************************************************)
EXTENDS AlertRules

CONSTANTS
  Feeds,         \* the streams considered: sequences of bars, a content each
  OldBars,       \* bars in the table from the start, available at 0
  SessionOpen,   \* the minute the session opens
  PriorCloses,   \* the last minutes of the sessions before
  Consumers,     \* alert workers
  Monitor,       \* the market monitor
  Count,         \* messages a read returns at most
  Theses,        \* when the symbol may get its first thesis
  MaxCrashes     \* bounds the crashes

\* MinuteBar
Contents == [minute : Nat, open : Int, high : Int, low : Int, close : Int, volume : Nat]

ASSUME PipelineAssumption ==
  /\ IsFiniteSet(Feeds) /\ \A feed \in Feeds : feed \in Seq(Contents)
  /\ IsFiniteSet(OldBars) /\ OldBars \subseteq Contents
  /\ Theses \subseteq Nat
  /\ Monitor \notin Consumers
  /\ Count \in Nat \ {0} /\ MaxCrashes \in Nat

VARIABLES
  log,        \* the stream, all of it published
  delivered,  \* the group's last delivered message
  acked,      \* the messages the group has acknowledged
  hand,       \* hand[c]: the messages consumer c has read and not finished
  tx,         \* tx[p]: the transaction of process p
  stored,     \* market_bar: when each stored bar was available
  thesis,     \* the first message that is later than a thesis of the symbol
  alerts,     \* alert_event with its link, by bucket
  metrics,    \* alert_metric: the evaluation measured, by bucket and minute
  outbox,     \* notification_outbox, by bucket
  explained,  \* alert_explanation, by bucket
  orderly,    \* messages decided on in their turn: history, for a property
  crashes     \* crashes so far

stream == <<log, delivered, acked>>
tables == <<stored, alerts, metrics, outbox, explained>>
alertVars == <<stream, hand, tx, tables, thesis, orderly, crashes>>

-----------------------------------------------------------------------------
Processes == Consumers \cup {Monitor}

Idle == [step |-> "idle", outcome |-> "NEW", alert |-> {}, status |-> "DISABLED",
         inTurn |-> FALSE]

Pending == (1..delivered) \ acked

Current(c) == Head(hand[c])
Bar(i) == log[i]

AlertInit ==
  /\ log \in Feeds
  /\ delivered = 0
  /\ acked = {}
  /\ hand = [c \in Consumers |-> <<>>]
  /\ tx = [p \in Processes |-> Idle]
  /\ stored = [b \in OldBars |-> 0]
  /\ thesis \in Theses
  /\ alerts = <<>> /\ metrics = <<>> /\ outbox = {} /\ explained = <<>>
  /\ orderly = {}
  /\ crashes = 0

-----------------------------------------------------------------------------
(* The stream *)

Free(c) == hand[c] = <<>>

InOrder(S) ==
  [n \in 1..Cardinality(S) |-> CHOOSE i \in S : Cardinality({j \in S : j < i}) = n - 1]

FirstOf(S) == {i \in S : Cardinality({j \in S : j < i}) < Count}

\* XAUTOCLAIM: of the messages that have been pending for long, whoever has
\* them, the first are returned alone.
Claim(c) ==
  /\ Free(c)
  /\ \E idle \in SUBSET Pending \ {{}} : hand' = [hand EXCEPT ![c] = InOrder(FirstOf(idle))]
  /\ UNCHANGED <<stream, tx, tables, thesis, orderly, crashes>>

\* XREADGROUP, when nothing has been pending for long.
ReadNew(c) ==
  /\ Free(c)
  /\ delivered < Len(log)
  /\ LET new == FirstOf((delivered + 1)..Len(log))
     IN /\ hand' = [hand EXCEPT ![c] = InOrder(new)]
        /\ delivered' = delivered + Cardinality(new)
  /\ UNCHANGED <<log, acked, tx, tables, thesis, orderly, crashes>>

-----------------------------------------------------------------------------
(* AlertWorker.process *)

At(p, step) == tx[p].step = step

Move(p, step) == tx' = [tx EXCEPT ![p].step = step]

\* Bars inserted by a transaction that has not ended.
Inserted(c) ==
  IF tx[c].step \in {"persisted", "decided", "alerted"} /\ tx[c].outcome # "DUPLICATE"
  THEN {Bar(Current(c))} ELSE {}

\* persist_bar: what the table holds of this bar and of later ones.
Persistence(b) ==
  CASE b \in DOMAIN stored -> "DUPLICATE"
    [] b \notin DOMAIN stored /\ \E o \in DOMAIN stored : o.minute > b.minute -> "OUT_OF_ORDER"
    [] OTHER -> "NEW"

Look(c) ==
  /\ hand[c] # <<>>
  /\ At(c, "idle")
  /\ LET outcome == Persistence(Bar(Current(c)))
     IN tx' = [tx EXCEPT ![c].outcome = outcome,
                         ![c].step = IF outcome = "DUPLICATE" THEN "persisted" ELSE "looked"]
  /\ UNCHANGED <<stream, hand, tables, thesis, orderly, crashes>>

\* The exception leaves the message pending, and the rest of the batch too.
Raise(c) ==
  /\ tx' = [tx EXCEPT ![c] = Idle]
  /\ hand' = [hand EXCEPT ![c] = <<>>]

\* persist_bar: the insertion waits for another one of the same content, and
\* fails when that one commits.
Insert(c) ==
  /\ At(c, "looked")
  /\ \A d \in Consumers \ {c} : Bar(Current(c)) \notin Inserted(d)
  /\ IF Bar(Current(c)) \in DOMAIN stored
     THEN Raise(c)
     ELSE Move(c, "persisted") /\ UNCHANGED hand
  /\ UNCHANGED <<stream, tables, thesis, orderly, crashes>>

\* The table as the transaction of a process sees it.
Seen(p) ==
  IF p \in Consumers
  THEN [b \in DOMAIN stored \cup Inserted(p) |-> IF b \in DOMAIN stored THEN stored[b] ELSE Current(p)]
  ELSE stored

\* Seeded fault: the cutoff of availability is forgotten.
VisibleAnytime(table, minute, at) == {b \in DOMAIN table : b.minute <= minute}

Visible(table, minute, at) == {b \in DOMAIN table : b.minute <= minute /\ table[b] <= at}

\* The latest revision of each minute.
Canonical(table, bars) ==
  {b \in bars : \A o \in bars : o.minute = b.minute => table[o] <= table[b]}

\* The latest minutes of some bars, and the one that is judged.
LatestMinutes(bars) ==
  LET minutes == {b.minute : b \in bars}
  IN {m \in minutes : Cardinality({o \in minutes : o > m}) <= Lookback}

\* recent_bars: the last minutes, in order, with a bar each.
Recent(table, minute, at) ==
  LET bars == Canonical(table, Visible(table, minute, at))
      minutes == InOrder(LatestMinutes(bars))
  IN [n \in DOMAIN minutes |-> CHOOSE b \in bars : b.minute = minutes[n]]

\* gap_context: the open of this session and the last close before it.
Gap(table, minute, at) ==
  LET bars == Canonical(table, Visible(table, minute, at))
      gaps == {<<open.open, close.close>> :
                 open \in {b \in bars : b.minute = SessionOpen /\ minute >= SessionOpen},
                 close \in {b \in bars : /\ b.minute \in PriorCloses
                                         /\ \A o \in bars : o.minute \in PriorCloses => o.minute <= b.minute}}
  IN IF gaps = {} THEN <<>> ELSE CHOOSE gap \in gaps : TRUE

\* The alert a point-in-time evaluation finds, if any.
Evaluation(table, minute, at) ==
  {[minute |-> Last(e.window).minute, at |-> at, window |-> e.window, gap |-> e.gap,
    severity |-> Severity(e.window, e.gap)] :
     e \in {f \in {[window |-> Recent(table, minute, at), gap |-> Gap(table, minute, at)]} :
              Len(f.window) = Lookback + 1 /\ Triggered(f.window, f.gap)}}

HasThesis(at) == thesis <= at

\* The evaluation of a message; an alert without a thesis raises.
Decide(c) ==
  /\ At(c, "persisted")
  /\ \E alert \in {IF tx[c].outcome = "OUT_OF_ORDER"
                   THEN {}
                   ELSE Evaluation(Seen(c), Bar(Current(c)).minute, Current(c))} :
       IF alert # {} /\ ~HasThesis(Current(c))
       THEN Raise(c)
       ELSE /\ tx' = [tx EXCEPT ![c].step = "decided", ![c].alert = alert,
                                ![c].inTurn = /\ 1..(Current(c) - 1) \subseteq acked
                                              /\ tx[c].outcome # "OUT_OF_ORDER"]
            /\ UNCHANGED hand
  /\ UNCHANGED <<stream, tables, thesis, orderly, crashes>>

\* execute_market_monitor_run: a symbol without a thesis is passed over.
MonitorDecide(minute) ==
  /\ At(Monitor, "idle")
  /\ HasThesis(Len(log))
  /\ \E alert \in Evaluation(stored, minute, Len(log)) :
       tx' = [tx EXCEPT ![Monitor].step = "decided", ![Monitor].alert = {alert}]
  /\ UNCHANGED <<stream, hand, tables, thesis, orderly, crashes>>

\* The advisory lock of the alert's key, until the transaction ends.
Locked(bucket) ==
  \E p \in Processes : At(p, "alerted") /\ \E alert \in tx[p].alert : Bucket(alert.minute) = bucket

\* persist_alert and record_explanation; a monitor has no explainer, and an
\* explainer that fails or is late only shows in the status.
PersistAlert(p) ==
  /\ At(p, "decided")
  /\ \E alert \in tx[p].alert : ~Locked(Bucket(alert.minute))
  /\ \E status \in IF p = Monitor THEN {"DISABLED"} ELSE {"SUCCEEDED", "FAILED"} :
       tx' = [tx EXCEPT ![p].step = "alerted", ![p].status = status]
  /\ UNCHANGED <<stream, hand, tables, thesis, orderly, crashes>>

\* ON CONFLICT DO NOTHING: a row that is there stays.
Added(table, key, row) ==
  [k \in DOMAIN table \cup {key} |-> IF k \in DOMAIN table THEN table[k] ELSE row]

\* Seeded fault: the last alert of a bucket replaces the first.
LastAlert(k, alert) == [Added(alerts, k, alert) EXCEPT ![k] = alert]

\* The first alert of a bucket stays.
FirstAlert(k, alert) == Added(alerts, k, alert)

WritesAlert(p) ==
  \E alert \in tx[p].alert :
    LET k == Bucket(alert.minute)
    IN /\ alerts' = FirstAlert(k, alert)
       /\ metrics' = Added(metrics, <<k, alert.minute>>, alert.at)
       /\ outbox' = outbox \cup {k}
       /\ explained' = Added(explained, k, tx[p].status)

Commit(p) ==
  /\ \/ At(p, "decided") /\ tx[p].alert = {} /\ UNCHANGED <<alerts, metrics, outbox, explained>>
     \/ At(p, "alerted") /\ WritesAlert(p)
  /\ stored' = Seen(p)
  /\ tx' = [tx EXCEPT ![p] = IF p = Monitor THEN Idle ELSE [Idle EXCEPT !.step = "committed"]]
  /\ orderly' = IF tx[p].inTurn THEN orderly \cup {Current(p)} ELSE orderly
  /\ UNCHANGED <<stream, hand, thesis, crashes>>

\* Seeded fault: the message is acknowledged when it has been handled.
HandledStep(step) == step \in {"decided", "committed"}

DurableStep(step) == step = "committed"

Ack(c) ==
  /\ DurableStep(tx[c].step)
  /\ acked' = acked \cup {Current(c)}
  /\ hand' = [hand EXCEPT ![c] = Tail(@)]
  /\ tx' = [tx EXCEPT ![c] = Idle]
  /\ UNCHANGED <<log, delivered, tables, thesis, orderly, crashes>>

WorkerDies(c) ==
  /\ hand[c] # <<>>
  /\ crashes < MaxCrashes
  /\ crashes' = crashes + 1
  /\ Raise(c)
  /\ UNCHANGED <<stream, tables, thesis, orderly>>

Work(c) == Look(c) \/ Insert(c) \/ Decide(c) \/ PersistAlert(c) \/ Commit(c) \/ Ack(c)

AlertNext ==
  \/ \E c \in Consumers : Claim(c) \/ ReadNew(c) \/ Work(c) \/ WorkerDies(c)
  \/ \E i \in DOMAIN log : MonitorDecide(Bar(i).minute)
  \/ PersistAlert(Monitor)
  \/ Commit(Monitor)

AlertSpec == AlertInit /\ [][AlertNext]_alertVars
-----------------------------------------------------------------------------
(* Properties *)

AllBars == OldBars \cup UNION {Range(feed) : feed \in Feeds}

Alert == [minute : {b.minute : b \in AllBars}, at : Nat, window : Seq(AllBars),
          gap : Seq(Int), severity : {"LOW", "MEDIUM", "HIGH", "CRITICAL"}]

AlertTypeOK ==
  /\ log \in Feeds
  /\ delivered \in 0..Len(log)
  /\ acked \subseteq 1..delivered
  /\ \A c \in Consumers : hand[c] \in Seq(1..delivered)
  /\ \A p \in Processes :
       /\ tx[p].step \in {"idle", "looked", "persisted", "decided", "alerted", "committed"}
       /\ tx[p].outcome \in {"NEW", "DUPLICATE", "OUT_OF_ORDER"}
       /\ tx[p].alert \subseteq Alert /\ Cardinality(tx[p].alert) <= 1
  /\ \A b \in DOMAIN stored : b \in AllBars /\ stored[b] \in 0..Len(log)
  /\ thesis \in Theses
  /\ crashes \in 0..MaxCrashes

\* ACK only after PostgreSQL: what the group will not deliver again is in the
\* table.
AcknowledgedIsStored == \A i \in acked : Bar(i) \in DOMAIN stored

PipelineSound == AlertTypeOK /\ AcknowledgedIsStored

\* Every alert is whole, of its own bucket, follows from bars and a thesis that
\* were there when it was decided (no look ahead), and has the metrics of that
\* evaluation, whatever other minutes of the bucket have added theirs.
AlertsFollow ==
  /\ DOMAIN alerts = outbox /\ DOMAIN explained = outbox
  /\ \A k \in DOMAIN alerts :
       LET alert == alerts[k]
       IN /\ Bucket(alert.minute) = k
          /\ metrics[<<k, alert.minute>>] = alert.at
          /\ \A b \in Range(alert.window) :
               b \in DOMAIN stored /\ stored[b] <= alert.at /\ b.minute <= alert.minute
          /\ Triggered(alert.window, alert.gap)
          /\ HasThesis(alert.at)

\* Replays are deterministic: of a message that was decided on in its turn,
\* the same evaluation on today's table, as of then, finds an alert only if
\* there is one.
ReplayAgrees ==
  \A i \in orderly \cap acked :
    \A alert \in Evaluation(stored, Bar(i).minute, i) : Bucket(alert.minute) \in DOMAIN alerts

\* Alerts and messages agree both ways: no alert without its bars, and no bar that
\* was decided on in its turn without its alert.
AlertsAgree == AlertsFollow /\ ReplayAgrees

\* What an alert says, and how it was explained, never changes.
AlertIsFinal ==
  [][\A k \in DOMAIN alerts : /\ k \in DOMAIN alerts' /\ alerts'[k] = alerts[k]
                              /\ explained'[k] = explained[k]]_alertVars
=============================================================================
