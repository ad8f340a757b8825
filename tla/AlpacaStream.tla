----------------------------- MODULE AlpacaStream -----------------------------
(***************************************************************************)
(* The Alpaca market-data stream: the supervisor process that receives     *)
(* batches over a WebSocket, archives each one and queues it               *)
(* (workers/alpaca_stream_supervisor.py), the Celery task that persists a  *)
(* batch (infrastructure/providers/alpaca_stream.py), the reconciler that  *)
(* queues again what the archive holds and the database does not, and the  *)
(* recovery of what was missed between two connections.                    *)
(*                                                                         *)
(* One symbol.  Time is counted in ticks; the batch of a tick is named by  *)
(* it.  A bar is stamped with the start of its minute and sent at its end, *)
(* everything else is stamped with the tick it is sent at.  The handler of *)
(* a batch awaits nothing, so a connection is never lost within it, but    *)
(* the process may be.                                                     *)
(***************************************************************************)
EXTENDS Integers, Sequences, FiniteSets

CONSTANTS
  MaxTime,      \* bounds the ticks
  Minute,       \* ticks of a bar
  Recovery,     \* the longest gap that is recovered, in ticks
  Chunk,        \* ticks of one backfill job
  Junk,         \* ticks whose batch cannot be decoded, or is a provider's error
  Closed,       \* ticks whose bars are outside the market calendar
  Limit,        \* archive objects in a page of the reconciler
  MaxBacklog,   \* batches sent and not yet received
  MaxQueued,    \* bounds the tasks queued when the process starts or connects
  MaxFailures,  \* bounds the tasks that are lost
  NoEvent       \* no event seen yet

ASSUME StreamAssumption ==
  /\ MaxTime \in Nat /\ MaxBacklog \in Nat
  /\ MaxQueued \in Nat /\ MaxFailures \in Nat
  /\ Minute \in Nat \ {0} /\ Recovery \in Nat \ {0}
  /\ Chunk \in Nat \ {0} /\ Limit \in 1..1000
  /\ Junk \subseteq 1..MaxTime /\ Closed \subseteq 1..MaxTime
  /\ NoEvent \notin Int

VARIABLES
  now,        \* the last tick
  process,    \* "down", "up" without a connection, or "connected"
  wire,       \* batches sent on this connection, to be received in order
  stage,      \* how far the handler is with the first of them
  lastEvent,  \* _last_event, lost with the process
  since,      \* the first tick of the process that is running
  envelopes,  \* recovery envelopes in the archive
  objects,    \* raw objects in the archive
  tasks,      \* Celery tasks that are queued
  rows,       \* raw_data_object
  rejections, \* normalization_rejection
  bars,       \* market_bar, by time stamp
  gaps,       \* the gaps whose backfill jobs are in ingestion_job
  failures    \* tasks lost so far

archive == <<envelopes, objects>>
tables == <<rows, rejections, bars, gaps>>
alpacaVars == <<now, process, wire, stage, lastEvent, since, archive, tasks, tables, failures>>

-----------------------------------------------------------------------------
Ticks == 1..MaxTime

EndsMinute(t) == t % Minute = 0

\* decode_batch: the time stamps of the events of a batch.
Decoded(t) == {t} \cup (IF EndsMinute(t) THEN {t - Minute} ELSE {})

BarsOf(t) == IF EndsMinute(t) THEN {t - Minute} ELSE {}

Latest(S) == CHOOSE t \in S : \A u \in S : u <= t

Persist(t) == [task |-> "persist", batch |-> t]
Reconcile(t) == [task |-> "reconcile", after |-> t]
Recover(last, t) == [task |-> "recover", last |-> last, reconnected |-> t]

Tasks == {Persist(t) : t \in Ticks} \cup {Reconcile(t) : t \in 0..MaxTime}
           \cup {Recover(last, t) : last \in 0..MaxTime, t \in 0..MaxTime}

\* plan_reconnect_gap_fill
GapFill == [start : 0..MaxTime, end : 0..MaxTime, truncated : BOOLEAN]

Larger(a, b) == IF a > b THEN a ELSE b
Smaller(a, b) == IF a < b THEN a ELSE b

Gap(last, t) == [start |-> Larger(last, t - Recovery),
                 end |-> t,
                 truncated |-> t - last > Recovery]

\* Seeded fault: the chunks of a window leave out its last one.
WholeChunks(gap) ==
  {[start |-> gap.start + k * Chunk, end |-> gap.start + (k + 1) * Chunk]
     : k \in {i \in 0..MaxTime : gap.start + (i + 1) * Chunk <= gap.end}}

\* plan_alpaca_backfill: the windows of the jobs.
Slices(gap) ==
  {[start |-> gap.start + k * Chunk, end |-> Smaller(gap.start + (k + 1) * Chunk, gap.end)]
     : k \in {i \in 0..MaxTime : gap.start + i * Chunk < gap.end}}

AlpacaInit ==
  /\ now = 0
  /\ process = "down"
  /\ wire = <<>>
  /\ stage = "idle"
  /\ lastEvent = NoEvent
  /\ since = 0
  /\ envelopes = {} /\ objects = {}
  /\ tasks = {}
  /\ rows = {} /\ rejections = {} /\ bars = {} /\ gaps = {}
  /\ failures = 0

-----------------------------------------------------------------------------
(* The process *)

\* The batch of the next tick is sent, if anybody listens.
Tick ==
  /\ now < MaxTime
  /\ now' = now + 1
  /\ IF process = "connected"
     THEN /\ Len(wire) < MaxBacklog
          /\ wire' = Append(wire, now + 1)
     ELSE UNCHANGED wire
  /\ UNCHANGED <<process, stage, lastEvent, since, archive, tasks, tables, failures>>

\* run_alpaca_stream: the reconciler is queued first.
Start ==
  /\ process = "down"
  /\ Cardinality(tasks) < MaxQueued
  /\ process' = "up"
  /\ since' = now
  /\ tasks' = tasks \cup {Reconcile(0)}
  /\ UNCHANGED <<now, wire, stage, lastEvent, archive, tables, failures>>

\* Connected again, what was missed since the last event is asked for.
Connect ==
  /\ process = "up"
  /\ Cardinality(tasks) < MaxQueued
  /\ process' = "connected"
  /\ tasks' = IF lastEvent = NoEvent THEN tasks ELSE tasks \cup {Recover(lastEvent, now)}
  /\ UNCHANGED <<now, wire, stage, lastEvent, since, archive, tables, failures>>

\* ConnectionClosed, OSError: what was not received is lost.
Disconnect ==
  /\ process = "connected"
  /\ stage = "idle"
  /\ process' = "up"
  /\ wire' = <<>>
  /\ UNCHANGED <<now, stage, lastEvent, since, archive, tasks, tables, failures>>

\* The process is killed, or the archive or the broker is unavailable, which
\* run_forever does not catch.
Die ==
  /\ process # "down"
  /\ process' = "down"
  /\ wire' = <<>>
  /\ stage' = "idle"
  /\ lastEvent' = NoEvent
  /\ UNCHANGED <<now, since, archive, tasks, tables, failures>>

\* _archive_and_publish: the recovery envelope goes first,
ArchiveEnvelope ==
  /\ stage = "idle"
  /\ wire # <<>>
  /\ envelopes' = envelopes \cup {Head(wire)}
  /\ stage' = "envelope"
  /\ UNCHANGED <<now, process, wire, lastEvent, since, objects, tasks, tables, failures>>

\* then the raw object,
ArchiveObject ==
  /\ stage = "envelope"
  /\ objects' = objects \cup {Head(wire)}
  /\ stage' = "raw"
  /\ UNCHANGED <<now, process, wire, lastEvent, since, envelopes, tasks, tables, failures>>

Advanced(t) == IF lastEvent = NoEvent
               THEN Latest(Decoded(t))
               ELSE Larger(lastEvent, Latest(Decoded(t)))

\* then the task, and the handler returns: _last_event advances, unless the
\* batch could not be decoded, which ends the connection.
Publish ==
  /\ stage = "raw"
  /\ stage' = "idle"
  /\ tasks' = tasks \cup {Persist(Head(wire))}
  /\ IF Head(wire) \in Junk
     THEN /\ process' = "up"
          /\ wire' = <<>>
          /\ UNCHANGED lastEvent
     ELSE /\ lastEvent' = Advanced(Head(wire))
          /\ wire' = Tail(wire)
          /\ UNCHANGED process
  /\ UNCHANGED <<now, since, archive, tables, failures>>

-----------------------------------------------------------------------------
(* The tasks *)

Done(task) == tasks' = tasks \ {task}

\* Seeded fault: the row is written, whether its object could be or not.
RowFirst(t) ==
  /\ rows' = rows \cup {t}
  /\ bars' = bars \cup BarsOf(t)
  /\ UNCHANGED <<objects, rejections>>

\* persist_batch of what cannot be decoded: its object, its row, and one
\* rejection.
Reject(t) ==
  /\ objects' = objects \cup {t}
  /\ rows' = rows \cup {t}
  /\ rejections' = rejections \cup {t}
  /\ UNCHANGED bars

\* persist_batch: its object, then its row and its facts in one transaction; a
\* batch that was persisted before changes nothing.
Keep(t) ==
  /\ objects' = objects \cup {t}
  /\ rows' = rows \cup {t}
  /\ bars' = bars \cup BarsOf(t)
  /\ UNCHANGED rejections

\* A bar outside the calendar raises after the object is there.
Refuse(t) ==
  /\ objects' = objects \cup {t}
  /\ UNCHANGED <<rows, rejections, bars>>

RunPersist(t) ==
  /\ Persist(t) \in tasks
  /\ Done(Persist(t))
  /\ \/ t \in Junk /\ Reject(t)
     \/ t \in Closed \ Junk /\ Refuse(t)
     \/ t \notin Junk \cup Closed /\ Keep(t)
  /\ UNCHANGED <<now, process, wire, stage, lastEvent, since, envelopes, gaps, failures>>

Beyond(t) == {e \in envelopes : e > t}

\* The first Limit envelopes after the cursor.
Page(t) == {e \in Beyond(t) : Cardinality({f \in Beyond(t) : f <= e}) <= Limit}

\* Seeded fault: the cursor is never handed on.
OnePage(t) == {}

\* The page after this one, if this one is full.
NextPage(t) ==
  LET page == Page(t)
  IN IF Cardinality(page) = Limit THEN {Reconcile(Latest(page))} ELSE {}

\* reconcile_alpaca_stream_archive
RunReconcile(t) ==
  /\ Reconcile(t) \in tasks
  /\ tasks' = (tasks \ {Reconcile(t)})
                \cup {Persist(e) : e \in Page(t) \ rows} \cup NextPage(t)
  /\ UNCHANGED <<now, process, wire, stage, lastEvent, since, archive, tables, failures>>

\* schedule_alpaca_reconnect_ingestion; a gap that is not ordered is refused.
RunRecover(last, t) ==
  /\ Recover(last, t) \in tasks
  /\ Done(Recover(last, t))
  /\ gaps' = IF last < t THEN gaps \cup {Gap(last, t)} ELSE gaps
  /\ UNCHANGED <<now, process, wire, stage, lastEvent, since, archive,
                 rows, rejections, bars, failures>>

\* The broker or the worker loses a task, or its retries are exhausted.
Lose(task) ==
  /\ task \in tasks
  /\ failures < MaxFailures
  /\ failures' = failures + 1
  /\ Done(task)
  /\ UNCHANGED <<now, process, wire, stage, lastEvent, since, archive, tables>>

Supervise == Connect \/ ArchiveEnvelope \/ ArchiveObject \/ Publish

RunTask == \/ \E t \in Ticks : RunPersist(t)
           \/ \E t \in 0..MaxTime : RunReconcile(t)
           \/ \E last, t \in 0..MaxTime : RunRecover(last, t)

AlpacaNext ==
  \/ Tick \/ Start \/ Supervise \/ Disconnect \/ Die
  \/ RunTask
  \/ \E task \in tasks : Lose(task)

AlpacaSpec == AlpacaInit /\ [][AlpacaNext]_alpacaVars

\* The process supervisor restarts the process, and Celery's workers run.
AlpacaFairness ==
  /\ WF_alpacaVars(Start)
  /\ \A t \in Ticks : WF_alpacaVars(RunPersist(t))
  /\ \A t \in 0..MaxTime : WF_alpacaVars(RunReconcile(t))
  /\ \A last, t \in 0..MaxTime : WF_alpacaVars(RunRecover(last, t))

AlpacaFairSpec == AlpacaSpec /\ AlpacaFairness
-----------------------------------------------------------------------------
(* Properties *)

AlpacaTypeOK ==
  /\ now \in 0..MaxTime /\ since \in 0..MaxTime
  /\ process \in {"down", "up", "connected"}
  /\ wire \in Seq(Ticks) /\ Len(wire) <= MaxBacklog
  /\ stage \in {"idle", "envelope", "raw"}
  /\ lastEvent \in Ticks \cup {NoEvent}
  /\ envelopes \subseteq Ticks /\ objects \subseteq Ticks
  /\ tasks \subseteq Tasks
  /\ rows \subseteq Ticks /\ rejections \subseteq rows
  /\ bars \subseteq 0..MaxTime
  /\ gaps \subseteq GapFill
  /\ failures \in 0..MaxFailures

\* Every row leads back to an object and to an envelope of the archive, and
\* every fact to a row, whatever died between the writes.
LineageIsWhole ==
  /\ rows \subseteq objects \cap envelopes
  /\ bars = UNION {BarsOf(t) : t \in rows \ (Junk \cup Closed)}

StreamSound == AlpacaTypeOK /\ LineageIsWhole

\* The ticks the process has lost after it had seen an event: neither in the
\* archive nor on the wire.
Missed ==
  {t \in (since + 1)..now : /\ t \notin envelopes
                            /\ \A i \in DOMAIN wire : wire[i] # t
                            /\ \E e \in envelopes \ Junk : since < e /\ e < t}

InSlice(t, gap) == \E s \in Slices(gap) : s.start <= t /\ t <= s.end

\* The docs promise that a failed publish does not advance the watermark and
\* that a reconnection recovers what it missed: once connected, the process
\* has asked for every tick it lost, but for what the recovery truncates.
EveryGapIsAsked ==
  failures = 0 /\ process = "connected" =>
    \A t \in Missed :
      \/ \E task \in tasks : /\ task.task = "recover"
                             /\ task.last <= t /\ t <= task.reconnected
      \/ \E gap \in gaps : InSlice(t, gap) \/ (gap.truncated /\ t < gap.start)

\* If the process is restarted again and again, what it archived reaches the
\* database in the end, whatever task was lost; a batch outside the calendar
\* never does, and is queued again by every restart.
RestartsPersistArchive ==
  ([]<>(process = "down")) =>
    \A t \in Ticks \ (Closed \ Junk) : [](t \in envelopes => <>(t \in rows))
=============================================================================
