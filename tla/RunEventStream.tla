---------------------------- MODULE RunEventStream ----------------------------
(***************************************************************************)
(* The trace page of a run: web/components/trace/live-run-trace.tsx reads  *)
(* the run's events through application/events/sse.py:stream_events, a     *)
(* generator that polls PostgreSQL while the run goes on (AgentRuns).      *)
(*                                                                         *)
(* One pass of the generator runs two SELECTs of one READ COMMITTED        *)
(* transaction, first the events, then the status: anything may be         *)
(* committed between them.  The connection may break at any point and the  *)
(* page comes back with the id of the last event it has.                   *)
(***************************************************************************)
EXTENDS AgentRuns, FiniteSetsExt

CONSTANTS
  BatchSize,  \* load_events' limit
  Watched     \* the runs whose page is opened

ASSUME StreamAssumption == BatchSize \in Nat \ {0} /\ Watched \subseteq Runs

VARIABLES
  page,    \* the open page: its run, whether it only replays, what it shows
  stream   \* the generator that serves it

streamVars == <<page, stream>>

allVars == <<run, events, worker, committed, queue, page, stream>>

-----------------------------------------------------------------------------
Page == [run : Runs \cup {None}, replayOnly : BOOLEAN, shown : SUBSET Nat,
         state : {"none", "waiting", "reading", "terminal"}]

Stream == [phase : {"closed", "load", "status", "send", "returned"},
           cursor : Nat,     \* sequence of the last event sent
           upto : Nat,       \* sequence of the last event of the batch
           full : BOOLEAN,   \* len(events) == batch_size
           ended : BOOLEAN]  \* the status read is an end status

NoPage == [run |-> None, replayOnly |-> FALSE, shown |-> {}, state |-> "none"]
Closed == [phase |-> "closed", cursor |-> 0, upto |-> 0, full |-> FALSE, ended |-> FALSE]

StreamInit == Init /\ page = NoPage /\ stream = Closed

Recorded == events[page.run]

\* The page is rendered with the status the run has then.
OpenPage(r) ==
  /\ r \in Watched
  /\ page.state = "none"
  /\ run[r].status # "ABSENT"
  /\ page' = [NoPage EXCEPT !.run = r, !.state = "waiting",
                            !.replayOnly = run[r].status \in EndStatuses]
  /\ UNCHANGED stream

\* Seeded fault: a page that comes back asks only for what happens from now on.
LatestSequence == IF page.shown = {} THEN 0 ELSE Len(Recorded)

\* DurableEventStore.lastEventId, sent as Last-Event-ID.
LastEventId == IF page.shown = {} THEN 0 ELSE Max(page.shown)

Connect ==
  /\ page.state = "waiting"
  /\ page' = [page EXCEPT !.state = "reading"]
  /\ stream' = [Closed EXCEPT !.phase = "load", !.cursor = LastEventId, !.upto = LastEventId]

LoadEvents ==
  /\ stream.phase = "load"
  /\ LET upto == Min({stream.cursor + BatchSize, Len(Recorded)})
     IN stream' = [stream EXCEPT !.phase = "status", !.upto = upto,
                                 !.full = upto = stream.cursor + BatchSize]
  /\ UNCHANGED page

ReadStatus ==
  /\ stream.phase = "status"
  /\ stream' = [stream EXCEPT !.phase = "send", !.ended = run[page.run].status \in EndStatuses]
  /\ UNCHANGED page

TerminalTypes == {"run.completed", "run.failed", "run.cancelled"}

Terminal(i) == Recorded[i].type \in TerminalTypes

\* The page takes a chunk, and stops reading once it has a terminal event.
SendChunk ==
  /\ stream.phase = "send"
  /\ \E c \in stream.cursor + 1..stream.upto :
       LET stops == \E i \in stream.cursor + 1..c : Terminal(i)
       IN /\ page' = [page EXCEPT !.shown = @ \cup (stream.cursor + 1..c),
                                  !.state = IF stops THEN "terminal" ELSE @]
          /\ stream' = IF stops THEN Closed ELSE [stream EXCEPT !.cursor = c]

EndOfBatch ==
  /\ stream.phase = "send"
  /\ stream.cursor = stream.upto
  /\ stream' = [Closed EXCEPT !.phase = IF stream.ended /\ ~stream.full THEN "returned" ELSE "load",
                              !.cursor = stream.cursor, !.upto = stream.cursor]
  /\ UNCHANGED page

\* Seeded fault: a stream that ended is taken for the end of the run.
StreamDoneForGood ==
  /\ stream.phase = "returned"
  /\ page' = [page EXCEPT !.state = "terminal"]
  /\ stream' = Closed

\* The page of a run that was live when it was opened connects again.
StreamDone ==
  /\ stream.phase = "returned"
  /\ page' = [page EXCEPT !.state = IF page.replayOnly THEN "terminal" ELSE "waiting"]
  /\ stream' = Closed

Break ==
  /\ page.state = "reading"
  /\ page' = [page EXCEPT !.state = "waiting"]
  /\ stream' = Closed

Serve == Connect \/ LoadEvents \/ ReadStatus \/ SendChunk \/ EndOfBatch \/ StreamDone

StreamNext ==
  \/ Next /\ UNCHANGED streamVars
  \/ UNCHANGED vars /\ ((\E r \in Runs : OpenPage(r)) \/ Serve \/ Break)

StreamSpec == StreamInit /\ [][StreamNext]_allVars

\* The stream is served as long as its connection lasts; breaks are not forbidden.
FairStreamSpec ==
  /\ StreamSpec
  /\ WF_allVars(Tick /\ UNCHANGED streamVars)
  /\ WF_allVars(Recover /\ UNCHANGED streamVars)
  /\ \A r \in Runs : SF_allVars(Claim(r) /\ UNCHANGED streamVars)
  /\ WF_allVars(Serve /\ UNCHANGED vars)
-----------------------------------------------------------------------------
(* Properties *)

\* Breaks, reconnections and batches never cost or repeat an event: the page
\* shows the run's events from the first one on, without a hole, and the
\* stream resumes exactly behind them.
PageShowsPrefix ==
  /\ page.shown = 1..Cardinality(page.shown)
  /\ page.run # None => Cardinality(page.shown) <= Len(Recorded)
  /\ stream.phase # "closed" => stream.cursor = Cardinality(page.shown)

\* What the page has shown at any time is the beginning of a trail that tells the
\* run's story: status events match the row, each attempt's progress is its own.
PageTellsStory == PageShowsPrefix /\ TrailTellsStory /\ ProgressWithinAttempt

\* A page that was opened reaches the event that ended the run, although a stream
\* may close without having sent it, unless the connection breaks for ever.
PageSeesTheEnd ==
  \/ page.state \in {"waiting", "reading"} ~> \E i \in page.shown : Terminal(i)
  \/ []<><<Break>>_streamVars
=============================================================================
