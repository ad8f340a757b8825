---------------------------- MODULE WatchlistRefresh ----------------------------
(***************************************************************************)
(* How watchlist symbols get their latest bars: beat's minute and daily    *)
(* schedules (workers/schedules.py), the operator's refresh                *)
(* (api/routes/rest.py, application/ingestion/watchlist_refresh.py), the   *)
(* market-data policy both consult and the reader that shows the latest    *)
(* quote (application/market_data/), composed with the job store           *)
(* (IngestionJobs).                                                        *)
(*                                                                         *)
(* A caller reads the symbols once and then admits one job after the       *)
(* other, each in a transaction of its own, so callers interleave with one *)
(* another, with edits of the watchlist and with the workers.  Only the    *)
(* operator's request publishes; the dispatcher publishes what is queued.  *)
(*                                                                         *)
(* Time is minutes; `Times` are the instants of the instance at which      *)
(* something may be asked; clocks are cut to the minute by every caller.   *)
(***************************************************************************)
EXTENDS IngestionJobs, FiniteSetsExt

CONSTANTS
  Symbols,      \* watchlist symbols, in their order (numbers)
  Times,        \* a sequence of minutes, increasing
  TradingDays,  \* the days on which the exchange opens
  ClosesAt,     \* ClosesAt[d]: the minute of the day of its close
  DailyAt,      \* the minute of the day of the daily schedule
  Offers,       \* the entitlements the deployment may have
  Monitored,    \* those with intraday_monitoring
  Researched,   \* those with daily_research, and the benchmark
  MaxSymbols    \* MAX_WATCHLIST_REFRESH_SYMBOLS

VARIABLES
  clock,       \* Times[clock] is the present minute
  entitled,    \* the entitlement in the settings: coverage and overnight
  call,        \* call[c]: the call of a schedule or of the operator under way
  messages     \* queued jobs with a message in the ingestion-low queue

storeVars == <<job, ledger, deadLetters>>
refreshVars == <<job, ledger, deadLetters, clock, entitled, call, messages>>

-----------------------------------------------------------------------------
(* The exchange calendar: MarketCalendar *)

Day == 1440
DayOf(t) == t \div Day
TimeOf(t) == t % Day
Now == Times[clock]

Sessions == {"PRE_MARKET", "REGULAR", "AFTER_HOURS", "OVERNIGHT"}

SessionAt(t) ==
  IF DayOf(t) \notin TradingDays THEN "CLOSED"
  ELSE CASE TimeOf(t) \in 240..569                               -> "PRE_MARKET"
         [] TimeOf(t) >= 570 /\ TimeOf(t) < ClosesAt[DayOf(t)]   -> "REGULAR"
         [] TimeOf(t) >= ClosesAt[DayOf(t)] /\ TimeOf(t) < 1200  -> "AFTER_HOURS"
         [] OTHER                                                -> "OVERNIGHT"

\* The operator's refresh cuts at 16:00.
CutoffTime == 960

\* latest_completed_market_cutoff with that cutoff.
LatestCutoff(t) == Max({d * Day + CutoffTime : d \in TradingDays} \cap 0..t)

-----------------------------------------------------------------------------
(* The policy: what may be asked of the provider *)

SessionAvailable(session) == session # "OVERNIGHT" \/ entitled.overnight

\* route_market_data: what is asked for is granted, replaced by IEX, or denied.
Routed(purpose, coverage, session) ==
  IF SessionAvailable(session) /\ coverage \in entitled.coverage THEN coverage
  ELSE IF purpose = "REALTIME_CONTEXT" THEN "DENIED"
  ELSE IF SessionAvailable(session) /\ "IEX" \in entitled.coverage THEN "IEX"
  ELSE None

\* The schedules ask for the best feed of the settings.
BestCoverage == IF "SIP" \in entitled.coverage THEN "SIP" ELSE "IEX"

\* What the request hash covers and the settings do not fix.
Window(timeframe, from, to, purpose, session, coverage) ==
  [timeframe |-> timeframe, from |-> from, to |-> to, purpose |-> purpose,
   session |-> session, coverage |-> coverage]

\* schedule_alpaca_watchlist_jobs: the minute that ends now.
MinuteWindow(t) ==
  Window("1Min", t - 1, t, "REALTIME_CONTEXT", SessionAt(t), BestCoverage)

DailyCutoff(t) == IF TimeOf(t) < DailyAt THEN (DayOf(t) - 1) * Day + DailyAt
                  ELSE DayOf(t) * Day + DailyAt

\* schedule_alpaca_daily_jobs
DailyWindow(t) ==
  Window("1Day", DailyCutoff(t) - Day, DailyCutoff(t), "RESEARCH", "REGULAR", BestCoverage)

\* The completed minute, or the last completed trading day when there is none.
MinuteIsOpen(t) ==
  SessionAt(t - 1) # "CLOSED" /\ SessionAvailable(SessionAt(t - 1))

\* request_watchlist_market_data_refresh, always of IEX.
RefreshWindow(t) ==
  IF MinuteIsOpen(t)
  THEN Window("1Min", t - 1, t, "REALTIME_CONTEXT", SessionAt(t - 1), "IEX")
  ELSE Window("1Day", LatestCutoff(t) - Day, LatestCutoff(t), "REALTIME_CONTEXT", "REGULAR", "IEX")

\* What the instance may ask for.
Instants == {Times[i] : i \in 1..Len(Times)}
Coverages == {"IEX", "SIP", None}
Windows ==
  {Window("1Min", t - 1, t, "REALTIME_CONTEXT", session, coverage) :
     t \in Instants, session \in Sessions, coverage \in Coverages}
  \cup {Window("1Day", t - Day, t, "RESEARCH", "REGULAR", coverage) :
          t \in {u \in Instants : TimeOf(u) = DailyAt}, coverage \in Coverages}
  \cup {Window("1Day", LatestCutoff(t) - Day, LatestCutoff(t), "REALTIME_CONTEXT", "REGULAR",
               coverage) : t \in Instants, coverage \in Coverages}

ASSUME RefreshAssumption ==
  /\ Jobs \subseteq Nat /\ Symbols \subseteq Nat /\ TradingDays \subseteq Nat
  /\ Times \in Seq(Nat) /\ Len(Times) > 0
  /\ \A i, j \in 1..Len(Times) : i < j => Times[i] < Times[j]
  /\ \E d \in TradingDays : d * Day + CutoffTime <= Times[1]
  /\ \A d \in TradingDays : ClosesAt[d] \in 570..1200
  /\ Offers \subseteq [coverage : SUBSET {"IEX", "SIP"}, overnight : BOOLEAN]
  /\ Monitored \subseteq Symbols /\ Researched \subseteq Symbols
  /\ MaxSymbols \in Nat /\ DailyAt \in 0..Day - 1
  /\ [symbol : Symbols, window : Windows] \subseteq Requests

-----------------------------------------------------------------------------
(* Admission *)

Call == [task : {None, "minute", "daily", "refresh"},
         at : {"idle", "asking", "checking", "publishing"},
         time : Nat,                 \* the caller's `now`, cut to the minute
         todo : SUBSET Symbols,      \* the symbols still to be admitted
         created : SUBSET Jobs,      \* the jobs it created and may publish
         next : Jobs \cup {None}]    \* the one it found queued

NoCall == [task |-> None, at |-> "idle", time |-> 0, todo |-> {}, created |-> {}, next |-> None]

\* The schedules and the dispatcher share the one process of the control queue.
Callers == {"control", "api"}

Begins(c, task, symbols) ==
  /\ call[c] = NoCall
  /\ clock < Len(Times)
  /\ symbols # {}
  /\ call' = [call EXCEPT ![c] = [NoCall EXCEPT !.task = task, !.at = "asking", !.time = Now,
                                              !.todo = symbols]]
  /\ UNCHANGED <<storeVars, clock, entitled, messages>>

\* schedule_alpaca_watchlist_jobs, every minute.
AsksMinute == /\ SessionAt(Now) # "CLOSED"
              /\ entitled.coverage # {}
              /\ Begins("control", "minute", Monitored)

\* schedule_alpaca_daily_jobs, on weekdays; the news jobs it asks the same way are left out.
AsksDaily == /\ TimeOf(Now) = DailyAt
             /\ entitled.coverage # {}
             /\ Begins("control", "daily", Researched)

\* refresh_watchlist_market_data: without IEX, or with too many symbols, nothing is asked.
AsksRefresh == /\ "IEX" \in entitled.coverage
               /\ Cardinality(Monitored) <= MaxSymbols
               /\ Begins("api", "refresh", Monitored)

WindowOf(task, t) == CASE task = "minute" -> MinuteWindow(t)
                       [] task = "daily" -> DailyWindow(t)
                       [] task = "refresh" -> RefreshWindow(t)

\* The feed that is asked for, or None with the gap it leaves.
Asked(s, window, coverage) == [symbol |-> s, window |-> [window EXCEPT !.coverage = coverage]]

\* The call goes on; a schedule returns, the operator's request turns to publishing.
Onward(c, todo, created) ==
  CASE todo # {}                                  -> [c EXCEPT !.todo = todo, !.created = created]
    [] todo = {} /\ created # {}                   -> [NoCall EXCEPT !.task = c.task, !.at = "checking",
                                                                   !.created = created]
    [] OTHER                                       -> NoCall

\* Rows are numbered as they are inserted.
InsertionOrder == \A i, j \in Jobs : i < j /\ job[j].state # "ABSENT" => job[i].state # "ABSENT"

\* schedule_alpaca_backfills for the next symbol; enqueue commits by itself.
Admits(c) ==
  LET s == Min(call[c].todo)
      window == WindowOf(call[c].task, call[c].time)
      coverage == Routed(window.purpose, window.coverage, window.session)
      r == Asked(s, window, coverage)
      Goes(created) ==
        call' = [call EXCEPT ![c] =
                   Onward(@, @.todo \ {s}, IF c = "api" THEN @.created \cup created ELSE {})]
  IN /\ call[c].at = "asking"
     /\ \/ /\ coverage = "DENIED" \/ Existing(r) # {}
           /\ Goes({})
           /\ UNCHANGED storeVars
        \/ /\ coverage # "DENIED"
           /\ EnqueueWithResult(r)
           /\ InsertionOrder'
           /\ Goes({j \in Jobs : job[j].state = "ABSENT" /\ job'[j].state = "QUEUED"})
     /\ UNCHANGED <<clock, entitled, messages>>

-----------------------------------------------------------------------------
(* Publication *)

Rest(c, j) == Onward(call[c], {}, call[c].created \ {j})

\* _ingestion_job_is_queued: the dispatcher may have been first.
Checks(c) ==
  /\ call[c].at = "checking"
  /\ \E j \in call[c].created :
       call' = [call EXCEPT ![c] = IF job[j].state = "QUEUED"
                                    THEN [@ EXCEPT !.at = "publishing", !.next = j]
                                    ELSE Rest(c, j)]
  /\ UNCHANGED <<storeVars, clock, entitled, messages>>

Publishes(c) ==
  /\ call[c].at = "publishing"
  /\ messages' = messages \cup {call[c].next}
  /\ call' = [call EXCEPT ![c] = Rest(c, call[c].next)]
  /\ UNCHANGED <<storeVars, clock, entitled>>

\* An error ends the call with 503, or the process is lost; what was admitted
\* and published before stays.
Breaks(c) ==
  /\ call[c].at # "idle"
  /\ call' = [call EXCEPT ![c] = NoCall]
  /\ UNCHANGED <<storeVars, clock, entitled, messages>>

\* Seeded fault: what the API admits is left to the API to publish.
DispatchesRetries(j) ==
  /\ call["control"] = NoCall
  /\ job[j].state = "QUEUED" /\ job[j].attempts > 0
  /\ messages' = messages \cup {j}
  /\ UNCHANGED <<storeVars, clock, entitled, call>>

\* dispatch_queued_alpaca_jobs, one message at a time: it may fail after any.
Dispatches(j) ==
  /\ call["control"] = NoCall
  /\ job[j].state = "QUEUED"
  /\ messages' = messages \cup {j}
  /\ UNCHANGED <<storeVars, clock, entitled, call>>

\* A delivered message is claimed, or it is late and nothing happens.
Receives(j) ==
  /\ j \in messages
  /\ Claim(j, 0)
  /\ messages' = messages \ {j}
  /\ UNCHANGED <<clock, entitled, call>>

Drops(j) == /\ j \in messages
            /\ messages' = messages \ {j}
            /\ UNCHANGED <<storeVars, clock, entitled, call>>

-----------------------------------------------------------------------------
(* The worker's result and the reader *)

\* The bar of a window: a day's bar is stamped with its midnight.
BarOf(j) ==
  LET w == job[j].request.window
  IN [symbol |-> job[j].request.symbol, coverage |-> w.coverage, timeframe |-> w.timeframe,
      at |-> IF w.timeframe = "1Day" THEN DayOf(w.to) * Day ELSE w.from]

\* The rows of market_bar that jobs left; a job that failed may have left its own, too.
\* The provider has bars of trading days only.
bars == {b \in {BarOf(j) : j \in {i \in Jobs : job[i].state = "SUCCEEDED"
                                                /\ job[i].request.window.coverage # None}} :
           DayOf(b.at) \in TradingDays}

SessionOf(b) == IF b.timeframe = "1Day" THEN "REGULAR" ELSE SessionAt(b.at)

\* Seeded fault: the day's bar comes before every minute of its day.
DailyFirst(b) == IF b.timeframe = "1Day" THEN 1 ELSE 0

\* The CASE of latest_watchlist_bars_as_of.
Kind(b) == IF SessionOf(b) = "AFTER_HOURS" THEN 2 ELSE IF b.timeframe = "1Day" THEN 1 ELSE 0

\* Its ORDER BY: the New York date, the kind, the time.
Before(b, c) ==
  \/ DayOf(b.at) < DayOf(c.at)
  \/ DayOf(b.at) = DayOf(c.at) /\ Kind(b) < Kind(c)
  \/ DayOf(b.at) = DayOf(c.at) /\ Kind(b) = Kind(c) /\ b.at < c.at

\* Its WHERE, with the coverage of the settings.
Readable(s) == {b \in bars : b.symbol = s /\ b.coverage = BestCoverage}

\* The quote of a symbol that has one.
Latest(s) == CHOOSE b \in Readable(s) : \A c \in Readable(s) : ~ Before(b, c)

-----------------------------------------------------------------------------
OthersUseStore ==
  /\ \/ \E j \in Jobs : Cancel(j)
     \/ \E j \in Jobs, lag \in Lags : \E g \in 1..job[j].generation : UseLease(j, g, lag)
     \/ \E lag \in Lags : RequeueDue(lag)
     \/ \E S \in SUBSET Jobs, lag \in Lags : RecoverExpired(S, lag)
  /\ messages' = messages \cap {j \in Jobs : job'[j].state = "QUEUED"}
  /\ UNCHANGED <<clock, entitled, call>>

TimePasses == /\ Tick
              /\ clock' = Min({clock + 1, Len(Times)})
              /\ UNCHANGED <<entitled, call, messages>>

RefreshInit ==
  /\ Init
  /\ clock = 1
  /\ entitled \in Offers
  /\ call = [c \in Callers |-> NoCall]
  /\ messages = {}

Calls(c) == Admits(c) \/ Checks(c) \/ Publishes(c)

RefreshNext ==
  \/ AsksMinute \/ AsksDaily \/ AsksRefresh
  \/ \E c \in Callers : Calls(c) \/ Breaks(c)
  \/ \E j \in Jobs : Dispatches(j) \/ Receives(j) \/ Drops(j)
  \/ OthersUseStore
  \/ TimePasses

RefreshSpec == RefreshInit /\ [][RefreshNext]_refreshVars

\* Beat dispatches every 15 s, once the control queue's one process is free; a
\* call goes on or breaks; the broker does not lose every message of a job.
FairRefreshSpec ==
  /\ RefreshSpec
  /\ WF_refreshVars(TimePasses)
  /\ WF_refreshVars(\E c \in Callers : Calls(c) \/ Breaks(c))
  /\ \A j \in Jobs : WF_refreshVars(Dispatches(j))
  /\ \A j \in Jobs : SF_refreshVars(Receives(j))
-----------------------------------------------------------------------------
(* Properties *)

Overlap(v, w) == v.from < w.to /\ w.from < v.to

\* The beat, its late repetitions and any number of refreshes ask the provider
\* for the same bar of a feed once at a time; a minute that ends a session is
\* the exception, for the beat names it after the session that begins.
AskedOnce ==
  \A i, j \in Jobs :
    LET v == job[i].request.window
        w == job[j].request.window
    IN Active(i) /\ Active(j) /\ i # j
       /\ job[i].request.symbol = job[j].request.symbol
       /\ v.timeframe = w.timeframe /\ v.purpose = w.purpose /\ v.coverage = w.coverage
       /\ Overlap(v, w)
       => v.to = w.to /\ v.session # w.session

Ends(b) == IF b.timeframe = "1Day" THEN b.at + ClosesAt[DayOf(b.at)] ELSE b.at + 1

\* progress.md: no daily bar hides a newer after-hours minute and no minute a
\* completed day: the quote shown is the newest known, but that an overnight
\* minute waits for midnight.
NewestIsShown ==
  \A s \in Symbols : \A b \in Readable(s) :
    \/ Ends(b) <= Ends(Latest(s))
    \/ SessionOf(b) = "OVERNIGHT" /\ DayOf(b.at) = DayOf(Latest(s).at)

\* A job that was admitted is taken up or cancelled, though the request that
\* admitted it broke off, or was answered 503, before it published it.
AdmittedStarts == \A j \in Jobs : job[j].state = "QUEUED" ~> job[j].state # "QUEUED"
=============================================================================
