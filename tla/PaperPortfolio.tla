--------------------------- MODULE PaperPortfolio ---------------------------
(***************************************************************************)
(* The singleton paper portfolio: workers/portfolio_tasks.py with its      *)
(* graph (agents/portfolio), execution simulator, ledger and store         *)
(* (application/portfolio), and the API that initializes it.               *)
(*                                                                         *)
(* A run reads fills and ledger as of its decision time and bars as of now, *)
(* computes orders and fills in a graph whose input is checkpointed outside *)
(* of the transaction, and writes all in one commit with its completion.    *)
(* Fills are dated when their bar became available, which is after the      *)
(* decision.  Who may start and end an attempt is module AgentRuns; here an *)
(* attempt is started, lost or failed at any time.                          *)
(*                                                                          *)
(* Every symbol has research.  Shares and money are whole; one currency.    *)
(* spread_bps and slippage_bps are the one constant Spread, and the volume  *)
(* of a bar is the part volume_participation lets an order take.  Dates are *)
(* Times; data_cutoff is the decision time.  Of the journal's legs, a       *)
(* ledger entry keeps the cash one.                                         *)
(***************************************************************************)
EXTENDS RiskGateway, Functions

CONSTANTS
  Runs,         \* agent_run ids of type PORTFOLIO
  Symbols,      \* the watched symbols, in their sorted order
  Research,     \* the frozen research the runs may find: opinions by run and symbol
  Bars,         \* the revisions of market bars that ever arrive
  OpeningCash,  \* paper_portfolio_config.initial_cash
  Spread,       \* what a fill pays over or gets under the bar's open
  FeePerShare,
  MinimumFee,
  DayLength,    \* Times in a UTC day
  MaxTime,      \* bounds the clock
  MaxAttempts,  \* agent_run.max_attempts
  Nothing       \* nothing read, no checkpoint

Listed == Range(Symbols)
Times == 0..MaxTime
Opinions == {"BULLISH", "BEARISH", "NEUTRAL", "ABSTAIN"}

ASSUME PortfolioAssumption ==
  /\ Symbols \in Seq(Range(Symbols)) /\ IsInjective(Symbols)
  /\ IsFiniteSet(Bars)
  /\ Research \subseteq [Runs -> [Listed -> Opinions]]
  /\ Bars \subseteq [symbol : Listed, event : Times, at : Times, open : Nat, volume : Nat]
  /\ \A b \in Bars : b.event <= b.at /\ b.open > Spread
  /\ {OpeningCash, DayLength, MaxAttempts} \subseteq Nat \ {0}
  /\ {Spread, FeePerShare, MinimumFee, MaxTime} \subseteq Nat

VARIABLES
  now,         \* the clock
  run,         \* run[r]: the agent_run row
  view,        \* view[r]: what the present attempt of r has read
  checkpoint,  \* checkpoint[r]: the graph's input as saved under thread_id r
  ledger,      \* table cash_ledger
  orders,      \* tables order_intent and paper_order
  fills,       \* table paper_fill
  navs,        \* table portfolio_nav
  disordered   \* history: the runs that committed out of order, without having
               \* seen all that was posted or after a run of a later decision

books == <<ledger, orders, fills, navs>>
portfolioVars == <<now, run, view, checkpoint, books, disordered>>

-----------------------------------------------------------------------------
Statuses == {"ABSENT", "QUEUED", "RUNNING", "COMPLETED", "FAILED"}

RunRow == [status : Statuses, attempt : 0..MaxAttempts, decision : Times,
           denied : BOOLEAN, research : [Listed -> Opinions]]

Fill == [run : Runs, symbol : Listed, side : {"BUY", "SELL"}, quantity : Nat \ {0},
         price : Nat, event : Times, at : Times]

\* fill: <<>> for an opening balance, else the fill's idempotency key.
Entry == [fill : {<<>>} \cup (Runs \X Listed \X Times), at : Times, cash : Int]

Order == [run : Runs, symbol : Listed, side : {"BUY", "SELL"}, quantity : Nat \ {0},
          status : {"PENDING", "PARTIALLY_FILLED", "FILLED"}]

Input == [seen : Times, fills : SUBSET Fill, ledger : SUBSET Entry]

View == [stage : {"FILLS", "LEDGER", "GRAPH"},
         seen : Times, fills : SUBSET Fill, ledger : SUBSET Entry]

ASSUME NothingAssumption == Nothing \notin Input \cup View

-----------------------------------------------------------------------------
\* Bars and prices.

\* The last revision of a bar; of two that became available at the same time, the
\* same one each time.
Latest(revisions) == CHOOSE b \in revisions : \A c \in revisions : c.at <= b.at

\* load_paper_execution_bars at t: the last revision of every bar visible by then.
Observed ==
  [t \in Times |->
     {Latest({c \in Bars : c.symbol = b.symbol /\ c.event = b.event /\ c.at <= t}) :
        b \in {c \in Bars : c.at <= t}}]

\* Of those, the bars that are a price of s at t.
Marks ==
  [seen \in Times |-> [s \in Listed |-> [t \in Times |->
     {b \in Observed[seen] : b.symbol = s /\ b.event <= t /\ b.at <= t}]]]

\* visible_bar_prices
Price(in, s, t) ==
  (CHOOSE b \in Marks[in.seen][s][t] : \A c \in Marks[in.seen][s][t] : c.event <= b.event).open

\* Cash, positions and NAV, rebuilt from entries and fills.
CashOf(entries) == SumFunction([e \in entries |-> e.cash])

Position(fs, s) ==
  SumFunction([f \in {g \in fs : g.symbol = s} |->
                 IF f.side = "BUY" THEN f.quantity ELSE -f.quantity])

Held(fs) == {s \in Listed : Position(fs, s) # 0}

\* What the position in s is worth at the prices of t.
Worth(in, s, t) ==
  IF s \in Held(in.fills) THEN Position(in.fills, s) * Price(in, s, t) ELSE 0

Gross(in, t) == SumFunction([s \in Listed |-> Worth(in, s, t)])

NavOf(in, t) == CashOf(in.ledger) + Gross(in, t)

Turnover(in, t) ==
  SumFunction([f \in {g \in in.fills : g.at \div DayLength = t \div DayLength} |->
                 f.quantity * f.price])

-----------------------------------------------------------------------------
\* The graph: proposals, orders, fills.

\* PortfolioDecisionGraph.run refuses a NAV it cannot compute.
Valued(in, t) ==
  /\ \A s \in Held(in.fills) : Marks[in.seen][s][t] # {}
  /\ NavOf(in, t) > 0

\* PortfolioRiskSnapshot refuses negative cash and negative weights.
Sound(in, t) ==
  /\ CashOf(in.ledger) \in 0..NavOf(in, t)
  /\ \A s \in Listed : Worth(in, s, t) >= 0

\* ABSTAIN also stands for the refusals that only concern the research: stale,
\* incomplete evidence, earnings near.  They lead to no order either.
Proposal(in, opinion, s, t) ==
  [current |-> Worth(in, s, t),
   target |-> CASE opinion = "BULLISH" -> NavOf(in, t) \div 2
                [] opinion = "BEARISH" -> 0
                [] OTHER -> Worth(in, s, t),
   blocked |-> opinion = "ABSTAIN" \/ Marks[in.seen][s][t] = {}]

\* What run r decides on: as of its date, with the research it found.
Decision(r) == [run |-> r, at |-> run[r].decision, research |-> run[r].research]

Proposals(in, d) ==
  [i \in DOMAIN Symbols |-> Proposal(in, d.research[Symbols[i]], Symbols[i], d.at)]

\* Seeded fault: what was already turned over that day is not counted.
FreshTurnover(in, t) ==
  [cash |-> CashOf(in.ledger), gross |-> Gross(in, t),
   turnover |-> Share(MaxTurnover, NavOf(in, t))]

\* What the gateway starts from: the books as of t.
Snapshot(in, t) ==
  [cash |-> CashOf(in.ledger), gross |-> Gross(in, t),
   turnover |-> Positive(Share(MaxTurnover, NavOf(in, t)) - Turnover(in, t))]

\* The positions the gateway approves, by index of symbol.
Approved(in, d) == Evaluate(Proposals(in, d), Snapshot(in, d.at), NavOf(in, d.at))

\* create_pending_orders: shares for the difference, at the decision's price.
Intents(in, d) ==
  LET approved == Approved(in, d)
      Delta(i) == approved[i] - Worth(in, Symbols[i], d.at)
      Shares(i) == Distance(Delta(i), 0) \div Price(in, Symbols[i], d.at)
  IN {[run |-> d.run, symbol |-> Symbols[i], quantity |-> Shares(i),
       side |-> IF Delta(i) > 0 THEN "BUY" ELSE "SELL"] :
        i \in {j \in DOMAIN Symbols : Delta(j) # 0 /\ Shares(j) > 0}}

Fee(quantity) == Max({MinimumFee, FeePerShare * quantity})

FillAt(order, b, quantity) ==
  [run |-> order.run, symbol |-> order.symbol, side |-> order.side, quantity |-> quantity,
   price |-> IF order.side = "BUY" THEN b.open + Spread ELSE b.open - Spread,
   event |-> b.event, at |-> b.at]

\* The bars that may fill an order for s decided at t.
Eligible(in, s, t) == {b \in Observed[in.seen] : b.symbol = s /\ b.event > t}

\* What those before an event give.
Taken(eligible, event) ==
  SumFunction([b \in {c \in eligible : c.event < event} |-> b.volume])

\* PaperExecutionSimulator.execute: the bars after the decision fill the order
\* in their order, each up to its volume, until nothing remains.
Execute(in, order, t) ==
  LET eligible == Eligible(in, order.symbol, t)
      Quantity(b) == Min({b.volume, Positive(order.quantity - Taken(eligible, b.event))})
  IN {FillAt(order, b, Quantity(b)) : b \in {c \in eligible : Quantity(c) > 0}}

NewFills(in, d) == UNION {Execute(in, o, d.at) : o \in Intents(in, d)}

-----------------------------------------------------------------------------
\* The ledger.

Funding(t) == [fill |-> <<>>, at |-> t, cash |-> OpeningCash]

EntryOf(f) ==
  [fill |-> <<f.run, f.symbol, f.event>>, at |-> f.at,
   cash |-> IF f.side = "BUY" THEN -(f.quantity * f.price) - Fee(f.quantity)
                              ELSE f.quantity * f.price - Fee(f.quantity)]

\* The order apply_fill posts the fills of a run in.
PostedBy(f, g) ==
  LET rank(x) == CHOOSE i \in DOMAIN Symbols : Symbols[i] = x.symbol
  IN rank(f) < rank(g) \/ (f.symbol = g.symbol /\ f.event <= g.event)

\* apply_fill accepts every fill: none makes cash negative, none sells for less
\* than its fee.
Payable(in, new) ==
  \A g \in new :
    /\ CashOf(in.ledger \cup {EntryOf(f) : f \in {h \in new : PostedBy(h, g)}}) >= 0
    /\ g.side = "SELL" => EntryOf(g).cash > 0

\* Seeded fault: the NAV is dated as of the decision.
NavTimeOfDecision(new, t) == t

\* When the NAV of a run is struck: with its last fill.
NavTime(new, t) == Max({t} \cup {f.at : f \in new})

NavRow(r, in, t) ==
  [run |-> r, at |-> t, cash |-> CashOf(in.ledger),
   held |-> [s \in Listed |-> Position(in.fills, s)]]

Filled(o, new) == SumFunction([f \in {g \in new : g.symbol = o.symbol} |-> f.quantity])

OrderRow(o, new) ==
  [run |-> o.run, symbol |-> o.symbol, side |-> o.side, quantity |-> o.quantity,
   status |-> CASE Filled(o, new) = o.quantity -> "FILLED"
                [] Filled(o, new) \in 1..(o.quantity - 1) -> "PARTIALLY_FILLED"
                [] OTHER -> "PENDING"]

-----------------------------------------------------------------------------
PortfolioInit ==
  /\ now = 0
  /\ \E found \in Research :
       run = [r \in Runs |-> [status |-> "ABSENT", attempt |-> 0, decision |-> 0,
                              denied |-> FALSE, research |-> found[r]]]
  /\ view = [r \in Runs |-> Nothing]
  /\ checkpoint = [r \in Runs |-> Nothing]
  /\ ledger = {} /\ orders = {} /\ fills = {} /\ navs = {}
  /\ disordered = {}

Tick ==
  /\ now < MaxTime
  /\ now' = now + 1
  /\ UNCHANGED <<run, view, checkpoint, books, disordered>>

\* initialize_portfolio, as of the date its caller gives: under its own advisory
\* lock, unless there is an opening balance already.
Initialize(t) ==
  /\ \A e \in ledger : e.fill # <<>>
  /\ ledger' = ledger \cup {Funding(t)}
  /\ navs' = navs \cup {NavRow(Nothing, [fills |-> {}, ledger |-> {Funding(t)}], t)}
  /\ UNCHANGED <<now, run, view, checkpoint, orders, fills, disordered>>

\* create_portfolio_run, with any decision time, and schedule_portfolio_decision,
\* which may record that its market data is not entitled.
Admit(r, t, denied) ==
  /\ run[r].status = "ABSENT"
  /\ run' = [run EXCEPT ![r].status = "QUEUED", ![r].decision = t, ![r].denied = denied]
  /\ UNCHANGED <<now, view, checkpoint, books, disordered>>

\* load_fills: by the date of the fill, whenever it was written.
LoadFills(t) == {f \in fills : f.at <= t}

\* An attempt begins: bars as of now, fills as of the decision.
Start(r) ==
  /\ run[r].status = "QUEUED"
  /\ run[r].attempt < MaxAttempts
  /\ run' = [run EXCEPT ![r].status = "RUNNING", ![r].attempt = @ + 1]
  /\ view' = [view EXCEPT ![r] =
                [stage |-> "FILLS", seen |-> now, ledger |-> {},
                 fills |-> LoadFills(run[r].decision)]]
  /\ UNCHANGED <<now, checkpoint, books, disordered>>

\* The next statement reads the ledger as of the decision, with what has been
\* committed by then; an empty one begins with the opening balance.
LoadLedger(r) ==
  /\ view[r] # Nothing /\ view[r].stage = "FILLS"
  /\ LET seen == {e \in ledger : e.at <= run[r].decision}
     IN view' = [view EXCEPT ![r].stage = "LEDGER",
                             ![r].ledger = IF seen = {} THEN {Funding(run[r].decision)}
                                                        ELSE seen]
  /\ UNCHANGED <<now, run, checkpoint, books, disordered>>

\* An attempt is over: its transaction is committed or rolled back.
Ends(r, status) ==
  /\ run' = [run EXCEPT ![r].status = status]
  /\ view' = [view EXCEPT ![r] = Nothing]

Input0(r) == [seen |-> view[r].seen, fills |-> view[r].fills, ledger |-> view[r].ledger]

\* Run r commits with `in` as what it knew of the books.
Completes(r, in) ==
  /\ Ends(r, "COMPLETED")
  /\ disordered' =
       IF /\ ledger \subseteq in.ledger /\ fills \subseteq in.fills
          /\ \A q \in Runs : run[q].status = "COMPLETED" => run[q].decision <= run[r].decision
         THEN disordered ELSE disordered \cup {r}

\* A run without entitlement only records the cash: no position can be valued.
Deny(r) ==
  /\ view[r] # Nothing /\ view[r].stage = "LEDGER"
  /\ run[r].denied
  /\ view[r].fills = {}
  /\ ledger' = ledger \cup view[r].ledger
  /\ navs' = navs \cup {NavRow(r, Input0(r), run[r].decision)}
  /\ Completes(r, Input0(r))
  /\ UNCHANGED <<now, checkpoint, orders, fills>>

\* graph.run: a checkpoint of an earlier attempt takes the place of what this
\* one has read.
Invoke(r) ==
  /\ view[r] # Nothing /\ view[r].stage = "LEDGER"
  /\ ~run[r].denied
  /\ IF Valued(Input0(r), run[r].decision)
       THEN /\ checkpoint' = [checkpoint EXCEPT ![r] = IF @ = Nothing THEN Input0(r) ELSE @]
            /\ view' = [view EXCEPT ![r].stage = "GRAPH"]
            /\ UNCHANGED run
       ELSE /\ Ends(r, "FAILED")
            /\ UNCHANGED checkpoint
  /\ UNCHANGED <<now, books, disordered>>

\* The graph raises: an unsound snapshot, a fill that cannot be paid, a position
\* without a mark.
Raises(in, d) ==
  \/ ~Sound(in, d.at)
  \/ LET new == NewFills(in, d)
     IN \/ ~Payable(in, new)
        \/ \E s \in Held(in.fills \cup new) : Marks[in.seen][s][NavTime(new, d.at)] = {}

GraphFails(r) ==
  /\ view[r] # Nothing /\ view[r].stage = "GRAPH"
  /\ Raises(checkpoint[r], Decision(r))
  /\ Ends(r, "FAILED")
  /\ UNCHANGED <<now, checkpoint, books, disordered>>

\* The books as run r leaves them, once its new fills are posted.
Posted(in, new) ==
  [in EXCEPT !.fills = @ \cup new, !.ledger = @ \cup {EntryOf(f) : f \in new}]

\* The graph's result is written and the run completed, in one transaction.
CommitRun(r) ==
  /\ view[r] # Nothing /\ view[r].stage = "GRAPH"
  /\ ~Raises(checkpoint[r], Decision(r))
  /\ \E in \in {checkpoint[r]} : \E new \in {NewFills(in, Decision(r))} :
       LET posted == Posted(in, new)
       IN /\ ledger' = ledger \cup posted.ledger
          /\ navs' = navs \cup {NavRow(r, posted, NavTime(new, run[r].decision))}
          /\ orders' = orders \cup {OrderRow(o, new) : o \in Intents(in, Decision(r))}
          /\ fills' = fills \cup new
          /\ Completes(r, in)
  /\ UNCHANGED <<now, checkpoint>>

\* The attempt is lost with its worker, or fails in a way that is retried, such as
\* a missing input or a position a denied run cannot value.
Lose(r) ==
  /\ run[r].status = "RUNNING"
  /\ Ends(r, IF run[r].attempt < MaxAttempts THEN "QUEUED" ELSE "FAILED")
  /\ UNCHANGED <<now, checkpoint, books, disordered>>

\* requeue_failed_run, by an operator.
Requeue(r) ==
  /\ run[r].status = "FAILED"
  /\ run[r].attempt < MaxAttempts
  /\ Ends(r, "QUEUED")
  /\ UNCHANGED <<now, checkpoint, books, disordered>>

PortfolioNext ==
  \/ Tick
  \/ \E t \in Times : Initialize(t)
  \/ \E r \in Runs :
       \/ \E t \in Times, denied \in BOOLEAN : Admit(r, t, denied)
       \/ Start(r) \/ LoadLedger(r) \/ Deny(r) \/ Invoke(r)
       \/ GraphFails(r) \/ CommitRun(r) \/ Lose(r) \/ Requeue(r)

PortfolioSpec == PortfolioInit /\ [][PortfolioNext]_portfolioVars

-----------------------------------------------------------------------------
\* Every table and every read keeps its type.
PortfolioTypeOK ==
  /\ now \in Times
  /\ run \in [Runs -> RunRow]
  /\ view \in [Runs -> View \cup {Nothing}]
  /\ checkpoint \in [Runs -> Input \cup {Nothing}]
  /\ \A r \in Runs : view[r] # Nothing <=> run[r].status = "RUNNING"
  /\ ledger \subseteq Entry /\ orders \subseteq Order /\ fills \subseteq Fill
  /\ navs \subseteq [run : Runs \cup {Nothing}, at : Times, cash : Int, held : [Listed -> Int]]
  /\ disordered \subseteq Runs

\* The books agree with each other, whatever runs overlap: a fill and its ledger
\* entry appear together, and the fills of an order add up to its status and never
\* to more than the risk decision authorized.
BooksAgree ==
  /\ {EntryOf(f) : f \in fills} = {e \in ledger : e.fill # <<>>}
  /\ \A f \in fills : \E o \in orders : o.run = f.run /\ o.symbol = f.symbol /\ o.side = f.side
  /\ \A o \in orders :
       LET filled == Filled(o, {f \in fills : f.run = o.run})
       IN /\ filled <= o.quantity
          /\ o.status = "FILLED" <=> filled = o.quantity
          /\ o.status = "PENDING" <=> filled = 0

\* As long as the runs commit in the order of their decisions, each having seen
\* all that was posted before, the account is that of a cash-only, long-only
\* portfolio with one opening balance, whatever happens to prices, volumes and
\* attempts in between.
AccountSound ==
  disordered = {} => /\ CashOf(ledger) >= 0
                     /\ \A s \in Listed : Position(fills, s) >= 0
                     /\ Cardinality({e \in ledger : e.fill = <<>>}) <= 1

\* Then, too, the NAV of a run can be rebuilt from the books as of its date for
\* ever after: nothing is posted behind it.
NavReproducible ==
  disordered = {} => \A n \in navs :
    /\ n.cash = CashOf({e \in ledger : e.at <= n.at})
    /\ \A s \in Listed : n.held[s] = Position({f \in fills : f.at <= n.at}, s)

\* The books can be relied on, whatever runs overlap, are lost, resume or execute late.
BooksSound == PortfolioTypeOK /\ BooksAgree /\ AccountSound /\ NavReproducible

\* The orders of a run, taken together and at the prices it decided at, keep the
\* policy's limits: the cash reserve and the gross exposure if one of them buys,
\* the limit of each position that grows, and the turnover of the day unless a
\* position above its limit has to be cut.  Shares are whole here, so a position the
\* gateway reduces may keep less than a share more than it was approved for.
LimitsKept ==
  \A r \in {q \in Runs : run[q].status = "COMPLETED" /\ ~run[q].denied} :
    LET in == checkpoint[r]
        t == run[r].decision
        nav == NavOf(in, t)
        Mine(side) == {o \in orders : o.run = r /\ o.side = side}
        Value(o) == o.quantity * Price(in, o.symbol, t)
        bought == SumFunction([o \in Mine("BUY") |-> Value(o)])
        sold == SumFunction([o \in Mine("SELL") |-> Value(o)])
        kept == SumFunction([s \in {h \in Held(in.fills) : \A o \in Mine("BUY") : o.symbol # h}
                               |-> Price(in, s, t) - 1])
    IN /\ bought > 0 =>
            /\ CashOf(in.ledger) - bought + sold + kept >= Share(MinReserve, nav)
            /\ Gross(in, t) + bought - sold - kept <= Share(MaxGross, nav)
       /\ \A o \in Mine("BUY") : Worth(in, o.symbol, t) + Value(o) <= Share(MaxPosition, nav)
       /\ (\A o \in Mine("SELL") : run[r].research[o.symbol] = "BEARISH")
            => bought + sold <= Positive(Share(MaxTurnover, nav) - Turnover(in, t))
=============================================================================
