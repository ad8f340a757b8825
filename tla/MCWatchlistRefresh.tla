-------------------------- MODULE MCWatchlistRefresh --------------------------
(* Small instances of WatchlistRefresh for TLC. *)
EXTENDS WatchlistRefresh

\* An hour after the close, when the day's bars are due; the night before the
\* next trading day; and an hour at which nothing is asked any more.
AfterTheClose == <<1020, 1441, 1500>>

SixteenHundred == [d \in 0..1 |-> 960]

Feeds == {[coverage |-> {"IEX"}, overnight |-> FALSE]}

AnyRequest == [symbol : Symbols, window : Windows]

\* Symbol 1 may be tried twice, symbol 2 once.
AttemptsBySymbol == [r \in AnyRequest |-> 3 - r.symbol]
=============================================================================
