--------------------------- MODULE MCPaperPortfolio ---------------------------
(* Small instances of PaperPortfolio for TLC. *)
EXTENDS PaperPortfolio, TLC

CONSTANTS a, b, nvda, amd

TwoSymbols == <<amd, nvda>>

\* Run a buys both symbols, run b may sell what there is of amd.
Views == {(a :> [s \in Listed |-> "BULLISH"]
           @@ b :> [s \in Listed |-> IF s = amd THEN "BEARISH" ELSE "BULLISH"])}

\* amd trades at 2, then thinly at 3; its bar of date 1 is corrected at date 2 to a
\* price of 7.  nvda trades at 2; its bar of date 1 is late and thin.
TwoFeeds ==
  {[symbol |-> amd, event |-> 0, at |-> 0, open |-> 2, volume |-> 9],
   [symbol |-> amd, event |-> 1, at |-> 1, open |-> 3, volume |-> 1],
   [symbol |-> amd, event |-> 1, at |-> 2, open |-> 7, volume |-> 1],
   [symbol |-> amd, event |-> 2, at |-> 2, open |-> 3, volume |-> 1],
   [symbol |-> nvda, event |-> 0, at |-> 0, open |-> 2, volume |-> 9],
   [symbol |-> nvda, event |-> 1, at |-> 2, open |-> 2, volume |-> 1],
   [symbol |-> nvda, event |-> 2, at |-> 2, open |-> 2, volume |-> 9]}

=============================================================================
