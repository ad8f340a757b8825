---------------------------- MODULE MCResearchRun ----------------------------
(* Small instances of ResearchRun for TLC. *)
EXTENDS ResearchRun

MCCutoff == [r \in Runs |-> IF r = "r1" THEN 2 ELSE 3]

MCAdmissions == [r \in Runs |-> IF r = "r1" THEN {"gap"} ELSE {"full", "none"}]

MCPins == {<<"research_scoring_policy", "v1", "">>}

MCFeeds == {"price_bars", "target_consensus"}

MCMaxAge == [f \in MCFeeds |-> 1]

Record(feed, provider, page, event, available, value) ==
  [feed |-> feed, provider |-> provider, page |-> page, event |-> event,
   available |-> available, value |-> value]

\* A page of two bars, and the targets of two providers.
MCRecords ==
  {Record("price_bars", "ALPACA", "p1", 1, 2, 10),
   Record("price_bars", "ALPACA", "p1", 2, 2, 11),
   Record("target_consensus", "X", "p3", 1, 1, 50),
   Record("target_consensus", "Y", "p4", 1, 3, 60)}

\* A page of two bars, the second of them revised by a later page.
RevisedBars ==
  {Record("price_bars", "ALPACA", "p1", 1, 2, 10),
   Record("price_bars", "ALPACA", "p1", 2, 2, 11),
   Record("price_bars", "ALPACA", "p2", 2, 3, 12)}
=============================================================================
