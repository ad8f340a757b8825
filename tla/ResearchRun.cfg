\* Two runs of one symbol with different cutoffs, over late pages of bars and
\* targets; one reflection and two attempts each.
SPECIFICATION ResearchSpec
CONSTANTS
  Runs = {"r1", "r2"}
  Cutoff <- MCCutoff
  Admissions <- MCAdmissions
  Feeds <- MCFeeds
  Records <- MCRecords
  MaxAge <- MCMaxAge
  Reflections = 1
  MaxAttempts = 2
  Pins <- MCPins
CHECK_DEADLOCK FALSE
INVARIANTS
  DecisionsHold
  SomeDecisionActive
PROPERTIES
  RunsEnd
