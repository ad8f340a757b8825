\* Two candidates that may build on each other, on lessons that weekly reviews
\* file and replay, and a human decides, meanwhile.
SPECIFICATION ReviewSpec
CONSTANTS
  Candidates = {c1, c2}
  Versions = {"v1", "v2", "v3"}
  Bootstrap = "v1"
  Lessons = {"THESIS_ERROR"}
  Drafts <- MCDrafts
  MaxDenials = 1
  None = None
  Decisions = {"d1", "d2"}
  Made <- MCMade
  Opinion <- MCOpinion
  Prices <- MCPrices
  Horizons = {1, 2}
  Today = 3
  Cutoffs = {1, 2, 3}
  MaxVerdicts = 2
  Reviews = {1, 2}
SYMMETRY Symmetry
INVARIANTS
  PromotionSound
  
  OnlySeededLessonsBack
PROPERTIES
  StackSpec
CHECK_DEADLOCK FALSE
