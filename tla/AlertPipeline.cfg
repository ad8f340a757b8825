SPECIFICATION AlertSpec
CONSTANTS
  Lookback = 2
  MinimumConditions = 3
  Cooldown = 2
  Feeds <- MCFeeds
  Theses = {0, 3}
  OldBars <- MCOld
  SessionOpen = 1
  PriorCloses = {0}
  Consumers = {a, b}
  Monitor = m
  Count = 2
  MaxCrashes = 1
SYMMETRY Symmetry
INVARIANTS
  PipelineSound
  AlertsAgree

  
CHECK_DEADLOCK FALSE
