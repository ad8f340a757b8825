\* Two symbols after the close and in the night that follows.
SPECIFICATION FairRefreshSpec
CONSTANTS
  Jobs = {1, 2}
  Requests <- AnyRequest
  MaxAttempts <- AttemptsBySymbol
  LeaseFor = 1
  MaxLag = 0
  MaxBackoff = 1
  None = None
  Symbols = {1, 2}
  Times <- AfterTheClose
  TradingDays = {0, 1}
  ClosesAt <- SixteenHundred
  DailyAt = 1020
  Offers <- Feeds
  MaxSymbols = 2
  Monitored = {1, 2}
  Researched = {1}
CHECK_DEADLOCK FALSE
INVARIANTS
  StoreSound
  AskedOnce
  NewestIsShown
PROPERTIES
  
  LifecycleSpec
  AdmittedStarts
