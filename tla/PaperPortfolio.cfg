\* Two runs, two symbols, two attempts each.
SPECIFICATION PortfolioSpec
CONSTANTS
  WeightUnit = 8
  MaxPosition = 4
  MaxGross = 7
  MinReserve = 1
  MaxTurnover = 6
  a = a
  b = b
  Runs = {a, b}
  nvda = nvda
  amd = amd
  Symbols <- TwoSymbols
  Research <- Views
  Bars <- TwoFeeds
  OpeningCash = 16
  Spread = 0
  FeePerShare = 0
  MinimumFee = 1
  DayLength = 2
  MaxTime = 2
  MaxAttempts = 2
  Nothing = Nothing
INVARIANTS
  BooksSound
  LimitsKept
CHECK_DEADLOCK FALSE
