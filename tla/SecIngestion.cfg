\* Two workers over two jobs of two attempts, two filings.
SPECIFICATION SecSpec
SYMMETRY Symmetry
CHECK_DEADLOCK FALSE
CONSTANTS
  Jobs = {j1, j2}
  Requests = {fr, xr, ar}
  attempts = 2
  MaxAttempts <- AttemptsOfAll
  LeaseFor = 1
  MaxLag = 0
  MaxBackoff = 1
  Workers = {w1, w2}
  f1 = f1
  f2 = f2
  Filings = {f1, f2}
  Accepted <- AcceptedInOrder
  Page <- PagesOfFilings
  Amendment = {f2}
  Reported <- ReportedConcepts
  DerivedFrom <- Inputs
  FilingsRequest = fr
  FactsRequest = xr
  CalendarRequest = ar
  SecRefuses = TRUE
  None = None
INVARIANTS
  SecSound
  

  
