\* Two workers over one job of two pages and three attempts.
SPECIFICATION FairWorkerSpec
CONSTANTS
  Jobs = {j1}
  Requests = {r1}
  attempts = 3
  MaxAttempts <- AttemptsOfAll
  LeaseFor = 2
  MaxLag = 1
  MaxBackoff = 1
  Workers = {w1, w2}
  Pages <- TwoPages
  None = None
INVARIANTS
  ProgressIsCommitted
PROPERTIES
  
  JobsEnd
