\* Two threads, three calls, two contents: enough for a thread that stores late,
\* a circuit that opens, half opens and opens again, and a 304.
SPECIFICATION FairSpec
CONSTANTS
  Callers = {c1, c2}
  Documents = 2
  MaxAttempts = 2
  MaxConcurrency = 1
  FailureThreshold = 1
  RecoveryTimeout = 2
  ResetTimeout = 1
  MaxTime = 2
  MaxCalls = 3
  None = None
INVARIANTS
  AnswersReplay
  OutageIsCheap
PROPERTIES
  EveryCallEnds
CHECK_DEADLOCK FALSE
