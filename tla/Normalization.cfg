\* A good or a malformed record, written twice, under two faults.
SPECIFICATION FairSpec
CONSTANTS
  Records = {good, bad}
  Malformed = {bad}
  Dispatchers = {d1, d2}
  Workers = {w1, w2}
  MaxAttempts = 2
  MaxRetries = 1
  MaxRows = 1
  MaxWrites = 2
  MaxFaults = 2
  None = None
CHECK_DEADLOCK FALSE
INVARIANTS
  OutboxSound
PROPERTIES
  EventuallySettled
