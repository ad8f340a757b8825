\* Two dispatchers over two rows: passes are stale from their second row on.
SPECIFICATION FairSpec
CONSTANTS
  Messages = {1, 2}
  Channels = {c1, c2}
  Dispatchers = {d1, d2}
  MaxFailures = 2
  None = None
INVARIANTS
  RowsSound
PROPERTIES
  DeliveryIsKept
  
CHECK_DEADLOCK FALSE
