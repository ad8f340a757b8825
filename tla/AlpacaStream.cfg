SPECIFICATION AlpacaFairSpec
CONSTANTS
  MaxTime = 4
  Minute = 2
  Recovery = 2
  Chunk = 2
  Junk <- MCJunk
  Closed <- MCClosed
  Limit = 1
  MaxBacklog = 2
  MaxQueued = 2
  MaxFailures = 1
  NoEvent = NoEvent
INVARIANTS
  StreamSound
  
PROPERTIES
  RestartsPersistArchive
