\* A run of two attempts, requested or scheduled, the replacement it may get, and
\* the page that follows the first through breaks and reconnections.
SPECIFICATION FairStreamSpec
CONSTANTS
  Keys = {k1}
  CatchUpKeys = {k1}
  Runs = {1, 2}
  Watched = {1}
  MaxAttempts <- OneRetry
  MaxActive = 1
  LeaseFor = 1
  MaxLag = 0
  MaxNotes <- OneNote
  None = None
  BatchSize = 2
INVARIANTS
  RunsSound
  PageTellsStory
PROPERTIES
  LifecycleSpec
  EventuallySettled
  PageSeesTheEnd
