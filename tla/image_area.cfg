SPECIFICATION FairSpec
CONSTANTS
  Bios = {b1, b2, b3}
  Faults = TRUE
  NChunks = 2
  MaxInCache = 0
  PoolSize = 0
  Timeouts = TRUE
INVARIANTS ProcessedAreaLives FreedIsUnused
PROPERTIES BiosEnd  FreeReturns
\* The area is freed once, and an image may stay.
CHECK_DEADLOCK FALSE
