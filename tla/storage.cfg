SPECIFICATION FairSpec
CONSTANTS
  a1 = a1
  a2 = a2
  Allocators = {a1, a2}
  ChunkSectors <- TwoSizes
  Portion = 4
  HalfFull = 2
  Ranges = {3}
  MaxRegions = 4
  Faults = TRUE
INVARIANTS RegionsApart CountersExact FlagIsAnswered
PROPERTIES FlagCleared EventsArrive
\* No chunk is stored any more after MaxRegions, or after an overflow.
CHECK_DEADLOCK FALSE
