SPECIFICATION FairSpec
CONSTANTS
  PageSectors = 2
  MaxSegs = 2
  ShortBits = 4
  Regions <- SmallRegions
  PageCounts = {4, 5}
INVARIANTS TransfersExact ErrorSeen
PROPERTY RequestEnds
\* One request.
CHECK_DEADLOCK FALSE
