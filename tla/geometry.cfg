SPECIFICATION Spec
CONSTANTS
  SECTOR_SHIFT = 1
  PAGE_SHIFT = 2
  chunk_minimum_shift = 2
  chunk_maximum_count = 4
  tracking_block_minimum_shift = 2
  tracking_block_maximum_count = 6
  IntBits = 8
  Capacities = {1, 2, 3, 4, 7, 8, 9, 12, 13, 17, 24}
  IoMins = {2, 4, 8}
  Segments <- MCSegments
INVARIANT ImageBytesExact
PROPERTY RequestEnds
\* The request ends.
CHECK_DEADLOCK FALSE
