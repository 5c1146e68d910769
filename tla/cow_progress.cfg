CONSTANTS
  NULL = NULL
  Junk = Junk
  ChunkCount = 2
  Writers = {w1}
  Data = {d1}
  chunk_maximum_in_cache = 0
  ImageOps = {FALSE}
  Faults = {"nowait", "signal", "untracked"}
SPECIFICATION FairSpec
CHECK_DEADLOCK FALSE
INVARIANT Structure
PROPERTIES WritesComplete ImageCompletes
