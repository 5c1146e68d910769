CONSTANTS
  NULL = NULL
  Junk = Junk
  ChunkCount = 2
  Writers = {w1, w2}
  Data = {d1}
  chunk_maximum_in_cache = 0
  ImageOps = {}
  Faults = {"alloc", "io", "nospace"}
SPECIFICATION FairSpec
PROPERTIES WritesComplete
