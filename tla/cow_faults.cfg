CONSTANTS
  NULL = NULL
  Junk = Junk
  ChunkCount = 1
  Writers = {w1, w2}
  Data = {d1, d2}
  chunk_maximum_in_cache = 0
  ImageOps = {FALSE, TRUE}
  Faults = {"nowait", "alloc", "io", "nospace", "grown"}
SPECIFICATION Spec
SYMMETRY Symmetry
INVARIANTS LockDiscipline CacheExclusive CountersExact FailureRecorded CopiesAgree CopiedBeforeOverwritten
PROPERTY ImplementsImage
