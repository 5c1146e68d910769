-------------------------- MODULE CacheWorkerProofs --------------------------
(***************************************************************************)
(* The cache worker preserves the structural invariant of DiffArea.        *)
(***************************************************************************)
EXTENDS ChunkIo, DiffAreaStepProofs

(* The worker without a chunk in its hands.                                *)
LEMMA WorkerStep ==
  ASSUME Structure, FlagsOK', cpc # "release", cpc' \in {"idle", "run"},
         UNCHANGED <<chunkVars, cacheVars, pending_io_count, unsent, cchunk,
                     writerVars, imageVars, orig>>,
         corrupt_flag \/ AboutToFlag => corrupt_flag' \/ AboutToFlag'
  PROVE  Structure'
<1>i. /\ LockDiscipline /\ DeadBranches /\ CopyProgress /\ HoldersConsistent
      /\ FailureRecorded /\ CacheExclusive /\ TypeOK /\ ChunkTypes /\ CacheTypes
  BY Zenon DEF Structure, TypeOK
<1>t. TypeOK'
  <2>1. ChunkTypes' /\ CacheTypes'
    BY <1>i, Zenon DEF ChunkTypes, CacheTypes, chunkVars, cacheVars
  <2> QED
    BY <1>i, <2>1, IoTypes, Zenon
<1>v. UNCHANGED <<lock, state, diff_io, diff_buffer, diff_region,
                  read_cache_queue, write_cache_queue,
                  pc, bio, cur, ipc, ibio, icur>>
  BY Zenon DEF chunkVars, cacheVars, writerVars, imageVars
<1>n. \A x : SameHolders(x) /\ (ImageUses(x)' => ImageUses(x))
  BY <1>v, Zenon DEF SameHolders, HeldByWriter, HeldByImage, HeldByCacheWorker,
     ImageUses
<1>1. LockDiscipline'
  BY <1>i, <1>n, <1>v, LockFrame, Zenon
<1>2. DeadBranches' /\ CopyProgress'
  BY <1>i, <1>v, FlagsFrame, StableFrame, ProgressFrame, Zenon
<1>3. CacheExclusive'
  BY <1>i, <1>n, <1>v, CacheFrame, Zenon DEF SameHolders
<1>4. HoldersConsistent'
  BY <1>i, <1>v, Zenon DEF HoldersConsistent
<1>5. FailureRecorded'
  BY <1>i, <1>v, FailureFrame, Zenon
<1> QED
  BY <1>t, <1>1, <1>2, <1>3, <1>4, <1>5, Zenon DEF Structure

(* The worker gives up the chunk it holds, or starts to store it.          *)
LEMMA WorkerChunkStep ==
  ASSUME NEW c \in Chunk, Structure, cpc = "release", c = cchunk,
         cpc' \in {"run", "fail"}, cchunk' = 0, ChunkTypes', OnlyChunk(c),
         UNCHANGED <<cache_release_work, corrupt_flag, is_corrupted, cacheVars,
                     unsent, writerVars, imageVars>>,
         pending_io_count' \in Int,
         lock'[c] = 0 <=> HeldByIo(c)', FlagsConsistent(c)', KeepsSaved(c),
         "FAILED" \in state'[c] => cpc' = "fail"
  PROVE  Structure'
<1>i. /\ LockDiscipline /\ DeadBranches /\ CopyProgress /\ HoldersConsistent
      /\ FailureRecorded /\ CacheExclusive
      /\ TypeOK /\ FlagsOK /\ CacheTypes /\ ImageTypes
  BY Zenon DEF Structure, TypeOK
<1>t. TypeOK'
  <2>1. FlagsOK'
    BY <1>i, Zenon DEF FlagsOK
  <2>2. CacheTypes'
    BY <1>i, InitialTypes, Zenon DEF CacheTypes, cacheVars
  <2> QED
    BY <1>i, <2>1, <2>2, IoTypes, Zenon
<1>v. UNCHANGED <<read_cache_queue, write_cache_queue, corrupt_flag,
                  pc, bio, cur, ipc, ibio, icur>>
  BY Zenon DEF cacheVars, writerVars, imageVars
<1>h. /\ ~HeldByImage(c)
      /\ \A v \in Writers : ~HeldByWriter(v, c)
  BY WorkerHolds, Zenon
<1>n. /\ \A v \in Writers, x \in Chunk : HeldByWriter(v, x)' <=> HeldByWriter(v, x)
      /\ \A x \in Chunk : HeldByImage(x)' <=> HeldByImage(x)
      /\ \A x \in Chunk : ImageUses(x)' <=> ImageUses(x)
      /\ \A x \in Chunk : ~HeldByCacheWorker(x)'
      /\ \A x \in Chunk : x # c => ~HeldByCacheWorker(x)
  BY <1>v, Zenon DEF HeldByWriter, HeldByImage, HeldByCacheWorker, ImageUses
<1>1. Owned(c)'
  BY <1>h, <1>n, Zenon DEF Owned
<1>2. LockDiscipline'
  BY <1>i, <1>n, <1>1, LockStep, Zenon DEF SameHolders
<1>3. DeadBranches'
  BY <1>i, FlagsStep, Zenon
<1>4. CopyProgress'
  BY <1>i, <1>v, StableStep, ProgressFrame, Zenon
<1>5. ~ImageUses(c)
  BY <1>h, Zenon DEF ImageUses, HeldByImage
<1>6. /\ c \notin read_cache_queue \cup write_cache_queue
      /\ "BUFFER_READY" \in state[c]
  BY <1>i, Zenon DEF HoldersConsistent
<1>7. CacheExclusive'
  BY <1>i, <1>n, <1>6, <1>v, CacheDrop, Zenon
<1>8. HoldersConsistent'
  <2>1. ipc \in {"load", "io"} => state'[icur] = state[icur]
    BY <1>i, <1>5, Zenon DEF OnlyChunk, SameChunk, ImageUses, ImageTypes
  <2> QED
    BY <1>i, <1>v, <2>1, Zenon DEF HoldersConsistent
<1>9. diff_io[c] # "failed"
  BY <1>i, <1>6, Zenon DEF DeadBranches, FlagsConsistent
<1>10. AboutToFlag => AboutToFlag'
  BY <1>9, <1>v, Zenon DEF AboutToFlag, OnlyChunk, SameChunk
<1>11. "FAILED" \in state'[c] => AboutToFlag'
  BY Zenon DEF AboutToFlag
<1>12. FailureRecorded'
  BY <1>i, <1>v, <1>10, <1>11, FailureStep
<1> QED
  BY <1>t, <1>2, <1>3, <1>4, <1>7, <1>8, <1>12, Zenon DEF Structure

LEMMA CacheReleaseStart_Structure ==
  ASSUME Structure, CacheReleaseStart PROVE Structure'
<1>f. cache_release_work' = FALSE /\ UNCHANGED corrupt_flag
  BY Zenon DEF CacheReleaseStart
<1>g. cpc = "idle" /\ cpc' = "run"
  BY Zenon DEF CacheReleaseStart
<1>u. UNCHANGED <<chunkVars, cacheVars, pending_io_count, is_corrupted,
                  unsent, cchunk, writerVars, imageVars, orig>>
  BY Zenon DEF CacheReleaseStart
<1>1. FlagsOK'
  <2>1. FlagsOK
    BY Zenon DEF Structure, TypeOK
  <2> QED
    BY <1>f, <1>u, <2>1, Zenon DEF FlagsOK
<1>2. corrupt_flag \/ AboutToFlag => corrupt_flag' \/ AboutToFlag'
  BY <1>f, <1>g, <1>u, Zenon DEF AboutToFlag, chunkVars, writerVars
<1> QED
  BY <1>g, <1>u, <1>1, <1>2, WorkerStep, Zenon

LEMMA CacheReleaseStop_Structure ==
  ASSUME Structure, CacheReleaseStop PROVE Structure'
<1>f. UNCHANGED <<cache_release_work, corrupt_flag>>
  BY Zenon DEF CacheReleaseStop
<1>g. cpc = "run" /\ cpc' = "idle"
  BY Zenon DEF CacheReleaseStop
<1>u. UNCHANGED <<chunkVars, cacheVars, pending_io_count, is_corrupted,
                  unsent, cchunk, writerVars, imageVars, orig>>
  BY Zenon DEF CacheReleaseStop
<1>1. FlagsOK'
  <2>1. FlagsOK
    BY Zenon DEF Structure, TypeOK
  <2> QED
    BY <1>f, <1>u, <2>1, Zenon DEF FlagsOK
<1>2. corrupt_flag \/ AboutToFlag => corrupt_flag' \/ AboutToFlag'
  BY <1>f, <1>g, <1>u, Zenon DEF AboutToFlag, chunkVars, writerVars
<1> QED
  BY <1>g, <1>u, <1>1, <1>2, WorkerStep, Zenon

LEMMA CacheReleaseFailed_Structure ==
  ASSUME Structure, CacheReleaseFailed PROVE Structure'
<1>f. corrupt_flag' = TRUE /\ UNCHANGED cache_release_work
  BY Zenon DEF CacheReleaseFailed
<1>g. cpc = "fail" /\ cpc' = "run"
  BY Zenon DEF CacheReleaseFailed
<1>u. UNCHANGED <<chunkVars, cacheVars, pending_io_count, is_corrupted,
                  unsent, cchunk, writerVars, imageVars, orig>>
  BY Zenon DEF CacheReleaseFailed
<1>1. FlagsOK'
  <2>1. FlagsOK
    BY Zenon DEF Structure, TypeOK
  <2> QED
    BY <1>f, <1>u, <2>1, Zenon DEF FlagsOK
<1>2. corrupt_flag \/ AboutToFlag => corrupt_flag' \/ AboutToFlag'
  BY <1>f, <1>g, <1>u, Zenon DEF AboutToFlag, chunkVars, writerVars
<1> QED
  BY <1>g, <1>u, <1>1, <1>2, WorkerStep, Zenon

LEMMA CacheReleaseClean_Structure ==
  ASSUME Structure, CacheReleaseClean PROVE Structure'
<1>w. cpc = "release" /\ cpc' = "run" /\ cchunk' = 0
  BY Zenon DEF CacheReleaseClean
<1>k. PICK c \in Chunk : c = cchunk
  BY <1>w, WorkerHolds, Zenon
<1>a. lock[c] = 0 /\ ~HeldByIo(c)
  BY <1>k, <1>w, WorkerHolds, Zenon
<1>p. TypeOK /\ ChunkTypes /\ CacheTypes /\ CacheExclusive /\ FlagsConsistent(c)
  BY AtChunk, Zenon
<1>b. "BUFFER_READY" \in state[c]
  BY <1>k, <1>w, Zenon DEF Structure, HoldersConsistent
<1>g. /\ diff_io[c] = "none" /\ diff_buffer[c] \in Data
      /\ state[c] \cap {"FAILED", "LOADING", "STORING"} = {}
  BY <1>a, <1>b, <1>p, Zenon DEF FlagsConsistent, HeldByIo, ChunkTypes
<1>u. UNCHANGED <<cache_release_work, corrupt_flag, is_corrupted, cacheVars,
                  unsent, writerVars, imageVars, orig>>
  BY Zenon DEF CacheReleaseClean
<1>n. pending_io_count' \in Int
  BY <1>p, Zenon DEF CacheReleaseClean, CacheTypes
<1>e. /\ state' = [state EXCEPT ![c] = chunk_diff_buffer_release(c, @)]
      /\ diff_buffer' = [diff_buffer EXCEPT ![c] = NULL]
      /\ lock' = [lock EXCEPT ![c] = @ + 1]
      /\ "DIRTY" \notin state[c] /\ UNCHANGED <<diff_region, diff_io, orig>>
  BY <1>k, Zenon DEF CacheReleaseClean, up, chunk_state_check
<1>c. /\ diff_io'[c] = "none" /\ lock'[c] = 1
      /\ state'[c] = state[c] \ {"BUFFER_READY"}
      /\ diff_region'[c] = diff_region[c] /\ diff_buffer'[c] = NULL
  BY <1>a, <1>p, <1>e, <1>g, DataAssumption DEF ChunkTypes,
     chunk_diff_buffer_release
<1>o. OnlyChunk(c) /\ ChunkTypes'
  <2>1. chunk_diff_buffer_release(c, state[c]) \in SUBSET ChunkSt
    BY <1>a, <1>p, Zenon DEF ChunkTypes, chunk_diff_buffer_release
  <2> QED
    BY <1>a, <1>p, <1>e, <2>1 DEF ChunkTypes, OnlyChunk, SameChunk
<1>1. FlagsConsistent(c)' /\ "FAILED" \notin state'[c]
  BY <1>p, <1>g, <1>e, <1>c, Zenon DEF FlagsConsistent
<1>2. KeepsSaved(c) /\ ~HeldByIo(c)'
  BY <1>a, <1>c, Zenon DEF KeepsSaved, IsSaved, HeldByIo, chunk_state_check,
     Saved
<1> QED
  BY <1>c, <1>k, <1>n, <1>o, <1>u, <1>w, <1>1, <1>2, WorkerChunkStep

LEMMA CacheReleaseDirty_Structure ==
  ASSUME Structure, CacheReleaseDirty PROVE Structure'
<1>w. cpc = "release" /\ cpc' = "run" /\ cchunk' = 0
  BY Zenon DEF CacheReleaseDirty
<1>k. PICK c \in Chunk : c = cchunk
  BY <1>w, WorkerHolds, Zenon
<1>a. lock[c] = 0 /\ ~HeldByIo(c)
  BY <1>k, <1>w, WorkerHolds, Zenon
<1>p. TypeOK /\ ChunkTypes /\ CacheTypes /\ CacheExclusive /\ FlagsConsistent(c)
  BY AtChunk, Zenon
<1>b. "BUFFER_READY" \in state[c]
  BY <1>k, <1>w, Zenon DEF Structure, HoldersConsistent
<1>g. /\ diff_io[c] = "none" /\ diff_buffer[c] \in Data
      /\ state[c] \cap {"FAILED", "LOADING", "STORING"} = {}
  BY <1>a, <1>b, <1>p, Zenon DEF FlagsConsistent, HeldByIo, ChunkTypes
<1>u. UNCHANGED <<cache_release_work, corrupt_flag, is_corrupted, cacheVars,
                  unsent, writerVars, imageVars, orig>>
  BY Zenon DEF CacheReleaseDirty
<1>n. pending_io_count' \in Int
  BY <1>p DEF CacheReleaseDirty, CacheTypes
<1>e. chunk_schedule_storing(c, state[c])
  BY <1>k, Zenon DEF CacheReleaseDirty
<1>1. /\ state[c] \in SUBSET ChunkSt
      /\ "STORE_READY" \in state[c] => diff_region[c] \in Data
      /\ IsSaved(c) => state[c] \cap Saved # {}
      /\ state[c] \cap {"FAILED", "LOADING"} = {}
  BY <1>a, <1>p, <1>g, Zenon DEF ChunkTypes, FlagsConsistent, IsSaved,
     chunk_state_check
<1>s. /\ ChunkTypes' /\ OnlyChunk(c) /\ FlagsConsistent(c)' /\ KeepsSaved(c)
      /\ lock'[c] = lock[c] /\ diff_io'[c] = "store"
      /\ "FAILED" \notin state'[c]
  BY <1>a, <1>b, <1>e, <1>p, <1>g, <1>u, <1>1, StoreStarted, Zenon
<1>2. HeldByIo(c)'
  BY <1>s, Zenon DEF HeldByIo
<1> QED
  BY <1>a, <1>k, <1>n, <1>s, <1>u, <1>w, <1>2, WorkerChunkStep, Zenon

LEMMA CacheReleaseFails_Structure ==
  ASSUME Structure, CacheReleaseFails PROVE Structure'
<1>w. cpc = "release" /\ cpc' = "fail" /\ cchunk' = 0
  BY Zenon DEF CacheReleaseFails
<1>k. PICK c \in Chunk : c = cchunk
  BY <1>w, WorkerHolds, Zenon
<1>a. lock[c] = 0 /\ ~HeldByIo(c)
  BY <1>k, <1>w, WorkerHolds, Zenon
<1>p. TypeOK /\ ChunkTypes /\ CacheTypes /\ CacheExclusive /\ FlagsConsistent(c)
  BY AtChunk, Zenon
<1>b. "BUFFER_READY" \in state[c]
  BY <1>k, <1>w, Zenon DEF Structure, HoldersConsistent
<1>g. /\ diff_io[c] = "none" /\ diff_buffer[c] \in Data
      /\ state[c] \cap {"FAILED", "LOADING", "STORING"} = {}
  BY <1>a, <1>b, <1>p, Zenon DEF FlagsConsistent, HeldByIo, ChunkTypes
<1>u. UNCHANGED <<cache_release_work, corrupt_flag, is_corrupted, cacheVars,
                  unsent, writerVars, imageVars, orig>>
  BY Zenon DEF CacheReleaseFails
<1>n. pending_io_count' \in Int
  BY <1>p, Zenon DEF CacheReleaseFails, CacheTypes
<1>1. PICK s \in {state[c], state[c] \cup {"STORING"}} : chunk_store_failed(c, s)
  BY <1>k, Zenon DEF CacheReleaseFails, chunk_schedule_storing_fails
<1>2. s \in SUBSET ChunkSt /\ diff_buffer[c] # NULL
  BY <1>a, <1>p, <1>g, DataAssumption, Zenon DEF ChunkTypes, ChunkSt
<1>3. UNCHANGED diff_io
  BY Zenon DEF CacheReleaseFails
<1>s. /\ ChunkTypes' /\ OnlyChunk(c) /\ FlagsConsistent(c)' /\ KeepsSaved(c)
      /\ lock'[c] = 1 /\ "FAILED" \in state'[c]
  <2>1. diff_io \in [Chunk -> {"none", "load", "loaded", "store", "failed"}]
    BY <1>p, Zenon DEF ChunkTypes
  <2> QED
    BY <1>a, <1>p, <1>g, <1>u, <1>1, <1>2, <1>3, <2>1, GivenUp, Zenon
<1>4. ~HeldByIo(c)'
  BY <1>g, <1>3, Zenon DEF HeldByIo
<1> QED
  BY <1>k, <1>n, <1>s, <1>u, <1>w, <1>4, WorkerChunkStep

LEMMA diff_area_get_chunk_from_cache_and_write_lock_Structure ==
  ASSUME NEW c \in Chunk, Structure,
      diff_area_get_chunk_from_cache_and_write_lock(c)
  PROVE  Structure'
<1>p. TypeOK /\ FlagsOK /\ ChunkTypes /\ CacheTypes /\ CacheExclusive /\ FlagsConsistent(c)
  BY AtChunk, Zenon DEF TypeOK
<1>i. /\ LockDiscipline /\ DeadBranches /\ CopyProgress /\ HoldersConsistent
      /\ FailureRecorded /\ ImageTypes
  BY Zenon DEF Structure, TypeOK
<1>e. /\ cpc = "run" /\ cpc' = "release" /\ cchunk' = c
      /\ lock' = [lock EXCEPT ![c] = @ - 1]
      /\ UNCHANGED <<state, diff_buffer, diff_region, diff_io, orig>>
  BY Zenon DEF diff_area_get_chunk_from_cache_and_write_lock, down
<1>u. UNCHANGED <<cache_release_work, corrupt_flag, pending_io_count,
                  is_corrupted, unsent, writerVars, imageVars>>
  BY Zenon DEF diff_area_get_chunk_from_cache_and_write_lock
<1>v. UNCHANGED <<pc, bio, cur, ipc, ibio, icur>>
  BY <1>u, Zenon DEF writerVars, imageVars
<1>q. /\ lock[c] = 1 /\ c \in read_cache_queue \cup write_cache_queue
      /\ read_cache_queue' = read_cache_queue \ {c}
      /\ write_cache_queue' = write_cache_queue \ {c}
  BY <1>p, Zenon DEF diff_area_get_chunk_from_cache_and_write_lock, Releasable,
              ReleasableRead, ReleasableWrite, CacheExclusive
<1>c. lock'[c] = 0 /\ state'[c] = state[c]
  BY <1>p, <1>e, <1>q DEF ChunkTypes
<1>o. OnlyChunk(c) /\ ChunkTypes'
  BY <1>p, <1>e, <1>q DEF ChunkTypes, OnlyChunk, SameChunk
<1>t. TypeOK'
  <2>1. FlagsOK'
    BY <1>p, <1>u, Zenon DEF FlagsOK
  <2>2. read_cache_count' \in Int /\ write_cache_count' \in Int
    BY <1>p DEF diff_area_get_chunk_from_cache_and_write_lock, CacheTypes
  <2>3. CacheTypes'
    BY <1>p, <1>e, <1>q, <1>u, <2>2, Zenon DEF CacheTypes
  <2> QED
    BY <1>p, <1>o, <1>u, <2>1, <2>3, IoTypes, Zenon
<1>h. /\ ~HeldByImage(c) /\ ~HeldByCacheWorker(c) /\ ~HeldByIo(c)
      /\ \A v \in Writers : ~HeldByWriter(v, c)
  BY <1>q, NobodyHolds, Zenon
<1>n. /\ \A v \in Writers, x \in Chunk : HeldByWriter(v, x)' <=> HeldByWriter(v, x)
      /\ \A x \in Chunk : HeldByImage(x)' <=> HeldByImage(x)
      /\ \A x \in Chunk : ImageUses(x)' <=> ImageUses(x)
      /\ \A x \in Chunk : HeldByCacheWorker(x)' <=> x = c
      /\ \A x \in Chunk : ~HeldByCacheWorker(x)
      /\ \A x \in Chunk : HeldByIo(x)' <=> HeldByIo(x)
  BY <1>e, <1>v, Zenon DEF HeldByWriter, HeldByImage, HeldByCacheWorker,
     ImageUses,
                    HeldByIo
<1>1. LockDiscipline'
  <2>1. Owned(c)'
    BY <1>c, <1>h, <1>n, Zenon DEF Owned
  <2> QED
    BY <1>i, <1>n, <1>o, <2>1, LockStep, Zenon DEF SameHolders
<1>2. DeadBranches' /\ CopyProgress'
  BY <1>i, <1>e, <1>v, FlagsFrame, StableFrame, ProgressFrame, Zenon
<1>3. CacheExclusive'
  BY <1>p, <1>n, <1>o, <1>q, CacheDrop, Zenon
<1>4. HoldersConsistent'
  <2>1. "BUFFER_READY" \in state[c]
    BY <1>p, <1>q, Zenon DEF CacheExclusive
  <2> QED
    BY <1>i, <1>e, <1>q, <1>v, <2>1, Zenon DEF HoldersConsistent
<1>5. FailureRecorded'
  <2>1. AboutToFlag => AboutToFlag'
    BY <1>e, <1>v, Zenon DEF AboutToFlag
  <2> QED
    BY <1>i, <1>e, <1>u, <2>1, FailureFrame, Zenon
<1> QED
  BY <1>t, <1>1, <1>2, <1>3, <1>4, <1>5, Zenon DEF Structure

=============================================================================
