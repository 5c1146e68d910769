---------------------------- MODULE ChunkIoProofs ----------------------------
(***************************************************************************)
(* The notifications of asynchronous I/O preserve the structural invariant *)
(* of DiffArea.                                                            *)
(***************************************************************************)
EXTENDS ChunkIo, DiffAreaStepProofs

LEMMA DeviceLoad_Structure ==
  ASSUME NEW c \in Chunk, Structure, DeviceLoad(c) PROVE Structure'
<1>p. TypeOK /\ ChunkTypes /\ CacheTypes /\ CacheExclusive /\ FlagsConsistent(c)
  BY AtChunk, Zenon
<1>g. diff_io[c] = "load"
  BY Zenon DEF DeviceLoad
<1>u. UNCHANGED <<cache_release_work, corrupt_flag, is_corrupted, cacheVars,
                  unsent, workerVars, writerVars, imageVars, orig>>
  BY Zenon DEF DeviceLoad
<1>n. pending_io_count' \in Int
  BY <1>p, Zenon DEF DeviceLoad, CacheTypes
<1>e. /\ diff_io' = [diff_io EXCEPT ![c] = "loaded"]
      /\ diff_buffer' = [diff_buffer EXCEPT ![c] = orig[c]]
      /\ UNCHANGED <<lock, state, diff_region>>
  BY Zenon DEF DeviceLoad
<1>o. ChunkTypes' /\ OnlyChunk(c)
  BY <1>p, <1>e, <1>u, Zenon DEF ChunkTypes, OnlyChunk, SameChunk
<1>c. /\ diff_io'[c] = "loaded" /\ state'[c] = state[c]
      /\ lock'[c] = lock[c] /\ diff_region'[c] = diff_region[c]
      /\ diff_buffer'[c] = orig[c] /\ orig[c] \in Data
  BY <1>p, <1>e, Zenon DEF ChunkTypes
<1>h. HeldByIo(c) /\ HeldByIo(c)'
  BY <1>g, <1>c, Zenon DEF HeldByIo
<1>1. FlagsConsistent(c)' /\ "FAILED" \notin state'[c]
  BY <1>p, <1>g, <1>c, DataAssumption, Zenon DEF FlagsConsistent
<1>2. KeepsSaved(c)
  BY <1>c, <1>h, Zenon DEF KeepsSaved, IsSaved, chunk_state_check
<1>3. lock[c] = 0
  BY <1>h, IoHolds, Zenon
<1> QED
  BY <1>c, <1>h, <1>n, <1>o, <1>u, <1>1, <1>2, <1>3, IoChunkStep, Zenon

LEMMA chunk_notify_load_Structure ==
  ASSUME NEW c \in Chunk, Structure, chunk_notify_load(c) PROVE Structure'
<1>p. TypeOK /\ ChunkTypes /\ CacheTypes /\ CacheExclusive /\ FlagsConsistent(c)
  BY AtChunk, Zenon
<1>g. /\ diff_io[c] = "loaded" /\ state[c] = {"LOADING"}
      /\ diff_buffer[c] \in Data
  BY <1>p, Zenon DEF chunk_notify_load, FlagsConsistent
<1>h. HeldByIo(c) /\ lock[c] = 0
  BY <1>g, IoHolds, Zenon DEF HeldByIo
<1>u. UNCHANGED <<cache_release_work, corrupt_flag, is_corrupted, cacheVars,
                  unsent, workerVars, writerVars, imageVars, orig>>
  BY Zenon DEF chunk_notify_load
<1>n. pending_io_count' \in Int
  BY <1>p, Zenon DEF chunk_notify_load, CacheTypes
<1>1. /\ Loaded(c) = {"BUFFER_READY"} /\ ~IsSaved(c)
      /\ Loaded(c) \in SUBSET ChunkSt
  BY <1>g, Zenon DEF Loaded, IsSaved, chunk_state_check, Saved, ChunkSt
<1>2. chunk_schedule_storing(c, Loaded(c))
  BY Zenon DEF chunk_notify_load
<1>s. /\ ChunkTypes' /\ OnlyChunk(c) /\ FlagsConsistent(c)' /\ KeepsSaved(c)
      /\ lock'[c] = lock[c] /\ diff_io'[c] = "store"
      /\ "FAILED" \notin state'[c]
  BY <1>p, <1>g, <1>u, <1>1, <1>2, StoreStarted, Zenon
<1>3. HeldByIo(c)'
  BY <1>s, Zenon DEF HeldByIo
<1> QED
  BY <1>h, <1>n, <1>s, <1>u, <1>3, IoChunkStep, Zenon

LEMMA NotifyLoadFails_Structure ==
  ASSUME NEW c \in Chunk, Structure, NotifyLoadFails(c) PROVE Structure'
<1>p. TypeOK /\ ChunkTypes /\ CacheTypes /\ CacheExclusive /\ FlagsConsistent(c)
  BY AtChunk, Zenon
<1>g. diff_io[c] = "loaded" /\ diff_buffer[c] # NULL /\ state[c] = {"LOADING"}
  BY <1>p, DataAssumption, Zenon DEF NotifyLoadFails, FlagsConsistent
<1>h. HeldByIo(c) /\ lock[c] = 0
  BY <1>g, IoHolds, Zenon DEF HeldByIo
<1>u. UNCHANGED <<cache_release_work, corrupt_flag, is_corrupted, cacheVars,
                  unsent, workerVars, writerVars, imageVars, orig>>
  BY Zenon DEF NotifyLoadFails
<1>n. pending_io_count' \in Int
  BY <1>p, Zenon DEF NotifyLoadFails, CacheTypes
<1>1. PICK s \in {Loaded(c), Loaded(c) \cup {"STORING"}} :
        chunk_store_failed(c, s)
  BY Zenon DEF NotifyLoadFails, chunk_schedule_storing_fails
<1>2. s \in SUBSET ChunkSt /\ diff_buffer[c] # NULL
  BY <1>g, Zenon DEF Loaded, ChunkSt
<1>3. diff_io' = [diff_io EXCEPT ![c] = "failed"]
  BY Zenon DEF NotifyLoadFails
<1>4. /\ diff_io' \in [Chunk -> {"none", "load", "loaded", "store", "failed"}]
      /\ diff_io'[c] = "failed"
      /\ \A x \in Chunk : x # c => diff_io'[x] = diff_io[x]
  BY <1>p, <1>3, Zenon DEF ChunkTypes
<1>s. /\ ChunkTypes' /\ OnlyChunk(c) /\ FlagsConsistent(c)' /\ KeepsSaved(c)
      /\ lock'[c] = 1 /\ "FAILED" \in state'[c]
  BY <1>p, <1>h, <1>u, <1>1, <1>2, <1>4, GivenUp, Zenon
<1>5. ~HeldByIo(c)'
  BY <1>4, Zenon DEF HeldByIo
<1> QED
  BY <1>h, <1>n, <1>s, <1>u, <1>4, <1>5, IoChunkStep

LEMMA chunk_notify_store_Structure ==
  ASSUME NEW c \in Chunk, Structure, chunk_notify_store(c) PROVE Structure'
<1>p. TypeOK /\ ChunkTypes /\ CacheTypes /\ CacheExclusive /\ FlagsConsistent(c)
  BY AtChunk, Zenon
<1>g. /\ diff_io[c] = "store" /\ "DIRTY" \notin state[c]
      /\ {"STORING", "BUFFER_READY"} \subseteq state[c]
      /\ state[c] \cap {"FAILED", "LOADING"} = {}
      /\ diff_buffer[c] \in Data
  BY <1>p, Zenon DEF chunk_notify_store, StoreEnds, FlagsConsistent,
     chunk_state_check
<1>h. HeldByIo(c) /\ lock[c] = 0
  BY <1>g, IoHolds, Zenon DEF HeldByIo
<1>r. Stored(c) \in SUBSET ChunkSt
  BY <1>p, Zenon DEF ChunkTypes, Stored, ChunkSt
<1>e. /\ diff_io' = [diff_io EXCEPT ![c] = "none"]
      /\ diff_region' = [diff_region EXCEPT ![c] = diff_buffer[c]]
      /\ state' = [state EXCEPT ![c] = Stored(c)]
      /\ lock' = [lock EXCEPT ![c] = @ + 1]
      /\ UNCHANGED <<diff_buffer, orig>>
  BY Zenon DEF chunk_notify_store, StoreEnds, chunk_schedule_caching, up
<1>u. UNCHANGED <<corrupt_flag, is_corrupted, unsent, workerVars, writerVars,
                  imageVars>>
  BY Zenon DEF chunk_notify_store
<1>v. UNCHANGED <<cpc, cchunk, pc, bio, cur, ipc, ibio, icur>>
  BY <1>u, Zenon DEF workerVars, writerVars, imageVars
<1>q. /\ chunk_schedule_caching(c, Stored(c))
      /\ pending_io_count' = pending_io_count - 1
  BY Zenon DEF chunk_notify_store, StoreEnds
<1>c. /\ diff_io'[c] = "none" /\ lock'[c] = 1
      /\ state'[c] = (state[c] \ {"STORING"}) \cup {"STORE_READY"}
      /\ state'[c] = Stored(c)
      /\ diff_region'[c] = diff_buffer[c] /\ diff_buffer'[c] = diff_buffer[c]
  BY <1>p, <1>e, <1>h DEF ChunkTypes, Stored
<1>o. OnlyChunk(c) /\ ChunkTypes'
  BY <1>p, <1>e, <1>h, <1>r DEF ChunkTypes, OnlyChunk, SameChunk
<1>1. FlagsConsistent(c)' /\ "FAILED" \notin state'[c]
  BY <1>g, <1>c, DataAssumption, Zenon DEF FlagsConsistent
<1>2. KeepsSaved(c) /\ ~HeldByIo(c)'
  BY <1>g, <1>c, Zenon DEF KeepsSaved, IsSaved, HeldByIo, chunk_state_check,
     Saved
<1>t. TypeOK'
  <2>1. cache_release_work' \in BOOLEAN
    BY <1>q, Zenon DEF chunk_schedule_caching, StartWorkIfFull
  <2>2. FlagsOK'
    BY <1>p, <1>u, <2>1, Zenon DEF TypeOK, FlagsOK
  <2>3. CacheTypes'
    BY <1>p, <1>u, <1>q DEF CacheTypes, chunk_schedule_caching, workerVars
  <2> QED
    BY <1>p, <1>o, <1>u, <2>2, <2>3, IoTypes, Zenon
<1>q1. read_cache_queue' \cup write_cache_queue'
         \subseteq read_cache_queue \cup write_cache_queue \cup {c}
  BY <1>q, Zenon DEF chunk_schedule_caching
<1>x. CacheExclusive'
  <2>1. c \notin read_cache_queue \cup write_cache_queue
    BY <1>h, IoNotCached, Zenon
  <2>2. /\ \A x : HeldByCacheWorker(x)' <=> HeldByCacheWorker(x)
        /\ \A x : ImageUses(x)' <=> ImageUses(x)
    BY <1>v, Zenon DEF HeldByCacheWorker, ImageUses
  <2>3. ~HeldByCacheWorker(c) /\ ~ImageUses(c)
    BY <1>h, IoHolds, Zenon DEF ImageUses, HeldByImage
  <2>4. chunk_schedule_caching(c, state'[c]) /\ "BUFFER_READY" \in state'[c]
    BY <1>g, <1>c, <1>q, Zenon
  <2> QED
    BY <1>p, <1>o, <1>2, <2>1, <2>2, <2>3, <2>4, CacheEnter, Zenon
<1> QED
  BY <1>c, <1>h, <1>o, <1>q1, <1>t, <1>u, <1>v, <1>x, <1>1, <1>2, IoStep

LEMMA NotifyStoreDirty_Structure ==
  ASSUME NEW c \in Chunk, Structure, NotifyStoreDirty(c) PROVE Structure'
<1>p. TypeOK /\ ChunkTypes /\ CacheTypes /\ CacheExclusive /\ FlagsConsistent(c)
  BY AtChunk, Zenon
<1>g. /\ diff_io[c] = "store" /\ "DIRTY" \in state[c]
      /\ {"STORING", "BUFFER_READY"} \subseteq state[c]
      /\ state[c] \cap {"FAILED", "LOADING"} = {}
      /\ diff_buffer[c] \in Data
  BY <1>p, Zenon DEF NotifyStoreDirty, StoreEnds, FlagsConsistent,
     chunk_state_check
<1>h. HeldByIo(c) /\ lock[c] = 0
  BY <1>g, IoHolds, Zenon DEF HeldByIo
<1>u. UNCHANGED <<cache_release_work, corrupt_flag, is_corrupted, cacheVars,
                  unsent, workerVars, writerVars, imageVars, orig>>
  BY Zenon DEF NotifyStoreDirty
<1>n. pending_io_count' \in Int
  BY <1>p DEF NotifyStoreDirty, CacheTypes, StoreEnds
<1>e. /\ diff_io' = [diff_io EXCEPT ![c] = "none"]
      /\ diff_region' = [diff_region EXCEPT ![c] = diff_buffer[c]]
      /\ diff_buffer' = [diff_buffer EXCEPT ![c] = NULL]
      /\ lock' = [lock EXCEPT ![c] = @ + 1]
  BY Zenon DEF NotifyStoreDirty, StoreEnds, up
<1>r. PICK r \in SUBSET ChunkSt :
        /\ state' = [state EXCEPT ![c] = r]
        /\ r = (state[c] \ {"STORING", "DIRTY", "BUFFER_READY"})
                 \cup {"STORE_READY"}
  <2>1. state' = [state EXCEPT
          ![c] = (((state[c] \ {"STORING"}) \cup {"STORE_READY"}) \ {"DIRTY"})
                   \ {"BUFFER_READY"}]
    BY <1>g, DataAssumption, Zenon
       DEF NotifyStoreDirty, chunk_diff_buffer_release, Stored
  <2>2. state[c] \in SUBSET ChunkSt
    BY <1>p, Zenon DEF ChunkTypes
  <2> QED
    BY <2>1, <2>2, Zenon DEF ChunkSt
<1>c. /\ diff_io'[c] = "none" /\ lock'[c] = 1
      /\ state'[c] = (state[c] \ {"STORING", "DIRTY", "BUFFER_READY"})
                       \cup {"STORE_READY"}
      /\ diff_region'[c] = diff_buffer[c] /\ diff_buffer'[c] = NULL
  BY <1>p, <1>e, <1>h, <1>r DEF ChunkTypes
<1>o. OnlyChunk(c) /\ ChunkTypes'
  BY <1>p, <1>e, <1>h, <1>r, <1>u DEF ChunkTypes, OnlyChunk, SameChunk
<1>1. FlagsConsistent(c)' /\ "FAILED" \notin state'[c]
  BY <1>g, <1>c, DataAssumption, Zenon DEF FlagsConsistent
<1>2. KeepsSaved(c) /\ ~HeldByIo(c)'
  BY <1>g, <1>c, Zenon DEF KeepsSaved, IsSaved, HeldByIo, chunk_state_check,
     Saved
<1> QED
  BY <1>c, <1>h, <1>n, <1>o, <1>u, <1>1, <1>2, IoChunkStep

LEMMA chunk_notify_error_Structure ==
  ASSUME NEW c \in Chunk, Structure, chunk_notify_error(c) PROVE Structure'
<1>p. TypeOK /\ ChunkTypes /\ CacheTypes /\ CacheExclusive /\ FlagsConsistent(c)
  BY AtChunk, Zenon
<1>g. diff_io[c] \in {"load", "store"}
  BY Zenon DEF chunk_notify_error
<1>h. HeldByIo(c) /\ lock[c] = 0
  BY <1>g, IoHolds, Zenon DEF HeldByIo
<1>u. UNCHANGED <<cache_release_work, corrupt_flag, is_corrupted, cacheVars,
                  unsent, workerVars, writerVars, imageVars, orig>>
  BY Zenon DEF chunk_notify_error
<1>n. pending_io_count' \in Int
  BY <1>p, Zenon DEF chunk_notify_error, CacheTypes
<1>1. chunk_store_failed(c, state[c])
  BY Zenon DEF chunk_notify_error
<1>2. /\ state[c] \in SUBSET ChunkSt
      /\ "BUFFER_READY" \in state[c] => diff_buffer[c] # NULL
  BY <1>p, DataAssumption, Zenon DEF FlagsConsistent, ChunkTypes
<1>3. diff_io' = [diff_io EXCEPT ![c] = "failed"]
  BY Zenon DEF chunk_notify_error
<1>4. /\ diff_io' \in [Chunk -> {"none", "load", "loaded", "store", "failed"}]
      /\ diff_io'[c] = "failed"
      /\ \A x \in Chunk : x # c => diff_io'[x] = diff_io[x]
  BY <1>p, <1>3, Zenon DEF ChunkTypes
<1>s. /\ ChunkTypes' /\ OnlyChunk(c) /\ FlagsConsistent(c)' /\ KeepsSaved(c)
      /\ lock'[c] = 1 /\ "FAILED" \in state'[c]
  BY <1>p, <1>h, <1>u, <1>1, <1>2, <1>4, GivenUp, Zenon
<1>5. ~HeldByIo(c)'
  BY <1>4, Zenon DEF HeldByIo
<1> QED
  BY <1>h, <1>n, <1>s, <1>u, <1>4, <1>5, IoChunkStep

LEMMA NotifyFailed_Structure ==
  ASSUME NEW c \in Chunk, Structure, NotifyFailed(c) PROVE Structure'
<1>p. TypeOK /\ FlagsOK /\ ChunkTypes /\ CacheTypes /\ CacheExclusive /\ FlagsConsistent(c)
  BY AtChunk, Zenon DEF TypeOK
<1>i. LockDiscipline /\ DeadBranches /\ CopyProgress /\ HoldersConsistent
  BY Zenon DEF Structure
<1>e. /\ diff_io' = [diff_io EXCEPT ![c] = "none"]
      /\ corrupt_flag' = TRUE
      /\ UNCHANGED <<lock, state, diff_buffer, diff_region, orig>>
      /\ diff_io[c] = "failed" /\ "FAILED" \in state[c]
  BY <1>p, Zenon DEF NotifyFailed, FlagsConsistent
<1>u. /\ UNCHANGED <<cache_release_work, is_corrupted, cacheVars, unsent,
                     workerVars, writerVars, imageVars>>
      /\ pending_io_count' = pending_io_count - 1
  BY Zenon DEF NotifyFailed
<1>v. UNCHANGED <<read_cache_queue, write_cache_queue, cpc, cchunk, pc, bio, cur,
                  ipc, ibio, icur>>
  BY <1>u, Zenon DEF cacheVars, workerVars, writerVars, imageVars
<1>o. OnlyChunk(c) /\ ChunkTypes'
  BY <1>p, <1>e, Zenon DEF ChunkTypes, OnlyChunk, SameChunk
<1>t. TypeOK'
  <2>1. FlagsOK'
    BY <1>p, <1>e, <1>u, Zenon DEF FlagsOK
  <2>2. CacheTypes'
    BY <1>p, <1>u DEF CacheTypes, cacheVars, workerVars
  <2> QED
    BY <1>p, <1>o, <1>u, <2>1, <2>2, IoTypes, Zenon
<1>c. /\ diff_io'[c] = "none" /\ state'[c] = state[c] /\ lock'[c] = lock[c]
      /\ diff_region'[c] = diff_region[c] /\ diff_buffer'[c] = diff_buffer[c]
  BY <1>p, <1>e, Zenon DEF ChunkTypes
<1>n. \A x : SameHolders(x) /\ (ImageUses(x)' <=> ImageUses(x))
  BY <1>v, Zenon DEF SameHolders, HeldByWriter, HeldByImage, HeldByCacheWorker,
              ImageUses
<1>h. ~HeldByIo(c) /\ ~HeldByIo(c)'
  BY <1>e, <1>c, Zenon DEF HeldByIo
<1>1. LockDiscipline'
  <2>1. Owned(c)
    BY <1>i, Zenon DEF LockDiscipline
  <2>2. Owned(c)'
    BY <1>c, <1>h, <1>n, <2>1, Zenon DEF Owned, SameHolders
  <2> QED
    BY <1>i, <1>n, <1>o, <2>2, LockStep, Zenon
<1>2. DeadBranches'
  <2>1. FlagsConsistent(c)'
    BY <1>p, <1>e, <1>c, Zenon DEF FlagsConsistent
  <2> QED
    BY <1>i, <1>o, <2>1, FlagsStep, Zenon
<1>3. CopyProgress'
  <2>1. KeepsSaved(c)
    BY <1>c, <1>h, Zenon DEF KeepsSaved, IsSaved, chunk_state_check
  <2> QED
    BY <1>i, <1>o, <1>v, <2>1, StableStep, ProgressFrame, Zenon
<1>4. CacheExclusive'
  <2>1. c \notin read_cache_queue \cup write_cache_queue
    BY <1>p, <1>e, Zenon DEF CacheExclusive, FlagsConsistent
  <2> QED
    BY <1>p, <1>n, <1>o, <1>v, <2>1, CacheDrop, Zenon DEF SameHolders
<1>5. HoldersConsistent' /\ FailureRecorded'
  BY <1>i, <1>e, <1>v, Zenon DEF HoldersConsistent, FailureRecorded
<1> QED
  BY <1>t, <1>1, <1>2, <1>3, <1>4, <1>5, Zenon DEF Structure

=============================================================================
