------------------------------ MODULE ChunkIo -------------------------------
(***************************************************************************)
(* The asynchronous I/O of the chunks of a difference area (diff_io.c and  *)
(* the notifications of chunk.c) and the worker that limits its caches     *)
(* (diff_area_cache_release() of diff_area.c).                             *)
(***************************************************************************)
EXTENDS DiffAreaState

-----------------------------------------------------------------------------
(* Asynchronous I/O of a chunk: diff_io.c and the notifications of chunk.c *)

(* The original device performs the read of a chunk at some moment between *)
(* the submission of the bios and the notification.                        *)
DeviceLoad(c) ==
  /\ diff_io[c] = "load"
  /\ c \notin unsent
  /\ diff_io' = [diff_io EXCEPT ![c] = "loaded"]
  /\ diff_buffer' = [diff_buffer EXCEPT ![c] = orig[c]]
  /\ UNCHANGED <<lock, state, diff_region, cacheVars, cache_release_work,
                 corrupt_flag, pending_io_count, is_corrupted, unsent,
                 workerVars, writerVars, imageVars, orig>>

Loaded(c) == (state[c] \ {"LOADING"}) \cup {"BUFFER_READY"}

(* chunk_notify_load() after a read without an error.  The I/O that ends   *)
(* leaves pending_io_count and the one that starts enters it.              *)
chunk_notify_load(c) ==
  /\ diff_io[c] = "loaded"
  /\ chunk_schedule_storing(c, Loaded(c))
  /\ UNCHANGED <<cacheVars, cache_release_work, corrupt_flag,
                 pending_io_count, is_corrupted, unsent, workerVars,
                 writerVars, imageVars, orig>>

(* chunk_notify_load() when the store cannot be started.                   *)
NotifyLoadFails(c) ==
  /\ diff_io[c] = "loaded"
  /\ StorageError(c) \cup AllocError(FALSE) # {}
  /\ chunk_schedule_storing_fails(c, Loaded(c))
  /\ diff_io' = [diff_io EXCEPT ![c] = "failed"]
  /\ UNCHANGED <<cacheVars, cache_release_work, corrupt_flag,
                 pending_io_count, is_corrupted, unsent, workerVars,
                 writerVars, imageVars, orig>>

(* The region is used by nobody else, so the write takes effect when it is *)
(* notified.                                                               *)
Stored(c) == (state[c] \ {"STORING"}) \cup {"STORE_READY"}

(* Mutant: a chunk that was stored once is not written again.              *)
StoreEndsOnce(c) ==
  /\ diff_io[c] = "store"
  /\ c \notin unsent
  /\ diff_io' = [diff_io EXCEPT ![c] = "none"]
  /\ diff_region' = [diff_region EXCEPT
       ![c] = IF "STORE_READY" \in state[c] THEN @ ELSE diff_buffer[c]]
  /\ pending_io_count' = pending_io_count - 1

StoreEnds(c) ==
  /\ diff_io[c] = "store"
  /\ c \notin unsent
  /\ diff_io' = [diff_io EXCEPT ![c] = "none"]
  /\ diff_region' = [diff_region EXCEPT ![c] = diff_buffer[c]]
  /\ pending_io_count' = pending_io_count - 1

(* chunk_notify_store() after a write without an error: the buffer of a    *)
(* chunk that was copied before a write stays in the cache.                *)
chunk_notify_store(c) ==
  /\ StoreEnds(c)
  /\ ~chunk_state_check(c, {"DIRTY"})
  /\ state' = [state EXCEPT ![c] = Stored(c)]
  /\ chunk_schedule_caching(c, Stored(c))
  /\ UNCHANGED <<diff_buffer, corrupt_flag, is_corrupted, unsent, workerVars,
                 writerVars, imageVars, orig>>

(* chunk_notify_store() for a chunk that was overwritten in the image.     *)
NotifyStoreDirty(c) ==
  /\ StoreEnds(c)
  /\ chunk_state_check(c, {"DIRTY"})
  /\ state' = [state EXCEPT
       ![c] = chunk_diff_buffer_release(c, Stored(c) \ {"DIRTY"})]
  /\ diff_buffer' = [diff_buffer EXCEPT ![c] = NULL]
  /\ lock' = up(c)
  /\ UNCHANGED <<cacheVars, cache_release_work, corrupt_flag, is_corrupted,
                 unsent, workerVars, writerVars, imageVars, orig>>

(* chunk_notify_load() or chunk_notify_store() after an I/O error.         *)
chunk_notify_error(c) ==
  /\ "io" \in Faults
  /\ diff_io[c] \in {"load", "store"}
  /\ c \notin unsent
  /\ chunk_store_failed(c, state[c])
  /\ diff_io' = [diff_io EXCEPT ![c] = "failed"]
  /\ UNCHANGED <<cacheVars, cache_release_work, corrupt_flag,
                 pending_io_count, is_corrupted, unsent, workerVars,
                 writerVars, imageVars, orig>>

(* Mutant: a failed I/O is not taken off the counter.                      *)
NotifyFailedPending(c) ==
  /\ diff_io[c] = "failed"
  /\ corrupt_flag' = TRUE
  /\ diff_io' = [diff_io EXCEPT ![c] = "none"]
  /\ UNCHANGED <<lock, state, diff_buffer, diff_region, cacheVars,
                 cache_release_work, pending_io_count, is_corrupted, unsent,
                 workerVars, writerVars, imageVars, orig>>

(* Mutant: a failed I/O does not corrupt the difference area.              *)
NotifyFailedSilent(c) ==
  /\ diff_io[c] = "failed"
  /\ diff_io' = [diff_io EXCEPT ![c] = "none"]
  /\ pending_io_count' = pending_io_count - 1
  /\ UNCHANGED <<lock, state, diff_buffer, diff_region, cacheVars,
                 cache_release_work, corrupt_flag, is_corrupted, unsent,
                 workerVars, writerVars, imageVars, orig>>

(* The rest of a notification that failed: diff_area_set_corrupted().      *)
NotifyFailed(c) ==
  /\ diff_io[c] = "failed"
  /\ corrupt_flag' = TRUE
  /\ diff_io' = [diff_io EXCEPT ![c] = "none"]
  /\ pending_io_count' = pending_io_count - 1
  /\ UNCHANGED <<lock, state, diff_buffer, diff_region, cacheVars,
                 cache_release_work, is_corrupted, unsent, workerVars,
                 writerVars, imageVars, orig>>

-----------------------------------------------------------------------------
(* The worker that limits the caches: diff_area_cache_release().           *)

CacheReleaseStart ==
  /\ cpc = "idle"
  /\ cache_release_work
  /\ cache_release_work' = FALSE
  /\ cpc' = "run"
  /\ UNCHANGED <<chunkVars, cacheVars, corrupt_flag, pending_io_count,
                 is_corrupted, unsent, cchunk, writerVars, imageVars, orig>>

(* Chunks that get_chunk_from_cache_and_write_lock() could lock.           *)
Releasable(queue, count) ==
  IF count > chunk_maximum_in_cache THEN {c \in queue : lock[c] = 1} ELSE {}

ReleasableRead == Releasable(read_cache_queue, read_cache_count)
ReleasableWrite == Releasable(write_cache_queue, write_cache_count)

diff_area_get_chunk_from_cache_and_write_lock(c) ==
  /\ cpc = "run"
  /\ ~corrupt_flag
  /\ \/ /\ c \in ReleasableRead
        /\ read_cache_queue' = read_cache_queue \ {c}
        /\ read_cache_count' = read_cache_count - 1
        /\ UNCHANGED <<write_cache_queue, write_cache_count>>
     \/ /\ ReleasableRead = {}
        /\ c \in ReleasableWrite
        /\ write_cache_queue' = write_cache_queue \ {c}
        /\ write_cache_count' = write_cache_count - 1
        /\ UNCHANGED <<read_cache_queue, read_cache_count>>
  /\ lock' = down(c)
  /\ cpc' = "release"
  /\ cchunk' = c
  /\ UNCHANGED <<state, diff_buffer, diff_region, diff_io,
                 cache_release_work, corrupt_flag, pending_io_count,
                 is_corrupted, unsent, writerVars, imageVars, orig>>

CacheReleaseStop ==
  /\ cpc = "run"
  /\ corrupt_flag \/ ReleasableRead \cup ReleasableWrite = {}
  /\ cpc' = "idle"
  /\ UNCHANGED <<chunkVars, cacheVars, cache_release_work, corrupt_flag,
                 pending_io_count, is_corrupted, unsent, cchunk, writerVars,
                 imageVars, orig>>

(* The body of the loop, for the chunk that was taken from a cache: its    *)
(* buffer is dropped or, if the chunk is dirty, stored.                    *)
CacheReleaseClean ==
  /\ cpc = "release"
  /\ ~chunk_state_check(cchunk, {"DIRTY"})
  /\ state' = [state EXCEPT ![cchunk] = chunk_diff_buffer_release(cchunk, @)]
  /\ diff_buffer' = [diff_buffer EXCEPT ![cchunk] = NULL]
  /\ lock' = up(cchunk)
  /\ cpc' = "run" /\ cchunk' = 0
  /\ UNCHANGED <<diff_region, diff_io, cacheVars, cache_release_work,
                 corrupt_flag, pending_io_count, is_corrupted, unsent,
                 writerVars, imageVars, orig>>

CacheReleaseDirty ==
  /\ cpc = "release"
  /\ chunk_state_check(cchunk, {"DIRTY"})
  /\ chunk_schedule_storing(cchunk, state[cchunk])
  /\ pending_io_count' = pending_io_count + 1
  /\ cpc' = "run" /\ cchunk' = 0
  /\ UNCHANGED <<cacheVars, cache_release_work, corrupt_flag, is_corrupted,
                 unsent, writerVars, imageVars, orig>>

CacheReleaseFails ==
  /\ cpc = "release"
  /\ chunk_state_check(cchunk, {"DIRTY"})
  /\ StorageError(cchunk) \cup AllocError(FALSE) # {}
  /\ chunk_schedule_storing_fails(cchunk, state[cchunk])
  /\ cpc' = "fail" /\ cchunk' = 0
  /\ UNCHANGED <<diff_io, cacheVars, cache_release_work, corrupt_flag,
                 pending_io_count, is_corrupted, unsent, writerVars,
                 imageVars, orig>>

(* The rest of chunk_store_failed() in the worker.                         *)
CacheReleaseFailed ==
  /\ cpc = "fail"
  /\ cpc' = "run"
  /\ corrupt_flag' = TRUE
  /\ UNCHANGED <<chunkVars, cacheVars, cache_release_work,
                 pending_io_count, is_corrupted, unsent, cchunk, writerVars,
                 imageVars, orig>>

=============================================================================
