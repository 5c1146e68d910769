---------------------------- MODULE WriteFilter -----------------------------
(***************************************************************************)
(* The threads that write to the original device: tracker_submit_bio() of  *)
(* module/tracker.c with diff_area_copy() and diff_area_wait().            *)
(***************************************************************************)
EXTENDS DiffAreaState

-----------------------------------------------------------------------------
(* Writes to the original device: tracker_submit_bio(), diff_area_copy()   *)
(* and diff_area_wait().                                                   *)

WriteBios == {b \in Bio : /\ b.first <= b.last
                          /\ b.nowait => "nowait" \in Faults}

Goto(w, label) == pc' = [pc EXCEPT ![w] = label]

(* tracker_submit_bio() returned and the bio is completed.                 *)
Done(w) ==
  /\ Goto(w, "idle")
  /\ bio' = [bio EXCEPT ![w] = NoBio]
  /\ cur' = [cur EXCEPT ![w] = 0]

(* cbt_map_set() refuses bio b: the map is corrupted or becomes so.        *)
CbtError(b) ==
  is_corrupted \/ ("untracked" \in Faults /\ b.last = ChunkCount)

(* A write bio enters the filter while the snapshot is held.               *)
tracker_submit_bio(w, b) ==
  /\ pc[w] = "idle"
  /\ bio' = [bio EXCEPT ![w] = b]
  /\ cur' = [cur EXCEPT ![w] = b.first]
  /\ is_corrupted' = CbtError(b)
  /\ Goto(w, IF CbtError(b) \/ corrupt_flag THEN "pass" ELSE "copy_down")
  /\ UNCHANGED <<chunkVars, cacheVars, cache_release_work, corrupt_flag,
                 pending_io_count, unsent, workerVars, bio_list, imageVars,
                 orig>>

(* The filter returns with an error of diff_area_copy() or                 *)
(* diff_area_wait(): after EAGAIN the bio is completed with that error,    *)
(* after any other error it is passed on to the device.                    *)
FilterError(w, err) ==
  /\ bio_list' = [bio_list EXCEPT ![w] = {}]
  /\ IF err = "EAGAIN"
       THEN Done(w)
       ELSE Goto(w, "pass") /\ UNCHANGED <<bio, cur>>

(* diff_area_copy() gives a chunk up and returns err.                      *)
CopyFails(w, err) ==
  /\ Goto(w, IF err = "EAGAIN" THEN "fail_again" ELSE "fail")
  /\ UNCHANGED <<unsent, bio, cur, bio_list>>

(* The rest of chunk_store_failed() in diff_area_copy().                   *)
CopyFailed(w) ==
  /\ pc[w] \in {"fail", "fail_again"}
  /\ corrupt_flag' = TRUE
  /\ FilterError(w, IF pc[w] = "fail" THEN "ENOMEM" ELSE "EAGAIN")
  /\ UNCHANGED <<chunkVars, cacheVars, cache_release_work,
                 pending_io_count, is_corrupted, unsent, workerVars,
                 imageVars, orig>>

(* diff_area_copy(): there is no chunk with this number.                   *)
CopyNoChunk(w) ==
  /\ pc[w] = "copy_down"
  /\ cur[w] \notin Chunk
  /\ corrupt_flag' = TRUE
  /\ FilterError(w, "EINVAL")
  /\ UNCHANGED <<chunkVars, cacheVars, cache_release_work,
                 pending_io_count, is_corrupted, unsent, workerVars,
                 imageVars, orig>>

(* diff_area_copy() and diff_area_wait() take the semaphore of a chunk.    *)
Down(w) ==
  /\ pc[w] \in {"copy_down", "wait_down"}
  /\ cur[w] \in Chunk
  /\ lock[cur[w]] = 1
  /\ lock' = down(cur[w])
  /\ Goto(w, IF pc[w] = "copy_down" THEN "copy" ELSE "wait")
  /\ UNCHANGED <<state, diff_buffer, diff_region, diff_io, cacheVars,
                 cache_release_work, corrupt_flag, pending_io_count,
                 is_corrupted, unsent, workerVars, bio, cur, bio_list, imageVars, orig>>

(* down_trylock() fails for a bio with REQ_NOWAIT.                         *)
TrylockFails(w) ==
  /\ pc[w] \in {"copy_down", "wait_down"}
  /\ cur[w] \in Chunk
  /\ lock[cur[w]] = 0
  /\ bio[w].nowait
  /\ FilterError(w, "EAGAIN")
  /\ UNCHANGED <<chunkVars, cacheVars, cache_release_work, corrupt_flag,
                 pending_io_count, is_corrupted, unsent, workerVars,
                 imageVars, orig>>

(* Mutant: up() on the path of a wait that was interrupted.                *)
DownKilledUp(w) ==
  /\ pc[w] \in {"copy_down", "wait_down"}
  /\ cur[w] \in Chunk
  /\ lock[cur[w]] = 0
  /\ ~bio[w].nowait
  /\ "signal" \in Faults
  /\ lock' = up(cur[w])
  /\ FilterError(w, "EINTR")
  /\ UNCHANGED <<state, diff_buffer, diff_region, diff_io, cacheVars,
                 cache_release_work, corrupt_flag, pending_io_count,
                 is_corrupted, unsent, workerVars, imageVars, orig>>

(* down_killable() is interrupted by a fatal signal.                       *)
DownKilled(w) ==
  /\ pc[w] \in {"copy_down", "wait_down"}
  /\ cur[w] \in Chunk
  /\ lock[cur[w]] = 0
  /\ ~bio[w].nowait
  /\ "signal" \in Faults
  /\ FilterError(w, "EINTR")
  /\ UNCHANGED <<chunkVars, cacheVars, cache_release_work, corrupt_flag,
                 pending_io_count, is_corrupted, unsent, workerVars,
                 imageVars, orig>>

NextChunk(w, again, done) ==
  /\ cur' = [cur EXCEPT ![w] = @ + 1]
  /\ Goto(w, IF cur[w] < bio[w].last THEN again ELSE done)
  /\ UNCHANGED bio

(* The chunk already failed, was overwritten in the image or was stored.   *)
CopySkip(w) ==
  /\ pc[w] = "copy"
  /\ chunk_state_check(cur[w], Saved)
  /\ lock' = up(cur[w])
  /\ NextChunk(w, "copy_down", "submit")
  /\ UNCHANGED <<state, diff_buffer, diff_region, diff_io, cacheVars,
                 cache_release_work, corrupt_flag, pending_io_count,
                 is_corrupted, unsent, workerVars, bio_list, imageVars, orig>>

(* An I/O of the chunk starts and its bios wait in bio_list_on_stack.      *)
QueueBios(w) ==
  /\ pending_io_count' = pending_io_count + 1
  /\ unsent' = unsent \cup {cur[w]}
  /\ bio_list' = [bio_list EXCEPT ![w] = @ \cup {cur[w]}]

(* The chunk was read for the image: take it from the cache and store it.  *)
CopyStore(w) ==
  /\ pc[w] = "copy"
  /\ ~chunk_state_check(cur[w], Saved)
  /\ chunk_state_check(cur[w], {"BUFFER_READY"})
  /\ diff_area_take_chunk_from_cache(cur[w])
  /\ chunk_schedule_storing(cur[w], state[cur[w]])
  /\ QueueBios(w)
  /\ NextChunk(w, "copy_down", "submit")
  /\ UNCHANGED <<cache_release_work, corrupt_flag, is_corrupted, workerVars,
                 imageVars, orig>>

CopyStoreFails(w) ==
  /\ pc[w] = "copy"
  /\ ~chunk_state_check(cur[w], Saved)
  /\ chunk_state_check(cur[w], {"BUFFER_READY"})
  /\ diff_area_take_chunk_from_cache(cur[w])
  /\ chunk_schedule_storing_fails(cur[w], state[cur[w]])
  /\ \E err \in StorageError(cur[w]) \cup AllocError(bio[w].nowait) :
       CopyFails(w, err)
  /\ UNCHANGED <<diff_io, cache_release_work, corrupt_flag,
                 pending_io_count, is_corrupted, workerVars, imageVars, orig>>

(* The chunk is not in memory: diff_buffer_take(), chunk_async_load_orig().*)
CopyLoad(w) ==
  /\ pc[w] = "copy"
  /\ ~chunk_state_check(cur[w], Saved \cup {"BUFFER_READY"})
  /\ diff_buffer' = [diff_buffer EXCEPT ![cur[w]] = Junk]
  /\ state' = [state EXCEPT ![cur[w]] = @ \cup {"LOADING"}]
  /\ diff_io' = [diff_io EXCEPT ![cur[w]] = "load"]
  /\ QueueBios(w)
  /\ NextChunk(w, "copy_down", "submit")
  /\ UNCHANGED <<lock, diff_region, cacheVars, cache_release_work,
                 corrupt_flag, is_corrupted, workerVars, imageVars, orig>>

CopyLoadFails(w) ==
  /\ pc[w] = "copy"
  /\ ~chunk_state_check(cur[w], Saved \cup {"BUFFER_READY"})
  /\ \E t \in {{}, {"LOADING"}} :
       chunk_store_failed(cur[w], state[cur[w]] \cup t)
  /\ \E err \in AllocError(bio[w].nowait) : CopyFails(w, err)
  /\ UNCHANGED <<diff_io, cacheVars, cache_release_work, corrupt_flag,
                 pending_io_count, is_corrupted, workerVars, imageVars, orig>>

(* Mutant: the filter does not wait for the copies.                        *)
SubmitBiosNoWait(w) ==
  /\ pc[w] = "submit"
  /\ unsent' = unsent \ bio_list[w]
  /\ bio_list' = [bio_list EXCEPT ![w] = {}]
  /\ Goto(w, "pass")
  /\ UNCHANGED <<chunkVars, cacheVars, cache_release_work, corrupt_flag,
                 pending_io_count, is_corrupted, workerVars, bio, cur,
                 imageVars, orig>>

(* tracker_submit_bio() sends the bios that diff_area_copy() created.      *)
SubmitBios(w) ==
  /\ pc[w] = "submit"
  /\ unsent' = unsent \ bio_list[w]
  /\ bio_list' = [bio_list EXCEPT ![w] = {}]
  /\ cur' = [cur EXCEPT ![w] = bio[w].first]
  /\ Goto(w, "wait_down")
  /\ UNCHANGED <<chunkVars, cacheVars, cache_release_work, corrupt_flag,
                 pending_io_count, is_corrupted, workerVars, bio, imageVars,
                 orig>>

(* Mutant: the loop of diff_area_wait() does not advance.                  *)
WaitChunkStuck(w) ==
  /\ pc[w] = "wait"
  /\ lock' = up(cur[w])
  /\ IF chunk_state_check(cur[w], {"FAILED"})
       THEN FilterError(w, "EFAULT")
       ELSE Goto(w, "wait_down") /\ UNCHANGED <<bio, cur, bio_list>>
  /\ UNCHANGED <<state, diff_buffer, diff_region, diff_io, cacheVars,
                 cache_release_work, corrupt_flag, pending_io_count,
                 is_corrupted, unsent, workerVars, imageVars, orig>>

(* The body of diff_area_wait().  A chunk with none of the flags would     *)
(* keep its semaphore: the code has no third branch.                       *)
WaitChunk(w) ==
  /\ pc[w] = "wait"
  /\ IF chunk_state_check(cur[w], {"FAILED"})
       THEN lock' = up(cur[w]) /\ FilterError(w, "EFAULT")
       ELSE /\ IF chunk_state_check(cur[w], {"BUFFER_READY", "DIRTY",
                                             "STORE_READY"})
                 THEN lock' = up(cur[w])
                 ELSE UNCHANGED lock
            /\ NextChunk(w, "wait_down", "pass")
            /\ UNCHANGED bio_list
  /\ UNCHANGED <<state, diff_buffer, diff_region, diff_io, cacheVars,
                 cache_release_work, corrupt_flag, pending_io_count,
                 is_corrupted, unsent, workerVars, imageVars, orig>>

(* The filter passed the bio on and the device performs the write.         *)
DeviceWrite(w, d) ==
  /\ pc[w] = "pass"
  /\ orig' = [c \in Chunk |-> IF c \in Covers(bio[w]) THEN d ELSE orig[c]]
  /\ Done(w)
  /\ UNCHANGED <<chunkVars, cacheVars, cache_release_work, corrupt_flag,
                 pending_io_count, is_corrupted, unsent, workerVars,
                 bio_list, imageVars>>

=============================================================================
