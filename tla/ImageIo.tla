------------------------------ MODULE ImageIo -------------------------------
(***************************************************************************)
(* The kernel thread that serves the snapshot image: module/snapimage.c and *)
(* diff_area_image_io() of module/diff_area.c.                             *)
(***************************************************************************)
EXTENDS DiffAreaState

-----------------------------------------------------------------------------
(* Reads and writes of the snapshot image: module/snapimage.c and          *)
(* diff_area_image_io().                                                   *)

ImageBios == {b \in ImageBio : b.first <= b.last /\ b.write \in ImageOps}

imageOther == <<cpc, cchunk, pc, bio, cur, bio_list, unsent,
                pending_io_count, corrupt_flag, is_corrupted, orig>>

(* A bio for the image: queued for the worker, or refused at once when the *)
(* difference area is corrupted.                                           *)
snapimage_submit_bio(b) ==
  /\ ipc = "idle"
  /\ ibio' = b
  /\ icur' = b.first
  /\ IF corrupt_flag
       THEN bi_status' = "IOERR" /\ ipc' = "end"
       ELSE UNCHANGED bi_status /\ ipc' = "get_down"
  /\ UNCHANGED <<chunkVars, cacheVars, cache_release_work, st, reply,
                 imageOther>>

(* diff_area_image_context_get_chunk() waits for the semaphore.  The       *)
(* worker is a kernel thread: no signal reaches it.                        *)
ImageDown ==
  /\ ipc = "get_down"
  /\ lock[icur] = 1
  /\ lock' = down(icur)
  /\ ipc' = "get"
  /\ UNCHANGED <<state, diff_buffer, diff_region, diff_io, cacheVars,
                 cache_release_work, ibio, icur, st, bi_status, reply,
                 imageOther>>

(* Mutant: the semaphore is kept when the I/O fails.                       *)
ImageErrorKeepsLock ==
  /\ st' = "IOERR"
  /\ ipc' = "end"
  /\ UNCHANGED <<lock, ibio, icur, bi_status, reply>>

(* diff_area_image_io() fails: snapimage_process_bio() leaves its loop.    *)
ImageError ==
  /\ lock' = up(icur)
  /\ st' = "IOERR"
  /\ ipc' = "end"
  /\ UNCHANGED <<ibio, icur, bi_status, reply>>

ImageGetFailed ==
  /\ ipc = "get"
  /\ chunk_state_check(icur, {"FAILED"})
  /\ ImageError
  /\ UNCHANGED <<state, diff_buffer, diff_region, diff_io, cacheVars,
                 cache_release_work, imageOther>>

(* Mutant: the chunk stays in the cache while the image works on it.       *)
ImageGetLeavesCache ==
  /\ ipc = "get"
  /\ ~chunk_state_check(icur, {"FAILED"})
  /\ chunk_state_check(icur, {"BUFFER_READY"})
  /\ ipc' = "io"
  /\ UNCHANGED <<chunkVars, cacheVars, cache_release_work, ibio, icur, st,
                 bi_status, reply, imageOther>>

ImageGetCached ==
  /\ ipc = "get"
  /\ ~chunk_state_check(icur, {"FAILED"})
  /\ chunk_state_check(icur, {"BUFFER_READY"})
  /\ diff_area_take_chunk_from_cache(icur)
  /\ ipc' = "io"
  /\ UNCHANGED <<chunkVars, cache_release_work, ibio, icur, st, bi_status,
                 reply, imageOther>>

(* diff_area_load_chunk_from_storage() takes a buffer and starts a         *)
(* synchronous read.                                                       *)
ImageLoad ==
  /\ ipc = "get"
  /\ ~chunk_state_check(icur, {"FAILED", "BUFFER_READY"})
  /\ diff_buffer' = [diff_buffer EXCEPT ![icur] = Junk]
  /\ ipc' = "load"
  /\ UNCHANGED <<lock, state, diff_region, diff_io, cacheVars,
                 cache_release_work, ibio, icur, st, bi_status, reply,
                 imageOther>>

ImageLoadFails ==
  /\ ipc = "get"
  /\ ~chunk_state_check(icur, {"FAILED", "BUFFER_READY"})
  /\ AllocError(FALSE) # {}
  /\ ImageError
  /\ UNCHANGED <<state, diff_buffer, diff_region, diff_io, cacheVars,
                 cache_release_work, imageOther>>

(* Mutant: the original device is read although the chunk was stored.      *)
ImageLoadedOrig ==
  /\ ipc = "load"
  /\ diff_buffer' = [diff_buffer EXCEPT ![icur] = orig[icur]]
  /\ state' = [state EXCEPT ![icur] = @ \cup {"BUFFER_READY"}]
  /\ ipc' = "io"
  /\ UNCHANGED <<lock, diff_region, diff_io, cacheVars, cache_release_work,
                 ibio, icur, st, bi_status, reply, imageOther>>

(* The read ends: chunk_load_diff() or chunk_load_orig().                  *)
ImageLoaded ==
  /\ ipc = "load"
  /\ diff_buffer' = [diff_buffer EXCEPT
       ![icur] = IF chunk_state_check(icur, {"STORE_READY"})
                   THEN diff_region[icur] ELSE orig[icur]]
  /\ state' = [state EXCEPT ![icur] = @ \cup {"BUFFER_READY"}]
  /\ ipc' = "io"
  /\ UNCHANGED <<lock, diff_region, diff_io, cacheVars, cache_release_work,
                 ibio, icur, st, bi_status, reply, imageOther>>

(* The read fails; the buffer stays attached.                              *)
ImageReadError ==
  /\ ipc = "load"
  /\ "io" \in Faults
  /\ ImageError
  /\ UNCHANGED <<state, diff_buffer, diff_region, diff_io, cacheVars,
                 cache_release_work, imageOther>>

(* Mutant: the position in the bio does not advance.                       *)
ImageNextStuck ==
  /\ ipc' = IF icur < ibio.last THEN "get_down" ELSE "end"
  /\ UNCHANGED <<diff_region, diff_io, ibio, icur, st, bi_status, imageOther>>

(* After the copy between the bio and the buffer, the worker goes on to    *)
(* the next chunk of the bio.                                              *)
ImageNext ==
  /\ ipc' = IF icur < ibio.last THEN "get_down" ELSE "end"
  /\ icur' = IF icur < ibio.last THEN icur + 1 ELSE icur
  /\ UNCHANGED <<diff_region, diff_io, ibio, st, bi_status, imageOther>>

(* diff_area_image_io() of a read, and diff_area_image_put_chunk().        *)
ImageRead ==
  /\ ipc = "io"
  /\ ~ibio.write
  /\ reply' = <<icur, diff_buffer[icur]>>
  /\ chunk_schedule_caching(icur, state[icur])
  /\ ImageNext
  /\ UNCHANGED <<state, diff_buffer>>

(* diff_area_image_io() of a write, and diff_area_image_put_chunk().       *)
ImageWrite(d) ==
  /\ ipc = "io"
  /\ ibio.write
  /\ diff_buffer' = [diff_buffer EXCEPT ![icur] = d]
  /\ state' = [state EXCEPT ![icur] = @ \cup {"DIRTY"}]
  /\ chunk_schedule_caching(icur, state[icur] \cup {"DIRTY"})
  /\ ImageNext
  /\ UNCHANGED reply

(* bio_endio(): the submitter sees bi_status, which st was not copied to.  *)
ImageEnd ==
  /\ ipc = "end"
  /\ ipc' = "idle" /\ ibio' = NoImageBio /\ icur' = 0
  /\ st' = "OK" /\ bi_status' = "OK" /\ reply' = NULL
  /\ UNCHANGED <<chunkVars, cacheVars, cache_release_work, imageOther>>

=============================================================================
