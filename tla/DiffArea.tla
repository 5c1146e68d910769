------------------------------ MODULE DiffArea ------------------------------
(***************************************************************************)
(* The copy-on-write core of blksnap: one difference area, the threads that *)
(* write to the original device through the filter, the kernel thread that *)
(* serves the snapshot image, the asynchronous I/O completions and the     *)
(* worker that limits the chunk caches.                                    *)
(***************************************************************************)
EXTENDS ChunkIo, WriteFilter, ImageIo, FiniteSets

Io(c) ==
  \/ DeviceLoad(c) \/ chunk_notify_load(c) \/ NotifyLoadFails(c)
  \/ chunk_notify_store(c) \/ NotifyStoreDirty(c) \/ NotifyFailed(c)

CacheWorker ==
  \/ CacheReleaseStart \/ CacheReleaseStop
  \/ CacheReleaseClean \/ CacheReleaseDirty
  \/ CacheReleaseFails \/ CacheReleaseFailed
  \/ \E c \in Chunk : diff_area_get_chunk_from_cache_and_write_lock(c)

Filter(w) ==
  \/ CopyNoChunk(w) \/ Down(w) \/ TrylockFails(w) \/ DownKilled(w)
  \/ CopySkip(w) \/ CopyStore(w) \/ CopyStoreFails(w)
  \/ CopyLoad(w) \/ CopyLoadFails(w) \/ CopyFailed(w)
  \/ SubmitBios(w) \/ WaitChunk(w)
  \/ \E d \in Data : DeviceWrite(w, d)

ImageWorker ==
  \/ ImageDown \/ ImageGetFailed \/ ImageGetCached
  \/ ImageLoad \/ ImageLoadFails \/ ImageLoaded \/ ImageReadError
  \/ ImageRead \/ (\E d \in Data : ImageWrite(d)) \/ ImageEnd

Next ==
  \/ \E c \in Chunk : Io(c) \/ chunk_notify_error(c)
  \/ CacheWorker
  \/ \E w \in Writers : \/ Filter(w)
                        \/ \E b \in WriteBios : tracker_submit_bio(w, b)
  \/ ImageWorker
  \/ \E b \in ImageBios : snapimage_submit_bio(b)

Spec == Init /\ [][Next]_vars

(* Every thread that runs gets a processor, a device and the workqueues    *)
(* complete what they were given, and a semaphore serves its waiters in    *)
(* the order of arrival, which strong fairness of taking it stands for.    *)
(* Nobody is obliged to submit a bio.                                      *)
Fairness ==
  /\ \A c \in Chunk : WF_vars(Io(c))
  /\ WF_vars(CacheWorker)
  /\ \A w \in Writers : WF_vars(Filter(w)) /\ SF_vars(Down(w))
  /\ WF_vars(ImageWorker) /\ SF_vars(ImageDown)

FairSpec == Spec /\ Fairness

-----------------------------------------------------------------------------
(* Invariants of the counters and of the data                              *)

(* The two counters that trigger and stop the cache worker, and the        *)
(* counter that diff_area_free() waits for, are exact, whichever path      *)
(* through success or failure the I/Os took.                               *)
CountersExact ==
  /\ read_cache_count = Cardinality(read_cache_queue)
  /\ write_cache_count = Cardinality(write_cache_queue)
  /\ pending_io_count = Cardinality({c \in Chunk : diff_io[c] # "none"})

(* The snapshot is lost: flagged as corrupted, or about to be.             *)
Broken == corrupt_flag \/ \E c \in Chunk : "FAILED" \in state[c]

(* An overwrite never precedes the copy: when the filter passes a write on *)
(* to the device, each chunk it covers is stored or overwritten in the     *)
(* image, unless the snapshot is given up (doc/blksnap.rst:148).           *)
CopiedBeforeOverwritten ==
  \A w \in Writers :
    pc[w] = "pass" /\ ~Broken =>
      \A c \in Covers(bio[w]) : IsSaved(c)

(* The copies of chunk c in memory and in the storage agree with what is   *)
(* still on the original device and with each other.                       *)
Agree(c) ==
  /\ ~IsSaved(c) /\ ("BUFFER_READY" \in state[c] \/ diff_io[c] = "loaded") =>
       diff_buffer[c] = orig[c]
  /\ "STORE_READY" \in state[c] /\ "BUFFER_READY" \in state[c]
       /\ "DIRTY" \notin state[c] => diff_buffer[c] = diff_region[c]

(* A cached copy is never stale: the buffer that diff_area_copy() stores   *)
(* without reading the device again, and that the image is read from, has  *)
(* the data the chunk had when the snapshot was taken.                     *)
CopiesAgree == ~Broken => \A c \in Chunk : Agree(c)

(* What every step preserves when no fatal signal interrupts a writer and  *)
(* no write leaves the change tracking map.                                *)
InductiveInvariant ==
  /\ Structure /\ CopiesAgree /\ CopiedBeforeOverwritten
  /\ is_corrupted => "untracked" \in Faults

-----------------------------------------------------------------------------
(* What the image shows of a chunk: its buffer, its region in the storage  *)
(* or, as long as nothing was copied, the original device.                 *)
Content(c) ==
  IF "BUFFER_READY" \in state[c] THEN diff_buffer[c]
  ELSE IF "STORE_READY" \in state[c] THEN diff_region[c]
  ELSE orig[c]

Image == INSTANCE SnapshotImage WITH
  Request <- ImageBio,
  image <- IF Broken THEN [c \in Chunk |-> NULL]
           ELSE [c \in Chunk |-> Content(c)],
  broken <- Broken,
  busy <- ipc # "idle",
  req <- ibio,
  pos <- IF ipc = "end" THEN ibio.last + 1 ELSE icur

(* The difference area implements the snapshot image: until it is          *)
(* corrupted, no step but a requested write to the image changes what the  *)
(* image shows, and a read of the image returns exactly that, whatever is  *)
(* written to the original device in between.                              *)
ImplementsImage == Image!Spec

(* The bios of chunk c were created and no writer holds them any more: the *)
(* writer that did left the filter with an error before it sent them, and  *)
(* nobody will ever release the semaphore of the chunk.                    *)
Dropped(c) == c \in unsent /\ \A w \in Writers : c \notin bio_list[w]

(* A write to the original device is not delayed for ever by the copy,     *)
(* whatever fails in between, unless the bios of a chunk were dropped.     *)
WritesComplete ==
  \A w \in Writers :
    pc[w] # "idle" ~> (pc[w] = "idle" \/ \E c \in Chunk : Dropped(c))

(* A request to the image ends although its worker waits for chunks that   *)
(* writers, I/Os and the cache worker hold, under the same condition.      *)
ImageCompletes ==
  ipc # "idle" ~> (ipc = "idle" \/ \E c \in Chunk : Dropped(c))

(* The worker brings the caches back to their limit (main.c, comment of    *)
(* chunk_maximum_in_cache).                                                *)
CachesTrimmed ==
  /\ read_cache_count > chunk_maximum_in_cache ~>
       read_cache_count <= chunk_maximum_in_cache
  /\ write_cache_count > chunk_maximum_in_cache ~>
       write_cache_count <= chunk_maximum_in_cache

(* Whoever is about to attach a new buffer to a chunk finds none attached  *)
(* (WARN "Chunks buffer has been lost", diff_area.c:407, also 509).        *)
NoBufferLost ==
  /\ \A w \in Writers :
       pc[w] = "copy" /\ ~chunk_state_check(cur[w], Saved \cup {"BUFFER_READY"})
         => diff_buffer[cur[w]] = NULL
  /\ ipc = "get" /\ ~chunk_state_check(icur, {"FAILED", "BUFFER_READY"})
       => diff_buffer[icur] = NULL

(* A bio for the image of a corrupted snapshot that could not be served    *)
(* ends with an error (module/diff_area.h:61, doc/blksnap.rst:180).        *)
ImageErrorReported ==
  ipc = "end" /\ st = "IOERR" /\ corrupt_flag => bi_status = "IOERR"

=============================================================================
