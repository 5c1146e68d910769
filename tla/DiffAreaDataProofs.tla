------------------------- MODULE DiffAreaDataProofs -------------------------
(***************************************************************************)
(* No step but a write to the image changes what the image shows: the      *)
(* effect of each action of DiffArea on the data, as long as the snapshot  *)
(* is not broken.                                                          *)
(***************************************************************************)
EXTENDS DiffArea, DiffAreaStepProofs

(* The data of chunk c survives the step.                                  *)
ChunkKept(c) ==
  /\ IsSaved(c) => IsSaved(c)'
  /\ Agree(c)'
  /\ Content(c)' = Content(c)

(* The request to the image neither starts, nor advances, nor ends.        *)
RequestKept ==
  /\ ibio' = ibio /\ icur' = icur
  /\ ipc' = ipc \/ {ipc, ipc'} \cap {"idle", "end"} = {}

(* A step that changes nothing of the image, nor the original device.      *)
Quiet ==
  /\ orig' = orig /\ reply' = reply /\ RequestKept
  /\ \A c \in Chunk : ChunkKept(c)

(* A step that leaves a chunk alone keeps its data.                        *)
LEMMA KeptFrame ==
  ASSUME NEW c \in Chunk, ~Broken, CopiesAgree,
         state'[c] = state[c], diff_io'[c] = diff_io[c],
         diff_buffer'[c] = diff_buffer[c], diff_region'[c] = diff_region[c],
         orig'[c] = orig[c]
  PROVE  ChunkKept(c)
  BY Zenon DEF CopiesAgree, ChunkKept, Agree, Content, IsSaved,
     chunk_state_check

LEMMA NoneFailed ==
  ASSUME ~Broken, NEW c \in Chunk PROVE "FAILED" \notin state[c]
  BY Zenon DEF Broken

LEMMA DeviceLoad_Data ==
  ASSUME NEW c \in Chunk, Structure, CopiesAgree, ~Broken,
         DeviceLoad(c)
  PROVE  Quiet
<1> USE DEF DeviceLoad, cacheVars, workerVars, writerVars, imageVars
<1>c. FlagsConsistent(c) /\ Agree(c) /\ "FAILED" \notin state[c]
  BY NoneFailed, Zenon DEF Structure, DeadBranches, CopiesAgree
<1> USE <1>c
<1>1. ASSUME NEW x \in Chunk, x # c PROVE ChunkKept(x)
  BY <1>1, KeptFrame, Zenon DEF Structure, TypeOK, ChunkTypes, CacheTypes,
     WriterTypes, ImageTypes
<1>2. ASSUME NEW x \in Chunk, x = c PROVE ChunkKept(x)
  BY <1>2, DataAssumption, Zenon DEF Structure, TypeOK, ChunkTypes, CacheTypes,
     WriterTypes, ImageTypes, ChunkSt, ChunkKept,
      FlagsConsistent, Agree, Content, IsSaved, Saved, chunk_state_check,
      HeldByIo
<1> QED
  BY <1>1, <1>2, Zenon DEF Quiet, RequestKept

LEMMA chunk_notify_load_Data ==
  ASSUME NEW c \in Chunk, Structure, CopiesAgree, ~Broken,
         chunk_notify_load(c)
  PROVE  Quiet
<1> USE DEF chunk_notify_load, Loaded, chunk_schedule_storing, cacheVars,
           workerVars, writerVars, imageVars
<1>c. FlagsConsistent(c) /\ Agree(c) /\ "FAILED" \notin state[c]
  BY NoneFailed, Zenon DEF Structure, DeadBranches, CopiesAgree
<1> USE <1>c
<1>1. ASSUME NEW x \in Chunk, x # c PROVE ChunkKept(x)
  BY <1>1, KeptFrame, Zenon DEF Structure, TypeOK, ChunkTypes, CacheTypes,
     WriterTypes, ImageTypes
<1>2. ASSUME NEW x \in Chunk, x = c PROVE ChunkKept(x)
  BY <1>2, DataAssumption, Zenon DEF Structure, TypeOK, ChunkTypes, CacheTypes,
     WriterTypes, ImageTypes, ChunkSt, ChunkKept,
      FlagsConsistent, Agree, Content, IsSaved, Saved, chunk_state_check,
      HeldByIo
<1> QED
  BY <1>1, <1>2, Zenon DEF Quiet, RequestKept

LEMMA chunk_notify_store_Data ==
  ASSUME NEW c \in Chunk, Structure, CopiesAgree, ~Broken,
         chunk_notify_store(c)
  PROVE  Quiet
<1> USE DEF chunk_notify_store, StoreEnds, Stored, chunk_state_check,
           chunk_schedule_caching, up, cacheVars, workerVars, writerVars,
           imageVars
<1>c. FlagsConsistent(c) /\ Agree(c) /\ "FAILED" \notin state[c]
  BY NoneFailed, Zenon DEF Structure, DeadBranches, CopiesAgree
<1> USE <1>c
<1>1. ASSUME NEW x \in Chunk, x # c PROVE ChunkKept(x)
  BY <1>1, KeptFrame, Zenon DEF Structure, TypeOK, ChunkTypes, CacheTypes,
     WriterTypes, ImageTypes
<1>2. ASSUME NEW x \in Chunk, x = c PROVE ChunkKept(x)
  BY <1>2, DataAssumption, Zenon DEF Structure, TypeOK, ChunkTypes, CacheTypes,
     WriterTypes, ImageTypes, ChunkSt, ChunkKept,
      FlagsConsistent, Agree, Content, IsSaved, Saved, chunk_state_check,
      HeldByIo
<1> QED
  BY <1>1, <1>2, Zenon DEF Quiet, RequestKept

LEMMA NotifyStoreDirty_Data ==
  ASSUME NEW c \in Chunk, Structure, CopiesAgree, ~Broken,
         NotifyStoreDirty(c)
  PROVE  Quiet
<1> USE DEF NotifyStoreDirty, StoreEnds, Stored, chunk_state_check,
           chunk_diff_buffer_release, up, cacheVars, workerVars, writerVars,
           imageVars
<1>c. FlagsConsistent(c) /\ Agree(c) /\ "FAILED" \notin state[c]
  BY NoneFailed, Zenon DEF Structure, DeadBranches, CopiesAgree
<1> USE <1>c
<1>1. ASSUME NEW x \in Chunk, x # c PROVE ChunkKept(x)
  BY <1>1, KeptFrame, Zenon DEF Structure, TypeOK, ChunkTypes, CacheTypes,
     WriterTypes, ImageTypes
<1>2. ASSUME NEW x \in Chunk, x = c PROVE ChunkKept(x)
  BY <1>2, DataAssumption, Zenon DEF Structure, TypeOK, ChunkTypes, CacheTypes,
     WriterTypes, ImageTypes, ChunkSt, ChunkKept,
      FlagsConsistent, Agree, Content, IsSaved, Saved, chunk_state_check,
      HeldByIo
<1> QED
  BY <1>1, <1>2, Zenon DEF Quiet, RequestKept

LEMMA CacheReleaseClean_Data ==
  ASSUME Structure, CopiesAgree, ~Broken,
         CacheReleaseClean
  PROVE  Quiet
<1> USE DEF CacheReleaseClean, chunk_state_check, chunk_diff_buffer_release,
           up, cacheVars, workerVars, writerVars, imageVars
<1>a. cchunk \in Chunk
  BY Zenon DEF Structure, TypeOK, ChunkTypes, CacheTypes, WriterTypes,
     ImageTypes
<1>b. ~HeldByIo(cchunk)
  BY <1>a, Zenon DEF Structure, LockDiscipline, Owned, HeldByCacheWorker
<1>c. FlagsConsistent(cchunk) /\ Agree(cchunk) /\ "FAILED" \notin state[cchunk]
  BY <1>a, NoneFailed, Zenon DEF Structure, DeadBranches, CopiesAgree
<1> USE <1>a, <1>b, <1>c
<1>1. ASSUME NEW x \in Chunk, x # cchunk PROVE ChunkKept(x)
  BY <1>1, KeptFrame, Zenon DEF Structure, TypeOK, ChunkTypes, CacheTypes,
     WriterTypes, ImageTypes
<1>2. ASSUME NEW x \in Chunk, x = cchunk PROVE ChunkKept(x)
  BY <1>2, DataAssumption DEF Structure, TypeOK, ChunkTypes, CacheTypes,
     WriterTypes, ImageTypes, ChunkSt, ChunkKept,
      FlagsConsistent, Agree, Content, IsSaved, Saved, chunk_state_check,
      HeldByIo, HoldersConsistent
<1> QED
  BY <1>1, <1>2, Zenon DEF Quiet, RequestKept

LEMMA CacheReleaseDirty_Data ==
  ASSUME Structure, CopiesAgree, ~Broken,
         CacheReleaseDirty
  PROVE  Quiet
<1> USE DEF CacheReleaseDirty, chunk_state_check, chunk_schedule_storing,
           cacheVars, workerVars, writerVars, imageVars
<1>a. cchunk \in Chunk
  BY Zenon DEF Structure, TypeOK, ChunkTypes, CacheTypes, WriterTypes,
     ImageTypes
<1>b. ~HeldByIo(cchunk)
  BY <1>a, Zenon DEF Structure, LockDiscipline, Owned, HeldByCacheWorker
<1>c. FlagsConsistent(cchunk) /\ Agree(cchunk) /\ "FAILED" \notin state[cchunk]
  BY <1>a, NoneFailed, Zenon DEF Structure, DeadBranches, CopiesAgree
<1> USE <1>a, <1>b, <1>c
<1>1. ASSUME NEW x \in Chunk, x # cchunk PROVE ChunkKept(x)
  BY <1>1, KeptFrame, Zenon DEF Structure, TypeOK, ChunkTypes, CacheTypes,
     WriterTypes, ImageTypes
<1>2. ASSUME NEW x \in Chunk, x = cchunk PROVE ChunkKept(x)
  BY <1>2, DataAssumption, Zenon DEF Structure, TypeOK, ChunkTypes, CacheTypes,
     WriterTypes, ImageTypes, ChunkSt, ChunkKept,
      FlagsConsistent, Agree, Content, IsSaved, Saved, chunk_state_check,
      HeldByIo, HoldersConsistent
<1> QED
  BY <1>1, <1>2, Zenon DEF Quiet, RequestKept

LEMMA CopyStore_Data ==
  ASSUME NEW w \in Writers, Structure, CopiesAgree, ~Broken,
         CopyStore(w)
  PROVE  Quiet
<1> USE DEF CopyStore, diff_area_take_chunk_from_cache, chunk_state_check,
           cacheVars, chunk_schedule_storing, QueueBios, NextChunk, Goto,
           Saved, workerVars, writerVars, imageVars
<1>a. cur[w] \in Chunk
  BY Zenon DEF Structure, TypeOK, ChunkTypes, CacheTypes, WriterTypes,
     ImageTypes, CopyProgress, Progress
<1>b. ~HeldByIo(cur[w])
  BY <1>a, Zenon DEF Structure, LockDiscipline, Owned, HeldByWriter
<1>c. FlagsConsistent(cur[w]) /\ Agree(cur[w]) /\ "FAILED" \notin state[cur[w]]
  BY <1>a, NoneFailed, Zenon DEF Structure, DeadBranches, CopiesAgree
<1> USE <1>a, <1>b, <1>c
<1>1. ASSUME NEW x \in Chunk, x # cur[w] PROVE ChunkKept(x)
  BY <1>1, KeptFrame, Zenon DEF Structure, TypeOK, ChunkTypes, CacheTypes,
     WriterTypes, ImageTypes
<1>2. ASSUME NEW x \in Chunk, x = cur[w] PROVE ChunkKept(x)
  BY <1>2, DataAssumption, Zenon DEF Structure, TypeOK, ChunkTypes, CacheTypes,
     WriterTypes, ImageTypes, ChunkSt, ChunkKept,
      FlagsConsistent, Agree, Content, IsSaved, Saved, chunk_state_check,
      HeldByIo
<1> QED
  BY <1>1, <1>2, Zenon DEF Quiet, RequestKept

LEMMA CopyLoad_Data ==
  ASSUME NEW w \in Writers, Structure, CopiesAgree, ~Broken,
         CopyLoad(w)
  PROVE  Quiet
<1> USE DEF CopyLoad, QueueBios, NextChunk, Goto, Saved, chunk_state_check,
           cacheVars, workerVars, writerVars, imageVars
<1>a. cur[w] \in Chunk
  BY Zenon DEF Structure, TypeOK, ChunkTypes, CacheTypes, WriterTypes,
     ImageTypes, CopyProgress, Progress
<1>b. ~HeldByIo(cur[w])
  BY <1>a, Zenon DEF Structure, LockDiscipline, Owned, HeldByWriter
<1>c. FlagsConsistent(cur[w]) /\ Agree(cur[w]) /\ "FAILED" \notin state[cur[w]]
  BY <1>a, NoneFailed, Zenon DEF Structure, DeadBranches, CopiesAgree
<1> USE <1>a, <1>b, <1>c
<1>1. ASSUME NEW x \in Chunk, x # cur[w] PROVE ChunkKept(x)
  BY <1>1, KeptFrame, Zenon DEF Structure, TypeOK, ChunkTypes, CacheTypes,
     WriterTypes, ImageTypes
<1>2. ASSUME NEW x \in Chunk, x = cur[w] PROVE ChunkKept(x)
  BY <1>2, DataAssumption, Zenon DEF Structure, TypeOK, ChunkTypes, CacheTypes,
     WriterTypes, ImageTypes, ChunkSt, ChunkKept,
      FlagsConsistent, Agree, Content, IsSaved, Saved, chunk_state_check,
      HeldByIo
<1> QED
  BY <1>1, <1>2, Zenon DEF Quiet, RequestKept

LEMMA ImageLoad_Data ==
  ASSUME Structure, CopiesAgree, ~Broken,
         ImageLoad
  PROVE  Quiet
<1> USE DEF ImageLoad, chunk_state_check, imageOther, cacheVars, workerVars,
           writerVars, imageVars
<1>a. icur \in Chunk
  BY Zenon DEF Structure, TypeOK, ChunkTypes, CacheTypes, WriterTypes,
     ImageTypes
<1>b. ~HeldByIo(icur)
  BY <1>a, Zenon DEF Structure, LockDiscipline, Owned, HeldByImage
<1>c. FlagsConsistent(icur) /\ Agree(icur) /\ "FAILED" \notin state[icur]
  BY <1>a, NoneFailed, Zenon DEF Structure, DeadBranches, CopiesAgree
<1> USE <1>a, <1>b, <1>c
<1>1. ASSUME NEW x \in Chunk, x # icur PROVE ChunkKept(x)
  BY <1>1, KeptFrame, Zenon DEF Structure, TypeOK, ChunkTypes, CacheTypes,
     WriterTypes, ImageTypes
<1>2. ASSUME NEW x \in Chunk, x = icur PROVE ChunkKept(x)
  BY <1>2, DataAssumption, Zenon DEF Structure, TypeOK, ChunkTypes, CacheTypes,
     WriterTypes, ImageTypes, ChunkSt, ChunkKept,
      FlagsConsistent, Agree, Content, IsSaved, Saved, chunk_state_check,
      HeldByIo, HoldersConsistent
<1> QED
  BY <1>1, <1>2, Zenon DEF Quiet, RequestKept

LEMMA ImageLoaded_Data ==
  ASSUME Structure, CopiesAgree, ~Broken,
         ImageLoaded
  PROVE  Quiet
<1> USE DEF ImageLoaded, chunk_state_check, imageOther, cacheVars,
           workerVars, writerVars, imageVars
<1>a. icur \in Chunk
  BY Zenon DEF Structure, TypeOK, ChunkTypes, CacheTypes, WriterTypes,
     ImageTypes
<1>b. ~HeldByIo(icur)
  BY <1>a, Zenon DEF Structure, LockDiscipline, Owned, HeldByImage
<1>c. FlagsConsistent(icur) /\ Agree(icur) /\ "FAILED" \notin state[icur]
  BY <1>a, NoneFailed, Zenon DEF Structure, DeadBranches, CopiesAgree
<1> USE <1>a, <1>b, <1>c
<1>1. ASSUME NEW x \in Chunk, x # icur PROVE ChunkKept(x)
  BY <1>1, KeptFrame, Zenon DEF Structure, TypeOK, ChunkTypes, CacheTypes,
     WriterTypes, ImageTypes
<1>2. ASSUME NEW x \in Chunk, x = icur PROVE ChunkKept(x)
  BY <1>2, DataAssumption DEF Structure, TypeOK, ChunkTypes, CacheTypes,
     WriterTypes, ImageTypes, ChunkSt, ChunkKept,
      FlagsConsistent, Agree, Content, IsSaved, Saved, chunk_state_check,
      HeldByIo, HoldersConsistent
<1> QED
  BY <1>1, <1>2, Zenon DEF Quiet, RequestKept

-----------------------------------------------------------------------------
(* The steps the image, or its reader, can see.                            *)

LEMMA UntouchedQuiet ==
  ASSUME ~Broken, CopiesAgree,
         UNCHANGED <<state, diff_io, diff_buffer, diff_region, orig, reply>>,
         RequestKept
  PROVE  Quiet
  BY KeptFrame, Zenon DEF Quiet

(* A write that the filter passed on meets only saved chunks.              *)
LEMMA DeviceWrite_Data ==
  ASSUME NEW w \in Writers, NEW d \in Data, Structure, CopiesAgree,
         CopiedBeforeOverwritten, ~Broken, DeviceWrite(w, d)
  PROVE  reply' = reply /\ RequestKept /\ \A c \in Chunk : ChunkKept(c)
<1> USE DEF DeviceWrite, chunkVars, imageVars
<1>1. ASSUME NEW c \in Chunk, c \notin Covers(bio[w]) PROVE ChunkKept(c)
  BY <1>1, KeptFrame, Zenon
<1>2. ASSUME NEW c \in Chunk, c \in Covers(bio[w]) PROVE ChunkKept(c)
  <2>1. IsSaved(c)
    BY <1>2, Zenon DEF CopiedBeforeOverwritten
  <2>2. FlagsConsistent(c) /\ Agree(c) /\ "FAILED" \notin state[c]
    BY NoneFailed, Zenon DEF Structure, DeadBranches, CopiesAgree
  <2> QED
    BY <2>1, <2>2, Zenon
    DEF ChunkKept, FlagsConsistent, Agree, Content, IsSaved, Saved,
        chunk_state_check
<1>3. RequestKept
  BY Zenon DEF RequestKept
<1> QED
  BY <1>1, <1>2, <1>3, Zenon

(* The position after the chunk that was read or written.                  *)
LEMMA Served ==
  ASSUME Structure, ipc = "io", ImageNext
  PROVE  /\ icur \in Chunk /\ icur <= ibio.last
         /\ ipc' # "idle" /\ ibio' = ibio
         /\ (IF ipc' = "end" THEN ibio'.last + 1 ELSE icur') = icur + 1
<1>1. icur \in Chunk /\ icur <= ibio.last /\ ibio.last \in Chunk
  BY Zenon DEF Structure, TypeOK, ChunkTypes, CacheTypes, WriterTypes,
     ImageTypes, HoldersConsistent, ImageBio
<1> QED
  BY <1>1 DEF ImageNext, Chunk

LEMMA ImageRead_Data ==
  ASSUME Structure, CopiesAgree, ~Broken, ImageRead
  PROVE  /\ orig' = orig /\ \A c \in Chunk : ChunkKept(c)
         /\ reply' = <<icur, Content(icur)>>
<1> USE DEF ImageRead, ImageNext, imageOther
<1>1. \A c \in Chunk : ChunkKept(c)
  BY KeptFrame, Zenon
<1>2. Content(icur) = diff_buffer[icur]
  BY Zenon DEF Structure, HoldersConsistent, Content
<1> QED
  BY <1>1, <1>2, Zenon DEF Structure, TypeOK, ChunkTypes, CacheTypes,
     WriterTypes, ImageTypes

LEMMA ImageEnd_Data ==
  ASSUME CopiesAgree, ~Broken, ImageEnd
  PROVE  orig' = orig /\ reply' = NULL /\ \A c \in Chunk : ChunkKept(c)
  BY KeptFrame, Zenon DEF ImageEnd, chunkVars, imageOther

LEMMA ImageError_Data ==
  ASSUME Structure, CopiesAgree, ~Broken, ImageLoadFails \/ ImageReadError
  PROVE  /\ orig' = orig /\ reply' = reply /\ \A c \in Chunk : ChunkKept(c)
         /\ ipc # "idle" /\ ipc' = "end" /\ ibio' = ibio
  BY KeptFrame, Zenon DEF ImageLoadFails, ImageReadError, ImageError, imageOther

LEMMA snapimage_submit_bio_Data ==
  ASSUME NEW b \in ImageBios, CopiesAgree, ~Broken, snapimage_submit_bio(b)
  PROVE  /\ orig' = orig /\ reply' = reply /\ \A c \in Chunk : ChunkKept(c)
         /\ ipc = "idle" /\ ipc' = "get_down"
         /\ b \in ImageBio /\ ibio' = b /\ icur' = b.first
<1>1. ~corrupt_flag
  BY Zenon DEF Broken
<1> QED
  BY <1>1, KeptFrame, Zenon DEF snapimage_submit_bio, chunkVars, imageOther,
     ImageBios

LEMMA ImageWrite_Data ==
  ASSUME NEW d \in Data, Structure, CopiesAgree, ~Broken, ImageWrite(d)
  PROVE  /\ orig' = orig /\ reply' = reply
         /\ \A c \in Chunk :
              /\ IsSaved(c) => IsSaved(c)'
              /\ Agree(c)'
              /\ c # icur => Content(c)' = Content(c)
              /\ c = icur => Content(c)' = d
<1> USE DEF ImageWrite, ImageNext, imageOther
<1>1. icur \in Chunk /\ "BUFFER_READY" \in state[icur]
  BY Zenon DEF Structure, TypeOK, ChunkTypes, CacheTypes, WriterTypes,
     ImageTypes, HoldersConsistent
<1>2. ASSUME NEW x \in Chunk, x # icur PROVE ChunkKept(x)
  BY <1>2, KeptFrame, Zenon DEF Structure, TypeOK, ChunkTypes, CacheTypes,
     WriterTypes, ImageTypes
<1>3. ASSUME NEW x \in Chunk, x = icur
      PROVE  IsSaved(x)' /\ Agree(x)' /\ Content(x)' = d
  BY <1>1, <1>3, Zenon
  DEF Structure, TypeOK, ChunkTypes, CacheTypes, WriterTypes, ImageTypes,
      Agree, Content, IsSaved, Saved, chunk_state_check
<1> QED
  BY <1>1, <1>2, <1>3, Zenon DEF ChunkKept

-----------------------------------------------------------------------------
(* A chunk that failed stays failed, and the flag is never cleared.        *)
KeepsFailed == \A c \in Chunk : "FAILED" \in state[c] => "FAILED" \in state'[c]

LEMMA FailedStays ==
  ASSUME Structure, [Next]_vars PROVE KeepsFailed
<1> USE DEF KeepsFailed, chunk_store_failed, chunk_diff_buffer_release,
            chunk_schedule_storing, chunk_schedule_storing_fails
<1>t. state \in [Chunk -> SUBSET ChunkSt]
  BY Zenon DEF Structure, TypeOK, ChunkTypes, CacheTypes, WriterTypes,
     ImageTypes
<1>1. ASSUME NEW c \in Chunk, Io(c) \/ chunk_notify_error(c)
      PROVE  KeepsFailed
  <2>1. CASE DeviceLoad(c) \/ NotifyFailed(c)
    BY <2>1, Zenon DEF DeviceLoad, NotifyFailed
  <2>2. CASE chunk_notify_load(c)
    BY <2>2, <1>t, Zenon DEF chunk_notify_load, Loaded
  <2>3. CASE NotifyLoadFails(c)
    BY <2>3, <1>t, ZenonT(60) DEF NotifyLoadFails, Loaded
  <2>4. CASE chunk_notify_store(c)
    BY <2>4, <1>t, Zenon DEF chunk_notify_store, Stored
  <2>5. CASE NotifyStoreDirty(c)
    BY <2>5, <1>t, Zenon DEF NotifyStoreDirty, Stored
  <2>6. CASE chunk_notify_error(c)
    BY <2>6, <1>t, Zenon DEF chunk_notify_error
  <2> QED
    BY <1>1, <2>1, <2>2, <2>3, <2>4, <2>5, <2>6, Zenon DEF Io
<1>2. ASSUME CacheWorker PROVE KeepsFailed
  <2>1. CASE CacheReleaseClean
    BY <2>1, <1>t, Zenon DEF CacheReleaseClean
  <2>2. CASE CacheReleaseDirty
    BY <2>2, <1>t, Zenon DEF CacheReleaseDirty
  <2>3. CASE CacheReleaseFails
    BY <2>3, <1>t, ZenonT(60) DEF CacheReleaseFails
  <2>4. CASE CacheReleaseStart \/ CacheReleaseStop \/ CacheReleaseFailed
    BY <2>4, Zenon
    DEF CacheReleaseStart, CacheReleaseStop, CacheReleaseFailed, chunkVars
  <2>5. CASE \E c \in Chunk : diff_area_get_chunk_from_cache_and_write_lock(c)
    BY <2>5, Zenon DEF diff_area_get_chunk_from_cache_and_write_lock
  <2> QED
    BY <1>2, <2>1, <2>2, <2>3, <2>4, <2>5, Zenon DEF CacheWorker
<1>3. ASSUME NEW w \in Writers, Filter(w) PROVE KeepsFailed
  <2>1. CASE CopyStore(w)
    BY <2>1, <1>t, Zenon DEF CopyStore
  <2>2. CASE CopyStoreFails(w)
    BY <2>2, <1>t DEF CopyStoreFails
  <2>3. CASE CopyLoad(w)
    BY <2>3, <1>t, Zenon DEF CopyLoad
  <2>4. CASE CopyLoadFails(w)
    BY <2>4, <1>t DEF CopyLoadFails
  <2>5. CASE CopyNoChunk(w) \/ CopyFailed(w) \/ SubmitBios(w)
    BY <2>5, Zenon DEF CopyNoChunk, CopyFailed, SubmitBios, chunkVars
  <2>6. CASE TrylockFails(w) \/ DownKilled(w)
    BY <2>6, Zenon DEF TrylockFails, DownKilled, chunkVars
  <2>7. CASE Down(w) \/ CopySkip(w) \/ WaitChunk(w)
    BY <2>7, Zenon DEF Down, CopySkip, WaitChunk
  <2>8. CASE \E d \in Data : DeviceWrite(w, d)
    BY <2>8, Zenon DEF DeviceWrite, chunkVars
  <2> QED
    BY <1>3, <2>1, <2>2, <2>3, <2>4, <2>5, <2>6, <2>7, <2>8, Zenon DEF Filter
<1>4. ASSUME ImageWorker PROVE KeepsFailed
  <2>1. CASE ImageLoaded
    BY <2>1, <1>t, Zenon DEF ImageLoaded
  <2>2. CASE \E d \in Data : ImageWrite(d)
    BY <2>2, <1>t, Zenon DEF ImageWrite
  <2>3. CASE ImageGetCached \/ ImageEnd
    BY <2>3, Zenon DEF ImageGetCached, ImageEnd, chunkVars
  <2>4. CASE ImageDown \/ ImageGetFailed \/ ImageLoad \/ ImageLoadFails
             \/ ImageReadError \/ ImageRead
    BY <2>4, Zenon
    DEF ImageDown, ImageGetFailed, ImageLoad, ImageLoadFails,
        ImageReadError, ImageRead
  <2> QED
    BY <1>4, <2>1, <2>2, <2>3, <2>4, Zenon DEF ImageWorker
<1>5. CASE UNCHANGED vars
  BY <1>5, Zenon DEF vars, chunkVars
<1>6. CASE \/ \E w \in Writers, b \in WriteBios : tracker_submit_bio(w, b)
           \/ \E b \in ImageBios : snapimage_submit_bio(b)
  BY <1>6, Zenon DEF tracker_submit_bio, snapimage_submit_bio, chunkVars
<1> QED
  BY <1>1, <1>2, <1>3, <1>4, <1>5, <1>6, Zenon DEF Next

LEMMA CorruptStays ==
  ASSUME [Next]_vars, corrupt_flag PROVE corrupt_flag'
<1>1. ASSUME NEW c \in Chunk, Io(c) \/ chunk_notify_error(c)
      PROVE  corrupt_flag'
  BY <1>1, Zenon
  DEF Io, DeviceLoad, chunk_notify_load, NotifyLoadFails, chunk_notify_store,
      NotifyStoreDirty, NotifyFailed, chunk_notify_error
<1>2. ASSUME CacheWorker PROVE corrupt_flag'
  BY <1>2, Zenon
  DEF CacheWorker, CacheReleaseStart, CacheReleaseStop, CacheReleaseClean,
      CacheReleaseDirty, CacheReleaseFails, CacheReleaseFailed,
      diff_area_get_chunk_from_cache_and_write_lock
<1>3. ASSUME NEW w \in Writers, Filter(w) PROVE corrupt_flag'
  BY <1>3, Zenon
  DEF Filter, CopyNoChunk, Down, TrylockFails, DownKilled, CopySkip,
      CopyStore, CopyStoreFails, CopyLoad, CopyLoadFails, CopyFailed,
      SubmitBios, WaitChunk, DeviceWrite
<1>4. ASSUME ImageWorker PROVE corrupt_flag'
  BY <1>4, Zenon
  DEF ImageWorker, ImageDown, ImageGetFailed, ImageGetCached, ImageLoad,
      ImageLoadFails, ImageLoaded, ImageReadError, ImageRead, ImageWrite,
      ImageNext, ImageEnd, imageOther
<1> QED
  BY <1>1, <1>2, <1>3, <1>4, Zenon
  DEF Next, tracker_submit_bio, snapimage_submit_bio, imageOther, vars

LEMMA BrokenStays ==
  ASSUME Structure, [Next]_vars, Broken PROVE Broken'
  BY FailedStays, CorruptStays, Zenon DEF Broken, KeepsFailed

-----------------------------------------------------------------------------
(* A step that changes what the image, its reader or the original device   *)
(* shows.                                                                  *)
Visible ==
  \/ \E w \in Writers, d \in Data : DeviceWrite(w, d)
  \/ \E b \in ImageBios : snapimage_submit_bio(b)
  \/ ImageRead \/ (\E d \in Data : ImageWrite(d))
  \/ ImageLoadFails \/ ImageReadError \/ ImageEnd

(* Every other step is quiet or loses the snapshot.                        *)
LEMMA Next_Data ==
  ASSUME Structure, CopiesAgree, ~Broken, ~Broken', [Next]_vars
  PROVE  Quiet \/ Visible
<1> USE DEF chunkVars, imageVars, imageOther, RequestKept
<1>b. ~corrupt_flag' /\ \A c \in Chunk : "FAILED" \notin state'[c]
  BY Zenon DEF Broken
<1>t. state \in [Chunk -> SUBSET ChunkSt]
  BY Zenon DEF Structure, TypeOK, ChunkTypes, CacheTypes, WriterTypes,
     ImageTypes
<1>f. ASSUME NEW c \in Chunk, NEW s, chunk_store_failed(c, s) PROVE FALSE
  BY <1>b, <1>f, <1>t, Zenon DEF chunk_store_failed, chunk_diff_buffer_release
<1>g. ASSUME NEW c \in Chunk, NEW s, chunk_schedule_storing_fails(c, s)
      PROVE  FALSE
  BY <1>f, <1>g, Zenon DEF chunk_schedule_storing_fails
<1>1. ASSUME NEW c \in Chunk, Io(c) \/ chunk_notify_error(c) PROVE Quiet
  <2>1. ~NotifyLoadFails(c) /\ ~chunk_notify_error(c) /\ ~NotifyFailed(c)
    BY <1>b, <1>f, <1>g, Zenon DEF NotifyLoadFails, chunk_notify_error,
       NotifyFailed
  <2> QED
    BY <1>1, <2>1, DeviceLoad_Data, chunk_notify_load_Data,
       chunk_notify_store_Data, NotifyStoreDirty_Data, Zenon
    DEF Io
<1>2. ASSUME CacheWorker PROVE Quiet
  <2>1. ~CacheReleaseFails /\ ~CacheReleaseFailed
    <3>1. cchunk \in Chunk
      BY Zenon DEF Structure, TypeOK, ChunkTypes, CacheTypes, WriterTypes,
         ImageTypes
    <3> QED
      BY <3>1, <1>b, <1>g, Zenon DEF CacheReleaseFails, CacheReleaseFailed
  <2>2. CASE CacheReleaseStart \/ CacheReleaseStop
    BY <2>2, UntouchedQuiet, Zenon DEF CacheReleaseStart, CacheReleaseStop
  <2>3. CASE \E c \in Chunk : diff_area_get_chunk_from_cache_and_write_lock(c)
    BY <2>3, UntouchedQuiet, Zenon
    DEF diff_area_get_chunk_from_cache_and_write_lock
  <2> QED
    BY <1>2, <2>1, <2>2, <2>3, CacheReleaseClean_Data, CacheReleaseDirty_Data,
       Zenon
    DEF CacheWorker
<1>3. ASSUME NEW w \in Writers, Filter(w) PROVE Quiet \/ Visible
  <2>1. ~CopyNoChunk(w) /\ ~CopyFailed(w)
    BY <1>b, Zenon DEF CopyNoChunk, CopyFailed
  <2>2. ~CopyStoreFails(w) /\ ~CopyLoadFails(w)
    <3>1. pc[w] = "copy" => cur[w] \in Chunk
      BY Zenon DEF Structure, CopyProgress, Progress
    <3> QED
      BY <3>1, <1>f, <1>g, Zenon DEF CopyStoreFails, CopyLoadFails
  <2>3. CASE Down(w) \/ CopySkip(w) \/ WaitChunk(w)
    BY <2>3, UntouchedQuiet, Zenon DEF Down, CopySkip, WaitChunk
  <2>4. CASE TrylockFails(w) \/ DownKilled(w) \/ SubmitBios(w)
    BY <2>4, UntouchedQuiet, Zenon DEF TrylockFails, DownKilled, SubmitBios
  <2> QED
    BY <1>3, <2>1, <2>2, <2>3, <2>4, CopyStore_Data, CopyLoad_Data, Zenon
    DEF Filter, Visible
<1>4. ASSUME ImageWorker PROVE Quiet \/ Visible
  <2>1. ~ImageGetFailed
    <3>1. icur \in Chunk
      BY Zenon DEF Structure, TypeOK, ChunkTypes, CacheTypes, WriterTypes,
         ImageTypes
    <3> QED
      BY <3>1, NoneFailed, Zenon DEF ImageGetFailed, chunk_state_check
  <2>2. CASE ImageDown
    BY <2>2, UntouchedQuiet, Zenon DEF ImageDown
  <2>3. CASE ImageGetCached
    BY <2>3, UntouchedQuiet, Zenon DEF ImageGetCached
  <2> QED
    BY <1>4, <2>1, <2>2, <2>3, ImageLoad_Data, ImageLoaded_Data, Zenon
    DEF ImageWorker, Visible
<1>5. CASE UNCHANGED vars
  BY <1>5, UntouchedQuiet, Zenon DEF vars
<1>6. ASSUME NEW w \in Writers, NEW b \in WriteBios, tracker_submit_bio(w, b)
      PROVE  Quiet
  BY <1>6, UntouchedQuiet, Zenon DEF tracker_submit_bio
<1> QED
  BY <1>1, <1>2, <1>3, <1>4, <1>5, <1>6, Zenon DEF Next, Visible

(* The copies stay in agreement, and what is saved stays saved.            *)
LEMMA Next_Agree ==
  ASSUME Structure, CopiesAgree, CopiedBeforeOverwritten, ~Broken, ~Broken',
         [Next]_vars
  PROVE  \A c \in Chunk : Agree(c)' /\ (IsSaved(c) => IsSaved(c)')
<1>1. CASE Quiet
  BY <1>1, Zenon DEF Quiet, ChunkKept
<1>2. ASSUME NEW w \in Writers, NEW d \in Data, DeviceWrite(w, d)
      PROVE  \A c \in Chunk : Agree(c)' /\ (IsSaved(c) => IsSaved(c)')
  BY <1>2, DeviceWrite_Data, Zenon DEF ChunkKept
<1>3. CASE \/ ImageRead \/ ImageLoadFails \/ ImageReadError \/ ImageEnd
           \/ \E b \in ImageBios : snapimage_submit_bio(b)
  BY <1>3, ImageRead_Data, ImageError_Data, ImageEnd_Data,
     snapimage_submit_bio_Data, Zenon
  DEF ChunkKept
<1>4. ASSUME NEW d \in Data, ImageWrite(d)
      PROVE  \A c \in Chunk : Agree(c)' /\ (IsSaved(c) => IsSaved(c)')
  BY <1>4, ImageWrite_Data, Zenon
<1> QED
  BY <1>1, <1>2, <1>3, <1>4, Next_Data, Zenon DEF Visible

(* As long as the snapshot is not broken, every step is a step, or a       *)
(* stuttering step, of the snapshot image.                                 *)
LEMMA Next_Image ==
  ASSUME Structure, Structure', CopiesAgree, CopiedBeforeOverwritten,
         [Next]_vars
  PROVE  [Image!Next]_(Image!vars)
<1>1. CASE Broken'
  <2>1. orig' \in [Chunk -> Data]
    BY Zenon DEF Structure, TypeOK, ChunkTypes, CacheTypes, WriterTypes,
       ImageTypes
  <2> QED
    BY <1>1, <2>1, Zenon DEF Image!Next, Image!Break, Image!Lost
<1>2. CASE ~Broken'
  <2>0. ~Broken
    BY <1>2, BrokenStays, Zenon
  <2>a. Broken' = Broken
    BY <1>2, <2>0, Zenon DEF Broken
  <2> DEFINE img == IF Broken THEN [c \in Chunk |-> NULL]
                    ELSE [c \in Chunk |-> Content(c)]
  <2>b. img = [c \in Chunk |-> Content(c)] /\ img' = [c \in Chunk |-> Content(c)']
    BY <1>2, <2>0, Zenon
  <2>c. ASSUME \A c \in Chunk : ChunkKept(c) PROVE img' = img
    BY <2>b, <2>c, Zenon DEF ChunkKept
  <2> DEFINE pos == IF ipc = "end" THEN ibio.last + 1 ELSE icur
  <2> HIDE DEF img
  <2>1. CASE Quiet
    <3>1. orig' = orig /\ reply' = reply /\ img' = img /\ ibio' = ibio
      BY <2>1, <2>c, Zenon DEF Quiet, RequestKept
    <3>2. pos' = pos /\ (ipc' # "idle") = (ipc # "idle")
      BY <2>1, Zenon DEF Quiet, RequestKept
    <3> QED
      BY <2>a, <3>1, <3>2, Zenon DEF Image!vars, img
  <2>2. ASSUME NEW w \in Writers, NEW d \in Data, DeviceWrite(w, d)
        PROVE  Image!Next
    <3>1. orig' \in [Chunk -> Data]
      BY Zenon DEF Structure, TypeOK, ChunkTypes, CacheTypes, WriterTypes,
         ImageTypes
    <3>2. reply' = reply /\ img' = img /\ ibio' = ibio
      BY <2>0, <2>2, <2>c, DeviceWrite_Data, Zenon DEF RequestKept
    <3>3. pos' = pos /\ (ipc' # "idle") = (ipc # "idle")
      BY <2>2, Zenon DEF DeviceWrite, imageVars
    <3>4. Image!WriteOriginal
      BY <2>a, <3>1, <3>2, <3>3, Zenon DEF Image!WriteOriginal, img
    <3> QED
      BY <2>0, <3>4, Zenon DEF Image!Next
  <2>s. ASSUME ipc = "io", ImageNext, orig' = orig PROVE Image!Serve
    <3>1. /\ ipc # "idle" /\ (ipc' # "idle") = (ipc # "idle")
          /\ pos = icur /\ icur <= ibio.last /\ pos' = icur + 1
          /\ ibio' = ibio
      BY <2>s, Served, Zenon
    <3> QED
      BY <2>a, <2>s, <3>1, Zenon DEF Image!Serve
  <2>3. CASE ImageRead
    <3>1. orig' = orig /\ img' = img
      BY <2>0, <2>3, <2>c, ImageRead_Data, Zenon
    <3>2. ipc = "io" /\ ImageNext /\ ~ibio.write /\ icur \in Chunk
      BY <2>3, Zenon DEF ImageRead, Structure, TypeOK, ChunkTypes, CacheTypes,
         WriterTypes, ImageTypes
    <3>3. reply' = <<pos, img[pos]>>
      BY <2>0, <2>3, <2>b, <3>2, ImageRead_Data, Zenon
    <3>4. Image!ReadImage
      BY <2>s, <3>1, <3>2, <3>3, Zenon DEF Image!ReadImage, img
    <3> QED
      BY <2>0, <3>4, Zenon DEF Image!Next
  <2>4. CASE ImageEnd
    <3>1. orig' = orig /\ reply' = NULL /\ img' = img
      BY <2>0, <2>4, <2>c, ImageEnd_Data, Zenon
    <3>2. /\ ipc = "end" /\ ipc' = "idle" /\ ibio' \in ImageBio
          /\ pos = ibio.last + 1 /\ pos' = 0
      BY <2>4, ChunkCountAssumption
      DEF ImageEnd, ImageBio, NoImageBio, Chunk
    <3>3. Image!End
      BY <2>a, <3>1, <3>2, Zenon DEF Image!End, img
    <3> QED
      BY <2>0, <3>3, Zenon DEF Image!Next
  <2>5. ASSUME NEW d \in Data, ImageWrite(d) PROVE Image!Next
    <3>1. orig' = orig /\ reply' = reply
      BY <2>0, <2>5, ImageWrite_Data, Zenon
    <3>2. ipc = "io" /\ ImageNext /\ ibio.write /\ icur \in Chunk
      BY <2>5, Zenon DEF ImageWrite, Structure, TypeOK, ChunkTypes, CacheTypes,
         WriterTypes, ImageTypes
    <3>3. img' = [img EXCEPT ![pos] = d]
      BY <2>0, <2>5, <2>b, <3>2, ImageWrite_Data, Zenon
    <3>4. Image!WriteImage(d)
      BY <2>s, <3>1, <3>2, <3>3, Zenon DEF Image!WriteImage, img
    <3> QED
      BY <2>0, <3>4, Zenon DEF Image!Next
  <2>6. CASE ImageLoadFails \/ ImageReadError
    <3>1. orig' = orig /\ reply' = reply /\ img' = img
      BY <2>0, <2>6, <2>c, ImageError_Data, Zenon
    <3>2. ipc # "idle" /\ ipc' = "end" /\ ibio' = ibio
      BY <2>0, <2>6, ImageError_Data, Zenon
    <3>3. Image!Fail
      BY <2>a, <3>1, <3>2, Zenon DEF Image!Fail, img
    <3> QED
      BY <2>0, <3>3, Zenon DEF Image!Next
  <2>7. ASSUME NEW b \in ImageBios, snapimage_submit_bio(b)
        PROVE  Image!Next
    <3>1. orig' = orig /\ reply' = reply /\ img' = img
      BY <2>0, <2>7, <2>c, snapimage_submit_bio_Data, Zenon
    <3>2. /\ ipc = "idle" /\ ipc' = "get_down"
          /\ b \in ImageBio /\ ibio' = b /\ icur' = b.first
      BY <2>0, <2>7, snapimage_submit_bio_Data, Zenon
    <3>3. Image!Submit
      BY <2>a, <3>1, <3>2, Zenon DEF Image!Submit, img
    <3> QED
      BY <2>0, <3>3, Zenon DEF Image!Next
  <2> QED
    BY <1>2, <2>0, <2>1, <2>2, <2>3, <2>4, <2>5, <2>6, <2>7, Next_Data, Zenon
    DEF Visible
<1> QED
  BY <1>1, <1>2, Zenon

-----------------------------------------------------------------------------
(* Writer w is passed on only if it was before, or if its chunks are saved. *)
Passes(w) ==
  pc'[w] = "pass" =>
    \/ pc[w] = "pass" /\ bio'[w] = bio[w]
    \/ \A c \in Covers(bio'[w]) : IsSaved(c)

(* The end of the loop of diff_area_wait().                                *)
LEMMA WaitChunk_Passes ==
  ASSUME NEW w \in Writers, Structure, ~Broken, WaitChunk(w)
  PROVE  \A v \in Writers : Passes(v)
<1> USE DEF WaitChunk
<1>1. cur[w] \in Chunk /\ "FAILED" \notin state[cur[w]]
  BY NoneFailed, Zenon DEF Structure, CopyProgress, Progress
<1>2. NextChunk(w, "wait_down", "pass")
  BY <1>1, Zenon DEF chunk_state_check
<1>3. ~HeldByIo(cur[w])
  BY <1>1, Zenon DEF Structure, LockDiscipline, Owned, HeldByWriter
<1>4. \A c \in Covers(bio[w]) : c < cur[w] \/ c = cur[w] => IsSaved(c)
  BY <1>3, Zenon DEF Structure, CopyProgress, Progress
<1>5. bio[w].last <= cur[w] =>
        \A c \in Covers(bio[w]) : c < cur[w] \/ c = cur[w]
  BY <1>1 DEF Structure, TypeOK, ChunkTypes, CacheTypes, WriterTypes,
     ImageTypes, Covers, Chunk, Bio, LastSector
<1>6. pc'[w] = "pass" => bio[w].last <= cur[w]
  BY <1>1, <1>2, ChunkCountAssumption
  DEF NextChunk, Goto, Structure, TypeOK, ChunkTypes, CacheTypes, WriterTypes,
      ImageTypes, Bio, LastSector, Chunk
<1>7. \A v \in Writers \ {w} : pc'[v] = pc[v] /\ bio'[v] = bio[v]
  BY <1>2, Zenon DEF NextChunk, Goto, Structure, TypeOK, ChunkTypes,
     CacheTypes, WriterTypes, ImageTypes
<1>8. bio'[w] = bio[w]
  BY <1>2, Zenon DEF NextChunk
<1> QED
  BY <1>4, <1>5, <1>6, <1>7, <1>8, Zenon DEF Passes

(* No step of a writer passes a write on too early.                        *)
LEMMA Next_Passes ==
  ASSUME Structure, ~Broken, ~Broken', ~is_corrupted, [Next]_vars,
         "signal" \notin Faults, "untracked" \notin Faults
  PROVE  \A v \in Writers : Passes(v)
<1>b. ~corrupt_flag /\ ~corrupt_flag'
  BY Zenon DEF Broken
<1>t. /\ pc = [v \in Writers |-> pc[v]]
      /\ bio = [v \in Writers |-> bio[v]]
  BY Zenon DEF Structure, TypeOK, ChunkTypes, CacheTypes, WriterTypes,
     ImageTypes
<1>u. ASSUME UNCHANGED writerVars PROVE \A v \in Writers : Passes(v)
  BY <1>u, Zenon DEF Passes, writerVars
<1>g. ASSUME NEW w \in Writers, NEW l, l # "pass", Goto(w, l),
             \A v \in Writers \ {w} : bio'[v] = bio[v]
      PROVE  \A v \in Writers : Passes(v)
  BY <1>g, <1>t, Zenon DEF Passes, Goto
<1>1. ASSUME NEW w \in Writers, Filter(w)
      PROVE  \A v \in Writers : Passes(v)
  <2>1. ~CopyNoChunk(w) /\ ~CopyFailed(w) /\ ~DownKilled(w)
    BY <1>b, Zenon DEF CopyNoChunk, CopyFailed, DownKilled
  <2>2. CASE Down(w)
    BY <2>2, <1>g, Zenon DEF Down
  <2>3. CASE TrylockFails(w)
    BY <2>3, <1>g, <1>t, Zenon DEF TrylockFails, FilterError, Done
  <2>4. CASE CopySkip(w) \/ CopyStore(w) \/ CopyLoad(w)
    BY <2>4, <1>g, Zenon DEF CopySkip, CopyStore, CopyLoad, NextChunk
  <2>5. CASE CopyStoreFails(w) \/ CopyLoadFails(w)
    BY <2>5, <1>g, Zenon DEF CopyStoreFails, CopyLoadFails, CopyFails
  <2>6. CASE SubmitBios(w)
    BY <2>6, <1>g, Zenon DEF SubmitBios
  <2>7. CASE \E d \in Data : DeviceWrite(w, d)
    BY <2>7, <1>g, <1>t, Zenon DEF DeviceWrite, Done
  <2> QED
    BY <1>1, <2>1, <2>2, <2>3, <2>4, <2>5, <2>6, <2>7, WaitChunk_Passes, Zenon
    DEF Filter
<1>2. ASSUME NEW w \in Writers, NEW b \in WriteBios, tracker_submit_bio(w, b)
      PROVE  \A v \in Writers : Passes(v)
  <2>1. Goto(w, "copy_down")
    BY <1>2, <1>b, Zenon DEF tracker_submit_bio, CbtError
  <2>2. \A v \in Writers \ {w} : bio'[v] = bio[v]
    BY <1>2, <1>t, Zenon DEF tracker_submit_bio
  <2> QED
    BY <2>1, <2>2, <1>g, Zenon
<1>3. ASSUME NEW c \in Chunk, Io(c) \/ chunk_notify_error(c)
      PROVE  UNCHANGED writerVars
  BY <1>3, Zenon
  DEF Io, DeviceLoad, chunk_notify_load, NotifyLoadFails, chunk_notify_store,
      NotifyStoreDirty, NotifyFailed, chunk_notify_error
<1>4. ASSUME CacheWorker PROVE UNCHANGED writerVars
  BY <1>4, Zenon
  DEF CacheWorker, CacheReleaseStart, CacheReleaseStop, CacheReleaseClean,
      CacheReleaseDirty, CacheReleaseFails, CacheReleaseFailed,
      diff_area_get_chunk_from_cache_and_write_lock
<1>5. ASSUME ImageWorker PROVE UNCHANGED writerVars
  BY <1>5, Zenon
  DEF ImageWorker, ImageDown, ImageGetFailed, ImageGetCached, ImageLoad,
      ImageLoadFails, ImageLoaded, ImageReadError, ImageRead, ImageWrite,
      ImageNext, ImageEnd, imageOther, writerVars
<1>6. ASSUME NEW b \in ImageBios, snapimage_submit_bio(b)
      PROVE  UNCHANGED writerVars
  BY <1>6, Zenon DEF snapimage_submit_bio, imageOther, writerVars
<1>7. CASE UNCHANGED vars
  BY <1>7, <1>u, Zenon DEF vars
<1> QED
  BY <1>1, <1>2, <1>3, <1>4, <1>5, <1>6, <1>7, <1>u, Zenon DEF Next

(* The change tracking map is never found corrupted.                       *)
LEMMA Next_Tracked ==
  ASSUME ~is_corrupted, "untracked" \notin Faults, [Next]_vars
  PROVE  ~is_corrupted'
<1>1. ASSUME NEW c \in Chunk, Io(c) \/ chunk_notify_error(c)
      PROVE  is_corrupted' = is_corrupted
  BY <1>1, Zenon
  DEF Io, DeviceLoad, chunk_notify_load, NotifyLoadFails, chunk_notify_store,
      NotifyStoreDirty, NotifyFailed, chunk_notify_error
<1>2. ASSUME CacheWorker PROVE is_corrupted' = is_corrupted
  BY <1>2, Zenon
  DEF CacheWorker, CacheReleaseStart, CacheReleaseStop, CacheReleaseClean,
      CacheReleaseDirty, CacheReleaseFails, CacheReleaseFailed,
      diff_area_get_chunk_from_cache_and_write_lock
<1>3. ASSUME NEW w \in Writers, Filter(w) PROVE is_corrupted' = is_corrupted
  BY <1>3, Zenon
  DEF Filter, CopyNoChunk, Down, TrylockFails, DownKilled, CopySkip,
      CopyStore, CopyStoreFails, CopyLoad, CopyLoadFails, CopyFailed,
      SubmitBios, WaitChunk, DeviceWrite
<1>4. ASSUME ImageWorker PROVE is_corrupted' = is_corrupted
  BY <1>4, Zenon
  DEF ImageWorker, ImageDown, ImageGetFailed, ImageGetCached, ImageLoad,
      ImageLoadFails, ImageLoaded, ImageReadError, ImageRead, ImageWrite,
      ImageNext, ImageEnd, imageOther
<1>5. ASSUME NEW w \in Writers, NEW b \in WriteBios, tracker_submit_bio(w, b)
      PROVE  ~is_corrupted'
  BY <1>5, Zenon DEF tracker_submit_bio, CbtError
<1> QED
  BY <1>1, <1>2, <1>3, <1>4, <1>5, Zenon
  DEF Next, snapimage_submit_bio, imageOther, vars

(* Copy before overwrite is preserved.                                     *)
LEMMA Next_Copied ==
  ASSUME Structure, CopiesAgree, CopiedBeforeOverwritten, ~is_corrupted,
         [Next]_vars, "signal" \notin Faults, "untracked" \notin Faults
  PROVE  CopiesAgree' /\ CopiedBeforeOverwritten'
<1>1. CASE Broken'
  BY <1>1, Zenon DEF CopiesAgree, CopiedBeforeOverwritten
<1>2. CASE ~Broken'
  <2>1. ~Broken
    BY <1>2, BrokenStays, Zenon
  <2>2. \A c \in Chunk : Agree(c)' /\ (IsSaved(c) => IsSaved(c)')
    BY <1>2, <2>1, Next_Agree, Zenon
  <2>3. ASSUME NEW v \in Writers, pc'[v] = "pass", NEW c \in Covers(bio'[v])
        PROVE  IsSaved(c)'
    <3>1. Passes(v)
      BY <1>2, <2>1, Next_Passes, Zenon
    <3>2. IsSaved(c) /\ c \in Chunk
      BY <2>1, <2>3, <3>1, Zenon DEF Passes, CopiedBeforeOverwritten, Covers
    <3> QED
      BY <2>2, <3>2, Zenon
  <2> QED
    BY <2>2, <2>3, Zenon DEF CopiesAgree, CopiedBeforeOverwritten, Covers
<1> QED
  BY <1>1, <1>2, Zenon

=============================================================================
