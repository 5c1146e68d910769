--------------------------- MODULE ImageIoProofs ----------------------------
(***************************************************************************)
(* The thread of the snapshot image preserves the structural invariant of  *)
(* DiffArea.                                                               *)
(***************************************************************************)
EXTENDS ImageIo, DiffAreaStepProofs

(* A step of the thread that touches no chunk.                             *)
LEMMA ImageStep ==
  ASSUME Structure, ImageTypes',
         ipc \notin {"get", "load", "io"}, ipc' \notin {"get", "load", "io"},
         ipc' # "idle" => icur' <= ibio'.last,
         UNCHANGED <<chunkVars, cacheVars, cache_release_work, corrupt_flag,
                     pending_io_count, is_corrupted, unsent, workerVars,
                     writerVars, orig>>
  PROVE  Structure'
<1>i. /\ LockDiscipline /\ DeadBranches /\ CopyProgress /\ HoldersConsistent
      /\ FailureRecorded /\ CacheExclusive
      /\ TypeOK /\ FlagsOK /\ ChunkTypes /\ CacheTypes
  BY Zenon DEF Structure, TypeOK
<1>t. TypeOK'
  <2>1. FlagsOK'
    BY <1>i, Zenon DEF FlagsOK
  <2>2. ChunkTypes' /\ CacheTypes'
    BY <1>i, Zenon DEF ChunkTypes, CacheTypes, chunkVars, cacheVars, workerVars
  <2> QED
    BY <1>i, <2>1, <2>2, ImageStepTypes, Zenon
<1>v. UNCHANGED <<lock, state, diff_io, diff_buffer, diff_region,
                  read_cache_queue, write_cache_queue,
                  cpc, cchunk, pc, bio, cur>>
  BY Zenon DEF chunkVars, cacheVars, workerVars, writerVars
<1>n. \A x : SameHolders(x) /\ (ImageUses(x)' => ImageUses(x))
  BY <1>v, Zenon DEF SameHolders, HeldByWriter, HeldByImage, HeldByCacheWorker,
     ImageUses
<1>1. LockDiscipline'
  BY <1>i, <1>n, <1>v, LockFrame, Zenon
<1>2. DeadBranches' /\ CopyProgress'
  BY <1>i, <1>v, FlagsFrame, StableFrame, ProgressFrame, Zenon
<1>3. CacheExclusive'
  BY <1>i, <1>n, <1>v, CacheFrame, Zenon DEF SameHolders
<1>4. HoldersConsistent'
  BY <1>i, <1>v, Zenon DEF HoldersConsistent
<1>5. AboutToFlag => AboutToFlag'
  BY <1>v, Zenon DEF AboutToFlag
<1>6. FailureRecorded'
  BY <1>i, <1>v, <1>5, FailureFrame, Zenon
<1> QED
  BY <1>t, <1>1, <1>2, <1>3, <1>4, <1>6, Zenon DEF Structure

(* A step of the thread on chunk c.                                        *)
LEMMA ImageChunkStep ==
  ASSUME NEW c \in Chunk, Structure, OnlyChunk(c), c = icur,
         FlagsOK', ChunkTypes', CacheTypes', ImageTypes',
         lock[c] = 1 \/ HeldByImage(c),
         UNCHANGED <<diff_io, corrupt_flag, workerVars, writerVars>>,
         \A x \in Chunk : x # c => ~HeldByImage(x)',
         lock'[c] = 0 <=> HeldByImage(c)',
         FlagsConsistent(c)', KeepsSaved(c), CacheExclusive',
         read_cache_queue' \cup write_cache_queue'
           \subseteq read_cache_queue \cup write_cache_queue \cup {c},
         ipc' = "load" => state'[c] \cap {"FAILED", "BUFFER_READY"} = {},
         ipc' = "io" => "BUFFER_READY" \in state'[c],
         ipc' # "idle" => icur' <= ibio'.last,
         "FAILED" \in state'[c] => "FAILED" \in state[c]
  PROVE  Structure'
<1>i. /\ LockDiscipline /\ DeadBranches /\ CopyProgress /\ HoldersConsistent
      /\ FailureRecorded /\ TypeOK /\ CacheTypes
  BY Zenon DEF Structure, TypeOK
<1>t. TypeOK'
  BY <1>i, ImageStepTypes, Zenon
<1>v. UNCHANGED <<cpc, cchunk, pc, bio, cur>>
  BY Zenon DEF workerVars, writerVars
<1>h. /\ ~HeldByCacheWorker(c) /\ ~HeldByIo(c) /\ ~HeldByIo(c)'
      /\ \A v \in Writers : ~HeldByWriter(v, c)
  <2>1. Owned(c) /\ (HeldByIo(c)' <=> HeldByIo(c))
    BY <1>i, Zenon DEF LockDiscipline, HeldByIo
  <2> QED
    BY <2>1 DEF Owned
<1>n. /\ \A v \in Writers, x \in Chunk : HeldByWriter(v, x)' <=> HeldByWriter(v, x)
      /\ \A x \in Chunk : x # c => ~HeldByImage(x)
      /\ \A x \in Chunk : HeldByCacheWorker(x)' <=> HeldByCacheWorker(x)
  BY <1>v, Zenon DEF HeldByWriter, HeldByImage, HeldByCacheWorker
<1>1. Owned(c)'
  BY <1>h, <1>n, Zenon DEF Owned
<1>2. LockDiscipline'
  BY <1>i, <1>n, <1>1, LockStep, Zenon DEF SameHolders
<1>3. DeadBranches'
  BY <1>i, FlagsStep, Zenon
<1>4. CopyProgress'
  BY <1>i, <1>v, StableStep, ProgressFrame, Zenon
<1>5. cpc = "release" =>
        /\ state'[cchunk] = state[cchunk]
        /\ cchunk \notin read_cache_queue' \cup write_cache_queue'
  <2>1. cpc = "release" => cchunk # c /\ cchunk \in Chunk
    BY <1>h, <1>i, Zenon DEF HeldByCacheWorker, CacheTypes
  <2> QED
    BY <1>i, <2>1, Zenon DEF HoldersConsistent, OnlyChunk, SameChunk
<1>6. ipc' \in {"load", "io"} => icur' = c
  <2>1. icur' \in Chunk
    BY Zenon DEF ImageTypes
  <2> QED
    BY <2>1, Zenon DEF HeldByImage
<1>7. HoldersConsistent'
  BY <1>i, <1>v, <1>5, <1>6, Zenon DEF HoldersConsistent
<1>8. AboutToFlag => AboutToFlag'
  BY <1>v, Zenon DEF AboutToFlag
<1>9. FailureRecorded'
  BY <1>i, <1>8, FailureStep, Zenon
<1> QED
  BY <1>t, <1>2, <1>3, <1>4, <1>7, <1>9, Zenon DEF Structure

(* The chunk the thread works on.                                          *)
LEMMA ImageAt ==
  ASSUME Structure, ipc \in {"get", "load", "io"}
  PROVE  \E c \in Chunk :
           /\ c = icur /\ lock[c] = 0 /\ HeldByImage(c)
           /\ ~HeldByIo(c) /\ ~HeldByCacheWorker(c)
           /\ FlagsConsistent(c)
<1>1. icur \in Chunk /\ lock[icur] = 0 /\ ~HeldByCacheWorker(icur) /\ ~HeldByIo(icur)
  BY ImageHolds, Zenon
<1>2. HeldByImage(icur)
  BY Zenon DEF HeldByImage
<1>3. FlagsConsistent(icur)
  BY <1>1, Zenon DEF Structure, DeadBranches
<1> QED
  BY <1>1, <1>2, <1>3, Zenon

(* The types that a step on chunks starts from.                            *)
LEMMA ImageKnows ==
  ASSUME Structure
  PROVE  /\ FlagsOK /\ ChunkTypes /\ CacheTypes /\ ImageTypes /\ CacheExclusive
         /\ ipc # "idle" => icur <= ibio.last
         /\ ipc = "load" => state[icur] \cap {"FAILED", "BUFFER_READY"} = {}
         /\ ipc = "io" => "BUFFER_READY" \in state[icur]
  BY Zenon DEF Structure, TypeOK, HoldersConsistent

(* What the thread leaves alone.                                           *)
LEMMA OtherFrame ==
  ASSUME UNCHANGED imageOther
  PROVE  UNCHANGED <<corrupt_flag, workerVars, writerVars>>
  BY Zenon DEF imageOther, workerVars, writerVars

LEMMA OtherCacheTypes ==
  ASSUME CacheTypes, UNCHANGED <<cacheVars, imageOther>>
  PROVE  CacheTypes'
<1>1. UNCHANGED <<read_cache_queue, read_cache_count, write_cache_queue,
                  write_cache_count, pending_io_count, unsent, cpc, cchunk>>
  BY Zenon DEF cacheVars, imageOther
<1> QED
  BY <1>1, Zenon DEF CacheTypes

LEMMA OtherFlags ==
  ASSUME FlagsOK, cache_release_work' \in BOOLEAN, UNCHANGED imageOther
  PROVE  FlagsOK'
<1>1. UNCHANGED <<corrupt_flag, is_corrupted>>
  BY Zenon DEF imageOther
<1> QED
  BY <1>1, Zenon DEF FlagsOK

LEMMA OtherOrig == ASSUME UNCHANGED imageOther PROVE orig' = orig
  BY Zenon DEF imageOther

(* The thread uses no other chunk than c, which it drops from the caches.  *)
LEMMA ImageDrops ==
  ASSUME NEW c \in Chunk, Structure, c = icur, icur' = icur, OnlyChunk(c),
         UNCHANGED imageOther,
         read_cache_queue' = read_cache_queue \ {c},
         write_cache_queue' = write_cache_queue \ {c}
  PROVE  CacheExclusive'
<1>1. UNCHANGED <<cpc, cchunk>>
  BY Zenon DEF imageOther
<1>2. \A x \in Chunk : x # c => /\ HeldByCacheWorker(x)' => HeldByCacheWorker(x)
                                /\ ImageUses(x)' => ImageUses(x)
  BY <1>1, Zenon DEF HeldByCacheWorker, ImageUses
<1> QED
  BY <1>2, ImageKnows, CacheDrop, Zenon

(* The caches stay as they are and so do the flags.                        *)
LEMMA ImageKeeps ==
  ASSUME NEW c \in Chunk, Structure, c = icur, icur' = icur,
         ipc' \in {"load", "io"} => c \notin read_cache_queue \cup write_cache_queue,
         UNCHANGED <<imageOther, cacheVars, state, diff_io>>
  PROVE  CacheExclusive'
<1>1. UNCHANGED <<cpc, cchunk, read_cache_queue, write_cache_queue>>
  BY Zenon DEF imageOther, cacheVars
<1>2. \A x \in read_cache_queue \cup write_cache_queue :
        /\ HeldByCacheWorker(x)' => HeldByCacheWorker(x)
        /\ ImageUses(x)' => ImageUses(x)
  BY <1>1, Zenon DEF HeldByCacheWorker, ImageUses
<1> QED
  BY <1>1, <1>2, ImageKnows, CacheFrame, Zenon

(* The semaphore of chunk c changes and nothing else of any chunk.         *)
LEMMA ImageLock ==
  ASSUME NEW c \in Chunk, Structure, c = icur, NEW n \in {0, 1},
         lock' = [lock EXCEPT ![c] = n],
         UNCHANGED <<state, diff_buffer, diff_region, diff_io, cacheVars,
                     cache_release_work, ibio, icur, bi_status, reply, imageOther>>,
         st' \in {"OK", "IOERR"},
         lock[c] = 1 \/ HeldByImage(c),
         \/ n = 0 /\ ipc' = "get" /\ ipc # "idle"
         \/ n = 1 /\ ipc' = "end" /\ ipc # "idle"
  PROVE  Structure'
<1>p. /\ FlagsOK /\ ChunkTypes /\ CacheTypes /\ ImageTypes
      /\ FlagsConsistent(c) /\ icur <= ibio.last
  BY ImageKnows, Zenon DEF Structure, DeadBranches
<1>o. orig' = orig
  BY OtherOrig, Zenon
<1>1. ChunkTypes' /\ OnlyChunk(c) /\ lock'[c] = n
  BY <1>o, <1>p, Zenon DEF ChunkTypes, OnlyChunk, SameChunk
<1>2. FlagsOK' /\ CacheTypes' /\ UNCHANGED <<corrupt_flag, workerVars, writerVars>>
  <2>1. cache_release_work' \in BOOLEAN
    BY <1>p, Zenon DEF FlagsOK
  <2> QED
    BY <1>p, <2>1, OtherFlags, OtherCacheTypes, OtherFrame, Zenon
<1>3. ImageTypes'
  BY <1>p, Zenon DEF ImageTypes
<1>4. FlagsConsistent(c)' /\ KeepsSaved(c)
  BY <1>p, Zenon DEF FlagsConsistent, KeepsSaved, IsSaved, HeldByIo,
     chunk_state_check
<1>5. CacheExclusive'
  BY ImageKeeps, Zenon
<1>6. /\ \A x \in Chunk : x # c => ~HeldByImage(x)'
      /\ HeldByImage(c)' <=> n = 0
  BY DEF HeldByImage
<1>7. read_cache_queue' \cup write_cache_queue'
        \subseteq read_cache_queue \cup write_cache_queue \cup {c}
  BY Zenon DEF cacheVars
<1>8. lock'[c] = 0 <=> HeldByImage(c)'
  BY <1>1, <1>6, Zenon
<1>9. ipc' \notin {"load", "io"} /\ icur' <= ibio'.last
  BY <1>p, Zenon
<1> QED
  BY <1>1, <1>2, <1>3, <1>4, <1>5, <1>6, <1>7, <1>8, <1>9, ImageChunkStep, Zenon

(* diff_area_image_io() fails while the thread holds a chunk.              *)
LEMMA ImageError_Structure ==
  ASSUME Structure, ipc \in {"get", "load"}, ImageError,
         UNCHANGED <<state, diff_buffer, diff_region, diff_io, cacheVars,
                     cache_release_work, imageOther>>
  PROVE  Structure'
<1>1. PICK c \in Chunk : c = icur /\ lock[c] = 0 /\ HeldByImage(c)
  BY ImageAt, Zenon
<1>2. /\ st' = "IOERR" /\ ipc' = "end" /\ UNCHANGED <<ibio, icur, bi_status, reply>>
      /\ lock' = up(icur)
  BY Zenon DEF ImageError
<1>3. lock' = [lock EXCEPT ![c] = 1]
  <2>1. lock' = [lock EXCEPT ![c] = lock[c] + 1]
    BY <1>1, <1>2, Zenon DEF up
  <2>2. lock[c] + 1 = 1
    BY <1>1
  <2> QED
    BY <2>1, <2>2, Zenon
<1>4. PICK n \in {0, 1} : n = 1
  BY Zenon
<1>5. st' \in {"OK", "IOERR"} /\ ipc # "idle" /\ lock' = [lock EXCEPT ![c] = n]
  BY <1>2, <1>3, <1>4, Zenon
<1> QED
  BY <1>1, <1>2, <1>4, <1>5, ImageLock, Zenon

(* diff_area_image_put_chunk(): the chunk enters a cache and the thread    *)
(* goes on to the next one.                                                *)
LEMMA ImagePut ==
  ASSUME NEW c \in Chunk, Structure, ipc = "io", c = icur,
         ChunkTypes', OnlyChunk(c), chunk_schedule_caching(c, state'[c]),
         lock'[c] = 1, ImageNext, diff_buffer'[c] \in Data,
         reply' \in {NULL} \cup (Chunk \X (Data \cup {NULL, Junk})),
         state'[c] = state[c] \/ state'[c] = state[c] \cup {"DIRTY"}
  PROVE  Structure'
<1>p. /\ FlagsOK /\ ChunkTypes /\ CacheTypes /\ ImageTypes /\ CacheExclusive
      /\ icur <= ibio.last /\ "BUFFER_READY" \in state[c]
  BY ImageKnows, Zenon
<1>h. /\ lock[c] = 0 /\ HeldByImage(c) /\ ~HeldByIo(c) /\ ~HeldByCacheWorker(c)
      /\ FlagsConsistent(c)
  BY ImageAt, Zenon
<1>n. /\ UNCHANGED <<diff_region, diff_io, ibio, st, bi_status, imageOther>>
      /\ ipc' \in {"get_down", "end"}
      /\ icur' = IF icur < ibio.last THEN icur + 1 ELSE icur
  BY Zenon DEF ImageNext
<1>1. icur' \in Chunk /\ icur' <= ibio'.last
  <2>1. icur \in Chunk /\ ibio.last \in Chunk
    BY <1>p, Zenon DEF ImageTypes, ImageBio
  <2> QED
    BY <1>n, <1>p, <2>1, ChunkCountAssumption DEF Chunk
<1>2. ImageTypes'
  BY <1>n, <1>p, <1>1, Zenon DEF ImageTypes
<1>3. FlagsOK'
  <2>1. cache_release_work' \in BOOLEAN
    BY Zenon DEF chunk_schedule_caching, StartWorkIfFull
  <2> QED
    BY <1>n, <1>p, <2>1, OtherFlags, Zenon
<1>q. /\ read_cache_queue' \cup write_cache_queue'
           \subseteq read_cache_queue \cup write_cache_queue \cup {c}
      /\ read_cache_queue' \subseteq Chunk /\ write_cache_queue' \subseteq Chunk
  BY <1>p DEF chunk_schedule_caching, CacheTypes
<1>4. CacheTypes'
  <2>1. read_cache_count' \in Int /\ write_cache_count' \in Int
    BY <1>p DEF chunk_schedule_caching, CacheTypes
  <2>2. UNCHANGED <<pending_io_count, unsent, cpc, cchunk>>
    BY <1>n, Zenon DEF imageOther
  <2> QED
    BY <1>p, <1>q, <2>1, <2>2, Zenon DEF CacheTypes
<1>5. "BUFFER_READY" \in state'[c] /\ diff_io'[c] = diff_io[c]
  BY <1>n, <1>p, Zenon
<1>6. ~HeldByIo(c)' /\ diff_io[c] \in {"none", "failed"}
  BY <1>h, <1>p, <1>5, Zenon DEF HeldByIo, ChunkTypes
<1>7. /\ state[c] \cap {"LOADING", "STORING", "FAILED"} = {} /\ diff_io[c] = "none"
      /\ "STORE_READY" \in state[c] => diff_region[c] \in Data
  BY <1>h, <1>p, <1>6, Zenon DEF FlagsConsistent
<1>8. FlagsConsistent(c)' /\ "FAILED" \notin state'[c]
  BY <1>n, <1>5, <1>7, Zenon DEF FlagsConsistent
<1>9. KeepsSaved(c)
  BY <1>h, Zenon DEF KeepsSaved, IsSaved, chunk_state_check
<1>10. \A x \in Chunk : ~HeldByImage(x)' /\ ~ImageUses(x)'
  BY <1>n, Zenon DEF HeldByImage, ImageUses
<1>11. CacheExclusive'
  <2>1. c \notin read_cache_queue \cup write_cache_queue
    BY <1>p, Zenon DEF CacheExclusive
  <2>2. \A x : HeldByCacheWorker(x)' <=> HeldByCacheWorker(x)
    BY <1>n, Zenon DEF HeldByCacheWorker, imageOther
  <2> QED
    BY <1>h, <1>p, <1>5, <1>6, <1>10, <2>1, <2>2, CacheEnter, Zenon
<1>12. UNCHANGED <<corrupt_flag, workerVars, writerVars>>
  BY <1>n, OtherFrame, Zenon
<1>13. ipc' \notin {"load", "io"} /\ lock'[c] # 0
  BY <1>n
<1> QED
  BY <1>h, <1>n, <1>q, <1>1, <1>2, <1>3, <1>4, <1>8, <1>9, <1>10, <1>11,
     ImageChunkStep, <1>12, <1>13, Zenon

-----------------------------------------------------------------------------
(* The actions                                                             *)

LEMMA snapimage_submit_bio_Structure ==
  ASSUME NEW b \in ImageBios, Structure, snapimage_submit_bio(b)
  PROVE  Structure'
<1>1. /\ ipc = "idle" /\ ibio' = b /\ icur' = b.first
      /\ ipc' \in {"end", "get_down"} /\ bi_status' \in {"IOERR", bi_status}
      /\ UNCHANGED <<chunkVars, cacheVars, cache_release_work, st, reply, imageOther>>
  BY Zenon DEF snapimage_submit_bio
<1>2. b \in ImageBio /\ b.first \in Chunk /\ b.first <= b.last
  BY Zenon DEF ImageBios, ImageBio
<1>3. ImageTypes
  BY ImageKnows, Zenon
<1>4. ImageTypes'
  BY <1>1, <1>2, <1>3, Zenon DEF ImageTypes
<1>5. UNCHANGED <<corrupt_flag, pending_io_count, is_corrupted, unsent, workerVars,
                  writerVars, orig>>
  BY <1>1, Zenon DEF imageOther, workerVars, writerVars
<1>6. ipc \notin {"get", "load", "io"} /\ ipc' \notin {"get", "load", "io"}
  BY <1>1, Zenon
<1>7. icur' <= ibio'.last
  BY <1>1, <1>2, Zenon
<1> QED
  BY <1>1, <1>4, <1>5, <1>6, <1>7, ImageStep, Zenon

LEMMA ImageDown_Structure ==
  ASSUME Structure, ImageDown
  PROVE  Structure'
<1>1. /\ ipc = "get_down" /\ lock[icur] = 1 /\ lock' = down(icur) /\ ipc' = "get"
      /\ UNCHANGED <<state, diff_buffer, diff_region, diff_io, cacheVars,
                     cache_release_work, ibio, icur, st, bi_status, reply,
                     imageOther>>
  BY Zenon DEF ImageDown
<1>2. ImageTypes
  BY ImageKnows, Zenon
<1>3. PICK c \in Chunk : c = icur
  BY <1>2, Zenon DEF ImageTypes
<1>4. lock' = [lock EXCEPT ![c] = 0]
  <2>1. lock' = [lock EXCEPT ![c] = lock[c] - 1]
    BY <1>1, <1>3, Zenon DEF down
  <2>2. lock[c] - 1 = 0
    BY <1>1, <1>3
  <2> QED
    BY <2>1, <2>2, Zenon
<1>5. PICK n \in {0, 1} : n = 0
  BY Zenon
<1>6. /\ st' \in {"OK", "IOERR"} /\ ipc # "idle" /\ lock' = [lock EXCEPT ![c] = n]
      /\ lock[c] = 1
  BY <1>1, <1>2, <1>3, <1>4, <1>5, Zenon DEF ImageTypes
<1> QED
  BY <1>1, <1>3, <1>5, <1>6, ImageLock, Zenon

LEMMA ImageGetFailed_Structure ==
  ASSUME Structure, ImageGetFailed
  PROVE  Structure'
  BY ImageError_Structure, Zenon DEF ImageGetFailed

LEMMA ImageLoadFails_Structure ==
  ASSUME Structure, ImageLoadFails
  PROVE  Structure'
  BY ImageError_Structure, Zenon DEF ImageLoadFails

LEMMA ImageReadError_Structure ==
  ASSUME Structure, ImageReadError
  PROVE  Structure'
  BY ImageError_Structure, Zenon DEF ImageReadError

(* The thread goes on with chunk c, whose semaphore it keeps.              *)
LEMMA ImageGoesOn ==
  ASSUME NEW c \in Chunk, Structure, ipc \in {"get", "load"}, c = icur,
         ChunkTypes', CacheTypes', OnlyChunk(c), lock'[c] = 0,
             ipc' \in {"load", "io"},
         UNCHANGED <<diff_io, cache_release_work, ibio, icur, st, bi_status,
             reply,
                     imageOther>>,
         FlagsConsistent(c)', KeepsSaved(c), CacheExclusive',
         read_cache_queue' \cup write_cache_queue'
           \subseteq read_cache_queue \cup write_cache_queue,
         ipc' = "load" => state'[c] \cap {"FAILED", "BUFFER_READY"} = {},
         ipc' = "io" => "BUFFER_READY" \in state'[c],
         "FAILED" \notin state'[c]
  PROVE  Structure'
<1>1. FlagsOK /\ ImageTypes /\ icur <= ibio.last
  BY ImageKnows, Zenon
<1>2. FlagsOK'
  <2>1. cache_release_work' \in BOOLEAN
    BY <1>1, Zenon DEF FlagsOK
  <2> QED
    BY <1>1, <2>1, OtherFlags, Zenon
<1>3. ImageTypes'
  BY <1>1, Zenon DEF ImageTypes
<1>4. UNCHANGED <<corrupt_flag, workerVars, writerVars>>
  BY OtherFrame, Zenon
<1>5. /\ HeldByImage(c) /\ HeldByImage(c)'
      /\ \A x \in Chunk : x # c => ~HeldByImage(x)'
  BY Zenon DEF HeldByImage
<1>6. /\ read_cache_queue' \cup write_cache_queue'
           \subseteq read_cache_queue \cup write_cache_queue \cup {c}
      /\ icur' <= ibio'.last
  BY <1>1, Zenon
<1> QED
  BY <1>1, <1>2, <1>3, <1>4, <1>5, <1>6, ImageChunkStep, Zenon

LEMMA ImageGetCached_Structure ==
  ASSUME Structure, ImageGetCached
  PROVE  Structure'
<1>1. /\ ipc = "get" /\ ipc' = "io"
      /\ ~chunk_state_check(icur, {"FAILED"}) /\ chunk_state_check(icur, {"BUFFER_READY"})
      /\ diff_area_take_chunk_from_cache(icur)
      /\ UNCHANGED <<chunkVars, cache_release_work, ibio, icur, st, bi_status, reply,
                     imageOther>>
  BY Zenon DEF ImageGetCached
<1>2. PICK c \in Chunk : /\ c = icur /\ lock[c] = 0 /\ FlagsConsistent(c)
  BY <1>1, ImageAt, Zenon
<1>p. ChunkTypes /\ CacheTypes
  BY ImageKnows, Zenon
<1>3. UNCHANGED <<lock, state, diff_buffer, diff_region, diff_io, orig>>
  BY <1>1, OtherOrig, Zenon DEF chunkVars
<1>4. ChunkTypes' /\ OnlyChunk(c)
  BY <1>p, <1>3, Zenon DEF ChunkTypes, OnlyChunk, SameChunk
<1>5. "FAILED" \notin state'[c] /\ "BUFFER_READY" \in state'[c]
  BY <1>1, <1>2, <1>3, Zenon DEF chunk_state_check
<1>6. /\ read_cache_queue' = read_cache_queue \ {c}
      /\ write_cache_queue' = write_cache_queue \ {c}
  BY <1>1, <1>2, Zenon DEF diff_area_take_chunk_from_cache, cacheVars
<1>7. CacheTypes'
  <2>1. read_cache_count' \in Int /\ write_cache_count' \in Int
    BY <1>p, <1>1 DEF diff_area_take_chunk_from_cache, cacheVars, CacheTypes
  <2>2. UNCHANGED <<pending_io_count, unsent, cpc, cchunk>>
    BY <1>1, Zenon DEF imageOther
  <2> QED
    BY <1>p, <1>6, <2>1, <2>2, Zenon DEF CacheTypes
<1>8. CacheExclusive'
  BY <1>1, <1>2, <1>4, <1>6, ImageDrops, Zenon
<1>9. FlagsConsistent(c)' /\ KeepsSaved(c) /\ lock'[c] = 0
  BY <1>2, <1>3, Zenon DEF FlagsConsistent, KeepsSaved, IsSaved, HeldByIo,
     chunk_state_check
<1>10. read_cache_queue' \cup write_cache_queue'
         \subseteq read_cache_queue \cup write_cache_queue
  BY <1>6, Zenon
<1> QED
  BY <1>1, <1>2, <1>3, <1>4, <1>5, <1>7, <1>8, <1>9, <1>10, ImageGoesOn, Zenon

LEMMA ImageLoad_Structure ==
  ASSUME Structure, ImageLoad
  PROVE  Structure'
<1>1. /\ ipc = "get" /\ ipc' = "load"
      /\ ~chunk_state_check(icur, {"FAILED", "BUFFER_READY"})
      /\ diff_buffer' = [diff_buffer EXCEPT ![icur] = Junk]
      /\ UNCHANGED <<lock, state, diff_region, diff_io, cacheVars, cache_release_work,
                     ibio, icur, st, bi_status, reply, imageOther>>
  BY Zenon DEF ImageLoad
<1>2. PICK c \in Chunk : /\ c = icur /\ lock[c] = 0 /\ ~HeldByIo(c)
                         /\ FlagsConsistent(c)
  BY <1>1, ImageAt, Zenon
<1>p. ChunkTypes /\ CacheTypes /\ CacheExclusive
  BY ImageKnows, Zenon
<1>3. /\ diff_buffer' = [diff_buffer EXCEPT ![c] = Junk]
      /\ orig' = orig
  BY <1>1, <1>2, OtherOrig, Zenon
<1>4. ChunkTypes' /\ OnlyChunk(c)
  BY <1>p, <1>1, <1>3, Zenon DEF ChunkTypes, OnlyChunk, SameChunk
<1>5. state'[c] = state[c] /\ state[c] \cap {"FAILED", "BUFFER_READY"} = {}
  BY <1>1, <1>2, Zenon DEF chunk_state_check
<1>6. c \notin read_cache_queue \cup write_cache_queue
  BY <1>p, <1>5, Zenon DEF CacheExclusive
<1>7. CacheTypes' /\ CacheExclusive'
  BY <1>p, <1>1, <1>2, <1>6, OtherCacheTypes, ImageKeeps, Zenon
<1>8. diff_io[c] \notin {"load", "loaded", "store"} /\ diff_io'[c] = diff_io[c]
  BY <1>1, <1>2, Zenon DEF HeldByIo
<1>9. FlagsConsistent(c)'
  BY <1>1, <1>2, <1>5, <1>8, Zenon DEF FlagsConsistent
<1>10. KeepsSaved(c) /\ lock'[c] = 0
  BY <1>1, <1>2, Zenon DEF KeepsSaved, IsSaved, HeldByIo, chunk_state_check
<1>11. /\ read_cache_queue' \cup write_cache_queue'
            \subseteq read_cache_queue \cup write_cache_queue
       /\ state'[c] \cap {"FAILED", "BUFFER_READY"} = {} /\ "FAILED" \notin state'[c]
  BY <1>1, <1>5, Zenon DEF cacheVars
<1> QED
  BY <1>1, <1>2, <1>4, <1>7, <1>9, <1>10, <1>11, ImageGoesOn, Zenon

LEMMA ImageLoaded_Structure ==
  ASSUME Structure, ImageLoaded
  PROVE  Structure'
<1>1. /\ ipc = "load" /\ ipc' = "io"
      /\ state' = [state EXCEPT ![icur] = state[icur] \cup {"BUFFER_READY"}]
      /\ UNCHANGED <<lock, diff_region, diff_io, cacheVars, cache_release_work,
                     ibio, icur, st, bi_status, reply, imageOther>>
  BY Zenon DEF ImageLoaded
<1>2. PICK c \in Chunk : /\ c = icur /\ lock[c] = 0 /\ ~HeldByIo(c)
                         /\ FlagsConsistent(c)
  BY <1>1, ImageAt, Zenon
<1>p. /\ ChunkTypes /\ CacheTypes /\ CacheExclusive
      /\ state[c] \cap {"FAILED", "BUFFER_READY"} = {}
  BY <1>1, <1>2, ImageKnows, Zenon
<1>g. state[c] \in SUBSET ChunkSt /\ state[c] \cup {"BUFFER_READY"} \in SUBSET ChunkSt
  BY <1>p, Zenon DEF ChunkTypes, ChunkSt
<1>d. PICK d \in Data : diff_buffer' = [diff_buffer EXCEPT ![c] = d]
  <2>1. "STORE_READY" \in state[c] => diff_region[c] \in Data
    BY <1>2, <1>p, Zenon DEF FlagsConsistent
  <2>2. orig[c] \in Data
    BY <1>p, Zenon DEF ChunkTypes
  <2>3. diff_buffer' = [diff_buffer EXCEPT
            ![c] = IF chunk_state_check(c, {"STORE_READY"}) THEN diff_region[c]
                   ELSE orig[c]]
    BY <1>2, Zenon DEF ImageLoaded
  <2> QED
    BY <2>1, <2>2, <2>3, Zenon DEF chunk_state_check
<1>3. state' = [state EXCEPT ![c] = state[c] \cup {"BUFFER_READY"}] /\ orig' = orig
  BY <1>1, <1>2, OtherOrig, Zenon
<1>4. ChunkTypes' /\ OnlyChunk(c)
  BY <1>d, <1>g, <1>p, <1>1, <1>3, ZenonT(60) DEF ChunkTypes, OnlyChunk, SameChunk
<1>5. /\ state'[c] = state[c] \cup {"BUFFER_READY"} /\ diff_buffer'[c] = d
      /\ diff_io'[c] = diff_io[c] /\ diff_region'[c] = diff_region[c] /\ lock'[c] = 0
  BY <1>d, <1>p, <1>1, <1>2, <1>3, Zenon DEF ChunkTypes
<1>6. c \notin read_cache_queue \cup write_cache_queue
  BY <1>p, Zenon DEF CacheExclusive
<1>7. CacheTypes' /\ UNCHANGED <<read_cache_queue, write_cache_queue>>
  BY <1>p, <1>1, OtherCacheTypes, Zenon DEF cacheVars
<1>8. CacheExclusive'
  <2>1. /\ read_cache_queue' = read_cache_queue \ {c}
        /\ write_cache_queue' = write_cache_queue \ {c}
    BY <1>6, <1>7, Zenon
  <2> QED
    BY <1>1, <1>2, <1>4, <2>1, ImageDrops, Zenon
<1>9. diff_io[c] \notin {"load", "loaded", "store", "failed"}
  BY <1>2, <1>p, Zenon DEF HeldByIo, FlagsConsistent
<1>10. FlagsConsistent(c)'
  BY <1>2, <1>p, <1>5, <1>9, Zenon DEF FlagsConsistent
<1>11. KeepsSaved(c)
  BY <1>2, <1>5, Zenon DEF KeepsSaved, IsSaved, HeldByIo, chunk_state_check
<1>12. /\ "BUFFER_READY" \in state'[c] /\ "FAILED" \notin state'[c]
       /\ read_cache_queue' \cup write_cache_queue'
            \subseteq read_cache_queue \cup write_cache_queue
  BY <1>p, <1>5, <1>7, Zenon
<1> QED
  BY <1>1, <1>2, <1>4, <1>5, <1>7, <1>8, <1>10, <1>11, <1>12, ImageGoesOn, Zenon

LEMMA ImageRead_Structure ==
  ASSUME Structure, ImageRead
  PROVE  Structure'
<1>1. /\ ipc = "io" /\ reply' = <<icur, diff_buffer[icur]>>
      /\ chunk_schedule_caching(icur, state[icur]) /\ ImageNext
      /\ UNCHANGED <<state, diff_buffer>>
  BY Zenon DEF ImageRead
<1>2. PICK c \in Chunk : /\ c = icur /\ lock[c] = 0 /\ FlagsConsistent(c)
  BY <1>1, ImageAt, Zenon
<1>p. ChunkTypes /\ "BUFFER_READY" \in state[c]
  BY <1>1, <1>2, ImageKnows, Zenon
<1>3. UNCHANGED <<diff_region, diff_io, imageOther>> /\ orig' = orig
  BY <1>1, OtherOrig, Zenon DEF ImageNext
<1>4. lock' = [lock EXCEPT ![c] = 1]
  <2>1. lock' = [lock EXCEPT ![c] = lock[c] + 1]
    BY <1>1, <1>2, Zenon DEF chunk_schedule_caching, up
  <2>2. lock[c] + 1 = 1
    BY <1>2
  <2> QED
    BY <2>1, <2>2, Zenon
<1>5. ChunkTypes' /\ OnlyChunk(c) /\ lock'[c] = 1
  BY <1>p, <1>1, <1>3, <1>4, Zenon DEF ChunkTypes, OnlyChunk, SameChunk
<1>6. /\ state'[c] = state[c] /\ diff_buffer'[c] \in Data
      /\ diff_buffer[c] \in Data \cup {NULL, Junk}
  BY <1>p, <1>1, <1>2, Zenon DEF FlagsConsistent, ChunkTypes
<1>7. reply' \in {NULL} \cup (Chunk \X (Data \cup {NULL, Junk}))
  BY <1>1, <1>2, <1>6, Zenon
<1>8. chunk_schedule_caching(c, state'[c])
  BY <1>1, <1>2, <1>6, Zenon
<1> QED
  BY <1>1, <1>2, <1>5, <1>6, <1>7, <1>8, ImagePut, Zenon

LEMMA ImageWrite_Structure ==
  ASSUME NEW d \in Data, Structure, ImageWrite(d)
  PROVE  Structure'
<1>1. /\ ipc = "io" /\ diff_buffer' = [diff_buffer EXCEPT ![icur] = d]
      /\ state' = [state EXCEPT ![icur] = state[icur] \cup {"DIRTY"}]
      /\ chunk_schedule_caching(icur, state[icur] \cup {"DIRTY"}) /\ ImageNext
      /\ UNCHANGED reply
  BY Zenon DEF ImageWrite
<1>2. PICK c \in Chunk : c = icur /\ lock[c] = 0
  BY <1>1, ImageAt, Zenon
<1>p. ChunkTypes /\ ImageTypes
  BY ImageKnows, Zenon
<1>3. UNCHANGED <<diff_region, diff_io, imageOther>> /\ orig' = orig
  BY <1>1, OtherOrig, Zenon DEF ImageNext
<1>4. lock' = [lock EXCEPT ![c] = 1]
  <2>1. lock' = [lock EXCEPT ![c] = lock[c] + 1]
    BY <1>1, <1>2, Zenon DEF chunk_schedule_caching, up
  <2>2. lock[c] + 1 = 1
    BY <1>2
  <2> QED
    BY <2>1, <2>2, Zenon
<1>g. PICK s \in SUBSET ChunkSt : s = state[c] \cup {"DIRTY"}
  BY <1>p, Zenon DEF ChunkTypes, ChunkSt
<1>5. state' = [state EXCEPT ![c] = s] /\ diff_buffer' = [diff_buffer EXCEPT ![c] = d]
  BY <1>g, <1>1, <1>2, Zenon
<1>6. ChunkTypes' /\ OnlyChunk(c) /\ lock'[c] = 1
  BY <1>p, <1>3, <1>4, <1>5, Zenon DEF ChunkTypes, OnlyChunk, SameChunk
<1>7. state'[c] = s /\ diff_buffer'[c] = d
  BY <1>p, <1>5, Zenon DEF ChunkTypes
<1>8. chunk_schedule_caching(c, state'[c]) /\ state'[c] = state[c] \cup {"DIRTY"}
  BY <1>g, <1>1, <1>2, <1>7, Zenon
<1>9. reply' \in {NULL} \cup (Chunk \X (Data \cup {NULL, Junk}))
  BY <1>p, <1>1, Zenon DEF ImageTypes
<1> QED
  BY <1>1, <1>2, <1>6, <1>7, <1>8, <1>9, ImagePut, Zenon

LEMMA ImageEnd_Structure ==
  ASSUME Structure, ImageEnd
  PROVE  Structure'
<1>1. /\ ipc = "end" /\ ipc' = "idle" /\ ibio' = NoImageBio /\ icur' = 0
      /\ st' = "OK" /\ bi_status' = "OK" /\ reply' = NULL
      /\ UNCHANGED <<chunkVars, cacheVars, cache_release_work, imageOther>>
  BY Zenon DEF ImageEnd
<1>2. ImageTypes'
  BY <1>1, InitialTypes, Zenon DEF ImageTypes
<1>3. UNCHANGED <<corrupt_flag, pending_io_count, is_corrupted, unsent, workerVars,
                  writerVars, orig>>
  BY <1>1, Zenon DEF imageOther, workerVars, writerVars
<1>4. ipc \notin {"get", "load", "io"} /\ ipc' \notin {"get", "load", "io"}
  BY <1>1, Zenon
<1> QED
  BY <1>1, <1>2, <1>3, <1>4, ImageStep, Zenon

=============================================================================
