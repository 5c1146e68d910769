--------------------------- MODULE DiffAreaProofs ---------------------------
(***************************************************************************)
(* The theorems about DiffArea, for every number of chunks, of writers and *)
(* of data values, every cache limit and every set of faults.              *)
(***************************************************************************)
EXTENDS DiffAreaDataProofs, ChunkIoProofs, CacheWorkerProofs,
        WriteFilterProofs, ImageIoProofs

LEMMA Next_Structure ==
  ASSUME Structure, [Next]_vars PROVE Structure'
<1>1. ASSUME NEW c \in Chunk, Io(c) \/ chunk_notify_error(c)
      PROVE  Structure'
  BY <1>1, DeviceLoad_Structure, chunk_notify_load_Structure,
     NotifyLoadFails_Structure, chunk_notify_store_Structure,
     NotifyStoreDirty_Structure, NotifyFailed_Structure,
     chunk_notify_error_Structure, Zenon
  DEF Io
<1>2. ASSUME CacheWorker PROVE Structure'
  BY <1>2, CacheReleaseStart_Structure, CacheReleaseStop_Structure,
     CacheReleaseClean_Structure, CacheReleaseDirty_Structure,
     CacheReleaseFails_Structure, CacheReleaseFailed_Structure,
     diff_area_get_chunk_from_cache_and_write_lock_Structure, Zenon
  DEF CacheWorker
<1>3. ASSUME NEW w \in Writers, Filter(w) PROVE Structure'
  BY <1>3, CopyNoChunk_Structure, Down_Structure, TrylockFails_Structure,
     DownKilled_Structure, CopySkip_Structure, CopyStore_Structure,
     CopyStoreFails_Structure, CopyLoad_Structure, CopyLoadFails_Structure,
     CopyFailed_Structure, SubmitBios_Structure, WaitChunk_Structure,
     DeviceWrite_Structure, Zenon
  DEF Filter
<1>4. ASSUME ImageWorker PROVE Structure'
  BY <1>4, ImageDown_Structure, ImageGetFailed_Structure,
     ImageGetCached_Structure, ImageLoad_Structure,
     ImageLoadFails_Structure, ImageLoaded_Structure,
     ImageReadError_Structure, ImageRead_Structure, ImageWrite_Structure,
     ImageEnd_Structure, Zenon
  DEF ImageWorker
<1>5. CASE UNCHANGED vars
  <2>1. UNCHANGED <<chunkVars, cacheVars, cache_release_work, corrupt_flag,
                    pending_io_count, is_corrupted, unsent, workerVars,
                    writerVars, imageVars, orig>>
    BY <1>5, Zenon DEF vars
  <2>2. UNCHANGED <<lock, state, diff_buffer, diff_region, diff_io,
                    read_cache_queue, read_cache_count, write_cache_queue,
                    write_cache_count, cpc, cchunk, pc, bio, cur, ipc, ibio, icur>>
    BY <2>1, Zenon DEF chunkVars, cacheVars, workerVars, writerVars, imageVars
  <2>3. /\ TypeOK /\ FlagsOK /\ ChunkTypes /\ CacheTypes
        /\ LockDiscipline /\ DeadBranches /\ CacheExclusive /\ CopyProgress
        /\ HoldersConsistent /\ FailureRecorded
    BY Zenon DEF Structure, TypeOK
  <2>4. TypeOK'
    <3>1. FlagsOK' /\ ChunkTypes' /\ CacheTypes'
      BY <2>1, <2>2, <2>3, Zenon DEF FlagsOK, ChunkTypes, CacheTypes
    <3> QED
      BY <2>1, <2>3, <3>1, IoTypes, Zenon
  <2>5. \A x : SameHolders(x) /\ (ImageUses(x)' => ImageUses(x))
    BY <2>2, Zenon DEF SameHolders, HeldByWriter, HeldByImage,
       HeldByCacheWorker,
                ImageUses
  <2>6. LockDiscipline' /\ DeadBranches' /\ CopyProgress'
    BY <2>2, <2>3, <2>5, LockFrame, FlagsFrame, StableFrame, ProgressFrame,
       Zenon
  <2>7. CacheExclusive'
    BY <2>2, <2>3, <2>5, CacheFrame, Zenon DEF SameHolders
  <2>8. HoldersConsistent'
    BY <2>2, <2>3, Zenon DEF HoldersConsistent
  <2>9. FailureRecorded'
    <3>1. AboutToFlag => AboutToFlag'
      BY <2>2, Zenon DEF AboutToFlag
    <3> QED
      BY <2>1, <2>2, <2>3, <3>1, FailureFrame, Zenon
  <2> QED
    BY <2>4, <2>6, <2>7, <2>8, <2>9, Zenon DEF Structure
<1> QED
  BY <1>1, <1>2, <1>3, <1>4, <1>5, tracker_submit_bio_Structure,
     snapimage_submit_bio_Structure, Zenon
  DEF Next

(* The structural invariant, whatever goes wrong: the types, the ownership *)
(* of the semaphores, the flags, the caches and the progress of the        *)
(* writers.                                                                *)
THEOREM StructureInvariant == Spec => []Structure
<1>1. Init => Structure
  BY Init_Structure, Zenon
<1>2. Structure /\ [Next]_vars => Structure'
  BY Next_Structure, Zenon
<1> QED
  BY <1>1, <1>2, PTL DEF Spec

(* The variables keep their types; the semaphore of a chunk (chunk.h:68)   *)
(* is never released twice.                                                *)
THEOREM TypeCorrect == Spec => []TypeOK
<1>1. Structure => TypeOK
  BY Zenon DEF Structure
<1> QED
  BY <1>1, StructureInvariant, PTL

(* Exactly one party owes the up() of a semaphore that is down, along      *)
(* every success and failure path of chunk.c, diff_area.c and tracker.c.   *)
THEOREM LocksOwned == Spec => []LockDiscipline
<1>1. Structure => LockDiscipline
  BY Zenon DEF Structure
<1> QED
  BY <1>1, StructureInvariant, PTL

(* The "Invalid chunk state" branches of chunk.c and diff_area.c are dead: *)
(* the flags of a chunk agree with its buffer, its region and its I/O.     *)
THEOREM InvalidStatesUnreachable == Spec => []DeadBranches
<1>1. Structure => DeadBranches
  BY Zenon DEF Structure
<1> QED
  BY <1>1, StructureInvariant, PTL

(* A chunk in one of the caches is loaded and nobody works on it, so the   *)
(* WARNs of chunk_free() and diff_area_release_chunk() never fire.         *)
THEOREM CachedChunksIdle == Spec => []CacheExclusive
<1>1. Structure => CacheExclusive
  BY Zenon DEF Structure
<1> QED
  BY <1>1, StructureInvariant, PTL

(* What diff_area_copy() left behind for diff_area_wait() is never undone, *)
(* so that diff_area_wait() meets no chunk it has no branch for.           *)
THEOREM WaitFindsSaved == Spec => []CopyProgress
<1>1. Structure => CopyProgress
  BY Zenon DEF Structure
<1> QED
  BY <1>1, StructureInvariant, PTL

(* A chunk that was given up has corrupted the snapshot, or the thread     *)
(* that gave it up is about to call diff_area_set_corrupted().             *)
THEOREM FailuresFlagged == Spec => []FailureRecorded
<1>1. Structure => FailureRecorded
  BY Zenon DEF Structure
<1> QED
  BY <1>1, StructureInvariant, PTL

-----------------------------------------------------------------------------
(* Without a fatal signal to a writer and without a write outside the      *)
(* change tracking map, every step preserves the inductive invariant,      *)
(* whatever allocations, I/Os and storage requests fail.                   *)
THEOREM DataInvariant ==
  ASSUME "signal" \notin Faults, "untracked" \notin Faults
  PROVE  Spec => []InductiveInvariant
<1>1. Init => InductiveInvariant
  <2> SUFFICES ASSUME Init PROVE InductiveInvariant
    BY Zenon
  <2>1. Structure
    BY Init_Structure, Zenon
  <2>2. CopiesAgree
    BY Zenon DEF Init, CopiesAgree, Agree, IsSaved, chunk_state_check
  <2>3. CopiedBeforeOverwritten
    BY Zenon DEF Init, CopiedBeforeOverwritten
  <2>4. ~is_corrupted
    BY Zenon DEF Init
  <2> QED
    BY <2>1, <2>2, <2>3, <2>4, Zenon DEF InductiveInvariant
<1>2. InductiveInvariant /\ [Next]_vars => InductiveInvariant'
  <2> SUFFICES ASSUME InductiveInvariant, [Next]_vars
               PROVE  InductiveInvariant'
    BY Zenon
  <2>0. Structure /\ CopiesAgree /\ CopiedBeforeOverwritten /\ ~is_corrupted
    BY Zenon DEF InductiveInvariant
  <2>1. Structure'
    BY <2>0, Next_Structure, Zenon
  <2>2. CopiesAgree' /\ CopiedBeforeOverwritten'
    BY <2>0, Next_Copied, Zenon
  <2>3. ~is_corrupted'
    BY <2>0, Next_Tracked, Zenon
  <2> QED
    BY <2>1, <2>2, <2>3, Zenon DEF InductiveInvariant
<1> QED
  BY <1>1, <1>2, PTL DEF Spec

(* The copies of a saved chunk in the buffer and in the storage hold what  *)
(* the image shows (chunk_notify_store(), diff_area_image_io()).           *)
THEOREM CopiesHoldImage ==
  ASSUME "signal" \notin Faults, "untracked" \notin Faults
  PROVE  Spec => []CopiesAgree
<1>1. InductiveInvariant => CopiesAgree
  BY Zenon DEF InductiveInvariant
<1> QED
  BY <1>1, DataInvariant, PTL

(* The filter never passes a write on to the original device before the    *)
(* chunks it covers are saved, unless the snapshot is given up             *)
(* (diff_area_copy() and diff_area_wait(), doc/blksnap.rst:148).           *)
THEOREM CopyOnWrite ==
  ASSUME "signal" \notin Faults, "untracked" \notin Faults
  PROVE  Spec => []CopiedBeforeOverwritten
<1>1. InductiveInvariant => CopiedBeforeOverwritten
  BY Zenon DEF InductiveInvariant
<1> QED
  BY <1>1, DataInvariant, PTL

(* The difference area implements the snapshot image: no interleaving of   *)
(* writers, image I/O, notifications and the cache worker changes what the *)
(* image shows or lets a read return anything else.                        *)
THEOREM Refinement ==
  ASSUME "signal" \notin Faults, "untracked" \notin Faults
  PROVE  Spec => ImplementsImage
<1>1. Init => Image!Init
  <2> SUFFICES ASSUME Init PROVE Image!Init
    BY Zenon
  <2>1. Broken = FALSE
    BY Zenon DEF Init, Broken
  <2>2. [c \in Chunk |-> Content(c)] = orig
    BY Zenon DEF Init, Content
  <2>3. ibio \in ImageBio
    BY ChunkCountAssumption DEF Init, ImageBio, NoImageBio, Chunk
  <2> QED
    BY <2>1, <2>2, <2>3, Zenon DEF Init, Image!Init
<1>2. InductiveInvariant /\ InductiveInvariant' /\ [Next]_vars
        => [Image!Next]_(Image!vars)
  BY Next_Image, Zenon DEF InductiveInvariant
<1> QED
  BY <1>1, <1>2, DataInvariant, PTL DEF Spec, ImplementsImage, Image!Spec

=============================================================================
