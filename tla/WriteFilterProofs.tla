-------------------------- MODULE WriteFilterProofs --------------------------
(***************************************************************************)
(* The writers preserve the structural invariant of DiffArea.              *)
(***************************************************************************)
EXTENDS WriteFilter, DiffAreaStepProofs

(* The locals of writer w after it moved to label l.                       *)
LEMMA WriterMoves ==
  ASSUME NEW w \in Writers, WriterTypes, NEW b \in Bio, NEW n \in Nat,
      NEW s \in SUBSET Chunk,
         NEW l \in {"idle", "copy_down", "copy", "submit", "wait_down", "wait",
                    "pass", "fail", "fail_again"},
         pc' = [pc EXCEPT ![w] = l], bio' = [bio EXCEPT ![w] = b],
         cur' = [cur EXCEPT ![w] = n],
         bio_list' = [bio_list EXCEPT ![w] = s] \/ bio_list' = bio_list
  PROVE  /\ WriterTypes' /\ OnlyWriter(w)
         /\ pc'[w] = l /\ bio'[w] = b /\ cur'[w] = n
<1>1. /\ pc' \in [Writers -> {"idle", "copy_down", "copy", "submit",
                             "wait_down", "wait", "pass", "fail", "fail_again"}]
      /\ pc'[w] = l /\ \A v \in Writers : v # w => pc'[v] = pc[v]
  BY Zenon DEF WriterTypes
<1>2. /\ cur' \in [Writers -> Nat]
      /\ cur'[w] = n /\ \A v \in Writers : v # w => cur'[v] = cur[v]
  BY Zenon DEF WriterTypes
<1>3. /\ bio' \in [Writers -> Bio]
      /\ bio'[w] = b /\ \A v \in Writers : v # w => bio'[v] = bio[v]
  BY Zenon DEF WriterTypes
<1>4. bio_list' \in [Writers -> SUBSET Chunk]
  BY Zenon DEF WriterTypes
<1> QED
  BY <1>1, <1>2, <1>3, <1>4, Zenon DEF WriterTypes, OnlyWriter, SameWriter

(* The same when the bio stays.                                            *)
LEMMA CurMoves ==
  ASSUME NEW w \in Writers, WriterTypes, NEW n \in Nat, NEW s \in SUBSET Chunk,
         NEW l \in {"idle", "copy_down", "copy", "submit", "wait_down", "wait",
                    "pass", "fail", "fail_again"},
         pc' = [pc EXCEPT ![w] = l], cur' = [cur EXCEPT ![w] = n], bio' = bio,
         bio_list' = [bio_list EXCEPT ![w] = s] \/ bio_list' = bio_list
  PROVE  /\ WriterTypes' /\ OnlyWriter(w)
         /\ pc'[w] = l /\ bio'[w] = bio[w] /\ cur'[w] = n
<1>1. /\ pc' \in [Writers -> {"idle", "copy_down", "copy", "submit",
                             "wait_down", "wait", "pass", "fail", "fail_again"}]
      /\ pc'[w] = l /\ \A v \in Writers : v # w => pc'[v] = pc[v]
  BY Zenon DEF WriterTypes
<1>2. /\ cur' \in [Writers -> Nat]
      /\ cur'[w] = n /\ \A v \in Writers : v # w => cur'[v] = cur[v]
  BY Zenon DEF WriterTypes
<1>3. bio_list' \in [Writers -> SUBSET Chunk]
  BY Zenon DEF WriterTypes
<1> QED
  BY <1>1, <1>2, <1>3, Zenon DEF WriterTypes, OnlyWriter, SameWriter

(* The same when only the label moves.                                     *)
LEMMA PcMoves ==
  ASSUME NEW w \in Writers, WriterTypes, NEW s \in SUBSET Chunk,
         NEW l \in {"idle", "copy_down", "copy", "submit", "wait_down", "wait",
                    "pass", "fail", "fail_again"},
         pc' = [pc EXCEPT ![w] = l], cur' = cur, bio' = bio,
         bio_list' = [bio_list EXCEPT ![w] = s] \/ bio_list' = bio_list
  PROVE  /\ WriterTypes' /\ OnlyWriter(w)
         /\ pc'[w] = l /\ bio'[w] = bio[w] /\ cur'[w] = cur[w]
<1>1. /\ pc' \in [Writers -> {"idle", "copy_down", "copy", "submit",
                             "wait_down", "wait", "pass", "fail", "fail_again"}]
      /\ pc'[w] = l /\ \A v \in Writers : v # w => pc'[v] = pc[v]
  BY Zenon DEF WriterTypes
<1>2. bio_list' \in [Writers -> SUBSET Chunk]
  BY Zenon DEF WriterTypes
<1> QED
  BY <1>1, <1>2, Zenon DEF WriterTypes, OnlyWriter, SameWriter

(* The filter is done with the bio or gave it up: nothing is promised.     *)
LEMMA NoProgress ==
  ASSUME NEW w \in Writers, pc'[w] \in {"idle", "pass", "fail", "fail_again"}
  PROVE  Progress(w)'
  BY Zenon DEF Progress

(* A step of writer w that touches no chunk.                               *)
LEMMA WriterStep ==
  ASSUME NEW w \in Writers, Structure, FlagsOK', WriterTypes', OnlyWriter(w),
         Progress(w)',
         pc[w] \notin {"copy", "wait"}, pc'[w] \notin {"copy", "wait"},
         UNCHANGED <<chunkVars, cacheVars, pending_io_count, workerVars,
                     imageVars>>,
         orig' \in [Chunk -> Data], unsent' \subseteq Chunk,
         corrupt_flag => corrupt_flag',
         pc[w] \in {"fail", "fail_again"} => corrupt_flag'
  PROVE  Structure'
<1>i. /\ LockDiscipline /\ DeadBranches /\ CopyProgress /\ HoldersConsistent
      /\ FailureRecorded /\ CacheExclusive /\ TypeOK /\ ChunkTypes /\ CacheTypes
  BY Zenon DEF Structure, TypeOK
<1>t. TypeOK'
  <2>1. ChunkTypes' /\ CacheTypes'
    BY <1>i, Zenon DEF ChunkTypes, CacheTypes, chunkVars, cacheVars, workerVars
  <2> QED
    BY <1>i, <2>1, WriterStepTypes, Zenon
<1>v. UNCHANGED <<lock, state, diff_io, diff_buffer, diff_region,
                  read_cache_queue, write_cache_queue,
                  cpc, cchunk, ipc, ibio, icur>>
  BY Zenon DEF chunkVars, cacheVars, workerVars, imageVars
<1>w. \A v \in Writers : v # w => SameWriter(v)
  BY Zenon DEF OnlyWriter
<1>n. \A x \in Chunk : SameHolders(x) /\ (ImageUses(x)' => ImageUses(x))
  BY <1>v, <1>w, Zenon DEF SameWriter, SameHolders, HeldByWriter, HeldByImage,
              HeldByCacheWorker, ImageUses
<1>1. LockDiscipline'
  BY <1>i, <1>n, <1>v, LockFrame, Zenon
<1>2. DeadBranches' /\ CopyProgress'
  BY <1>i, <1>v, FlagsFrame, StableFrame, ProgressStep, Zenon
<1>3. CacheExclusive'
  BY <1>i, <1>n, <1>v, CacheFrame, Zenon DEF SameHolders, CacheTypes
<1>4. HoldersConsistent'
  BY <1>i, <1>v, Zenon DEF HoldersConsistent
<1>5. AboutToFlag => corrupt_flag' \/ AboutToFlag'
  BY <1>v, <1>w, Zenon DEF AboutToFlag, SameWriter
<1>6. FailureRecorded'
  BY <1>i, <1>v, <1>5, FailureFrame, Zenon
<1> QED
  BY <1>t, <1>1, <1>2, <1>3, <1>4, <1>6, Zenon DEF Structure

(* A step of writer w that takes, gives up or hands over chunk c.          *)
LEMMA WriterChunkStep ==
  ASSUME NEW w \in Writers, NEW c \in Chunk, Structure,
         ChunkTypes', CacheTypes', WriterTypes',
         OnlyWriter(w), OnlyChunk(c), Progress(w)',
         UNCHANGED <<cache_release_work, corrupt_flag, is_corrupted, workerVars,
                     imageVars>>,
         lock[c] = 1 \/ HeldByWriter(w, c),
         \A x \in Chunk : x # c => ~HeldByWriter(w, x) /\ ~HeldByWriter(w, x)',
         lock'[c] = 0 <=> HeldByWriter(w, c)' \/ HeldByIo(c)',
         ~(HeldByWriter(w, c)' /\ HeldByIo(c)'),
         FlagsConsistent(c)', KeepsSaved(c), CacheExclusive',
         read_cache_queue' \cup write_cache_queue'
           \subseteq read_cache_queue \cup write_cache_queue,
         pc[w] \notin {"fail", "fail_again"},
         diff_io[c] = "failed" => diff_io'[c] = "failed",
         "FAILED" \in state'[c] =>
           "FAILED" \in state[c] \/ pc'[w] \in {"fail", "fail_again"}
  PROVE  Structure'
<1>i. /\ LockDiscipline /\ DeadBranches /\ CopyProgress /\ HoldersConsistent
      /\ FailureRecorded /\ TypeOK /\ FlagsOK /\ CacheTypes /\ ImageTypes
  BY Zenon DEF Structure, TypeOK
<1>t. TypeOK'
  <2>1. FlagsOK'
    BY <1>i, Zenon DEF FlagsOK
  <2> QED
    BY <1>i, <2>1, WriterStepTypes, Zenon
<1>v. UNCHANGED <<cpc, cchunk, ipc, ibio, icur>>
  BY Zenon DEF workerVars, imageVars
<1>w. \A v \in Writers : v # w => SameWriter(v)
  BY Zenon DEF OnlyWriter
<1>h. /\ ~HeldByImage(c) /\ ~HeldByCacheWorker(c)
      /\ \A v \in Writers : v # w => ~HeldByWriter(v, c)
  BY <1>i DEF LockDiscipline, Owned
<1>n. /\ \A v \in Writers, x \in Chunk : v # w =>
            (HeldByWriter(v, x)' <=> HeldByWriter(v, x))
      /\ \A x \in Chunk : HeldByImage(x)' <=> HeldByImage(x)
      /\ \A x \in Chunk : HeldByCacheWorker(x)' <=> HeldByCacheWorker(x)
  BY <1>v, <1>w, Zenon DEF SameWriter, HeldByWriter, HeldByImage,
     HeldByCacheWorker
<1>1. Owned(c)'
  BY <1>h, <1>n, Zenon DEF Owned
<1>2. LockDiscipline'
  BY <1>i, <1>n, <1>1, LockStep, Zenon DEF SameHolders
<1>3. DeadBranches'
  BY <1>i, FlagsStep, Zenon
<1>4. CopyProgress'
  BY <1>i, StableStep, ProgressStep, Zenon
<1>5. ~ImageUses(c)
  BY <1>h, Zenon DEF ImageUses, HeldByImage
<1>6. HoldersConsistent'
  BY <1>i, <1>h, <1>v, <1>5, HoldersStep, Zenon
<1>7. AboutToFlag => AboutToFlag'
  BY <1>v, <1>w, Zenon DEF AboutToFlag, OnlyChunk, SameChunk, SameWriter
<1>8. "FAILED" \in state'[c] => "FAILED" \in state[c] \/ AboutToFlag'
  BY Zenon DEF AboutToFlag
<1>9. FailureRecorded'
  BY <1>i, <1>7, <1>8, FailureStep, Zenon
<1> QED
  BY <1>t, <1>2, <1>3, <1>4, <1>6, <1>9, Zenon DEF Structure

(* The chunk that writer w works on.                                       *)
LEMMA WriterAt ==
  ASSUME NEW w \in Writers, NEW c \in Chunk, Structure,
         pc[w] \in {"copy", "wait"}, c = cur[w]
  PROVE  /\ lock[c] = 0 /\ ~HeldByIo(c) /\ ~HeldByCacheWorker(c)
         /\ ~ImageUses(c) /\ HeldByWriter(w, c)
         /\ \A x \in Chunk : x # c => ~HeldByWriter(w, x)
<1>1. HeldByWriter(w, c) /\ \A x \in Chunk : x # c => ~HeldByWriter(w, x)
  BY Zenon DEF HeldByWriter
<1>2. lock[c] = 0 /\ ~HeldByIo(c) /\ ~HeldByCacheWorker(c) /\ ~HeldByImage(c)
  BY WriterHolds, Zenon
<1> QED
  BY <1>1, <1>2, Zenon DEF ImageUses, HeldByImage

(* Writer w gives chunk c back or hands it over to an I/O.                 *)
LEMMA WriterLeaves ==
  ASSUME NEW w \in Writers, NEW c \in Chunk, Structure,
         pc[w] \in {"copy", "wait"}, c = cur[w], pc'[w] \notin {"copy", "wait"},
         ChunkTypes', CacheTypes', WriterTypes',
         OnlyWriter(w), OnlyChunk(c), Progress(w)',
         UNCHANGED <<cache_release_work, corrupt_flag, is_corrupted, workerVars,
                     imageVars>>,
         lock'[c] = 0 <=> HeldByIo(c)',
         FlagsConsistent(c)', KeepsSaved(c), CacheExclusive',
         read_cache_queue' \cup write_cache_queue'
           \subseteq read_cache_queue \cup write_cache_queue,
         diff_io[c] = "failed" => diff_io'[c] = "failed",
         "FAILED" \in state'[c] =>
           "FAILED" \in state[c] \/ pc'[w] \in {"fail", "fail_again"}
  PROVE  Structure'
<1>1. HeldByWriter(w, c) /\ \A x \in Chunk : x # c => ~HeldByWriter(w, x)
  BY WriterAt, Zenon
<1>2. \A x \in Chunk : ~HeldByWriter(w, x)'
  BY Zenon DEF HeldByWriter
<1>3. pc[w] \notin {"fail", "fail_again"}
  BY Zenon
<1> QED
  BY <1>1, <1>2, <1>3, WriterChunkStep, Zenon

(* A chunk is not cached while its buffer is not ready.                    *)
LEMMA NotCached ==
  ASSUME NEW c \in Chunk, CacheExclusive, CacheTypes, OnlyChunk(c),
         "BUFFER_READY" \notin state[c],
         UNCHANGED <<cacheVars, workerVars, imageVars>>
  PROVE  /\ CacheExclusive'
         /\ read_cache_queue' = read_cache_queue
         /\ write_cache_queue' = write_cache_queue
<1>1. c \notin read_cache_queue \cup write_cache_queue
  BY Zenon DEF CacheExclusive
<1>2. UNCHANGED <<read_cache_queue, write_cache_queue, cpc, cchunk, ipc, icur>>
  BY Zenon DEF cacheVars, workerVars, imageVars
<1>3. /\ \A x \in Chunk : HeldByCacheWorker(x)' => HeldByCacheWorker(x)
      /\ \A x \in Chunk : ImageUses(x)' => ImageUses(x)
  BY <1>2, Zenon DEF HeldByCacheWorker, ImageUses
<1>4. /\ read_cache_queue' = read_cache_queue \ {c}
      /\ write_cache_queue' = write_cache_queue \ {c}
  BY <1>1, <1>2, Zenon
<1> QED
  BY <1>2, <1>3, <1>4, CacheDrop, Zenon

(* diff_area_take_chunk_from_cache()                                       *)
LEMMA TakenFromCache ==
  ASSUME NEW c \in Chunk, CacheExclusive, CacheTypes, OnlyChunk(c),
         diff_area_take_chunk_from_cache(c), UNCHANGED <<workerVars, imageVars>>
  PROVE  /\ CacheExclusive'
         /\ read_cache_queue' = read_cache_queue \ {c}
         /\ write_cache_queue' = write_cache_queue \ {c}
         /\ read_cache_count' \in Int /\ write_cache_count' \in Int
<1>1. /\ read_cache_queue' = read_cache_queue \ {c}
      /\ write_cache_queue' = write_cache_queue \ {c}
  BY Zenon DEF diff_area_take_chunk_from_cache, cacheVars
<1>2. read_cache_count' \in Int /\ write_cache_count' \in Int
  BY DEF diff_area_take_chunk_from_cache, cacheVars, CacheTypes
<1>3. UNCHANGED <<cpc, cchunk, ipc, icur>>
  BY Zenon DEF workerVars, imageVars
<1>4. /\ \A x \in Chunk : HeldByCacheWorker(x)' => HeldByCacheWorker(x)
      /\ \A x \in Chunk : ImageUses(x)' => ImageUses(x)
  BY <1>3, Zenon DEF HeldByCacheWorker, ImageUses
<1> QED
  BY <1>1, <1>2, <1>4, CacheDrop, Zenon

(* The semaphore of chunk c changes and nothing else of any chunk.         *)
LEMMA LockOnly ==
  ASSUME NEW c \in Chunk, Structure, NEW n \in {0, 1},
         lock' = [lock EXCEPT ![c] = n],
         UNCHANGED <<state, diff_buffer, diff_region, diff_io, cacheVars,
                     pending_io_count, unsent, workerVars, imageVars, orig>>
  PROVE  /\ ChunkTypes' /\ CacheTypes' /\ OnlyChunk(c) /\ lock'[c] = n
         /\ state'[c] = state[c] /\ diff_io'[c] = diff_io[c]
         /\ FlagsConsistent(c)' /\ KeepsSaved(c) /\ CacheExclusive'
         /\ read_cache_queue' = read_cache_queue
         /\ write_cache_queue' = write_cache_queue
<1>1. ChunkTypes /\ CacheTypes /\ CacheExclusive /\ FlagsConsistent(c)
  BY AtChunk, Zenon
<1>2. ChunkTypes' /\ OnlyChunk(c) /\ lock'[c] = n
  BY <1>1, Zenon DEF ChunkTypes, OnlyChunk, SameChunk
<1>3. CacheTypes'
  BY <1>1, Zenon DEF CacheTypes, cacheVars, workerVars
<1>4. FlagsConsistent(c)' /\ KeepsSaved(c)
  BY <1>1, Zenon DEF FlagsConsistent, KeepsSaved, IsSaved, HeldByIo,
     chunk_state_check
<1>5. UNCHANGED <<read_cache_queue, write_cache_queue, cpc, cchunk, ipc, icur>>
  BY Zenon DEF cacheVars, workerVars, imageVars
<1>6. CacheExclusive'
  <2>1. \A x : /\ HeldByCacheWorker(x)' => HeldByCacheWorker(x)
               /\ ImageUses(x)' => ImageUses(x)
    BY <1>5, Zenon DEF HeldByCacheWorker, ImageUses
  <2> QED
    BY <1>1, <1>5, <2>1, CacheFrame, Zenon
<1> QED
  BY <1>2, <1>3, <1>4, <1>5, <1>6, Zenon

-----------------------------------------------------------------------------
(* The loops over the chunks of a bio                                      *)

LEMMA NextMoves ==
  ASSUME NEW w \in Writers, Structure, NEW s \in SUBSET Chunk,
         NEW again \in {"copy_down", "wait_down"}, NEW done \in {"submit",
             "pass"},
         NextChunk(w, again, done),
         bio_list' = [bio_list EXCEPT ![w] = s] \/ bio_list' = bio_list
  PROVE  /\ WriterTypes' /\ OnlyWriter(w) /\ pc'[w] \notin {"copy", "wait"}
         /\ cur'[w] = cur[w] + 1 /\ bio'[w] = bio[w]
         /\ pc'[w] = IF cur[w] < bio[w].last THEN again ELSE done
<1>1. WriterTypes
  BY Zenon DEF Structure, TypeOK
<1>2. cur[w] + 1 \in Nat /\ bio[w] \in Bio
  BY <1>1 DEF WriterTypes
<1>3. PICK l \in {"copy_down", "wait_down", "submit", "pass"} :
        l = IF cur[w] < bio[w].last THEN again ELSE done
  BY Zenon
<1>n. PICK n \in Nat : n = cur[w] + 1
  BY <1>2, Zenon
<1>4. /\ pc' = [pc EXCEPT ![w] = l] /\ cur' = [cur EXCEPT ![w] = n]
      /\ bio' = bio
  BY <1>n, <1>3, Zenon DEF NextChunk, Goto
<1>5. /\ WriterTypes' /\ OnlyWriter(w)
      /\ pc'[w] = l /\ bio'[w] = bio[w] /\ cur'[w] = n
  <2>1. l \in {"idle", "copy_down", "copy", "submit", "wait_down", "wait",
               "pass", "fail", "fail_again"}
    BY Zenon
  <2> QED
    BY <1>1, <1>4, <2>1, CurMoves, Zenon
<1>6. l \notin {"copy", "wait"}
  BY Zenon
<1> QED
  BY <1>n, <1>3, <1>5, <1>6, Zenon

(* The bounds of the bio of a writer that works on chunk c.                *)
LEMMA BioBounds ==
  ASSUME NEW w \in Writers, NEW c \in Chunk, Structure,
         pc[w] \in {"copy", "wait"}, c = cur[w]
  PROVE  /\ c \in Nat /\ bio[w].first \in Nat /\ bio[w].last \in Nat
         /\ bio[w].first <= c /\ c <= bio[w].last
         /\ \A x \in Covers(bio[w]) : x \in Nat /\ x \in Chunk /\ x <= bio[w].last
<1>1. Progress(w) /\ bio[w] \in Bio
  BY Zenon DEF Structure, TypeOK, WriterTypes, CopyProgress
<1>2. c \in Nat /\ bio[w].first \in Nat /\ bio[w].last \in Nat
  BY <1>1, ChunkCountAssumption DEF Chunk, Bio, LastSector
<1>3. bio[w].first <= c /\ c <= bio[w].last
  BY <1>1, Zenon DEF Progress
<1> QED
  BY <1>2, <1>3, ChunkCountAssumption DEF Covers, Chunk

(* diff_area_copy() goes on to the next chunk of the bio, or is done.      *)
LEMMA CopyNext ==
  ASSUME NEW w \in Writers, NEW c \in Chunk, Structure, Stable,
         pc[w] = "copy", c = cur[w], cur'[w] = c + 1, bio'[w] = bio[w],
         pc'[w] = IF c < bio[w].last THEN "copy_down" ELSE "submit",
         IsSaved(c)' \/ HeldByIo(c)'
  PROVE  Progress(w)'
<1>1. /\ c \in Nat /\ bio[w].first \in Nat /\ bio[w].last \in Nat
      /\ bio[w].first <= c /\ c <= bio[w].last
      /\ \A x \in Covers(bio[w]) : x \in Nat /\ x \in Chunk /\ x <= bio[w].last
  BY BioBounds, Zenon
<1>2. ASSUME NEW x \in Covers(bio[w]), x < c + 1
      PROVE  IsSaved(x)' \/ HeldByIo(x)'
  <2>1. CASE x = c
    BY <2>1, Zenon
  <2>2. CASE x < c
    <3>1. IsSaved(x) \/ HeldByIo(x)
      BY <1>1, <2>2, Zenon DEF Structure, CopyProgress, Progress
    <3> QED
      BY <1>1, <3>1, Zenon DEF Stable, KeepsSaved
  <2> QED
    BY <1>1, <1>2, <2>1, <2>2
<1>3. CASE c < bio[w].last
  BY <1>1, <1>2, <1>3 DEF Progress, Covers
<1>4. CASE ~(c < bio[w].last)
  <2>1. bio[w].last = c /\ \A x \in Covers(bio[w]) : x < c + 1
    BY <1>1, <1>4
  <2> QED
    BY <1>1, <1>2, <1>4, <2>1, Zenon DEF Progress, Covers
<1> QED
  BY <1>3, <1>4, Zenon

(* diff_area_wait() goes on to the next chunk of the bio, or is done.      *)
LEMMA WaitNext ==
  ASSUME NEW w \in Writers, NEW c \in Chunk, Structure, Stable,
         pc[w] = "wait", c = cur[w], cur'[w] = c + 1, bio'[w] = bio[w],
         pc'[w] = IF c < bio[w].last THEN "wait_down" ELSE "pass",
         IsSaved(c)
  PROVE  Progress(w)'
<1>1. /\ c \in Nat /\ bio[w].first \in Nat /\ bio[w].last \in Nat
      /\ bio[w].first <= c /\ c <= bio[w].last
      /\ \A x \in Covers(bio[w]) : x \in Nat /\ x \in Chunk /\ x <= bio[w].last
  BY BioBounds, Zenon
<1>2. /\ bio[w].last \in Chunk
      /\ \A x \in Covers(bio[w]) : /\ IsSaved(x) \/ HeldByIo(x)
                                   /\ x < c => IsSaved(x)
  BY Zenon DEF Structure, CopyProgress, Progress
<1>3. ASSUME NEW x \in Covers(bio[w])
      PROVE  /\ IsSaved(x)' \/ HeldByIo(x)'
             /\ x < c + 1 => IsSaved(x)'
  <2>1. x < c + 1 => IsSaved(x)
    BY <1>1, <1>2
  <2> QED
    BY <1>1, <1>2, <2>1, Zenon DEF Stable, KeepsSaved
<1>4. CASE c < bio[w].last
  <2>1. c + 1 \in Chunk
    BY <1>1, <1>2, <1>4, ChunkCountAssumption DEF Chunk
  <2> QED
    BY <1>1, <1>2, <1>3, <1>4, <2>1 DEF Progress, Covers
<1>5. CASE ~(c < bio[w].last)
  BY <1>5, Zenon DEF Progress
<1> QED
  BY <1>4, <1>5, Zenon

(* A failed call of the filter ends with the bio completed or passed on.   *)
LEMMA ErrorMoves ==
  ASSUME NEW w \in Writers, Structure, NEW err, FilterError(w, err)
  PROVE  /\ WriterTypes' /\ OnlyWriter(w) /\ Progress(w)'
         /\ pc'[w] \in {"idle", "pass"}
<1>1. WriterTypes /\ bio[w] \in Bio /\ cur[w] \in Nat
  BY Zenon DEF Structure, TypeOK, WriterTypes
<1>2. NoBio \in Bio /\ 0 \in Nat /\ {} \in SUBSET Chunk
  BY InitialTypes, Zenon
<1>3. bio_list' = [bio_list EXCEPT ![w] = {}]
  BY Zenon DEF FilterError
<1>4. CASE err = "EAGAIN"
  <2>1. /\ pc' = [pc EXCEPT ![w] = "idle"] /\ bio' = [bio EXCEPT ![w] = NoBio]
        /\ cur' = [cur EXCEPT ![w] = 0]
    BY <1>4, Zenon DEF FilterError, Done, Goto
  <2>2. WriterTypes' /\ OnlyWriter(w) /\ pc'[w] = "idle"
    BY <1>1, <1>2, <1>3, <2>1, WriterMoves, Zenon
  <2> QED
    BY <2>2, NoProgress, Zenon
<1>5. CASE err # "EAGAIN"
  <2>1. pc' = [pc EXCEPT ![w] = "pass"] /\ bio' = bio /\ cur' = cur
    BY <1>5, Zenon DEF FilterError, Goto
  <2>2. WriterTypes' /\ OnlyWriter(w) /\ pc'[w] = "pass"
    BY <1>1, <1>2, <1>3, <2>1, PcMoves, Zenon
  <2> QED
    BY <2>2, NoProgress, Zenon
<1> QED
  BY <1>4, <1>5, Zenon

(* diff_area_copy() gives a chunk up.                                      *)
LEMMA FailMoves ==
  ASSUME NEW w \in Writers, Structure, NEW err, CopyFails(w, err)
  PROVE  /\ WriterTypes' /\ OnlyWriter(w) /\ Progress(w)'
         /\ pc'[w] \in {"fail", "fail_again"} /\ UNCHANGED unsent
<1>1. WriterTypes /\ bio[w] \in Bio /\ cur[w] \in Nat /\ {} \in SUBSET Chunk
  BY Zenon DEF Structure, TypeOK, WriterTypes
<1>2. PICK l \in {"fail", "fail_again"} : pc' = [pc EXCEPT ![w] = l]
  BY Zenon DEF CopyFails, Goto
<1>3. UNCHANGED <<unsent, bio, cur, bio_list>>
  BY Zenon DEF CopyFails
<1>4. WriterTypes' /\ OnlyWriter(w) /\ pc'[w] = l
  BY <1>1, <1>2, <1>3, PcMoves, Zenon
<1> QED
  BY <1>3, <1>4, NoProgress, Zenon

-----------------------------------------------------------------------------
(* The actions                                                             *)

LEMMA tracker_submit_bio_Structure ==
  ASSUME NEW w \in Writers, NEW b \in WriteBios, Structure,
      tracker_submit_bio(w, b)
  PROVE  Structure'
<1>y. WriterTypes /\ orig \in [Chunk -> Data] /\ unsent \subseteq Chunk
  BY Zenon DEF Structure, TypeOK, ChunkTypes, CacheTypes, WriterTypes
<1>1. /\ pc[w] = "idle" /\ bio' = [bio EXCEPT ![w] = b]
      /\ cur' = [cur EXCEPT ![w] = b.first] /\ is_corrupted' = CbtError(b)
      /\ UNCHANGED <<chunkVars, cacheVars, cache_release_work, corrupt_flag,
                     pending_io_count, unsent, workerVars, bio_list, imageVars,
                     orig>>
  BY Zenon DEF tracker_submit_bio
<1>2. PICK l \in {"pass", "copy_down"} : pc' = [pc EXCEPT ![w] = l]
  BY Zenon DEF tracker_submit_bio, Goto
<1>3. /\ b \in Bio /\ b.first \in Nat /\ b.last \in Nat /\ b.first <= b.last
      /\ {} \in SUBSET Chunk
  BY ChunkCountAssumption DEF WriteBios, Bio, LastSector
<1>4. /\ WriterTypes' /\ OnlyWriter(w)
      /\ pc'[w] = l /\ bio'[w] = b /\ cur'[w] = b.first
  <2>1. PICK n \in Nat : n = b.first
    BY <1>3, Zenon
  <2>2. cur' = [cur EXCEPT ![w] = n]
    BY <1>1, <2>1, Zenon
  <2>3. /\ WriterTypes' /\ OnlyWriter(w)
        /\ pc'[w] = l /\ bio'[w] = b /\ cur'[w] = n
    BY <1>y, <1>1, <1>2, <1>3, <2>2, WriterMoves, Zenon
  <2> QED
    BY <2>1, <2>3, Zenon
<1>5. \A x \in Covers(b) : ~(x < b.first)
  BY <1>3, ChunkCountAssumption DEF Covers, Chunk
<1>6. Progress(w)'
  BY <1>3, <1>4, <1>5 DEF Progress, Covers
<1>f. FlagsOK'
  <2>1. FlagsOK
    BY Zenon DEF Structure, TypeOK
  <2>2. is_corrupted' \in BOOLEAN
    BY <1>1, <2>1, Zenon DEF CbtError, FlagsOK
  <2> QED
    BY <1>1, <2>1, <2>2, Zenon DEF FlagsOK
<1> QED
  BY <1>f, <1>y, <1>1, <1>2, <1>4, <1>6, WriterStep, Zenon

LEMMA CopyNoChunk_Structure ==
  ASSUME NEW w \in Writers, Structure, CopyNoChunk(w)
  PROVE  Structure'
<1>y. WriterTypes /\ orig \in [Chunk -> Data] /\ unsent \subseteq Chunk
  BY Zenon DEF Structure, TypeOK, ChunkTypes, CacheTypes, WriterTypes
<1>1. /\ pc[w] = "copy_down"
      /\ corrupt_flag' = TRUE /\ UNCHANGED <<cache_release_work, is_corrupted>>
      /\ UNCHANGED <<chunkVars, cacheVars, pending_io_count, unsent, workerVars,
                     imageVars, orig>>
  BY Zenon DEF CopyNoChunk
<1>2. \E err : FilterError(w, err)
  BY Zenon DEF CopyNoChunk
<1>3. WriterTypes' /\ OnlyWriter(w) /\ Progress(w)' /\ pc'[w] \in {"idle", "pass"}
  BY <1>2, ErrorMoves, Zenon
<1>f. FlagsOK'
  <2>1. FlagsOK
    BY Zenon DEF Structure, TypeOK
  <2> QED
    BY <1>1, <2>1, Zenon DEF FlagsOK
<1> QED
  BY <1>f, <1>y, <1>1, <1>3, WriterStep, Zenon

LEMMA Down_Structure ==
  ASSUME NEW w \in Writers, Structure, Down(w)
  PROVE  Structure'
<1>1. /\ pc[w] \in {"copy_down", "wait_down"} /\ cur[w] \in Chunk
      /\ lock[cur[w]] = 1
      /\ UNCHANGED <<state, diff_buffer, diff_region, diff_io, cacheVars,
                     cache_release_work, corrupt_flag, pending_io_count,
                     is_corrupted, unsent, workerVars, bio, cur, bio_list,
                     imageVars, orig>>
  BY Zenon DEF Down
<1>k. PICK c \in Chunk : c = cur[w]
  BY <1>1, Zenon
<1>2. lock[c] = 1 /\ lock' = [lock EXCEPT ![c] = lock[c] - 1]
  BY <1>1, <1>k, Zenon DEF Down, down
<1>3. lock' = [lock EXCEPT ![c] = 0]
  BY <1>2
<1>4. /\ ChunkTypes' /\ CacheTypes' /\ OnlyChunk(c) /\ lock'[c] = 0
      /\ state'[c] = state[c] /\ diff_io'[c] = diff_io[c]
      /\ FlagsConsistent(c)' /\ KeepsSaved(c) /\ CacheExclusive'
      /\ read_cache_queue' = read_cache_queue
      /\ write_cache_queue' = write_cache_queue
  BY <1>1, <1>3, LockOnly, Zenon
<1>5. PICK l \in {"copy", "wait"} :
        /\ pc' = [pc EXCEPT ![w] = l]
        /\ l = "copy" <=> pc[w] = "copy_down"
  BY <1>1, Zenon DEF Down, Goto
<1>6. WriterTypes /\ bio[w] \in Bio /\ cur[w] \in Nat /\ {} \in SUBSET Chunk
  BY Zenon DEF Structure, TypeOK, WriterTypes
<1>7. /\ WriterTypes' /\ OnlyWriter(w)
      /\ pc'[w] = l /\ bio'[w] = bio[w] /\ cur'[w] = c
  BY <1>k, <1>1, <1>5, <1>6, PcMoves, Zenon
<1>8. Progress(w)'
  <2>1. Progress(w) /\ Stable
    BY <1>4, StableStep, Zenon DEF Structure, CopyProgress
  <2>2. \A x \in Covers(bio[w]) : x \in Chunk
    BY Zenon DEF Covers
  <2>3. \A x \in Covers(bio[w]) : /\ IsSaved(x) => IsSaved(x)'
                                  /\ HeldByIo(x) => HeldByIo(x)' \/ IsSaved(x)'
    BY <2>1, <2>2, Zenon DEF Stable, KeepsSaved
  <2>4. Covers(bio'[w]) = Covers(bio[w])
    BY <1>7, Zenon
  <2>5. CASE l = "copy"
    BY <1>k, <1>5, <1>7, <2>1, <2>3, <2>4, <2>5, Zenon DEF Progress, Covers
  <2>6. CASE l = "wait"
    BY <1>k, <1>1, <1>5, <1>7, <2>1, <2>3, <2>4, <2>6, Zenon DEF Progress,
       Covers
  <2> QED
    BY <2>5, <2>6, Zenon
<1>9. /\ ~HeldByIo(c) /\ ~HeldByIo(c)' /\ HeldByWriter(w, c)'
      /\ \A x \in Chunk : x # c => ~HeldByWriter(w, x) /\ ~HeldByWriter(w, x)'
  BY <1>1, <1>2, <1>4, <1>7, NobodyHolds, Zenon DEF HeldByWriter, HeldByIo
<1>10. pc[w] \notin {"fail", "fail_again"}
  BY <1>1, Zenon
<1> QED
  BY <1>1, <1>2, <1>4, <1>7, <1>8, <1>9, <1>10, WriterChunkStep, Zenon

LEMMA TrylockFails_Structure ==
  ASSUME NEW w \in Writers, Structure, TrylockFails(w)
  PROVE  Structure'
<1>y. WriterTypes /\ orig \in [Chunk -> Data] /\ unsent \subseteq Chunk
  BY Zenon DEF Structure, TypeOK, ChunkTypes, CacheTypes, WriterTypes
<1>1. /\ pc[w] \in {"copy_down", "wait_down"}
      /\ UNCHANGED <<cache_release_work, corrupt_flag, is_corrupted>>
      /\ UNCHANGED <<chunkVars, cacheVars, pending_io_count, unsent, workerVars,
                     imageVars, orig>>
  BY Zenon DEF TrylockFails
<1>2. \E err : FilterError(w, err)
  BY Zenon DEF TrylockFails
<1>3. WriterTypes' /\ OnlyWriter(w) /\ Progress(w)' /\ pc'[w] \in {"idle", "pass"}
  BY <1>2, ErrorMoves, Zenon
<1>f. FlagsOK'
  <2>1. FlagsOK
    BY Zenon DEF Structure, TypeOK
  <2> QED
    BY <1>1, <2>1, Zenon DEF FlagsOK
<1> QED
  BY <1>f, <1>y, <1>1, <1>3, WriterStep, Zenon

LEMMA DownKilled_Structure ==
  ASSUME NEW w \in Writers, Structure, DownKilled(w)
  PROVE  Structure'
<1>y. WriterTypes /\ orig \in [Chunk -> Data] /\ unsent \subseteq Chunk
  BY Zenon DEF Structure, TypeOK, ChunkTypes, CacheTypes, WriterTypes
<1>1. /\ pc[w] \in {"copy_down", "wait_down"}
      /\ UNCHANGED <<cache_release_work, corrupt_flag, is_corrupted>>
      /\ UNCHANGED <<chunkVars, cacheVars, pending_io_count, unsent, workerVars,
                     imageVars, orig>>
  BY Zenon DEF DownKilled
<1>2. \E err : FilterError(w, err)
  BY Zenon DEF DownKilled
<1>3. WriterTypes' /\ OnlyWriter(w) /\ Progress(w)' /\ pc'[w] \in {"idle", "pass"}
  BY <1>2, ErrorMoves, Zenon
<1>f. FlagsOK'
  <2>1. FlagsOK
    BY Zenon DEF Structure, TypeOK
  <2> QED
    BY <1>1, <2>1, Zenon DEF FlagsOK
<1> QED
  BY <1>f, <1>y, <1>1, <1>3, WriterStep, Zenon

LEMMA CopySkip_Structure ==
  ASSUME NEW w \in Writers, Structure, CopySkip(w)
  PROVE  Structure'
<1>1. /\ pc[w] = "copy" /\ chunk_state_check(cur[w], Saved)
      /\ lock' = up(cur[w]) /\ NextChunk(w, "copy_down", "submit")
      /\ UNCHANGED bio_list
      /\ UNCHANGED <<state, diff_buffer, diff_region, diff_io, cacheVars,
                     cache_release_work, corrupt_flag, pending_io_count,
                     is_corrupted, unsent, workerVars, imageVars, orig>>
  BY Zenon DEF CopySkip
<1>k. PICK c \in Chunk : c = cur[w]
  BY <1>1, WriterHolds, Zenon
<1>a. lock[c] = 0 /\ ~HeldByIo(c)
  BY <1>k, <1>1, WriterAt, Zenon
<1>p. /\ ChunkTypes /\ CacheTypes /\ CacheExclusive /\ FlagsConsistent(c)
      /\ WriterTypes
  BY AtChunk, Zenon DEF TypeOK
<1>3. lock' = [lock EXCEPT ![c] = 1]
  <2>1. lock' = [lock EXCEPT ![c] = lock[c] + 1]
    BY <1>k, <1>1, Zenon DEF up
  <2>2. lock[c] + 1 = 1
    BY <1>a
  <2> QED
    BY <2>1, <2>2, Zenon
<1>4. /\ ChunkTypes' /\ CacheTypes' /\ OnlyChunk(c) /\ lock'[c] = 1
      /\ state'[c] = state[c] /\ diff_io'[c] = diff_io[c]
      /\ FlagsConsistent(c)' /\ KeepsSaved(c) /\ CacheExclusive'
      /\ read_cache_queue' = read_cache_queue
      /\ write_cache_queue' = write_cache_queue
  BY <1>1, <1>3, LockOnly, Zenon
<1>5. ~HeldByIo(c)' /\ Stable
  BY <1>a, <1>4, StableStep, Zenon DEF HeldByIo
<1>6. /\ WriterTypes' /\ OnlyWriter(w) /\ pc'[w] \notin {"copy", "wait"}
      /\ cur'[w] = c + 1 /\ bio'[w] = bio[w]
      /\ pc'[w] = IF c < bio[w].last THEN "copy_down" ELSE "submit"
  <2>1. {} \in SUBSET Chunk
    BY Zenon
  <2> QED
    BY <1>k, <1>1, <2>1, NextMoves, Zenon
<1>7. IsSaved(c)'
  BY <1>k, <1>1, <1>4, Zenon DEF IsSaved, chunk_state_check
<1>8. Progress(w)'
  BY <1>k, <1>1, <1>5, <1>6, <1>7, CopyNext, Zenon
<1> QED
  BY <1>k, <1>1, <1>4, <1>5, <1>6, <1>8, WriterLeaves, SMTT(60)

LEMMA CopyStore_Structure ==
  ASSUME NEW w \in Writers, Structure, CopyStore(w)
  PROVE  Structure'
<1>1. /\ pc[w] = "copy" /\ ~chunk_state_check(cur[w], Saved)
      /\ chunk_state_check(cur[w], {"BUFFER_READY"})
      /\ diff_area_take_chunk_from_cache(cur[w])
      /\ chunk_schedule_storing(cur[w], state[cur[w]])
      /\ QueueBios(w) /\ NextChunk(w, "copy_down", "submit")
      /\ UNCHANGED <<cache_release_work, corrupt_flag, is_corrupted, workerVars,
                     imageVars, orig>>
  BY Zenon DEF CopyStore
<1>k. PICK c \in Chunk : c = cur[w]
  BY <1>1, WriterHolds, Zenon
<1>a. lock[c] = 0 /\ ~HeldByIo(c)
  BY <1>k, <1>1, WriterAt, Zenon
<1>p. /\ ChunkTypes /\ CacheTypes /\ CacheExclusive /\ FlagsConsistent(c)
      /\ WriterTypes
  BY AtChunk, Zenon DEF TypeOK
<1>g. /\ "BUFFER_READY" \in state[c] /\ state[c] \cap Saved = {}
      /\ state[c] \in SUBSET ChunkSt
  BY <1>k, <1>p, <1>1, Zenon DEF chunk_state_check, ChunkTypes
<1>h. /\ diff_io[c] = "none" /\ diff_buffer[c] \in Data
      /\ state[c] \cap {"FAILED", "LOADING", "STORING"} = {}
  BY <1>a, <1>g, <1>p, Zenon DEF FlagsConsistent, HeldByIo, ChunkTypes, Saved
<1>2. /\ "STORE_READY" \in state[c] => diff_region[c] \in Data
      /\ IsSaved(c) => state[c] \cap Saved # {}
      /\ state[c] \cap {"FAILED", "LOADING"} = {}
      /\ chunk_schedule_storing(c, state[c])
  BY <1>g, <1>h, <1>k, <1>1, Zenon DEF IsSaved, chunk_state_check, Saved
<1>s. /\ ChunkTypes' /\ OnlyChunk(c) /\ FlagsConsistent(c)' /\ KeepsSaved(c)
      /\ lock'[c] = lock[c] /\ diff_io'[c] = "store"
      /\ "FAILED" \notin state'[c]
  BY <1>p, <1>g, <1>h, <1>1, <1>2, StoreStarted, Zenon
<1>t. /\ CacheExclusive'
      /\ read_cache_queue' = read_cache_queue \ {c}
      /\ write_cache_queue' = write_cache_queue \ {c}
      /\ read_cache_count' \in Int /\ write_cache_count' \in Int
  BY <1>k, <1>p, <1>s, <1>1, TakenFromCache, Zenon
<1>q. /\ pending_io_count' = pending_io_count + 1
      /\ unsent' = unsent \cup {c}
      /\ bio_list' = [bio_list EXCEPT ![w] = bio_list[w] \cup {c}]
  BY <1>k, <1>1, Zenon DEF QueueBios
<1>6. /\ WriterTypes' /\ OnlyWriter(w) /\ pc'[w] \notin {"copy", "wait"}
      /\ cur'[w] = c + 1 /\ bio'[w] = bio[w]
      /\ pc'[w] = IF c < bio[w].last THEN "copy_down" ELSE "submit"
  <2>1. bio_list[w] \cup {c} \in SUBSET Chunk
    BY <1>p, Zenon DEF WriterTypes
  <2> QED
    BY <1>k, <1>q, <1>1, <2>1, NextMoves, Zenon
<1>7. HeldByIo(c)'
  BY <1>s, Zenon DEF HeldByIo
<1>8. Progress(w)'
  <2>1. Stable
    BY <1>s, StableStep, Zenon
  <2> QED
    BY <1>k, <1>1, <1>6, <1>7, <2>1, CopyNext, Zenon
<1>c. CacheTypes'
  BY <1>p, <1>q, <1>t, <1>1 DEF CacheTypes, workerVars
<1>9. /\ lock'[c] = 0 /\ diff_io[c] # "failed"
      /\ read_cache_queue' \cup write_cache_queue'
           \subseteq read_cache_queue \cup write_cache_queue
  BY <1>a, <1>h, <1>s, <1>t, Zenon
<1> QED
  BY <1>c, <1>k, <1>s, <1>t, <1>1, <1>6, <1>7, <1>8, <1>9, WriterLeaves, Zenon

LEMMA CopyStoreFails_Structure ==
  ASSUME NEW w \in Writers, Structure, CopyStoreFails(w)
  PROVE  Structure'
<1>1. /\ pc[w] = "copy" /\ ~chunk_state_check(cur[w], Saved)
      /\ chunk_state_check(cur[w], {"BUFFER_READY"})
      /\ diff_area_take_chunk_from_cache(cur[w])
      /\ \E err : CopyFails(w, err)
      /\ UNCHANGED <<diff_io, cache_release_work, corrupt_flag,
                     pending_io_count, is_corrupted, workerVars, imageVars, orig>>
  BY Zenon DEF CopyStoreFails
<1>k. PICK c \in Chunk : c = cur[w]
  BY <1>1, WriterHolds, Zenon
<1>a. lock[c] = 0 /\ ~HeldByIo(c)
  BY <1>k, <1>1, WriterAt, Zenon
<1>p. /\ ChunkTypes /\ CacheTypes /\ CacheExclusive /\ FlagsConsistent(c)
      /\ WriterTypes
  BY AtChunk, Zenon DEF TypeOK
<1>g. /\ "BUFFER_READY" \in state[c] /\ state[c] \cap Saved = {}
      /\ state[c] \in SUBSET ChunkSt
  BY <1>k, <1>p, <1>1, Zenon DEF chunk_state_check, ChunkTypes
<1>h. /\ diff_io[c] = "none" /\ diff_buffer[c] \in Data
      /\ state[c] \cap {"FAILED", "LOADING", "STORING"} = {}
  BY <1>a, <1>g, <1>p, Zenon DEF FlagsConsistent, HeldByIo, ChunkTypes, Saved
<1>2. PICK s \in {state[c], state[c] \cup {"STORING"}} : chunk_store_failed(c, s)
  BY <1>k, Zenon DEF CopyStoreFails, chunk_schedule_storing_fails
<1>3. s \in SUBSET ChunkSt /\ ("BUFFER_READY" \in s => diff_buffer[c] # NULL)
  BY <1>g, <1>h, <1>2, DataAssumption, Zenon DEF ChunkSt
<1>s. /\ ChunkTypes' /\ OnlyChunk(c) /\ FlagsConsistent(c)' /\ KeepsSaved(c)
      /\ lock'[c] = 1 /\ "FAILED" \in state'[c]
  <2>1. diff_io \in [Chunk -> {"none", "load", "loaded", "store", "failed"}]
    BY <1>p, Zenon DEF ChunkTypes
  <2> QED
    BY <1>a, <1>h, <1>p, <1>1, <1>2, <1>3, <2>1, GivenUp, Zenon
<1>m. /\ WriterTypes' /\ OnlyWriter(w) /\ Progress(w)'
      /\ pc'[w] \in {"fail", "fail_again"} /\ UNCHANGED unsent
  BY <1>1, FailMoves, Zenon
<1>4. ~HeldByIo(c)' /\ diff_io[c] # "failed" /\ pc'[w] \notin {"copy", "wait"}
  BY <1>h, <1>m, <1>1, Zenon DEF HeldByIo
<1>t. /\ CacheExclusive'
      /\ read_cache_queue' = read_cache_queue \ {c}
      /\ write_cache_queue' = write_cache_queue \ {c}
      /\ read_cache_count' \in Int /\ write_cache_count' \in Int
  BY <1>k, <1>p, <1>s, <1>1, TakenFromCache, Zenon
<1>c. CacheTypes'
  BY <1>m, <1>p, <1>t, <1>1, Zenon DEF CacheTypes, workerVars
<1>9. read_cache_queue' \cup write_cache_queue'
        \subseteq read_cache_queue \cup write_cache_queue
  BY <1>t, Zenon
<1> QED
  BY <1>c, <1>k, <1>m, <1>s, <1>t, <1>1, <1>4, <1>9, WriterLeaves

LEMMA CopyLoad_Structure ==
  ASSUME NEW w \in Writers, Structure, CopyLoad(w)
  PROVE  Structure'
<1>1. /\ pc[w] = "copy" /\ ~chunk_state_check(cur[w], Saved \cup {"BUFFER_READY"})
      /\ QueueBios(w) /\ NextChunk(w, "copy_down", "submit")
      /\ UNCHANGED <<cacheVars, cache_release_work, corrupt_flag, is_corrupted,
                     workerVars, imageVars, orig>>
  BY Zenon DEF CopyLoad
<1>k. PICK c \in Chunk : c = cur[w]
  BY <1>1, WriterHolds, Zenon
<1>a. lock[c] = 0 /\ ~HeldByIo(c)
  BY <1>k, <1>1, WriterAt, Zenon
<1>p. /\ ChunkTypes /\ CacheTypes /\ CacheExclusive /\ FlagsConsistent(c)
      /\ WriterTypes
  BY AtChunk, Zenon DEF TypeOK
<1>g. /\ state[c] \cap (Saved \cup {"BUFFER_READY"}) = {}
      /\ state[c] \in SUBSET ChunkSt
  BY <1>k, <1>p, <1>1, Zenon DEF chunk_state_check, ChunkTypes
<1>h. diff_io[c] = "none" /\ state[c] = {}
  <2>1. diff_io[c] = "none"
    BY <1>a, <1>g, <1>p, Zenon DEF FlagsConsistent, HeldByIo, ChunkTypes, Saved
  <2> QED
    BY <1>g, <1>p, <2>1, Zenon DEF FlagsConsistent, ChunkSt, Saved
<1>e. /\ diff_buffer' = [diff_buffer EXCEPT ![c] = Junk]
      /\ state' = [state EXCEPT ![c] = state[c] \cup {"LOADING"}]
      /\ diff_io' = [diff_io EXCEPT ![c] = "load"]
      /\ UNCHANGED <<lock, diff_region>>
  BY <1>k, Zenon DEF CopyLoad
<1>2. state[c] \cup {"LOADING"} \in SUBSET ChunkSt
  BY <1>g, Zenon DEF ChunkSt
<1>3. ChunkTypes' /\ OnlyChunk(c)
  BY <1>e, <1>p, <1>1, <1>2, Zenon DEF ChunkTypes, OnlyChunk, SameChunk
<1>4. /\ state'[c] = {"LOADING"} /\ diff_io'[c] = "load"
      /\ lock'[c] = 0 /\ diff_buffer'[c] = Junk
  BY <1>a, <1>e, <1>h, <1>p, Zenon DEF ChunkTypes
<1>5. FlagsConsistent(c)' /\ "FAILED" \notin state'[c]
  BY <1>4, DataAssumption, Zenon DEF FlagsConsistent
<1>s. ChunkTypes' /\ OnlyChunk(c) /\ KeepsSaved(c) /\ diff_io'[c] = "load"
  BY <1>a, <1>h, <1>3, <1>4, Zenon DEF KeepsSaved, IsSaved, HeldByIo,
     chunk_state_check
<1>t. /\ CacheExclusive' /\ read_cache_queue' = read_cache_queue
      /\ write_cache_queue' = write_cache_queue
  BY <1>g, <1>p, <1>s, <1>1, NotCached, Zenon
<1>q. /\ pending_io_count' = pending_io_count + 1
      /\ unsent' = unsent \cup {c}
      /\ bio_list' = [bio_list EXCEPT ![w] = bio_list[w] \cup {c}]
  BY <1>k, <1>1, Zenon DEF QueueBios
<1>6. /\ WriterTypes' /\ OnlyWriter(w) /\ pc'[w] \notin {"copy", "wait"}
      /\ cur'[w] = c + 1 /\ bio'[w] = bio[w]
      /\ pc'[w] = IF c < bio[w].last THEN "copy_down" ELSE "submit"
  <2>1. bio_list[w] \cup {c} \in SUBSET Chunk
    BY <1>p, Zenon DEF WriterTypes
  <2> QED
    BY <1>k, <1>q, <1>1, <2>1, NextMoves, Zenon
<1>7. HeldByIo(c)'
  BY <1>s, Zenon DEF HeldByIo
<1>8. Progress(w)'
  <2>1. Stable
    BY <1>s, StableStep, Zenon
  <2> QED
    BY <1>k, <1>1, <1>6, <1>7, <2>1, CopyNext, Zenon
<1>c. CacheTypes'
  BY <1>p, <1>q, <1>1 DEF CacheTypes, cacheVars, workerVars
<1>9. diff_io[c] # "failed"
  BY <1>h, Zenon
<1> QED
  BY <1>c, <1>k, <1>s, <1>t, <1>1, <1>4, <1>5, <1>6, <1>7, <1>8, <1>9,
     WriterLeaves, Zenon

LEMMA CopyLoadFails_Structure ==
  ASSUME NEW w \in Writers, Structure, CopyLoadFails(w)
  PROVE  Structure'
<1>1. /\ pc[w] = "copy" /\ ~chunk_state_check(cur[w], Saved \cup {"BUFFER_READY"})
      /\ \E err : CopyFails(w, err)
      /\ UNCHANGED <<diff_io, cacheVars, cache_release_work, corrupt_flag,
                     pending_io_count, is_corrupted, workerVars, imageVars, orig>>
  BY Zenon DEF CopyLoadFails
<1>k. PICK c \in Chunk : c = cur[w]
  BY <1>1, WriterHolds, Zenon
<1>a. lock[c] = 0 /\ ~HeldByIo(c)
  BY <1>k, <1>1, WriterAt, Zenon
<1>p. /\ ChunkTypes /\ CacheTypes /\ CacheExclusive /\ FlagsConsistent(c)
      /\ WriterTypes
  BY AtChunk, Zenon DEF TypeOK
<1>g. /\ state[c] \cap (Saved \cup {"BUFFER_READY"}) = {}
      /\ state[c] \in SUBSET ChunkSt
  BY <1>k, <1>p, <1>1, Zenon DEF chunk_state_check, ChunkTypes
<1>h. diff_io[c] = "none"
  BY <1>a, <1>g, <1>p, Zenon DEF FlagsConsistent, HeldByIo, ChunkTypes, Saved
<1>2. PICK s \in {state[c] \cup {}, state[c] \cup {"LOADING"}} :
        chunk_store_failed(c, s)
  BY <1>k, Zenon DEF CopyLoadFails
<1>3. s \in SUBSET ChunkSt /\ ("BUFFER_READY" \in s => diff_buffer[c] # NULL)
  BY <1>g, <1>2, Zenon DEF ChunkSt
<1>s. /\ ChunkTypes' /\ OnlyChunk(c) /\ FlagsConsistent(c)' /\ KeepsSaved(c)
      /\ lock'[c] = 1 /\ "FAILED" \in state'[c]
  <2>1. diff_io \in [Chunk -> {"none", "load", "loaded", "store", "failed"}]
    BY <1>p, Zenon DEF ChunkTypes
  <2> QED
    BY <1>a, <1>h, <1>p, <1>1, <1>2, <1>3, <2>1, GivenUp, Zenon
<1>m. /\ WriterTypes' /\ OnlyWriter(w) /\ Progress(w)'
      /\ pc'[w] \in {"fail", "fail_again"} /\ UNCHANGED unsent
  BY <1>1, FailMoves, Zenon
<1>4. ~HeldByIo(c)' /\ diff_io[c] # "failed" /\ pc'[w] \notin {"copy", "wait"}
  BY <1>h, <1>m, <1>1, Zenon DEF HeldByIo
<1>t. /\ CacheExclusive' /\ read_cache_queue' = read_cache_queue
      /\ write_cache_queue' = write_cache_queue
  BY <1>g, <1>p, <1>s, <1>1, NotCached, Zenon
<1>c. CacheTypes'
  BY <1>m, <1>p, <1>1, Zenon DEF CacheTypes, cacheVars, workerVars
<1>9. read_cache_queue' \cup write_cache_queue'
        \subseteq read_cache_queue \cup write_cache_queue
  BY <1>t, Zenon
<1> QED
  BY <1>c, <1>k, <1>m, <1>s, <1>t, <1>1, <1>4, <1>9, WriterLeaves, SMTT(60)

LEMMA CopyFailed_Structure ==
  ASSUME NEW w \in Writers, Structure, CopyFailed(w)
  PROVE  Structure'
<1>y. WriterTypes /\ orig \in [Chunk -> Data] /\ unsent \subseteq Chunk
  BY Zenon DEF Structure, TypeOK, ChunkTypes, CacheTypes, WriterTypes
<1>1. /\ pc[w] \in {"fail", "fail_again"}
      /\ corrupt_flag' = TRUE /\ UNCHANGED <<cache_release_work, is_corrupted>>
      /\ UNCHANGED <<chunkVars, cacheVars, pending_io_count, unsent, workerVars,
                     imageVars, orig>>
  BY Zenon DEF CopyFailed
<1>2. \E err : FilterError(w, err)
  BY Zenon DEF CopyFailed
<1>3. WriterTypes' /\ OnlyWriter(w) /\ Progress(w)' /\ pc'[w] \in {"idle", "pass"}
  BY <1>2, ErrorMoves, Zenon
<1>f. FlagsOK'
  <2>1. FlagsOK
    BY Zenon DEF Structure, TypeOK
  <2> QED
    BY <1>1, <2>1, Zenon DEF FlagsOK
<1> QED
  BY <1>f, <1>y, <1>1, <1>3, WriterStep, Zenon

LEMMA SubmitBios_Structure ==
  ASSUME NEW w \in Writers, Structure, SubmitBios(w)
  PROVE  Structure'
<1>y. WriterTypes /\ orig \in [Chunk -> Data] /\ unsent \subseteq Chunk
  BY Zenon DEF Structure, TypeOK, ChunkTypes, CacheTypes, WriterTypes
<1>1. /\ pc[w] = "submit" /\ unsent' = unsent \ bio_list[w]
      /\ bio_list' = [bio_list EXCEPT ![w] = {}]
      /\ cur' = [cur EXCEPT ![w] = bio[w].first]
      /\ pc' = [pc EXCEPT ![w] = "wait_down"]
      /\ UNCHANGED <<chunkVars, cacheVars, cache_release_work, corrupt_flag,
                     pending_io_count, is_corrupted, workerVars, bio, imageVars,
                     orig>>
  BY Zenon DEF SubmitBios, Goto
<1>2. /\ bio[w] \in Bio /\ bio[w].first \in Nat /\ bio[w].last \in Nat
      /\ {} \in SUBSET Chunk
  BY <1>y, ChunkCountAssumption DEF WriterTypes, Bio, LastSector
<1>3. /\ bio[w].first <= bio[w].last /\ bio[w].last \in Chunk
      /\ \A x \in Covers(bio[w]) : IsSaved(x) \/ HeldByIo(x)
  BY <1>1, Zenon DEF Structure, CopyProgress, Progress
<1>4. /\ WriterTypes' /\ OnlyWriter(w)
      /\ pc'[w] = "wait_down" /\ bio'[w] = bio[w] /\ cur'[w] = bio[w].first
  <2>1. PICK n \in Nat : n = bio[w].first
    BY <1>2, Zenon
  <2>2. cur' = [cur EXCEPT ![w] = n]
    BY <1>1, <2>1, Zenon
  <2>3. /\ WriterTypes' /\ OnlyWriter(w)
        /\ pc'[w] = "wait_down" /\ bio'[w] = bio[w] /\ cur'[w] = n
    BY <1>y, <1>1, <1>2, <2>2, CurMoves, Zenon
  <2> QED
    BY <2>1, <2>3, Zenon
<1>5. /\ \A x \in Covers(bio[w]) : ~(x < bio[w].first)
      /\ bio[w].first \in Chunk
  BY <1>2, <1>3, ChunkCountAssumption DEF Covers, Chunk
<1>6. \A x \in Covers(bio[w]) : IsSaved(x)' \/ HeldByIo(x)'
  BY <1>1, <1>3, Zenon DEF IsSaved, HeldByIo, chunk_state_check, chunkVars
<1>7. Progress(w)'
  <2>1. Covers(bio'[w]) = Covers(bio[w])
    BY <1>4, Zenon
  <2> QED
    BY <1>2, <1>3, <1>4, <1>5, <1>6, <2>1 DEF Progress, Covers
<1>f. FlagsOK'
  <2>1. FlagsOK
    BY Zenon DEF Structure, TypeOK
  <2> QED
    BY <1>1, <2>1, Zenon DEF FlagsOK
<1>8. unsent' \subseteq Chunk
  BY <1>y, <1>1, Zenon
<1> QED
  BY <1>f, <1>y, <1>1, <1>4, <1>7, <1>8, WriterStep, Zenon

LEMMA WaitChunk_Structure ==
  ASSUME NEW w \in Writers, Structure, WaitChunk(w)
  PROVE  Structure'
<1>1. /\ pc[w] = "wait"
      /\ UNCHANGED <<state, diff_buffer, diff_region, diff_io, cacheVars,
                     cache_release_work, corrupt_flag, pending_io_count,
                     is_corrupted, unsent, workerVars, imageVars, orig>>
  BY Zenon DEF WaitChunk
<1>k. PICK c \in Chunk : c = cur[w]
  BY <1>1, WriterHolds, Zenon
<1>a. lock[c] = 0 /\ ~HeldByIo(c)
  BY <1>k, <1>1, WriterAt, Zenon
<1>p. /\ ChunkTypes /\ CacheTypes /\ CacheExclusive /\ FlagsConsistent(c)
      /\ WriterTypes
  BY AtChunk, Zenon DEF TypeOK
<1>2. Progress(w) /\ c \in Covers(bio[w])
  <2>1. Progress(w)
    BY Zenon DEF Structure, CopyProgress
  <2> QED
    BY <1>k, <1>1, <2>1, Zenon DEF Progress, Covers
<1>s. IsSaved(c)
  BY <1>a, <1>1, <1>2, Zenon DEF Progress
<1>3. lock' = [lock EXCEPT ![c] = 1]
  <2>1. lock' = up(cur[w])
    BY <1>k, <1>s, Zenon DEF WaitChunk, IsSaved, chunk_state_check, Saved
  <2>2. lock' = [lock EXCEPT ![c] = lock[c] + 1]
    BY <1>k, <2>1, Zenon DEF up
  <2>3. lock[c] + 1 = 1
    BY <1>a
  <2> QED
    BY <2>2, <2>3, Zenon
<1>4. /\ ChunkTypes' /\ CacheTypes' /\ OnlyChunk(c) /\ lock'[c] = 1
      /\ state'[c] = state[c] /\ diff_io'[c] = diff_io[c]
      /\ FlagsConsistent(c)' /\ KeepsSaved(c) /\ CacheExclusive'
      /\ read_cache_queue' = read_cache_queue
      /\ write_cache_queue' = write_cache_queue
  BY <1>1, <1>3, LockOnly, Zenon
<1>5. ~HeldByIo(c)' /\ Stable
  BY <1>a, <1>4, StableStep, Zenon DEF HeldByIo
<1>6. CASE chunk_state_check(c, {"FAILED"})
  <2>1. FilterError(w, "EFAULT")
    BY <1>k, <1>6, Zenon DEF WaitChunk
  <2>2. /\ WriterTypes' /\ OnlyWriter(w) /\ Progress(w)'
        /\ pc'[w] \notin {"copy", "wait"}
    BY <2>1, ErrorMoves, Zenon
  <2> QED
    BY <1>k, <1>1, <1>4, <1>5, <2>2, WriterLeaves, SMTT(60)
<1>7. CASE ~chunk_state_check(c, {"FAILED"})
  <2>1. NextChunk(w, "wait_down", "pass") /\ UNCHANGED bio_list
    BY <1>k, <1>7, Zenon DEF WaitChunk
  <2>2. {} \in SUBSET Chunk
    BY Zenon
  <2>3. /\ WriterTypes' /\ OnlyWriter(w) /\ pc'[w] \notin {"copy", "wait"}
        /\ cur'[w] = c + 1 /\ bio'[w] = bio[w]
        /\ pc'[w] = IF c < bio[w].last THEN "wait_down" ELSE "pass"
    BY <1>k, <2>1, <2>2, NextMoves, Zenon
  <2>4. Progress(w)'
    BY <1>k, <1>s, <1>1, <1>5, <2>3, WaitNext, Zenon
  <2> QED
    BY <1>k, <1>1, <1>4, <1>5, <2>3, <2>4, WriterLeaves
<1> QED
  BY <1>6, <1>7, Zenon

LEMMA DeviceWrite_Structure ==
  ASSUME NEW w \in Writers, NEW d \in Data, Structure, DeviceWrite(w, d)
  PROVE  Structure'
<1>y. WriterTypes /\ orig \in [Chunk -> Data] /\ unsent \subseteq Chunk
  BY Zenon DEF Structure, TypeOK, ChunkTypes, CacheTypes, WriterTypes
<1>1. /\ pc[w] = "pass" /\ pc' = [pc EXCEPT ![w] = "idle"]
      /\ bio' = [bio EXCEPT ![w] = NoBio] /\ cur' = [cur EXCEPT ![w] = 0]
      /\ UNCHANGED <<chunkVars, cacheVars, cache_release_work, corrupt_flag,
                     pending_io_count, is_corrupted, unsent, workerVars,
                     bio_list, imageVars>>
  BY Zenon DEF DeviceWrite, Done, Goto
<1>2. NoBio \in Bio /\ 0 \in Nat /\ {} \in SUBSET Chunk
  BY InitialTypes, Zenon
<1>3. WriterTypes' /\ OnlyWriter(w) /\ pc'[w] = "idle"
  BY <1>y, <1>1, <1>2, WriterMoves, Zenon
<1>4. Progress(w)'
  BY <1>3, NoProgress, Zenon
<1>5. orig' \in [Chunk -> Data]
  BY <1>y, Zenon DEF DeviceWrite
<1>f. FlagsOK'
  <2>1. FlagsOK
    BY Zenon DEF Structure, TypeOK
  <2> QED
    BY <1>1, <2>1, Zenon DEF FlagsOK
<1> QED
  BY <1>f, <1>y, <1>1, <1>3, <1>4, <1>5, WriterStep, Zenon

=============================================================================
