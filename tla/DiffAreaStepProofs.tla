------------------------- MODULE DiffAreaStepProofs -------------------------
(***************************************************************************)
(* What the parts of the structural invariant of DiffArea need from a      *)
(* step.  Every action touches at most one chunk and at most one thread:   *)
(* the lemmas below reduce the invariant after the step to facts about     *)
(* that chunk and that thread.                                             *)
(***************************************************************************)
EXTENDS DiffAreaState, TLAPS

(* The values that idle threads keep in their locals.                      *)
LEMMA InitialTypes ==
  0 \in Chunk /\ NoBio \in Bio /\ NoImageBio \in ImageBio
  BY ChunkCountAssumption
  DEF Chunk, NoBio, Bio, LastSector, NoImageBio, ImageBio

LEMMA Init_Structure == ASSUME Init PROVE Structure
<1>1. FlagsOK
  BY Zenon DEF FlagsOK, Init
<1>2. ChunkTypes
  BY Zenon DEF ChunkTypes, Init
<1>3. CacheTypes /\ WriterTypes
  BY InitialTypes DEF CacheTypes, WriterTypes, Init
<1>4. ImageTypes
  BY InitialTypes, Zenon DEF ImageTypes, Init
<1>5. LockDiscipline
  BY DEF Init, LockDiscipline, Owned, HeldByWriter, HeldByImage,
         HeldByCacheWorker, HeldByIo
<1>6. DeadBranches
  BY Zenon DEF Init, DeadBranches, FlagsConsistent
<1>7. CacheExclusive /\ CopyProgress
  BY Zenon DEF Init, CacheExclusive, CopyProgress, Progress
<1>8. HoldersConsistent /\ FailureRecorded
  BY Zenon DEF Init, HoldersConsistent, FailureRecorded
<1> QED
  BY <1>1, <1>2, <1>3, <1>4, <1>5, <1>6, <1>7, <1>8, Zenon DEF Structure, TypeOK

-----------------------------------------------------------------------------
(* Types: the threads that do not take part in a step keep theirs.         *)

LEMMA IoTypes ==
  ASSUME TypeOK, FlagsOK', ChunkTypes', CacheTypes',
         UNCHANGED <<writerVars, imageVars>>
  PROVE  TypeOK'
<1>1. WriterTypes' /\ ImageTypes'
  BY Zenon DEF TypeOK, WriterTypes, ImageTypes, writerVars, imageVars
<1> QED
  BY <1>1, Zenon DEF TypeOK

LEMMA WriterStepTypes ==
  ASSUME TypeOK, FlagsOK', ChunkTypes', CacheTypes', WriterTypes',
         UNCHANGED imageVars
  PROVE  TypeOK'
<1>1. ImageTypes'
  BY Zenon DEF TypeOK, ImageTypes, imageVars
<1> QED
  BY <1>1, Zenon DEF TypeOK

LEMMA ImageStepTypes ==
  ASSUME TypeOK, FlagsOK', ChunkTypes', CacheTypes', ImageTypes',
         UNCHANGED writerVars
  PROVE  TypeOK'
<1>1. WriterTypes'
  BY Zenon DEF TypeOK, WriterTypes, writerVars
<1> QED
  BY <1>1, Zenon DEF TypeOK

-----------------------------------------------------------------------------
(* Chunks                                                                  *)

SameChunk(x) ==
  /\ lock'[x] = lock[x] /\ state'[x] = state[x]
  /\ diff_io'[x] = diff_io[x]
  /\ diff_buffer'[x] = diff_buffer[x] /\ diff_region'[x] = diff_region[x]

(* The step changes no chunk but c.                                        *)
OnlyChunk(c) == \A x \in Chunk : x # c => SameChunk(x)

(* The step does not undo the copy of chunk c, and an I/O that ends leaves *)
(* the chunk saved.                                                        *)
KeepsSaved(c) ==
  /\ IsSaved(c) => IsSaved(c)'
  /\ HeldByIo(c) => HeldByIo(c)' \/ IsSaved(c)'

Stable == \A c \in Chunk : KeepsSaved(c)

LEMMA StableStep ==
  ASSUME NEW c \in Chunk, OnlyChunk(c), KeepsSaved(c) PROVE Stable
  BY Zenon DEF OnlyChunk, SameChunk, KeepsSaved, Stable, IsSaved, HeldByIo,
         chunk_state_check

LEMMA StableFrame ==
  ASSUME UNCHANGED <<state, diff_io>> PROVE Stable
  BY Zenon DEF Stable, KeepsSaved, IsSaved, HeldByIo, chunk_state_check

LEMMA FlagsStep ==
  ASSUME NEW c \in Chunk, DeadBranches, OnlyChunk(c), FlagsConsistent(c)'
  PROVE  DeadBranches'
<1>1. ASSUME NEW x \in Chunk, x # c PROVE FlagsConsistent(x)'
  <2>1. SameChunk(x) /\ FlagsConsistent(x)
    BY <1>1, Zenon DEF OnlyChunk, DeadBranches
  <2> QED
    BY <2>1, Zenon DEF SameChunk, FlagsConsistent
<1> QED
  BY <1>1, Zenon DEF DeadBranches

LEMMA FlagsFrame ==
  ASSUME DeadBranches,
         UNCHANGED <<state, diff_io, diff_buffer, diff_region>>
  PROVE  DeadBranches'
  BY Zenon DEF DeadBranches, FlagsConsistent

(* chunk_store_failed() of a chunk whose semaphore is down.                *)
LEMMA GivenUp ==
  ASSUME NEW c \in Chunk, ChunkTypes, lock[c] = 0,
         NEW s \in SUBSET ChunkSt, chunk_store_failed(c, s),
         "BUFFER_READY" \in s => diff_buffer[c] # NULL,
         diff_io' \in [Chunk -> {"none", "load", "loaded", "store", "failed"}],
         diff_io'[c] \in {"none", "failed"},
         \A x \in Chunk : x # c => diff_io'[x] = diff_io[x],
         UNCHANGED orig
  PROVE  /\ ChunkTypes' /\ OnlyChunk(c) /\ FlagsConsistent(c)' /\ KeepsSaved(c)
         /\ lock'[c] = 1 /\ "FAILED" \in state'[c]
<1>1. PICK t \in SUBSET ChunkSt :
        /\ state' = [state EXCEPT ![c] = t]
        /\ "FAILED" \in t /\ "BUFFER_READY" \notin t
  <2>1. state' = [state EXCEPT
                   ![c] = IF diff_buffer[c] = NULL THEN s \cup {"FAILED"}
                          ELSE (s \cup {"FAILED"}) \ {"BUFFER_READY"}]
    BY Zenon DEF chunk_store_failed, chunk_diff_buffer_release
  <2> QED
    BY <2>1, ZenonT(60) DEF ChunkSt
<1>2. /\ diff_buffer' = [diff_buffer EXCEPT ![c] = NULL]
      /\ diff_region' = [diff_region EXCEPT ![c] = NULL]
      /\ lock' = [lock EXCEPT ![c] = @ + 1]
  BY Zenon DEF chunk_store_failed, up
<1>3. ChunkTypes' /\ OnlyChunk(c)
  BY <1>1, <1>2 DEF ChunkTypes, OnlyChunk, SameChunk
<1>4. /\ lock'[c] = 1 /\ "FAILED" \in state'[c]
      /\ "BUFFER_READY" \notin state'[c]
  BY <1>1, <1>2 DEF ChunkTypes
<1>5. FlagsConsistent(c)' /\ KeepsSaved(c)
  BY <1>4, Zenon DEF FlagsConsistent, KeepsSaved, IsSaved, chunk_state_check,
     Saved
<1> QED
  BY <1>3, <1>4, <1>5, Zenon

(* chunk_schedule_storing() of a chunk with data in its buffer.            *)
LEMMA StoreStarted ==
  ASSUME NEW c \in Chunk, ChunkTypes, NEW s \in SUBSET ChunkSt,
         chunk_schedule_storing(c, s),
         "BUFFER_READY" \in s, s \cap {"FAILED", "LOADING"} = {},
         diff_buffer[c] \in Data, "STORE_READY" \in s => diff_region[c] \in Data,
         IsSaved(c) => s \cap Saved # {},
         UNCHANGED orig
  PROVE  /\ ChunkTypes' /\ OnlyChunk(c) /\ FlagsConsistent(c)' /\ KeepsSaved(c)
         /\ lock'[c] = lock[c] /\ diff_io'[c] = "store"
         /\ "FAILED" \notin state'[c]
<1>1. /\ diff_region' = [diff_region EXCEPT ![c] = IF @ = NULL THEN Junk ELSE @]
      /\ state' = [state EXCEPT ![c] = s \cup {"STORING"}]
      /\ diff_io' = [diff_io EXCEPT ![c] = "store"]
      /\ UNCHANGED <<lock, diff_buffer>>
  BY Zenon DEF chunk_schedule_storing
<1>2. ChunkTypes' /\ OnlyChunk(c)
  BY <1>1, Zenon DEF ChunkTypes, ChunkSt, OnlyChunk, SameChunk
<1>3. /\ state'[c] = s \cup {"STORING"} /\ diff_io'[c] = "store"
      /\ lock'[c] = lock[c] /\ diff_buffer'[c] = diff_buffer[c]
      /\ diff_region'[c] = IF diff_region[c] = NULL THEN Junk ELSE diff_region[c]
  BY <1>1, Zenon DEF ChunkTypes
<1>4. FlagsConsistent(c)'
  BY <1>3, DataAssumption DEF FlagsConsistent
<1>5. KeepsSaved(c)
  BY <1>3, Zenon DEF KeepsSaved, IsSaved, chunk_state_check, HeldByIo
<1> QED
  BY <1>2, <1>3, <1>4, <1>5, Zenon

-----------------------------------------------------------------------------
(* Who holds the semaphores                                                *)

SameHolders(x) ==
  /\ \A v \in Writers : HeldByWriter(v, x)' <=> HeldByWriter(v, x)
  /\ HeldByImage(x)' <=> HeldByImage(x)
  /\ HeldByCacheWorker(x)' <=> HeldByCacheWorker(x)

LEMMA LockStep ==
  ASSUME NEW c \in Chunk, LockDiscipline, OnlyChunk(c),
         \A x \in Chunk : x # c => SameHolders(x), Owned(c)'
  PROVE  LockDiscipline'
<1>1. ASSUME NEW x \in Chunk, x # c PROVE Owned(x)'
  <2>1. SameChunk(x) /\ SameHolders(x) /\ Owned(x)
    BY <1>1, Zenon DEF OnlyChunk, LockDiscipline
  <2>2. lock'[x] = lock[x] /\ (HeldByIo(x)' <=> HeldByIo(x))
    BY <2>1, Zenon DEF SameChunk, HeldByIo
  <2> QED
    BY <2>1, <2>2, Zenon DEF SameHolders, Owned
<1> QED
  BY <1>1, Zenon DEF LockDiscipline

LEMMA LockFrame ==
  ASSUME LockDiscipline, UNCHANGED <<lock, diff_io>>,
         \A x \in Chunk : SameHolders(x)
  PROVE  LockDiscipline'
<1>1. ASSUME NEW x \in Chunk PROVE Owned(x)'
  <2>1. SameHolders(x) /\ Owned(x)
    BY Zenon DEF LockDiscipline
  <2>2. lock'[x] = lock[x] /\ (HeldByIo(x)' <=> HeldByIo(x))
    BY Zenon DEF HeldByIo
  <2> QED
    BY <2>1, <2>2, Zenon DEF SameHolders, Owned
<1> QED
  BY <1>1, Zenon DEF LockDiscipline

(* The chunk that a thread holds is in nobody else's hands.                *)
LEMMA WriterHolds ==
  ASSUME NEW w \in Writers, Structure, pc[w] \in {"copy", "wait"}
  PROVE  /\ cur[w] \in Chunk /\ lock[cur[w]] = 0
         /\ ~HeldByImage(cur[w]) /\ ~HeldByCacheWorker(cur[w])
         /\ ~HeldByIo(cur[w])
         /\ \A v \in Writers : HeldByWriter(v, cur[w]) => v = w
<1>1. cur[w] \in Chunk
  BY Zenon DEF Structure, CopyProgress, Progress
<1>2. Owned(cur[w]) /\ HeldByWriter(w, cur[w])
  BY <1>1, Zenon DEF Structure, LockDiscipline, HeldByWriter
<1> QED
  BY <1>1, <1>2, Zenon DEF Owned

LEMMA ImageHolds ==
  ASSUME Structure, ipc \in {"get", "load", "io"}
  PROVE  /\ icur \in Chunk /\ lock[icur] = 0
         /\ ~HeldByCacheWorker(icur) /\ ~HeldByIo(icur)
         /\ \A v \in Writers : ~HeldByWriter(v, icur)
<1>1. icur \in Chunk
  BY Zenon DEF Structure, TypeOK, ImageTypes
<1>2. Owned(icur) /\ HeldByImage(icur)
  BY <1>1, Zenon DEF Structure, LockDiscipline, HeldByImage
<1> QED
  BY <1>1, <1>2, Zenon DEF Owned

LEMMA WorkerHolds ==
  ASSUME Structure, cpc = "release"
  PROVE  /\ cchunk \in Chunk /\ lock[cchunk] = 0
         /\ ~HeldByImage(cchunk) /\ ~HeldByIo(cchunk)
         /\ \A v \in Writers : ~HeldByWriter(v, cchunk)
<1>1. cchunk \in Chunk
  BY Zenon DEF Structure, TypeOK, CacheTypes
<1>2. Owned(cchunk) /\ HeldByCacheWorker(cchunk)
  BY <1>1, Zenon DEF Structure, LockDiscipline, HeldByCacheWorker
<1> QED
  BY <1>1, <1>2, Zenon DEF Owned

LEMMA IoHolds ==
  ASSUME NEW c \in Chunk, Structure, HeldByIo(c)
  PROVE  /\ lock[c] = 0 /\ ~HeldByImage(c) /\ ~HeldByCacheWorker(c)
         /\ \A v \in Writers : ~HeldByWriter(v, c)
  BY Zenon DEF Structure, LockDiscipline, Owned

LEMMA NobodyHolds ==
  ASSUME NEW c \in Chunk, Structure, lock[c] = 1
  PROVE  /\ ~HeldByImage(c) /\ ~HeldByCacheWorker(c) /\ ~HeldByIo(c)
         /\ \A v \in Writers : ~HeldByWriter(v, c)
  BY DEF Structure, LockDiscipline, Owned

-----------------------------------------------------------------------------
(* Caches                                                                  *)

ImageUses(x) == ipc \in {"load", "io"} /\ icur = x

(* The step drops c from the caches, if it was there at all.               *)
LEMMA CacheDrop ==
  ASSUME NEW c \in Chunk, CacheExclusive, CacheTypes, OnlyChunk(c),
         read_cache_queue' = read_cache_queue \ {c},
         write_cache_queue' = write_cache_queue \ {c},
         \A x \in Chunk : x # c =>
           /\ HeldByCacheWorker(x)' => HeldByCacheWorker(x)
           /\ ImageUses(x)' => ImageUses(x)
  PROVE  CacheExclusive'
<1>1. ASSUME NEW x \in read_cache_queue' \cup write_cache_queue'
      PROVE  /\ "BUFFER_READY" \in state'[x]
             /\ "DIRTY" \in state'[x] <=> x \in write_cache_queue'
             /\ ~HeldByIo(x)' /\ ~HeldByCacheWorker(x)' /\ ~ImageUses(x)'
  <2>1. /\ x \in read_cache_queue \cup write_cache_queue /\ x # c
        /\ x \in Chunk /\ (x \in write_cache_queue' <=> x \in write_cache_queue)
    BY <1>1, Zenon DEF CacheTypes
  <2>2. state'[x] = state[x] /\ (HeldByIo(x)' <=> HeldByIo(x))
    BY <2>1, Zenon DEF OnlyChunk, SameChunk, HeldByIo
  <2>3. /\ "BUFFER_READY" \in state[x]
        /\ "DIRTY" \in state[x] <=> x \in write_cache_queue
        /\ ~HeldByIo(x) /\ ~HeldByCacheWorker(x) /\ ~ImageUses(x)
    BY <2>1, Zenon DEF CacheExclusive, ImageUses
  <2> QED
    BY <2>1, <2>2, <2>3, Zenon
<1>2. read_cache_queue' \cap write_cache_queue' = {}
  BY Zenon DEF CacheExclusive
<1> QED
  BY <1>1, <1>2, Zenon DEF CacheExclusive, ImageUses

(* A chunk in nobody's hands enters the cache that its flags call for.     *)
LEMMA CacheEnter ==
  ASSUME NEW c \in Chunk, CacheExclusive, CacheTypes, OnlyChunk(c),
         c \notin read_cache_queue \cup write_cache_queue,
         chunk_schedule_caching(c, state'[c]), "BUFFER_READY" \in state'[c],
         ~HeldByIo(c)', ~HeldByCacheWorker(c)', ~ImageUses(c)',
         \A x \in Chunk : x # c =>
           /\ HeldByCacheWorker(x)' => HeldByCacheWorker(x)
           /\ ImageUses(x)' => ImageUses(x)
  PROVE  CacheExclusive'
<1>q. /\ read_cache_queue' = IF "DIRTY" \in state'[c] THEN read_cache_queue
                             ELSE read_cache_queue \cup {c}
      /\ write_cache_queue' = IF "DIRTY" \in state'[c]
                                THEN write_cache_queue \cup {c}
                                ELSE write_cache_queue
  BY Zenon DEF chunk_schedule_caching
<1>1. ASSUME NEW x \in read_cache_queue' \cup write_cache_queue', x # c
      PROVE  /\ "BUFFER_READY" \in state'[x]
             /\ "DIRTY" \in state'[x] <=> x \in write_cache_queue'
             /\ ~HeldByIo(x)' /\ ~HeldByCacheWorker(x)' /\ ~ImageUses(x)'
  <2>1. /\ x \in read_cache_queue \cup write_cache_queue
        /\ x \in Chunk /\ (x \in write_cache_queue' <=> x \in write_cache_queue)
    BY <1>q, <1>1, Zenon DEF CacheTypes
  <2>2. state'[x] = state[x] /\ (HeldByIo(x)' <=> HeldByIo(x))
    BY <1>1, <2>1, Zenon DEF OnlyChunk, SameChunk, HeldByIo
  <2>3. /\ "BUFFER_READY" \in state[x]
        /\ "DIRTY" \in state[x] <=> x \in write_cache_queue
        /\ ~HeldByIo(x) /\ ~HeldByCacheWorker(x) /\ ~ImageUses(x)
    BY <2>1, Zenon DEF CacheExclusive, ImageUses
  <2> QED
    BY <1>1, <2>1, <2>2, <2>3, Zenon
<1>2. read_cache_queue' \cap write_cache_queue' = {}
  BY <1>q, Zenon DEF CacheExclusive
<1>3. "DIRTY" \in state'[c] <=> c \in write_cache_queue'
  BY <1>q, Zenon
<1> QED
  BY <1>1, <1>2, <1>3, Zenon DEF CacheExclusive, ImageUses

LEMMA CacheFrame ==
  ASSUME CacheExclusive, CacheTypes,
         UNCHANGED <<read_cache_queue, write_cache_queue, state, diff_io>>,
         \A x \in read_cache_queue \cup write_cache_queue :
           /\ HeldByCacheWorker(x)' => HeldByCacheWorker(x)
           /\ ImageUses(x)' => ImageUses(x)
  PROVE  CacheExclusive'
  BY Zenon DEF CacheExclusive, ImageUses, HeldByIo

-----------------------------------------------------------------------------
(* Writers, the other threads and the record of failures                   *)

SameWriter(v) == pc'[v] = pc[v] /\ bio'[v] = bio[v] /\ cur'[v] = cur[v]

(* The step changes no writer but w.                                       *)
OnlyWriter(w) == \A v \in Writers : v # w => SameWriter(v)

LEMMA ProgressStep ==
  ASSUME NEW w \in Writers, CopyProgress, Stable, OnlyWriter(w), Progress(w)'
  PROVE  CopyProgress'
<1>1. ASSUME NEW v \in Writers, v # w PROVE Progress(v)'
  <2>1. SameWriter(v) /\ Progress(v)
    BY <1>1, Zenon DEF OnlyWriter, CopyProgress
  <2> QED
    BY <2>1, Zenon DEF SameWriter, Progress, Stable, KeepsSaved, Covers
<1> QED
  BY <1>1, Zenon DEF CopyProgress

LEMMA ProgressFrame ==
  ASSUME CopyProgress, Stable, UNCHANGED <<pc, bio, cur>>
  PROVE  CopyProgress'
  BY Zenon DEF CopyProgress, Progress, Stable, KeepsSaved, Covers

(* Neither the worker nor the image has chunk c, the only one that changes.*)
LEMMA HoldersStep ==
  ASSUME NEW c \in Chunk, HoldersConsistent, CacheTypes, ImageTypes,
         OnlyChunk(c), ~HeldByCacheWorker(c), ~ImageUses(c),
         UNCHANGED <<cpc, cchunk, ipc, ibio, icur>>,
         read_cache_queue' \cup write_cache_queue'
           \subseteq read_cache_queue \cup write_cache_queue \cup {c}
  PROVE  HoldersConsistent'
<1>1. cpc = "release" => state'[cchunk] = state[cchunk] /\ cchunk # c
  BY Zenon DEF OnlyChunk, SameChunk, HeldByCacheWorker, CacheTypes
<1>2. ipc \in {"load", "io"} => state'[icur] = state[icur]
  BY Zenon DEF OnlyChunk, SameChunk, ImageUses, ImageTypes
<1> QED
  BY <1>1, <1>2, Zenon DEF HoldersConsistent

LEMMA FailureStep ==
  ASSUME NEW c \in Chunk, FailureRecorded, OnlyChunk(c),
         corrupt_flag \/ AboutToFlag => corrupt_flag' \/ AboutToFlag',
         "FAILED" \in state'[c] =>
           "FAILED" \in state[c] \/ corrupt_flag' \/ AboutToFlag'
  PROVE  FailureRecorded'
  BY Zenon DEF FailureRecorded, OnlyChunk, SameChunk

LEMMA FailureFrame ==
  ASSUME FailureRecorded, UNCHANGED state,
         corrupt_flag \/ AboutToFlag => corrupt_flag' \/ AboutToFlag'
  PROVE  FailureRecorded'
  BY Zenon DEF FailureRecorded

-----------------------------------------------------------------------------
(* Notifications of an I/O                                                 *)

(* The parts of the invariant that a step on chunk c starts from.          *)
LEMMA AtChunk ==
  ASSUME NEW c \in Chunk, Structure
  PROVE  TypeOK /\ ChunkTypes /\ CacheTypes /\ CacheExclusive /\ FlagsConsistent(c)
  BY Zenon DEF Structure, TypeOK, DeadBranches

LEMMA IoNotCached ==
  ASSUME NEW c \in Chunk, Structure, HeldByIo(c)
  PROVE  c \notin read_cache_queue \cup write_cache_queue
  BY Zenon DEF Structure, CacheExclusive

LEMMA IoStep ==
  ASSUME NEW c \in Chunk, Structure, HeldByIo(c), TypeOK', OnlyChunk(c),
         UNCHANGED <<cpc, cchunk, pc, bio, cur, ipc, ibio, icur, corrupt_flag>>,
         lock'[c] = 0 <=> HeldByIo(c)', FlagsConsistent(c)', KeepsSaved(c),
         CacheExclusive',
         read_cache_queue' \cup write_cache_queue'
           \subseteq read_cache_queue \cup write_cache_queue \cup {c},
         "FAILED" \in state'[c] => diff_io'[c] = "failed"
  PROVE  Structure'
<1>i. /\ LockDiscipline /\ DeadBranches /\ CopyProgress /\ HoldersConsistent
      /\ FailureRecorded /\ CacheTypes /\ ImageTypes
  BY Zenon DEF Structure, TypeOK
<1>h. /\ ~HeldByImage(c) /\ ~HeldByCacheWorker(c)
      /\ \A v \in Writers : ~HeldByWriter(v, c)
  BY IoHolds, Zenon
<1>n. \A x : SameHolders(x)
  BY Zenon DEF SameHolders, HeldByWriter, HeldByImage, HeldByCacheWorker
<1>1. Owned(c)'
  BY <1>h, <1>n, Zenon DEF Owned, SameHolders
<1>2. LockDiscipline'
  BY <1>i, <1>n, <1>1, LockStep, Zenon
<1>3. DeadBranches'
  BY <1>i, FlagsStep, Zenon
<1>4. CopyProgress'
  BY <1>i, StableStep, ProgressFrame, Zenon
<1>5. ~ImageUses(c)
  BY <1>h, Zenon DEF ImageUses, HeldByImage
<1>6. HoldersConsistent'
  BY <1>i, <1>h, <1>5, HoldersStep, Zenon
<1>7. AboutToFlag => AboutToFlag'
  BY Zenon DEF AboutToFlag, OnlyChunk, SameChunk, HeldByIo
<1>8. "FAILED" \in state'[c] => AboutToFlag'
  BY Zenon DEF AboutToFlag
<1>9. FailureRecorded'
  BY <1>i, <1>7, <1>8, FailureStep, Zenon
<1> QED
  BY <1>2, <1>3, <1>4, <1>6, <1>9, Zenon DEF Structure

(* A step that changes the chunk of an I/O and nothing else.               *)
LEMMA IoChunkStep ==
  ASSUME NEW c \in Chunk, Structure, HeldByIo(c), ChunkTypes', OnlyChunk(c),
         UNCHANGED <<cache_release_work, corrupt_flag, is_corrupted, cacheVars,
                     unsent, workerVars, writerVars, imageVars>>,
         pending_io_count' \in Int,
         lock'[c] = 0 <=> HeldByIo(c)', FlagsConsistent(c)', KeepsSaved(c),
         "FAILED" \in state'[c] => diff_io'[c] = "failed"
  PROVE  Structure'
<1>p. TypeOK /\ FlagsOK /\ CacheTypes /\ CacheExclusive
  BY Zenon DEF Structure, TypeOK
<1>1. FlagsOK'
  BY <1>p, Zenon DEF FlagsOK
<1>2. CacheTypes'
  BY <1>p, Zenon DEF CacheTypes, cacheVars, workerVars
<1>3. TypeOK'
  BY <1>p, <1>1, <1>2, IoTypes, Zenon
<1>4. UNCHANGED <<read_cache_queue, write_cache_queue, cpc, cchunk, pc, bio, cur,
                  ipc, ibio, icur, corrupt_flag>>
  BY Zenon DEF cacheVars, workerVars, writerVars, imageVars
<1>5. CacheExclusive'
  <2>1. c \notin read_cache_queue \cup write_cache_queue
    BY IoNotCached, Zenon
  <2> QED
    BY <1>p, <1>4, <2>1, CacheDrop, Zenon DEF HeldByCacheWorker, ImageUses
<1> QED
  BY <1>3, <1>4, <1>5, IoStep, Zenon

=============================================================================
