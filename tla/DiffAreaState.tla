--------------------------- MODULE DiffAreaState ----------------------------
(***************************************************************************)
(* The state of one difference area (the changes kept for one original     *)
(* block device while a snapshot is held) and of the threads that use it,  *)
(* what chunk.h and chunk.c do with a chunk, and the invariants that the   *)
(* threads rely on.  ChunkIo, WriteFilter and ImageIo model the threads and *)
(* DiffArea puts them together.                                            *)
(*                                                                         *)
(* Sources: module/chunk.h, module/chunk.c, module/diff_area.h,            *)
(* module/diff_buffer.c, in the default build (no storage of the           *)
(* differences in memory).                                                 *)
(*                                                                         *)
(* Abstractions.  The data of a chunk is one value of Data: a write of a   *)
(* part of a chunk yields another value.  A cache queue is the set of its  *)
(* chunks: its order decides only which buffer is dropped first, and every *)
(* choice is allowed.  A code segment that runs under the semaphore of a   *)
(* chunk is one step, except where it waits for a device.  The difference  *)
(* storage is "a region or an error"; DiffStorage models it.               *)
(* The WARN branches for a chunk that is already in a cache, or already    *)
(* has an I/O, are not transitions: CacheExclusive and DeadBranches show   *)
(* that no state reaches them.                                             *)
(***************************************************************************)
EXTENDS Integers

CONSTANTS
  ChunkCount,             \* diff_area->chunk_count
  Writers,                \* threads that write to the original device
  Data,                   \* contents of a chunk
  NULL,                   \* no buffer, no region
  Junk,                   \* contents of a new buffer or of a new region
  chunk_maximum_in_cache, \* module parameter
  ImageOps,               \* is_write of the bios for the image
  Faults                  \* what may go wrong around the difference area

(* What may go wrong: a fatal signal while a semaphore is awaited, a bio   *)
(* with REQ_NOWAIT, a failed allocation, an I/O error of a device, a full  *)
(* difference storage, a write past the end that the device had when the   *)
(* snapshot was taken, inside ("grown") or outside ("untracked") the last  *)
(* block of the change tracking map.                                       *)
FaultKinds == {"signal", "nowait", "alloc", "io", "nospace", "grown",
               "untracked"}

ASSUME ChunkCountAssumption == ChunkCount \in Nat \ {0}
ASSUME CacheAssumption == chunk_maximum_in_cache \in Nat
ASSUME ImageOpsAssumption == ImageOps \subseteq BOOLEAN
ASSUME FaultsAssumption == Faults \subseteq FaultKinds
ASSUME DataAssumption == NULL \notin Data /\ Junk \notin Data /\ NULL # Junk

Chunk == 0 .. ChunkCount - 1

VARIABLES
  \* struct chunk, one of each per chunk
  lock,               \* the binary semaphore, as its count
  state,              \* set of CHUNK_ST_* bits
  diff_buffer,        \* contents of the attached buffer, or NULL
  diff_region,        \* contents of the region in the storage, or NULL
  diff_io,            \* the asynchronous I/O of the chunk
  \* struct diff_area
  read_cache_queue, read_cache_count,
  write_cache_queue, write_cache_count,
  cache_release_work, \* the work item is queued
  corrupt_flag, pending_io_count,
  is_corrupted,       \* of the change tracking map of the device
  unsent,             \* chunks whose bios were created but not submitted
  \* the cache worker: its position and the chunk it holds
  cpc, cchunk,
  \* the writers: position, bio, loop variable, bio_list_on_stack
  pc, bio, cur, bio_list,
  \* the thread of the snapshot image: position, bio, loop variable, the
  \* local status st, the status of the bio, and what was last read
  ipc, ibio, icur, st, bi_status, reply,
  \* contents of the original device
  orig

cacheVars == <<read_cache_queue, read_cache_count,
               write_cache_queue, write_cache_count>>
chunkVars == <<lock, state, diff_buffer, diff_region, diff_io>>
workerVars == <<cpc, cchunk>>
writerVars == <<pc, bio, cur, bio_list>>
imageVars == <<ipc, ibio, icur, st, bi_status, reply>>
vars == <<chunkVars, cacheVars, cache_release_work, corrupt_flag,
          pending_io_count, is_corrupted, unsent, workerVars, writerVars,
          imageVars, orig>>

-----------------------------------------------------------------------------
(* Chunks: module/chunk.h and module/chunk.c                               *)

ChunkSt == {"FAILED", "DIRTY", "BUFFER_READY", "STORE_READY", "LOADING",
            "STORING"}

chunk_state_check(c, bits) == state[c] \cap bits # {}

up(c) == [lock EXCEPT ![c] = @ + 1]
down(c) == [lock EXCEPT ![c] = @ - 1]

(* Flags s of chunk c after its buffer was released.                       *)
chunk_diff_buffer_release(c, s) ==
  IF diff_buffer[c] = NULL THEN s ELSE s \ {"BUFFER_READY"}

(* chunk_store_failed() for a chunk whose flags are s, up to up(): the     *)
(* caller runs diff_area_set_corrupted() in a step of its own.             *)
chunk_store_failed(c, s) ==
  /\ state' = [state EXCEPT
                 ![c] = chunk_diff_buffer_release(c, s \cup {"FAILED"})]
  /\ diff_buffer' = [diff_buffer EXCEPT ![c] = NULL]
  /\ diff_region' = [diff_region EXCEPT ![c] = NULL]
  /\ lock' = up(c)

AllocError(is_nowait) ==
  IF "alloc" \notin Faults THEN {}
  ELSE IF is_nowait THEN {"EAGAIN"} ELSE {"ENOMEM"}

(* diff_storage_new_region(), for a chunk that has no region yet.          *)
StorageError(c) ==
  IF diff_region[c] # NULL THEN {}
  ELSE {err \in {"ENOSPC", "ENOMEM"} :
          (IF err = "ENOSPC" THEN "nospace" ELSE "alloc") \in Faults}

(* chunk_schedule_storing() of a chunk whose flags are s.  A failure is    *)
(* followed by chunk_store_failed() at every call; the flag STORING is set *)
(* if it is diff_io_do() that refuses the region.                          *)
chunk_schedule_storing(c, s) ==
  /\ diff_region' = [diff_region EXCEPT ![c] = IF @ = NULL THEN Junk ELSE @]
  /\ state' = [state EXCEPT ![c] = s \cup {"STORING"}]
  /\ diff_io' = [diff_io EXCEPT ![c] = "store"]
  /\ UNCHANGED <<lock, diff_buffer>>

chunk_schedule_storing_fails(c, s) ==
  \E t \in {s, s \cup {"STORING"}} : chunk_store_failed(c, t)

(* The worker is started when the cache that a chunk with flags s enters   *)
(* exceeds its limit.                                                      *)
StartWorkIfFull(s) ==
  cache_release_work' =
    \/ cache_release_work
    \/ "DIRTY" \in s /\ write_cache_count' > chunk_maximum_in_cache
    \/ "DIRTY" \notin s /\ read_cache_count' > chunk_maximum_in_cache

(* chunk_schedule_caching() of a chunk whose flags are s.                  *)
chunk_schedule_caching(c, s) ==
  /\ IF "DIRTY" \in s
       THEN /\ write_cache_queue' = write_cache_queue \cup {c}
            /\ write_cache_count' = write_cache_count + 1
            /\ UNCHANGED <<read_cache_queue, read_cache_count>>
       ELSE /\ read_cache_queue' = read_cache_queue \cup {c}
            /\ read_cache_count' = read_cache_count + 1
            /\ UNCHANGED <<write_cache_queue, write_cache_count>>
  /\ StartWorkIfFull(s)
  /\ lock' = up(c)

diff_area_take_chunk_from_cache(c) ==
  IF c \in read_cache_queue \cup write_cache_queue
    THEN /\ read_cache_queue' = read_cache_queue \ {c}
         /\ write_cache_queue' = write_cache_queue \ {c}
         /\ IF chunk_state_check(c, {"DIRTY"})
              THEN /\ write_cache_count' = write_cache_count - 1
                   /\ UNCHANGED read_cache_count
              ELSE /\ read_cache_count' = read_cache_count - 1
                   /\ UNCHANGED write_cache_count
    ELSE UNCHANGED cacheVars

-----------------------------------------------------------------------------
(* Bios for the original device and for the image                         *)

LastSector == IF Faults \cap {"grown", "untracked"} # {} THEN ChunkCount
              ELSE ChunkCount - 1

Bio == [first : 0 .. LastSector, last : 0 .. LastSector, nowait : BOOLEAN]

Covers(b) == {c \in Chunk : b.first <= c /\ c <= b.last}

NoBio == [first |-> 0, last |-> 0, nowait |-> FALSE]

Saved == {"FAILED", "DIRTY", "STORE_READY"}

ImageBio == [first : Chunk, last : Chunk, write : BOOLEAN]

NoImageBio == [first |-> 0, last |-> 0, write |-> FALSE]

-----------------------------------------------------------------------------
(* The snapshot was taken: diff_area_new() made the chunks.                *)

Init ==
  /\ lock = [c \in Chunk |-> 1]
  /\ state = [c \in Chunk |-> {}]
  /\ diff_buffer = [c \in Chunk |-> NULL]
  /\ diff_region = [c \in Chunk |-> NULL]
  /\ diff_io = [c \in Chunk |-> "none"]
  /\ read_cache_queue = {} /\ read_cache_count = 0
  /\ write_cache_queue = {} /\ write_cache_count = 0
  /\ cache_release_work = FALSE
  /\ corrupt_flag = FALSE
  /\ pending_io_count = 0
  /\ is_corrupted = FALSE
  /\ unsent = {}
  /\ cpc = "idle" /\ cchunk = 0
  /\ pc = [w \in Writers |-> "idle"]
  /\ bio = [w \in Writers |-> NoBio]
  /\ cur = [w \in Writers |-> 0]
  /\ bio_list = [w \in Writers |-> {}]
  /\ ipc = "idle"
  /\ ibio = NoImageBio
  /\ icur = 0 /\ st = "OK" /\ bi_status = "OK" /\ reply = NULL
  /\ orig \in [Chunk -> Data]

-----------------------------------------------------------------------------
(* Invariants                                                              *)

FlagsOK == {cache_release_work, corrupt_flag, is_corrupted} \subseteq BOOLEAN

ChunkTypes ==
  /\ lock \in [Chunk -> {0, 1}]
  /\ state \in [Chunk -> SUBSET ChunkSt]
  /\ diff_buffer \in [Chunk -> Data \cup {NULL, Junk}]
  /\ diff_region \in [Chunk -> Data \cup {NULL, Junk}]
  /\ diff_io \in [Chunk -> {"none", "load", "loaded", "store", "failed"}]
  /\ orig \in [Chunk -> Data]

CacheTypes ==
  /\ read_cache_queue \subseteq Chunk /\ read_cache_count \in Int
  /\ write_cache_queue \subseteq Chunk /\ write_cache_count \in Int
  /\ pending_io_count \in Int
  /\ unsent \subseteq Chunk
  /\ cpc \in {"idle", "run", "release", "fail"} /\ cchunk \in Chunk

WriterTypes ==
  /\ pc \in [Writers -> {"idle", "copy_down", "copy", "submit", "wait_down",
                         "wait", "pass", "fail", "fail_again"}]
  /\ bio \in [Writers -> Bio]
  /\ cur \in [Writers -> Nat]
  /\ bio_list \in [Writers -> SUBSET Chunk]

ImageTypes ==
  /\ ipc \in {"idle", "get_down", "get", "load", "io", "end"}
  /\ ibio \in ImageBio /\ icur \in Chunk
  /\ st \in {"OK", "IOERR"} /\ bi_status \in {"OK", "IOERR"}
  /\ reply \in {NULL} \cup (Chunk \X (Data \cup {NULL, Junk}))

(* The values the variables range over; in particular the semaphore of a   *)
(* chunk is binary (module/chunk.h:68).                                    *)
TypeOK == FlagsOK /\ ChunkTypes /\ CacheTypes /\ WriterTypes /\ ImageTypes

HeldByWriter(w, c) == pc[w] \in {"copy", "wait"} /\ cur[w] = c
HeldByImage(c) == ipc \in {"get", "load", "io"} /\ icur = c
HeldByCacheWorker(c) == cpc = "release" /\ cchunk = c
HeldByIo(c) == diff_io[c] \in {"load", "loaded", "store"}

Owned(c) ==
  /\ lock[c] = 0 <=> \/ \E w \in Writers : HeldByWriter(w, c)
                     \/ HeldByImage(c)
                     \/ HeldByCacheWorker(c)
                     \/ HeldByIo(c)
  /\ \A w \in Writers : HeldByWriter(w, c) =>
       /\ ~HeldByImage(c) /\ ~HeldByCacheWorker(c) /\ ~HeldByIo(c)
       /\ \A v \in Writers : HeldByWriter(v, c) => v = w
  /\ HeldByImage(c) => ~HeldByCacheWorker(c) /\ ~HeldByIo(c)
  /\ HeldByCacheWorker(c) => ~HeldByIo(c)

(* The semaphore of a chunk passes between threads: a writer takes it, the *)
(* notification of an asynchronous I/O gives it back.  Whenever it is down *)
(* exactly one party owes the up(), whenever it is up nobody thinks it     *)
(* holds it: no path of chunk.c, diff_area_copy(), diff_area_wait() or the *)
(* image forgets or repeats an up().                                       *)
LockDiscipline == \A c \in Chunk : Owned(c)

(* The flags of chunk c agree with its I/O, its buffer and its region.     *)
FlagsConsistent(c) ==
  /\ diff_io[c] \in {"load", "loaded"} =>
       state[c] = {"LOADING"} /\ diff_buffer[c] # NULL
  /\ diff_io[c] = "store" =>
       /\ {"STORING", "BUFFER_READY"} \subseteq state[c]
       /\ state[c] \cap {"FAILED", "LOADING"} = {}
       /\ diff_region[c] # NULL
  /\ diff_io[c] = "none" /\ "FAILED" \notin state[c] =>
       state[c] \cap {"LOADING", "STORING"} = {}
  /\ diff_io[c] = "failed" => "FAILED" \in state[c]
  /\ diff_io[c] = "loaded" => diff_buffer[c] \in Data
  /\ "BUFFER_READY" \in state[c] =>
       diff_buffer[c] \in Data /\ "FAILED" \notin state[c]
  /\ "STORE_READY" \in state[c] /\ "FAILED" \notin state[c] =>
       diff_region[c] \in Data
  /\ "DIRTY" \in state[c] =>
       "BUFFER_READY" \in state[c] \/ "FAILED" \in state[c]

(* The "Invalid chunk state" branches of diff_area_copy() (diff_area.c:385)*)
(* and of chunk_notify_load() and chunk_notify_store() (chunk.c:128, 150,  *)
(* 173, 197) are dead, and a store never finds an empty buffer.            *)
DeadBranches == \A c \in Chunk : FlagsConsistent(c)

(* A cached chunk has its data in memory and nobody works on it: the WARNs *)
(* "The chunk already in the cache" (chunk.c:45, 86, 246) and "Cannot      *)
(* release empty buffer" (diff_area.c:201) never fire.  The DIRTY flag     *)
(* tells which of the two caches holds a chunk, which                      *)
(* diff_area_take_chunk_from_cache() relies on for its counter.            *)
CacheExclusive ==
  /\ read_cache_queue \cap write_cache_queue = {}
  /\ \A c \in read_cache_queue \cup write_cache_queue :
       /\ "BUFFER_READY" \in state[c]
       /\ "DIRTY" \in state[c] <=> c \in write_cache_queue
       /\ ~HeldByIo(c) /\ ~HeldByCacheWorker(c)
       /\ ~(ipc \in {"load", "io"} /\ icur = c)

(* Nothing of chunk c can be lost by overwriting it on the original device *)
IsSaved(c) == chunk_state_check(c, Saved)

(* What diff_area_copy() established of the bio of writer w when           *)
(* diff_area_wait() runs: each chunk is saved or its I/O is under way, and *)
(* the chunks already waited for are saved.                                *)
Progress(w) ==
  /\ pc[w] \in {"copy_down", "copy", "wait_down", "wait"} =>
       bio[w].first <= cur[w] /\ cur[w] <= bio[w].last
  /\ pc[w] \in {"copy", "wait_down", "wait"} => cur[w] \in Chunk
  /\ pc[w] \in {"copy_down", "copy"} =>
       \A c \in Covers(bio[w]) : c < cur[w] => IsSaved(c) \/ HeldByIo(c)
  /\ pc[w] \in {"submit", "wait_down", "wait"} =>
       /\ bio[w].first <= bio[w].last /\ bio[w].last \in Chunk
       /\ \A c \in Covers(bio[w]) : IsSaved(c) \/ HeldByIo(c)
  /\ pc[w] \in {"wait_down", "wait"} =>
       \A c \in Covers(bio[w]) : c < cur[w] => IsSaved(c)

(* diff_area_wait() never meets a chunk that is neither failed nor saved,  *)
(* for which it has no branch and would keep the semaphore                 *)
(* (diff_area.c:463): what diff_area_copy() left behind is never undone.   *)
CopyProgress == \A w \in Writers : Progress(w)

(* The threads that hold a chunk find it as they left it.                  *)
HoldersConsistent ==
  /\ cpc = "release" => /\ "BUFFER_READY" \in state[cchunk]
                        /\ cchunk \notin read_cache_queue \cup write_cache_queue
  /\ ipc = "load" => state[icur] \cap {"FAILED", "BUFFER_READY"} = {}
  /\ ipc = "io" => "BUFFER_READY" \in state[icur]
  /\ ipc # "idle" => icur <= ibio.last

AboutToFlag ==
  \/ cpc = "fail"
  \/ \E c \in Chunk : diff_io[c] = "failed"
  \/ \E w \in Writers : pc[w] \in {"fail", "fail_again"}

(* Whoever gave a chunk up has flagged the snapshot as corrupted or is     *)
(* about to: the flag is set after the semaphore was released              *)
(* (chunk_store_failed(), chunk.c:36), and no path loses it.               *)
FailureRecorded ==
  (\E c \in Chunk : "FAILED" \in state[c]) => corrupt_flag \/ AboutToFlag

(* What every step preserves, whatever goes wrong.                         *)
Structure ==
  /\ TypeOK /\ LockDiscipline /\ DeadBranches /\ CacheExclusive
  /\ CopyProgress /\ HoldersConsistent /\ FailureRecorded

=============================================================================
