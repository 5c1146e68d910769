------------------------------ MODULE AreaFree ------------------------------
(***************************************************************************)
(* The end of a difference area (diff_area_free() in module/diff_area.c):  *)
(* its last reference is dropped, the filter and the image no longer use   *)
(* it, but loads and stores of chunks may be on their way, and the worker  *)
(* that trims the caches may run.                                          *)
(*                                                                         *)
(* Abstractions.  Of a chunk only its semaphore, its I/O, its cache queue  *)
(* and its buffer matter.  What a callback does while it owns the          *)
(* semaphore is one step; what it does after that is another one.          *)
(***************************************************************************)
EXTENDS Integers, FiniteSets

CONSTANTS
  NChunks,    \* the number of chunks
  MaxInCache, \* chunk_maximum_in_cache
  PoolSize,   \* free_diff_buffer_pool_size
  Timeouts    \* whether the wait for pending I/O may take too long

ASSUME AreaAssumption ==
  /\ NChunks \in Nat \ {0} /\ MaxInCache \in Nat /\ PoolSize \in Nat
  /\ Timeouts \in BOOLEAN

Chunks == 1 .. NChunks

VARIABLES
  io,      \* the I/O of a chunk, which owns its semaphore
  dirty,   \* CHUNK_ST_DIRTY
  cache,   \* the queue that a chunk is in
  buffer,  \* whether it has a buffer
  tail,    \* the callbacks of a chunk that have released its semaphore
  pending, \* pending_io_count
  pool,    \* free_diff_buffers_count
  worker,  \* of the caches
  fpc, inx, \* where diff_area_free() is
  area,    \* whether the area is allocated
  corrupt, \* corrupt_flag
  missed,  \* an I/O was pending, or began, when the wait for it was over
  used     \* something was used after it was freed

chunkVars == <<io, dirty, cache, buffer, tail>>
freeVars == <<fpc, inx, area>>
useVars == <<missed, used>>
areaVars == <<chunkVars, pending, pool, worker, freeVars, corrupt, useVars>>

Live(c) == c >= inx

(* What copy-on-write and the image may leave behind, chunk by chunk.  The *)
(* bios of one that was "dropped" were never sent (tracker_submit_bio()    *)
(* returns early when a later chunk fails): its semaphore stays taken, its *)
(* I/O pending.                                                            *)
Leftovers ==
  [Chunks -> {"new", "load", "store", "dirty_store", "dropped", "read", "write"}]

LeftIo(left) ==
  [c \in Chunks |->
     CASE left[c] \in {"load", "dropped"} -> left[c]
       [] left[c] \in {"store", "dirty_store"} -> "store"
       [] OTHER -> "none"]

LeftCache(left) ==
  [c \in Chunks |-> IF left[c] \in {"read", "write"} THEN left[c] ELSE "none"]

LeftDirty(left) == [c \in Chunks |-> left[c] \in {"write", "dirty_store"}]

LeftBuffer(left) == [c \in Chunks |-> left[c] # "new"]

LeftPending(left) == Cardinality({c \in Chunks : LeftIo(left)[c] # "none"})

LeftWorker(left) ==
  IF \E q \in {"read", "write"} :
       Cardinality({c \in Chunks : left[c] = q}) > MaxInCache
  THEN "queued" ELSE "idle"

FreeInit ==
  /\ \E left \in Leftovers :
       /\ io = LeftIo(left) /\ cache = LeftCache(left)
       /\ dirty = LeftDirty(left) /\ buffer = LeftBuffer(left)
       /\ pending = LeftPending(left) /\ worker = LeftWorker(left)
  /\ tail = [c \in Chunks |-> 0]
  /\ pool = 0
  /\ fpc = "wait" /\ inx = 1 /\ area = "live"
  /\ missed = FALSE /\ used = FALSE
  /\ corrupt \in BOOLEAN

-----------------------------------------------------------------------------
(* Callbacks (module/chunk.c)                                              *)

(* The pool as it is after the buffer of a chunk went back to it.          *)
diff_buffer_release(c) ==
  IF buffer[c] /\ pool <= PoolSize THEN pool + 1 ELSE pool

(* chunk_store_failed()                                                    *)
StoreFailed(c) ==
  /\ io' = [io EXCEPT ![c] = "none"]
  /\ pool' = diff_buffer_release(c)
  /\ buffer' = [buffer EXCEPT ![c] = FALSE]
  /\ tail' = [tail EXCEPT ![c] = @ + 1]
  /\ corrupt' = TRUE
  /\ UNCHANGED <<dirty, cache, pending, worker, freeVars, useVars>>

(* A chunk that was loaded is stored at once; without space it fails.      *)
chunk_notify_load(c) ==
  /\ io[c] = "load"
  /\ \/ StoreFailed(c)
     \/ /\ io' = [io EXCEPT ![c] = "store"]
        /\ pending' = pending + 1
        /\ tail' = [tail EXCEPT ![c] = @ + 1]
        /\ UNCHANGED <<dirty, cache, buffer, pool, worker, freeVars,
                       corrupt, useVars>>

(* chunk_schedule_caching() of a chunk that is not dirty.                  *)
Caching(c) ==
  /\ cache' = [cache EXCEPT ![c] = "read"]
  /\ worker' = IF /\ worker = "idle"
                  /\ Cardinality({d \in Chunks : cache'[d] = "read"})
                       > MaxInCache
               THEN "queued" ELSE worker
  /\ UNCHANGED <<dirty, buffer, pool>>

chunk_notify_store(c) ==
  /\ io[c] = "store"
  /\ \/ StoreFailed(c)
     \/ /\ io' = [io EXCEPT ![c] = "none"]
        /\ tail' = [tail EXCEPT ![c] = @ + 1]
        /\ IF dirty[c]
           THEN /\ dirty' = [dirty EXCEPT ![c] = FALSE]
                /\ pool' = diff_buffer_release(c)
                /\ buffer' = [buffer EXCEPT ![c] = FALSE]
                /\ UNCHANGED <<cache, worker>>
           ELSE Caching(c)
        /\ UNCHANGED <<pending, freeVars, corrupt, useVars>>

(* A callback ends: the area is found through the chunk.                   *)
NotifyEnd(c) ==
  /\ tail[c] > 0
  /\ tail' = [tail EXCEPT ![c] = @ - 1]
  /\ pending' = pending - 1
  /\ used' = (used \/ ~ Live(c) \/ area = "freed")
  /\ UNCHANGED <<io, dirty, cache, buffer, pool, worker, freeVars, corrupt, missed>>

-----------------------------------------------------------------------------
(* diff_area_cache_release_work()                                          *)

Surplus ==
  {c \in Chunks : io[c] = "none" /\ cache[c] # "none"
     /\ Cardinality({d \in Chunks : cache[d] = cache[c]}) > MaxInCache}

ReleaseStart ==
  /\ worker = "queued"
  /\ worker' = "running"
  /\ used' = (used \/ area = "freed")
  /\ UNCHANGED <<chunkVars, pending, pool, freeVars, corrupt, missed>>

(* A dirty chunk is stored, or fails; the buffer of another one goes.      *)
ReleaseChunk(c) ==
  /\ worker = "running" /\ ~ corrupt
  /\ c \in Surplus
  /\ used' = (used \/ ~ Live(c))
  /\ cache' = [cache EXCEPT ![c] = "none"]
  /\ \/ /\ dirty[c]
        /\ io' = [io EXCEPT ![c] = "store"]
        /\ pending' = pending + 1
        /\ missed' = (missed \/ fpc # "wait")
        /\ UNCHANGED <<pool, buffer, corrupt>>
     \/ /\ pool' = diff_buffer_release(c)
        /\ buffer' = [buffer EXCEPT ![c] = FALSE]
        /\ corrupt' = dirty[c]
        /\ UNCHANGED <<io, pending, missed>>
  /\ UNCHANGED <<dirty, tail, worker, freeVars>>

(* Mutant: the worker goes on although the area is corrupted.              *)
ReleaseEndTrimmed ==
  /\ worker = "running"
  /\ Surplus = {}
  /\ worker' = "idle"
  /\ UNCHANGED <<chunkVars, pending, pool, freeVars, corrupt, useVars>>

ReleaseEnd ==
  /\ worker = "running"
  /\ Surplus = {} \/ corrupt
  /\ worker' = "idle"
  /\ UNCHANGED <<chunkVars, pending, pool, freeVars, corrupt, useVars>>

-----------------------------------------------------------------------------
(* diff_area_free()                                                        *)

(* Mutant: the area does not wait for pending I/O.                         *)
FreeAtOnce ==
  /\ fpc = "wait"
  /\ fpc' = "flush"
  /\ UNCHANGED <<chunkVars, pending, pool, worker, inx, area, corrupt, useVars>>

(* Five seconds without an end of the pending I/O are enough.              *)
FreeWait ==
  /\ fpc = "wait"
  /\ pending = 0 \/ Timeouts
  /\ fpc' = "flush"
  /\ missed' = (pending > 0)
  /\ UNCHANGED <<chunkVars, pending, pool, worker, inx, area, corrupt, used>>

(* flush_work()                                                            *)
FreeFlush ==
  /\ fpc = "flush"
  /\ worker = "idle"
  /\ fpc' = "chunks"
  /\ UNCHANGED <<chunkVars, pending, pool, worker, inx, area, corrupt, useVars>>

(* chunk_free() waits for the semaphore.                                   *)
chunk_free ==
  /\ fpc = "chunks" /\ inx <= NChunks
  /\ io[inx] = "none"
  /\ pool' = diff_buffer_release(inx)
  /\ buffer' = [buffer EXCEPT ![inx] = FALSE]
  /\ inx' = inx + 1
  /\ UNCHANGED <<io, dirty, cache, tail, pending, worker, fpc, area, corrupt,
                 useVars>>

(* diff_buffer_cleanup() and kfree()                                       *)
FreeArea ==
  /\ fpc = "chunks" /\ inx > NChunks
  /\ pool' = 0
  /\ area' = "freed"
  /\ fpc' = "done"
  /\ UNCHANGED <<chunkVars, pending, worker, inx, corrupt, useVars>>

diff_area_free == FreeWait \/ FreeFlush \/ chunk_free \/ FreeArea

diff_area_cache_release_work ==
  ReleaseStart \/ ReleaseEnd \/ \E c \in Chunks : ReleaseChunk(c)

Callback(c) ==
  chunk_notify_load(c) \/ chunk_notify_store(c) \/ NotifyEnd(c)

FreeNext ==
  \/ diff_area_free \/ diff_area_cache_release_work
  \/ \E c \in Chunks : Callback(c)

FreeSpec == FreeInit /\ [][FreeNext]_areaVars

-----------------------------------------------------------------------------
(* The types; the counter of pending I/O is never negative.                *)
FreeTypeOK ==
  /\ io \in [Chunks -> {"none", "load", "store", "dropped"}]
  /\ dirty \in [Chunks -> BOOLEAN] /\ buffer \in [Chunks -> BOOLEAN]
  /\ cache \in [Chunks -> {"none", "read", "write"}]
  /\ tail \in [Chunks -> 0 .. 2]
  /\ pending \in Nat /\ pool \in Nat
  /\ worker \in {"idle", "queued", "running"}
  /\ fpc \in {"wait", "flush", "chunks", "done"}
  /\ inx \in 1 .. NChunks + 1 /\ area \in {"live", "freed"}
  /\ corrupt \in BOOLEAN /\ missed \in BOOLEAN /\ used \in BOOLEAN

(* module/diff_area.h, of pending_io_count: "Allows to wait for all I/O    *)
(* operations to be completed before releasing this structure."  No        *)
(* callback and no worker uses a chunk or the area after it was freed,     *)
(* whichever I/O was on its way, unless the wait ended by its timeout or   *)
(* the cache worker began a store after it.                                *)
FreedIsUnused == used => missed

(* When diff_area_free() returns, no buffer of the area is left, in a      *)
(* chunk or in the pool.                                                   *)
BuffersFreed == fpc = "done" => pool = 0 /\ \A c \in Chunks : ~ buffer[c]
=============================================================================
