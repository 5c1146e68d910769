---------------------------- MODULE DiffStorage -----------------------------
(***************************************************************************)
(* The difference storage of a snapshot (module/diff_storage.c), with its  *)
(* queue of events (module/event_queue.c) and the thread of the library    *)
(* that answers them (lib/blksnap/Session.cpp).  The snapshot's difference *)
(* areas take regions from it, one for each chunk that is stored; when     *)
(* little space is left, the module asks user space for another portion.   *)
(*                                                                         *)
(* Abstractions.  The storage is on one device, and the library hands out  *)
(* its space from sector 0 on.  A portion may come in several ranges.  All *)
(* events are requests for space.  A section under a spin lock is one      *)
(* step.  An allocator is a thread that stores chunks, one difference      *)
(* area's chunks each.                                                     *)
(***************************************************************************)
EXTENDS EventQueue, Functions

CONSTANTS
  Allocators,   \* the threads that store chunks
  ChunkSectors, \* the size of the chunks of each
  Portion,      \* diff_storage_minimum
  HalfFull,     \* the space left at which a portion is requested
  Ranges,       \* bound: sizes of the ranges of a portion but the last
  MaxRegions,   \* bound: chunks that are stored
  Faults        \* whether memory for events and ranges may be short

ASSUME ChunkSectorsAssumption == ChunkSectors \in [Allocators -> Nat \ {0}]
ASSUME PortionAssumption ==
  Portion \in Nat /\ HalfFull \in Nat /\ HalfFull < Portion
ASSUME BoundsAssumption == MaxRegions \in Nat /\ Faults \in BOOLEAN

VARIABLES
  \* struct diff_storage
  empty_blocks, filled_blocks, capacity, filled, requested, low_space_flag,
  overflow_flag,
  apc, areq, \* where an allocator is, and its copy of requested
  regions,   \* the regions that were given out
  upc, rest, \* where the library is, and the space it has yet to append
  position,  \* where the library's free space begins
  asked      \* the number of times that a portion was requested

blockVars == <<empty_blocks, filled_blocks, capacity, filled>>
userVars == <<upc, rest, position>>
vars == <<blockVars, requested, low_space_flag, overflow_flag, queueVars,
          apc, areq, regions, userVars, asked>>

SumOver(Value(_), s) == FoldFunction(+, 0, [i \in DOMAIN s |-> Value(s[i])])

Available(block) == block.count - block.used

-----------------------------------------------------------------------------
(* diff_storage_new_region()                                               *)

SetPc(a, at) == apc' = [apc EXCEPT ![a] = at]

(* After an overflow no region is given out.                               *)
OverflowCheck(a) ==
  /\ apc[a] = "idle"
  /\ Len(regions) < MaxRegions
  /\ overflow_flag = 0
  /\ SetPc(a, "lock")
  /\ UNCHANGED <<blockVars, requested, low_space_flag, overflow_flag,
                 queueVars, areq, regions, userVars, asked>>

(* The difference is an unsigned number: below zero it is a huge one.      *)
is_halffull(sectors_left) == 0 <= sectors_left /\ sectors_left <= HalfFull

(* Mutant: what is left of a block that is too small is not counted.       *)
TakeRegionForgetsRest(a, k) ==
  LET block == empty_blocks[k]
      count == ChunkSectors[a]
  IN /\ regions' = Append(regions, [sector |-> block.sector + block.used,
                                    count |-> count])
     /\ empty_blocks' =
          <<[block EXCEPT !.used = @ + count]>>
            \o SubSeq(empty_blocks, k + 1, Len(empty_blocks))
     /\ filled_blocks' = filled_blocks \o SubSeq(empty_blocks, 1, k - 1)
     /\ filled' = filled + count

(* Mutant: what is used of the block is not added to its sector.           *)
TakeRegionAtStart(a, k) ==
  LET block == empty_blocks[k]
      tooSmall == SubSeq(empty_blocks, 1, k - 1)
      count == ChunkSectors[a]
  IN /\ regions' = Append(regions, [sector |-> block.sector, count |-> count])
     /\ empty_blocks' =
          <<[block EXCEPT !.used = @ + count]>>
            \o SubSeq(empty_blocks, k + 1, Len(empty_blocks))
     /\ filled_blocks' = filled_blocks \o tooSmall
     /\ filled' = filled + SumOver(Available, tooSmall) + count

(* The blocks before the k-th one are too small for the chunk and count as *)
(* filled; the region is the next part of the k-th.                        *)
TakeRegion(a, k) ==
  LET block == empty_blocks[k]
      tooSmall == SubSeq(empty_blocks, 1, k - 1)
      count == ChunkSectors[a]
  IN /\ regions' = Append(regions, [sector |-> block.sector + block.used,
                                    count |-> count])
     /\ empty_blocks' =
          <<[block EXCEPT !.used = @ + count]>>
            \o SubSeq(empty_blocks, k + 1, Len(empty_blocks))
     /\ filled_blocks' = filled_blocks \o tooSmall
     /\ filled' = filled + SumOver(Available, tooSmall) + count

(* The section under the lock, when a block has room for the chunk.        *)
NewRegion(a) ==
  /\ apc[a] = "lock"
  /\ \E k \in DOMAIN empty_blocks :
       /\ Available(empty_blocks[k]) >= ChunkSectors[a]
       /\ \A j \in 1 .. k - 1 : Available(empty_blocks[j]) < ChunkSectors[a]
       /\ TakeRegion(a, k)
  /\ SetPc(a, IF is_halffull(requested - filled') THEN "flag" ELSE "idle")
  /\ UNCHANGED <<capacity, requested, low_space_flag, overflow_flag, queueVars,
                 areq, userVars, asked>>

(* The same when no block has room: every block counts as filled.          *)
Overflow(a) ==
  /\ apc[a] = "lock"
  /\ \A i \in DOMAIN empty_blocks :
       Available(empty_blocks[i]) < ChunkSectors[a]
  /\ filled_blocks' = filled_blocks \o empty_blocks
  /\ empty_blocks' = << >>
  /\ filled' = filled + SumOver(Available, empty_blocks)
  /\ overflow_flag' = overflow_flag + 1
  /\ SetPc(a, "idle")
  /\ UNCHANGED <<capacity, requested, low_space_flag, queueVars, areq, regions,
                 userVars, asked>>

(* Mutant: the one that raised the flag first does not notice.             *)
RaiseFlagUnnoticed(a) ==
  /\ apc[a] = "flag"
  /\ low_space_flag' = low_space_flag + 1
  /\ SetPc(a, IF low_space_flag = 1 THEN "read" ELSE "idle")
  /\ UNCHANGED <<blockVars, requested, overflow_flag, queueVars, areq, regions,
                 userVars, asked>>

(* The first to raise the flag requests a portion.                         *)
RaiseFlag(a) ==
  /\ apc[a] = "flag"
  /\ low_space_flag' = low_space_flag + 1
  /\ SetPc(a, IF low_space_flag' = 1 THEN "read" ELSE "idle")
  /\ UNCHANGED <<blockVars, requested, overflow_flag, queueVars, areq, regions,
                 userVars, asked>>

(* diff_storage_event_low() adds to requested without the lock: it reads,  *)
ReadRequested(a) ==
  /\ apc[a] = "read"
  /\ areq' = [areq EXCEPT ![a] = requested]
  /\ SetPc(a, "write")
  /\ UNCHANGED <<blockVars, requested, low_space_flag, overflow_flag, queueVars,
                 regions, userVars, asked>>

(* and then writes, and event_gen() queues the event if there is memory.   *)
diff_storage_event_low(a) ==
  /\ apc[a] = "write"
  /\ requested' = areq[a] + Portion
  /\ areq' = [areq EXCEPT ![a] = 0]
  /\ event_gen \/ (Faults /\ UNCHANGED queueVars)
  /\ asked' = asked + 1
  /\ SetPc(a, "idle")
  /\ UNCHANGED <<blockVars, low_space_flag, overflow_flag, regions, userVars>>

-----------------------------------------------------------------------------
(* The library's thread and diff_storage_append_block().  A wait that sees *)
(* no event returns -ENOENT at once, as the timeout is what kzalloc() left *)
(* (only the identifier is copied from the caller), and the thread calls   *)
(* again: that changes nothing and is not an action.                       *)

event_wait ==
  /\ upc = "wait"
  /\ EventReady
  /\ upc' = "take"
  /\ UNCHANGED <<blockVars, requested, low_space_flag, overflow_flag,
                 queueVars, apc, areq, regions, rest, position, asked>>

(* The event is taken and the library finds space for it.                  *)
EventReceived ==
  /\ upc = "take"
  /\ TakeEvent
  /\ rest' = Portion
  /\ upc' = "add"
  /\ UNCHANGED <<blockVars, requested, low_space_flag, overflow_flag, apc,
                 areq, regions, position, asked>>

(* The next range of it is a block.                                        *)
diff_storage_add_range ==
  /\ upc = "add"
  /\ \E n \in (Ranges \cup {rest}) \cap 1 .. rest :
       /\ empty_blocks' = Append(empty_blocks, [sector |-> position,
                                                count |-> n, used |-> 0])
       /\ capacity' = capacity + n
       /\ position' = position + n
       /\ rest' = rest - n
  /\ UNCHANGED <<filled_blocks, filled, requested, low_space_flag,
                 overflow_flag, queueVars, apc, areq, regions, upc, asked>>

(* There is no memory for the next range: the ioctl fails, and the space   *)
(* that is left is not used.                                               *)
AddRangeFails ==
  /\ Faults
  /\ upc = "add"
  /\ rest # 0
  /\ position' = position + rest
  /\ rest' = 0
  /\ upc' = "wait"
  /\ UNCHANGED <<blockVars, requested, low_space_flag, overflow_flag, queueVars,
                 apc, areq, regions, asked>>

(* The end of diff_storage_append_block(), without the lock.               *)
FlagCheck ==
  /\ upc = "add"
  /\ rest = 0
  /\ upc' = IF low_space_flag # 0 /\ capacity >= requested THEN "clear"
            ELSE "wait"
  /\ UNCHANGED <<blockVars, requested, low_space_flag, overflow_flag, queueVars,
                 apc, areq, regions, rest, position, asked>>

(* Mutant: the flag is kept until more is appended than was requested.     *)
FlagClearTooLate ==
  /\ upc = "clear" /\ capacity > requested
  /\ low_space_flag' = 0
  /\ upc' = "wait"
  /\ UNCHANGED <<blockVars, requested, overflow_flag, queueVars, apc, areq,
                 regions, rest, position, asked>>

FlagClear ==
  /\ upc = "clear"
  /\ low_space_flag' = 0
  /\ upc' = "wait"
  /\ UNCHANGED <<blockVars, requested, overflow_flag, queueVars, apc, areq,
                 regions, rest, position, asked>>

(* diff_storage_new() requests the first portion.                          *)
Init ==
  /\ empty_blocks = << >> /\ filled_blocks = << >>
  /\ capacity = 0 /\ filled = 0
  /\ requested = Portion /\ asked = 1
  /\ low_space_flag = 0 /\ overflow_flag = 0
  /\ \E n \in {1} \cup (IF Faults THEN {0} ELSE {}) :
       generated = n /\ list = [i \in 1 .. n |-> i]
  /\ received = << >>
  /\ apc = [a \in Allocators |-> "idle"]
  /\ areq = [a \in Allocators |-> 0]
  /\ regions = << >>
  /\ upc = "wait" /\ rest = 0 /\ position = 0

AllocatorStep(a) ==
  \/ OverflowCheck(a) \/ NewRegion(a) \/ Overflow(a)
  \/ RaiseFlag(a) \/ ReadRequested(a) \/ diff_storage_event_low(a)

UserStep ==
  \/ event_wait \/ EventReceived \/ diff_storage_add_range
  \/ AddRangeFails \/ FlagCheck \/ FlagClear

Next == UserStep \/ \E a \in Allocators : AllocatorStep(a)

Spec == Init /\ [][Next]_vars

(* A thread in the kernel goes on; the library's thread waits for events   *)
(* in a loop.  A new chunk need not be stored.                             *)
FairSpec ==
  /\ Spec
  /\ WF_vars(UserStep)
  /\ \A a \in Allocators : WF_vars(AllocatorStep(a) /\ apc[a] # "idle")

-----------------------------------------------------------------------------
(* Properties                                                              *)

Block == [sector : Nat, count : Nat, used : Nat]
Region == [sector : Nat, count : Nat]

(* The types; what filled may be, CountersExact says.                      *)
TypeOK ==
  /\ empty_blocks \in Seq(Block) /\ filled_blocks \in Seq(Block)
  /\ capacity \in Nat /\ requested \in Nat /\ asked \in Nat
  /\ low_space_flag \in Nat /\ overflow_flag \in Nat
  /\ list \in Seq(Nat) /\ generated \in Nat /\ received \in Seq(Nat)
  /\ apc \in [Allocators -> {"idle", "lock", "flag", "read", "write"}]
  /\ areq \in [Allocators -> Nat]
  /\ regions \in Seq(Region)
  /\ upc \in {"wait", "take", "add", "clear"}
  /\ rest \in Nat /\ position \in Nat

Sectors(r) == r.sector .. r.sector + r.count - 1

(* What the chunks of the snapshot rely on: no two regions share a sector, *)
(* and every region is inside of one range that user space appended,       *)
(* whichever threads take regions and however the space comes.             *)
RegionsApart ==
  /\ \A i, j \in DOMAIN regions :
       i # j => Sectors(regions[i]) \cap Sectors(regions[j]) = {}
  /\ \A i \in DOMAIN regions :
       \E b \in Range(filled_blocks \o empty_blocks) :
         Sectors(regions[i]) \subseteq Sectors(b)

(* The counters that decide when space is requested are exact: capacity is *)
(* the size of all blocks, and capacity less filled is what the empty      *)
(* blocks have left, so a block that was given up is not counted as free.  *)
CountersExact ==
  /\ capacity = SumOver(LAMBDA b : b.count, empty_blocks \o filled_blocks)
  /\ capacity - filled = SumOver(Available, empty_blocks)

(* Nobody is between two steps that belong together.                       *)
Quiet ==
  upc = "wait" /\ \A a \in Allocators : apc[a] \in {"idle", "lock"}

(* Memory was short: an event or a range that user space gave was lost.    *)
MemoryShort == asked > generated \/ position > capacity

(* The flag that keeps further requests back stands for one that is still  *)
(* to be answered: the races of RaiseFlag, FlagCheck and FlagClear, and    *)
(* the lost updates of requested, never leave it set with no request on    *)
(* its way, which would end in an overflow although user space answers.    *)
(* Only memory that was short may do so.                                   *)
FlagIsAnswered ==
  (Quiet /\ low_space_flag # 0 /\ ~ MemoryShort) => list # << >>

(* So the flag is cleared again once user space has answered.              *)
FlagCleared == (low_space_flag # 0) ~> (low_space_flag = 0 \/ MemoryShort)

(* The library's thread, the only waiter, takes no event from an empty     *)
(* list although it looked at the list without the lock (event_wait()).    *)
ListSafe == upc = "take" => list # << >>

(* Every request that was queued reaches user space.                       *)
EventsArrive ==
  \A n \in 1 .. MaxRegions : (generated >= n) ~> (Len(received) >= n)

(* module/diff_storage.h: "The number of sectors already requested from    *)
(* user space."                                                            *)
RequestedExact ==
  (\A a \in Allocators : apc[a] \in {"idle", "lock"})
    => requested = Portion * asked

(* module/diff_storage.h: "The flag is set if the number of free regions   *)
(* available in the difference storage is less than the allowed minimum."  *)
FlagSaysLow ==
  (Quiet /\ is_halffull(requested - filled)) => low_space_flag # 0

(* The space that was given out never exceeds what was requested, so that  *)
(* the unsigned difference of which is_halffull() judges does not wrap.    *)
FilledWithinRequest == filled <= requested
=============================================================================
