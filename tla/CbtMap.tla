------------------------------- MODULE CbtMap -------------------------------
(***************************************************************************)
(* Change block tracking of one device: its map (module/cbt_map.c), and    *)
(* the parts of module/tracker.c that use it: the filter, which records    *)
(* the writes, taking and releasing a snapshot, and the ioctls that report *)
(* the map and mark blocks as changed.                                     *)
(*                                                                         *)
(* A backup program keeps, of a snapshot it holds, the generation and the  *)
(* snapshot number (its base).  At a later snapshot it reads the map: the  *)
(* blocks changed since the base are the ones with a greater number, if    *)
(* the generation is still the same, and otherwise all of them             *)
(* (IsChangedRegion() of tests/cpp/corrupt.cpp).  The variables changed,   *)
(* since and expected record what it ought to find.                        *)
(*                                                                         *)
(* Abstractions.  Sectors are counted in tracking blocks.  The largest     *)
(* number a byte holds is MaxNumber (255).  A random UUID differs from     *)
(* every UUID somebody still knows.  A section under the spin lock is one  *)
(* step.  The submit lock of the filter, which a snapshot takes, keeps     *)
(* writes out; it does not keep the ioctls out.                            *)
(***************************************************************************)
EXTENDS Integers

CONSTANTS
  MaxNumber,  \* largest number that a byte of the map holds
  Capacities, \* sizes that the device may have, in blocks
  Uuid,       \* generation identifiers
  NULL        \* no generation

ASSUME MaxNumberAssumption == MaxNumber \in Nat /\ MaxNumber >= 2
ASSUME CapacitiesAssumption == Capacities \subseteq Nat \ {0}
ASSUME UuidAssumption == NULL \notin Uuid

VARIABLES
  \* struct cbt_map; allocated: the pointers to the two tables are set
  device_capacity, blk_count, allocated, read_map, write_map,
  snap_number_active, snap_number_previous, generation_id, is_corrupted,
  \* struct tracker, and the position in tracker_take_snapshot()
  snapshot_is_taken, tpc,
  capacity,   \* the size that the device has now
  oops,       \* a table was used that was not allocated
  base,       \* what the backup program kept of a snapshot
  changed,    \* blocks changed since the last snapshot
  since,      \* blocks changed since the snapshot of the base
  expected    \* blocks changed between that snapshot and the last one

tableVars == <<allocated, read_map, write_map>>
numberVars == <<snap_number_active, snap_number_previous, generation_id>>
sizeVars == <<device_capacity, blk_count>>
ghostVars == <<base, changed, since, expected>>
vars == <<sizeVars, tableVars, numberVars, is_corrupted, snapshot_is_taken,
          tpc, capacity, oops, ghostVars>>

Blocks == 0 .. blk_count - 1

(* The cast to an unsigned byte of a number below twice its range.         *)
u8(n) == IF n <= MaxNumber THEN n ELSE n - (MaxNumber + 1)

-----------------------------------------------------------------------------
(* Recording changes                                                       *)

(* The table map after _cbt_map_set(): blocks past its end are not there   *)
(* to be set, and make the function fail.                                  *)
_cbt_map_set(map, number, first, last) ==
  [b \in DOMAIN map |->
     IF first <= b /\ b <= last /\ map[b] < number THEN number ELSE map[b]]

SetFails(last) == last >= blk_count

(* Mutant: a write that the map has no block for leaves no trace.          *)
SetIgnoresFailure(first, last) ==
  /\ tpc = "idle"
  /\ last < capacity
  /\ write_map' = _cbt_map_set(write_map, u8(snap_number_active), first, last)
  /\ changed' = changed \cup (first .. last)
  /\ since' = since \cup (first .. last)
  /\ UNCHANGED <<sizeVars, allocated, read_map, numberVars, is_corrupted,
                 snapshot_is_taken, tpc, capacity, oops, base, expected>>

(* The filter records a write before it lets it through.  The device has   *)
(* the blocks that are written, the map may be older and not have them.    *)
cbt_map_set(first, last) ==
  /\ tpc = "idle"
  /\ last < capacity
  /\ IF is_corrupted
       THEN UNCHANGED <<write_map, is_corrupted>>
       ELSE /\ write_map' = _cbt_map_set(write_map, u8(snap_number_active),
                                         first, last)
            /\ is_corrupted' = SetFails(last)
  /\ changed' = changed \cup (first .. last)
  /\ since' = since \cup (first .. last)
  /\ UNCHANGED <<sizeVars, allocated, read_map, numberVars,
                 snapshot_is_taken, tpc, capacity, oops, base, expected>>

(* An ioctl marks blocks as changed in the image of the last snapshot: for *)
(* the next snapshot, and for this one as if it had happened before.       *)
cbt_map_set_both(first, last) ==
  /\ ~is_corrupted /\ allocated
  /\ write_map' = _cbt_map_set(write_map, u8(snap_number_active), first, last)
  /\ IF SetFails(last)
       THEN UNCHANGED <<read_map, expected>>
       ELSE /\ read_map' = _cbt_map_set(read_map, u8(snap_number_previous),
                                        first, last)
            /\ expected' = IF base.number < snap_number_previous
                             THEN expected \cup (first .. last) ELSE expected
  /\ changed' = changed \cup ((first .. last) \cap Blocks)
  /\ since' = since \cup ((first .. last) \cap Blocks)
  /\ UNCHANGED <<sizeVars, allocated, numberVars, is_corrupted,
                 snapshot_is_taken, tpc, capacity, oops, base>>

(* The same when the tables are being replaced: cbt_map_reset() does not   *)
(* hold the spin lock.                                                     *)
SetBothOops ==
  /\ ~is_corrupted /\ ~allocated
  /\ oops' = TRUE
  /\ UNCHANGED <<sizeVars, tableVars, numberVars, is_corrupted,
                 snapshot_is_taken, tpc, capacity, ghostVars>>

-----------------------------------------------------------------------------
(* Taking and releasing a snapshot                                         *)

FreshUuid == Uuid \ {generation_id, base.gen}

Zero == [b \in Blocks |-> 0]

(* tracker_take_snapshot() freezes the filter and looks at the map.        *)
TakeCheck ==
  /\ tpc = "idle"
  /\ tpc' = IF is_corrupted \/ device_capacity # capacity THEN "free"
            ELSE "switch"
  /\ UNCHANGED <<sizeVars, tableVars, numberVars, is_corrupted,
                 snapshot_is_taken, capacity, oops, ghostVars>>

(* cbt_map_reset(), first cbt_map_deallocate() and the new size.           *)
cbt_map_deallocate ==
  /\ tpc = "free" /\ tpc' = "alloc"
  /\ allocated' = FALSE
  /\ is_corrupted' = FALSE
  /\ device_capacity' = capacity /\ blk_count' = capacity
  /\ UNCHANGED <<read_map, write_map, numberVars, snapshot_is_taken,
                 capacity, oops, ghostVars>>

(* cbt_map_allocate() makes the tables, and then sets the numbers.         *)
cbt_map_allocate ==
  /\ tpc = "alloc" /\ tpc' = "number"
  /\ allocated' = TRUE
  /\ read_map' = Zero /\ write_map' = Zero
  /\ UNCHANGED <<sizeVars, numberVars, is_corrupted, snapshot_is_taken,
                 capacity, oops, ghostVars>>

(* There is no memory: the snapshot fails and the filter stays frozen.     *)
AllocateFails ==
  /\ tpc = "alloc" /\ tpc' = "failed"
  /\ UNCHANGED <<sizeVars, tableVars, numberVars, is_corrupted,
                 snapshot_is_taken, capacity, oops, ghostVars>>

(* Mutant: the new tables belong to the old generation.                    *)
AllocateKeepsGeneration ==
  /\ tpc = "number" /\ tpc' = "switch"
  /\ snap_number_previous' = 0 /\ snap_number_active' = 1
  /\ is_corrupted' = FALSE
  /\ UNCHANGED <<sizeVars, tableVars, generation_id, snapshot_is_taken,
                 capacity, oops, ghostVars>>

AllocateNumbers ==
  /\ tpc = "number" /\ tpc' = "switch"
  /\ snap_number_previous' = 0 /\ snap_number_active' = 1
  /\ generation_id' \in FreshUuid
  /\ is_corrupted' = FALSE
  /\ UNCHANGED <<sizeVars, tableVars, snapshot_is_taken, capacity, oops,
                 ghostVars>>

(* The end of tracker_take_snapshot() after cbt_map_switch(): the snapshot *)
(* is taken and the filter is thawed.                                      *)
Taken ==
  /\ snapshot_is_taken' = TRUE
  /\ tpc = "switch" /\ tpc' = "idle"
  /\ changed' = {}
  /\ expected' = since
  /\ UNCHANGED <<sizeVars, allocated, is_corrupted, capacity, oops, base,
                 since>>

(* cbt_map_switch(): the changes so far belong to the snapshot.            *)
cbt_map_switch ==
  /\ Taken
  /\ snap_number_active < MaxNumber
  /\ snap_number_previous' = snap_number_active
  /\ snap_number_active' = snap_number_active + 1
  /\ read_map' = write_map
  /\ UNCHANGED <<write_map, generation_id>>

(* Mutant: the map is cleared in the same generation.                      *)
WrapKeepsGeneration ==
  /\ Taken
  /\ snap_number_active = MaxNumber
  /\ snap_number_previous' = snap_number_active
  /\ snap_number_active' = 1
  /\ write_map' = Zero
  /\ UNCHANGED <<read_map, generation_id>>

(* cbt_map_switch() when the numbers are used up.                          *)
SwitchWraps ==
  /\ Taken
  /\ snap_number_active = MaxNumber
  /\ snap_number_previous' = snap_number_active
  /\ snap_number_active' = 1
  /\ write_map' = Zero
  /\ generation_id' \in FreshUuid
  /\ UNCHANGED read_map

tracker_release_snapshot ==
  /\ tpc = "idle"
  /\ snapshot_is_taken
  /\ snapshot_is_taken' = FALSE
  /\ UNCHANGED <<sizeVars, tableVars, numberVars, is_corrupted, tpc, capacity,
                 oops, ghostVars>>

-----------------------------------------------------------------------------
(* The backup program and the device                                       *)

(* collect_cbt_info(), kept as the base of later backups.                  *)
collect_cbt_info ==
  /\ snapshot_is_taken /\ tpc = "idle"
  /\ base' = [gen |-> generation_id, number |-> u8(snap_number_previous),
              count |-> blk_count]
  /\ since' = changed
  /\ expected' = {}
  /\ UNCHANGED <<sizeVars, tableVars, numberVars, is_corrupted,
                 snapshot_is_taken, tpc, capacity, oops, changed>>

Resize ==
  /\ capacity' \in Capacities \ {capacity}
  /\ UNCHANGED <<sizeVars, tableVars, numberVars, is_corrupted,
                 snapshot_is_taken, tpc, oops, ghostVars>>

(* What cbt_map_read_to_user() copies: the size depends on the offset, the *)
(* data does not.                                                          *)
cbt_map_read_to_user(offset, size) ==
  LET real_size == IF blk_count - offset < size THEN blk_count - offset
                   ELSE size
  IN [i \in 0 .. real_size - 1 |-> read_map[i]]

(* tracker_read_cbt_bitmap() and cbt_map_read_to_user() let the map be     *)
(* read.                                                                   *)
Readable == snapshot_is_taken /\ ~is_corrupted /\ tpc = "idle"

Init ==
  /\ capacity \in Capacities
  /\ device_capacity = capacity /\ blk_count = capacity
  /\ allocated = TRUE
  /\ read_map = Zero /\ write_map = Zero
  /\ snap_number_previous = 0 /\ snap_number_active = 1
  /\ generation_id \in Uuid
  /\ is_corrupted = FALSE
  /\ snapshot_is_taken = FALSE
  /\ tpc = "idle"
  /\ oops = FALSE
  /\ base = [gen |-> NULL, number |-> 0, count |-> 0]
  /\ changed = {} /\ since = {} /\ expected = {}

(* A range of blocks that ends in a device of one of the sizes, or ends    *)
(* one block after it.                                                     *)
Ranges == UNION {{r \in (0 .. n) \X (0 .. n) : r[1] <= r[2]} :
                   n \in Capacities}

Next ==
  /\ ~oops
  /\ \/ \E r \in Ranges : cbt_map_set(r[1], r[2])
     \/ \E r \in Ranges : cbt_map_set_both(r[1], r[2])
     \/ SetBothOops
     \/ TakeCheck \/ cbt_map_deallocate \/ cbt_map_allocate \/ AllocateFails
     \/ AllocateNumbers \/ cbt_map_switch \/ SwitchWraps
     \/ tracker_release_snapshot \/ collect_cbt_info \/ Resize

Spec == Init /\ [][Next]_vars

-----------------------------------------------------------------------------
(* Properties                                                              *)

(* The types; a table that is allocated has one number for every block,    *)
(* and the numbers fit into a byte.                                        *)
TypeOK ==
  /\ capacity \in Capacities
  /\ device_capacity \in Capacities /\ blk_count = device_capacity
  /\ allocated \in BOOLEAN /\ is_corrupted \in BOOLEAN
  /\ snapshot_is_taken \in BOOLEAN /\ oops \in BOOLEAN
  /\ allocated => /\ read_map \in [Blocks -> 0 .. MaxNumber]
                  /\ write_map \in [Blocks -> 0 .. MaxNumber]
  /\ snap_number_active \in 1 .. MaxNumber
  /\ snap_number_previous \in 0 .. MaxNumber
  /\ generation_id \in Uuid
  /\ tpc \in {"idle", "free", "alloc", "number", "switch", "failed"}
  /\ base \in [gen : Uuid \cup {NULL}, number : 0 .. MaxNumber,
               count : Capacities \cup {0}]
  /\ changed \subseteq Nat /\ since \subseteq Nat /\ expected \subseteq Nat

(* The blocks that the backup program finds changed since its base.        *)
Reported ==
  {b \in Blocks : cbt_map_read_to_user(0, blk_count)[b] > base.number}

(* What the map is for: if it can be read and is of the generation of the  *)
(* base, every block changed between the snapshot of the base and the last *)
(* one is reported.  The base is not the snapshot at which the numbers     *)
(* were used up (see WrapReported).  A write that the map had no block for *)
(* must have made the map unreadable and lead to a new generation.         *)
NoChangeMissed ==
  (Readable /\ base.gen = generation_id /\ base.number < MaxNumber)
    => expected \subseteq Reported

(* Maps of one generation have the same number of blocks of the same size. *)
(* corrupt.cpp throws "The CBT block size cannot be changed in one         *)
(* generation." otherwise.                                                 *)
GenerationFixesSize ==
  (tpc = "idle" /\ base.gen = generation_id) => base.count = blk_count

(* Within a generation the number of a block never decreases: a change     *)
(* that was recorded is not forgotten by a later snapshot.                 *)
NumbersGrow ==
  [][(generation_id' = generation_id /\ allocated /\ allocated')
       => \A b \in Blocks : write_map'[b] >= write_map[b]]_vars

(* doc/blksnap.rst: "knowing the number of one of the previous snapshots   *)
(* and the number of the last snapshot, one can determine from the change  *)
(* map which blocks have been changed", whichever snapshot of the          *)
(* generation is the base.                                                 *)
WrapReported ==
  (Readable /\ base.gen = generation_id) => expected \subseteq Reported

(* include/blksnap/blksnap.h: the offset of a read is the "Offset from the *)
(* beginning of the CBT bitmap in bytes."                                  *)
ReadsAtOffset ==
  \A offset \in Blocks, size \in 1 .. blk_count :
    Readable =>
      \A i \in DOMAIN cbt_map_read_to_user(offset, size) :
        cbt_map_read_to_user(offset, size)[i] = read_map[offset + i]

(* module/cbt_map.h: the lock is for "atomic modification of structure     *)
(* members"; whoever holds it finds the tables in place.                   *)
TablesPresent == ~oops
=============================================================================
