---------------------------- MODULE CbtMapProofs ----------------------------
(***************************************************************************)
(* Proofs about CbtMap, for every size of the device and every number of   *)
(* snapshots before the numbers are used up: the map misses no change.     *)
(***************************************************************************)
EXTENDS CbtMap, TLAPS

(* Where tracker_take_snapshot() is, against the state of the tables.      *)
TakeInv ==
  /\ tpc \notin {"alloc", "failed"} => allocated
  /\ tpc \in {"alloc", "failed"} => ~allocated
  /\ tpc = "switch" => ~is_corrupted

(* The base, if the map is of its generation.                              *)
Live == base.gen = generation_id /\ base.number < MaxNumber

(* A map that recorded every write has a number greater than that of the   *)
(* base for every block changed since then.                                *)
BaseInv ==
  (tpc \in {"idle", "switch"} /\ ~is_corrupted /\ Live) =>
    /\ base.number < snap_number_active
    /\ \A b \in since : b \in Blocks /\ write_map[b] > base.number
    /\ \A b \in expected : b \in Blocks /\ read_map[b] > base.number

(* The same for the last snapshot, which may become the base.              *)
LastInv ==
  (tpc = "idle" /\ ~is_corrupted /\ snap_number_previous < MaxNumber) =>
    /\ snap_number_previous < snap_number_active
    /\ \A b \in changed : b \in Blocks /\ write_map[b] > snap_number_previous

(* The generation of the base has its size, but while tables are replaced. *)
SizeInv ==
  (tpc \in {"idle", "free", "switch"} /\ base.gen = generation_id)
    => base.count = blk_count

IInv == TypeOK /\ TakeInv /\ BaseInv /\ LastInv /\ SizeInv

-----------------------------------------------------------------------------
(* The ranges are pairs of numbers of blocks.                              *)
LEMMA RangesNat ==
  ASSUME NEW r \in Ranges
  PROVE  r[1] \in Nat /\ r[2] \in Nat /\ r[1] .. r[2] \subseteq Nat
BY CapacitiesAssumption DEF Ranges

(* _cbt_map_set() keeps the type of the table, lowers no number, and       *)
(* leaves in every block of the range at least the number it was given.    *)
LEMMA SetTable ==
  ASSUME NEW n \in Nat, NEW map \in [0 .. n - 1 -> 0 .. MaxNumber],
         NEW number \in 0 .. MaxNumber, NEW first \in Nat, NEW last \in Nat
  PROVE  LET new == _cbt_map_set(map, number, first, last)
         IN /\ new \in [0 .. n - 1 -> 0 .. MaxNumber]
            /\ \A b \in 0 .. n - 1 : new[b] >= map[b]
            /\ \A b \in (first .. last) \cap (0 .. n - 1) : new[b] >= number
BY MaxNumberAssumption DEF _cbt_map_set

(* The type invariant is inductive.                                        *)
LEMMA TypeStep ==
  ASSUME TypeOK, TakeInv, [Next]_vars
  PROVE  TypeOK'
<1>1. ASSUME NEW r \in Ranges, cbt_map_set(r[1], r[2]) PROVE TypeOK'
  <2>1. /\ blk_count \in Nat /\ u8(snap_number_active) \in 0 .. MaxNumber
        /\ write_map \in [0 .. blk_count - 1 -> 0 .. MaxNumber]
    BY <1>1, MaxNumberAssumption, CapacitiesAssumption
    DEF TypeOK, TakeInv, Blocks, u8, cbt_map_set
  <2>a. \/ write_map' = write_map /\ is_corrupted' = is_corrupted
        \/ /\ write_map' = _cbt_map_set(write_map, u8(snap_number_active),
                                        r[1], r[2])
           /\ is_corrupted' = SetFails(r[2])
    BY <1>1, Zenon DEF cbt_map_set
  <2>2. write_map' \in [Blocks -> 0 .. MaxNumber]
    <3>1. _cbt_map_set(write_map, u8(snap_number_active), r[1], r[2])
            \in [0 .. blk_count - 1 -> 0 .. MaxNumber]
      BY <2>1, SetTable, RangesNat, Zenon
    <3>2. QED
      BY <2>1, <2>a, <3>1, Zenon DEF Blocks
  <2>3. is_corrupted' \in BOOLEAN
    <3>1. SetFails(r[2]) \in BOOLEAN
      BY DEF SetFails
    <3>2. QED
      BY <2>a, <3>1, Zenon DEF TypeOK
  <2>4. changed' \subseteq Nat /\ since' \subseteq Nat
    BY <1>1, RangesNat, Zenon DEF cbt_map_set, TypeOK
  <2>5. QED
    BY <1>1, <2>2, <2>3, <2>4, Zenon
    DEF cbt_map_set, TypeOK, Blocks, sizeVars, numberVars
<1>2. ASSUME NEW r \in Ranges, cbt_map_set_both(r[1], r[2]) PROVE TypeOK'
  <2>1. /\ blk_count \in Nat /\ u8(snap_number_active) \in 0 .. MaxNumber
        /\ u8(snap_number_previous) \in 0 .. MaxNumber
        /\ write_map \in [0 .. blk_count - 1 -> 0 .. MaxNumber]
        /\ read_map \in [0 .. blk_count - 1 -> 0 .. MaxNumber]
    BY <1>2, MaxNumberAssumption, CapacitiesAssumption
    DEF TypeOK, TakeInv, Blocks, u8, cbt_map_set_both
  <2>2. write_map' \in [Blocks -> 0 .. MaxNumber]
    BY <1>2, <2>1, SetTable, RangesNat, Zenon DEF cbt_map_set_both, Blocks
  <2>3. read_map' \in [Blocks -> 0 .. MaxNumber]
    <3>1. \/ read_map' = read_map
          \/ read_map' = _cbt_map_set(read_map, u8(snap_number_previous),
                                      r[1], r[2])
      BY <1>2, Zenon DEF cbt_map_set_both
    <3>2. _cbt_map_set(read_map, u8(snap_number_previous), r[1], r[2])
            \in [0 .. blk_count - 1 -> 0 .. MaxNumber]
      BY <2>1, SetTable, RangesNat, Zenon
    <3>3. QED
      BY <2>1, <3>1, <3>2, Zenon DEF Blocks
  <2>4. /\ changed' \subseteq Nat /\ since' \subseteq Nat
        /\ expected' \subseteq Nat
    BY <1>2, RangesNat, Zenon DEF cbt_map_set_both, TypeOK
  <2>5. QED
    BY <1>2, <2>2, <2>3, <2>4, Zenon
    DEF cbt_map_set_both, TypeOK, Blocks, sizeVars, numberVars
<1>3. CASE SetBothOops
  BY <1>3, MaxNumberAssumption, CapacitiesAssumption, Zenon
  DEF SetBothOops, TypeOK, Blocks, sizeVars, tableVars,
      numberVars, ghostVars
<1>4. CASE TakeCheck
  BY <1>4, MaxNumberAssumption, CapacitiesAssumption, Zenon
  DEF TakeCheck, TypeOK, Blocks, sizeVars, tableVars,
      numberVars, ghostVars
<1>5. CASE cbt_map_deallocate
  BY <1>5, MaxNumberAssumption, CapacitiesAssumption, Zenon
  DEF cbt_map_deallocate, TypeOK, Blocks, sizeVars, tableVars,
      numberVars, ghostVars
<1>6. CASE cbt_map_allocate
  BY <1>6, MaxNumberAssumption, CapacitiesAssumption
  DEF cbt_map_allocate, TypeOK, Blocks, Zero, sizeVars, tableVars,
      numberVars, ghostVars
<1>7. CASE AllocateFails
  BY <1>7, MaxNumberAssumption, CapacitiesAssumption, Zenon
  DEF AllocateFails, TypeOK, Blocks, sizeVars, tableVars,
      numberVars, ghostVars
<1>8. CASE AllocateNumbers
  <2>1. /\ snap_number_active' \in 1 .. MaxNumber
        /\ snap_number_previous' \in 0 .. MaxNumber
        /\ generation_id' \in Uuid
    BY <1>8, MaxNumberAssumption DEF AllocateNumbers, FreshUuid
  <2>2. QED
    BY <1>8, <2>1, Zenon
    DEF AllocateNumbers, TypeOK, Blocks, sizeVars, tableVars, ghostVars
<1>9. CASE cbt_map_switch
  <2>1. allocated
    BY <1>9, Zenon DEF cbt_map_switch, Taken, TakeInv
  <2>2. read_map' = write_map /\ write_map' = write_map
    BY <1>9, Zenon DEF cbt_map_switch
  <2>3. /\ snap_number_active' \in 1 .. MaxNumber
        /\ snap_number_previous' \in 0 .. MaxNumber
    BY <1>9, MaxNumberAssumption DEF cbt_map_switch, TypeOK
  <2>4. QED
    BY <1>9, <2>1, <2>2, <2>3, Zenon
    DEF cbt_map_switch, Taken, TypeOK, Blocks, sizeVars
<1>10. CASE SwitchWraps
  BY <1>10, MaxNumberAssumption, CapacitiesAssumption
  DEF SwitchWraps, TypeOK, Blocks, Zero, Taken, FreshUuid, sizeVars, tableVars,
      numberVars, ghostVars
<1>11. CASE tracker_release_snapshot
  BY <1>11, MaxNumberAssumption, CapacitiesAssumption, Zenon
  DEF tracker_release_snapshot, TypeOK, Blocks, sizeVars, tableVars,
      numberVars, ghostVars
<1>12. CASE collect_cbt_info
  BY <1>12, MaxNumberAssumption, CapacitiesAssumption
  DEF collect_cbt_info, TypeOK, Blocks, u8, sizeVars, tableVars,
      numberVars, ghostVars
<1>13. CASE Resize
  BY <1>13, MaxNumberAssumption, CapacitiesAssumption, Zenon
  DEF Resize, TypeOK, Blocks, sizeVars, tableVars,
      numberVars, ghostVars
<1>14. CASE UNCHANGED vars
  BY <1>14, Zenon DEF vars, TypeOK, Blocks, sizeVars, tableVars,
      numberVars, ghostVars
<1>15. QED
  BY <1>1, <1>2, <1>3, <1>4, <1>5, <1>6, <1>7, <1>8, <1>9, <1>10, <1>11, <1>12, <1>13, <1>14,
     Zenon DEF Next

(* So is what is said of the tables.                                       *)
LEMMA TakeStep ==
  ASSUME TypeOK, TakeInv, [Next]_vars
  PROVE  TakeInv'
<1>1. ASSUME NEW r \in Ranges,
             cbt_map_set(r[1], r[2]) \/ cbt_map_set_both(r[1], r[2])
      PROVE  TakeInv'
  BY <1>1 DEF cbt_map_set, cbt_map_set_both, TakeInv
<1>2. CASE TakeCheck
  BY <1>2, Zenon DEF TakeCheck, TakeInv, TypeOK, tableVars
<1>3. CASE cbt_map_deallocate \/ cbt_map_allocate \/ AllocateFails
  BY <1>3 DEF cbt_map_deallocate, cbt_map_allocate, AllocateFails, TakeInv,
              tableVars
<1>4. CASE AllocateNumbers
  BY <1>4, Zenon DEF AllocateNumbers, TakeInv, tableVars
<1>5. CASE cbt_map_switch \/ SwitchWraps
  BY <1>5, Zenon DEF cbt_map_switch, SwitchWraps, Taken, TakeInv
<1>6. CASE SetBothOops \/ tracker_release_snapshot \/ collect_cbt_info
           \/ Resize \/ UNCHANGED vars
  BY <1>6 DEF SetBothOops, tracker_release_snapshot, collect_cbt_info, Resize,
              vars, TakeInv, tableVars
<1>7. QED
  BY <1>1, <1>2, <1>3, <1>4, <1>5, <1>6, Zenon DEF Next

(* The size of a generation.                                               *)
LEMMA SizeStep ==
  ASSUME TypeOK, TakeInv, SizeInv, [Next]_vars
  PROVE  SizeInv'
<1>1. ASSUME NEW r \in Ranges,
             cbt_map_set(r[1], r[2]) \/ cbt_map_set_both(r[1], r[2])
      PROVE  SizeInv'
  BY <1>1, Zenon DEF cbt_map_set, cbt_map_set_both, SizeInv, sizeVars,
     numberVars
<1>2. CASE TakeCheck
  BY <1>2, Zenon DEF TakeCheck, SizeInv, sizeVars, numberVars, ghostVars
<1>3. CASE cbt_map_deallocate \/ cbt_map_allocate \/ AllocateFails
  BY <1>3, Zenon DEF cbt_map_deallocate, cbt_map_allocate, AllocateFails,
     SizeInv
<1>4. CASE AllocateNumbers
  BY <1>4, Zenon DEF AllocateNumbers, FreshUuid, SizeInv, ghostVars
<1>5. CASE cbt_map_switch
  BY <1>5, Zenon DEF cbt_map_switch, Taken, SizeInv, sizeVars
<1>6. CASE SwitchWraps
  BY <1>6, Zenon DEF SwitchWraps, Taken, FreshUuid, SizeInv
<1>7. CASE collect_cbt_info
  BY <1>7, Zenon DEF collect_cbt_info, SizeInv, sizeVars, numberVars
<1>8. CASE SetBothOops \/ tracker_release_snapshot \/ Resize
           \/ UNCHANGED vars
  BY <1>8, Zenon DEF SetBothOops, tracker_release_snapshot, Resize, vars,
     SizeInv,
              sizeVars, numberVars, ghostVars
<1>9. QED
  BY <1>1, <1>2, <1>3, <1>4, <1>5, <1>6, <1>7, <1>8, Zenon DEF Next

-----------------------------------------------------------------------------
(* A write that the map had blocks for: their numbers become the number of *)
(* the snapshot to come, and no other number decreases.                    *)
LEMMA SetEffect ==
  ASSUME TypeOK, TakeInv, NEW r \in Ranges, cbt_map_set(r[1], r[2]),
         ~is_corrupted'
  PROVE  /\ ~is_corrupted
         /\ \A b \in Blocks : write_map'[b] >= write_map[b]
         /\ \A b \in r[1] .. r[2] : /\ b \in Blocks
                                   /\ write_map'[b] >= snap_number_active
<1>1. /\ ~is_corrupted
      /\ write_map' = _cbt_map_set(write_map, u8(snap_number_active),
                                   r[1], r[2])
      /\ is_corrupted' = SetFails(r[2])
  BY Zenon DEF cbt_map_set
<1>2. blk_count \in Nat /\ r[1] \in Nat /\ r[2] \in Nat /\ r[2] < blk_count
  <2>1. ~SetFails(r[2])
    BY <1>1, Zenon
  <2>2. QED
    BY <2>1, RangesNat, CapacitiesAssumption DEF SetFails, TypeOK
<1>3. /\ u8(snap_number_active) = snap_number_active
      /\ snap_number_active \in 0 .. MaxNumber
  BY MaxNumberAssumption DEF TypeOK, u8
<1>4. write_map \in [0 .. blk_count - 1 -> 0 .. MaxNumber]
  BY Zenon DEF cbt_map_set, TypeOK, TakeInv, Blocks
<1>5. /\ \A b \in 0 .. blk_count - 1 : write_map'[b] >= write_map[b]
      /\ \A b \in (r[1] .. r[2]) \cap (0 .. blk_count - 1) :
            write_map'[b] >= snap_number_active
  <2> DEFINE new == _cbt_map_set(write_map, snap_number_active, r[1], r[2])
  <2>1. /\ \A b \in 0 .. blk_count - 1 : new[b] >= write_map[b]
        /\ \A b \in (r[1] .. r[2]) \cap (0 .. blk_count - 1) :
              new[b] >= snap_number_active
    BY <1>2, <1>3, <1>4, SetTable, Zenon
  <2>2. write_map' = new
    BY <1>1, <1>3, Zenon
  <2> HIDE DEF new
  <2>3. QED
    BY <2>1, <2>2, Zenon
<1>6. \A b \in r[1] .. r[2] : b \in 0 .. blk_count - 1
  BY <1>2
<1>7. QED
  BY <1>1, <1>5, <1>6, Zenon DEF Blocks

(* Blocks marked by the ioctl: the numbers of both snapshots.              *)
LEMMA SetBothEffect ==
  ASSUME TypeOK, NEW r \in Ranges, cbt_map_set_both(r[1], r[2])
  PROVE  /\ \A b \in Blocks : /\ write_map'[b] >= write_map[b]
                              /\ read_map'[b] >= read_map[b]
         /\ \A b \in (r[1] .. r[2]) \cap Blocks :
               write_map'[b] >= snap_number_active
         /\ \/ expected' = expected
            \/ /\ expected' = expected \cup (r[1] .. r[2])
               /\ base.number < snap_number_previous
               /\ \A b \in r[1] .. r[2] :
                     b \in Blocks /\ read_map'[b] >= snap_number_previous
<1>1. /\ blk_count \in Nat /\ r[1] \in Nat /\ r[2] \in Nat
      /\ u8(snap_number_active) = snap_number_active
      /\ u8(snap_number_previous) = snap_number_previous
      /\ snap_number_active \in 0 .. MaxNumber
      /\ snap_number_previous \in 0 .. MaxNumber
  BY RangesNat, CapacitiesAssumption, MaxNumberAssumption DEF TypeOK, u8
<1>2. /\ write_map \in [0 .. blk_count - 1 -> 0 .. MaxNumber]
      /\ read_map \in [0 .. blk_count - 1 -> 0 .. MaxNumber]
  BY Zenon DEF cbt_map_set_both, TypeOK, Blocks
<1>3. write_map' = _cbt_map_set(write_map, snap_number_active, r[1], r[2])
  BY <1>1, Zenon DEF cbt_map_set_both
<1>4. /\ \A b \in 0 .. blk_count - 1 : write_map'[b] >= write_map[b]
      /\ \A b \in (r[1] .. r[2]) \cap (0 .. blk_count - 1) :
            write_map'[b] >= snap_number_active
  BY <1>1, <1>2, <1>3, SetTable, Zenon
<1>5. CASE SetFails(r[2])
  <2>1. read_map' = read_map /\ expected' = expected
    BY <1>5, Zenon DEF cbt_map_set_both
  <2>2. \A b \in 0 .. blk_count - 1 : read_map'[b] >= read_map[b]
    BY <1>2, <2>1, MaxNumberAssumption
  <2>3. QED
    BY <1>4, <2>1, <2>2, Zenon DEF Blocks
<1>6. CASE ~SetFails(r[2])
  <2>1. /\ read_map' = _cbt_map_set(read_map, snap_number_previous,
                                    r[1], r[2])
        /\ expected' = IF base.number < snap_number_previous
                         THEN expected \cup (r[1] .. r[2]) ELSE expected
    BY <1>1, <1>6, Zenon DEF cbt_map_set_both
  <2>2. /\ \A b \in 0 .. blk_count - 1 : read_map'[b] >= read_map[b]
        /\ \A b \in (r[1] .. r[2]) \cap (0 .. blk_count - 1) :
              read_map'[b] >= snap_number_previous
    BY <1>1, <1>2, <2>1, SetTable, Zenon
  <2>3. \A b \in r[1] .. r[2] : b \in 0 .. blk_count - 1
    BY <1>1, <1>6 DEF SetFails
  <2>4. QED
    BY <1>4, <2>1, <2>2, <2>3, Zenon DEF Blocks
<1>7. QED
  BY <1>5, <1>6, Zenon

(* The numbers of the tables are numbers, before and after a step.         *)
LEMMA Numbers ==
  ASSUME TypeOK
  PROVE  /\ snap_number_previous \in Int /\ snap_number_active \in Int
         /\ base.number \in Int
         /\ allocated => \A b \in Blocks : /\ write_map[b] \in Int
                                          /\ read_map[b] \in Int
BY MaxNumberAssumption DEF TypeOK

(* The numbers since the last snapshot.                                    *)
LEMMA LastStep ==
  ASSUME TypeOK, TakeInv, LastInv, [Next]_vars
  PROVE  LastInv'
<1>t. TypeOK' /\ TakeInv'
  BY TypeStep, TakeStep, Zenon
<1>1. ASSUME NEW r \in Ranges, cbt_map_set(r[1], r[2]) PROVE LastInv'
  <2>u. UNCHANGED <<numberVars, Blocks, allocated, tpc>> /\ tpc = "idle"
    BY <1>1, Zenon DEF cbt_map_set, sizeVars, Blocks
  <2>1. SUFFICES ASSUME ~is_corrupted', snap_number_previous < MaxNumber
                 PROVE  /\ snap_number_previous < snap_number_active
                        /\ \A b \in changed' :
                              /\ b \in Blocks
                              /\ write_map'[b] > snap_number_previous
    BY <2>u, Zenon DEF LastInv, numberVars
  <2>2. ~is_corrupted /\ allocated /\ changed' = changed \cup (r[1] .. r[2])
    BY <1>1, <2>1, <2>u, SetEffect, Zenon DEF cbt_map_set, TakeInv
  <2>3. /\ snap_number_previous < snap_number_active
        /\ \A b \in changed : b \in Blocks
                              /\ write_map[b] > snap_number_previous
    BY <2>1, <2>2, <2>u, Zenon DEF LastInv
  <2>4. /\ snap_number_previous \in Int /\ snap_number_active \in Int
        /\ \A b \in Blocks : write_map[b] \in Int /\ write_map'[b] \in Int
    BY <1>t, <2>2, <2>u, Numbers DEF TypeOK
  <2>5. /\ \A b \in Blocks : write_map'[b] >= write_map[b]
        /\ \A b \in r[1] .. r[2] : /\ b \in Blocks
                                  /\ write_map'[b] >= snap_number_active
    BY <1>1, <2>1, SetEffect, Zenon
  <2>6. QED
    BY <2>2, <2>3, <2>4, <2>5
<1>2. ASSUME NEW r \in Ranges, cbt_map_set_both(r[1], r[2]) PROVE LastInv'
  <2>u. /\ UNCHANGED <<numberVars, Blocks, allocated, tpc, is_corrupted>>
        /\ allocated
    BY <1>2, Zenon DEF cbt_map_set_both, sizeVars, Blocks
  <2>1. SUFFICES ASSUME tpc = "idle", ~is_corrupted,
                        snap_number_previous < MaxNumber
                 PROVE  /\ snap_number_previous < snap_number_active
                        /\ \A b \in changed' :
                              /\ b \in Blocks
                              /\ write_map'[b] > snap_number_previous
    BY <2>u, Zenon DEF LastInv, numberVars
  <2>2. changed' = changed \cup ((r[1] .. r[2]) \cap Blocks)
    BY <1>2, Zenon DEF cbt_map_set_both
  <2>3. /\ snap_number_previous < snap_number_active
        /\ \A b \in changed : b \in Blocks
                              /\ write_map[b] > snap_number_previous
    BY <2>1, Zenon DEF LastInv
  <2>4. /\ snap_number_previous \in Int /\ snap_number_active \in Int
        /\ \A b \in Blocks : write_map[b] \in Int /\ write_map'[b] \in Int
    BY <1>t, <2>u, Numbers DEF TypeOK
  <2>5. /\ \A b \in Blocks : write_map'[b] >= write_map[b]
        /\ \A b \in (r[1] .. r[2]) \cap Blocks :
              write_map'[b] >= snap_number_active
    BY <1>2, SetBothEffect, Zenon
  <2>6. QED
    BY <2>2, <2>3, <2>4, <2>5
<1>3. CASE cbt_map_switch
  <2>1. /\ changed' = {} /\ snap_number_previous' = snap_number_active
        /\ snap_number_active' = snap_number_active + 1
    BY <1>3, Zenon DEF cbt_map_switch, Taken
  <2>2. QED
    BY <2>1, Numbers DEF LastInv
<1>4. CASE SwitchWraps
  <2>1. snap_number_previous' = MaxNumber
    BY <1>4, Zenon DEF SwitchWraps
  <2>2. QED
    BY <2>1, MaxNumberAssumption DEF LastInv
<1>5. CASE TakeCheck \/ cbt_map_deallocate \/ cbt_map_allocate
           \/ AllocateFails \/ AllocateNumbers
  <2>1. tpc' # "idle"
    BY <1>5, Zenon DEF TakeCheck, cbt_map_deallocate, cbt_map_allocate,
                AllocateFails, AllocateNumbers
  <2>2. QED
    BY <2>1, Zenon DEF LastInv
<1>6. CASE SetBothOops \/ tracker_release_snapshot \/ collect_cbt_info
           \/ Resize \/ UNCHANGED vars
  <2>1. UNCHANGED <<tpc, is_corrupted, numberVars, changed, Blocks, write_map>>
    BY <1>6, Zenon DEF SetBothOops, tracker_release_snapshot, collect_cbt_info,
                Resize, vars, sizeVars, tableVars, ghostVars, Blocks
  <2>2. QED
    BY <2>1, Zenon DEF LastInv, numberVars
<1>7. QED
  BY <1>1, <1>2, <1>3, <1>4, <1>5, <1>6, Zenon DEF Next

(* The numbers since the snapshot of the base.                             *)
LEMMA BaseStep ==
  ASSUME TypeOK, TakeInv, BaseInv, LastInv, [Next]_vars
  PROVE  BaseInv'
<1>t. TypeOK' /\ TakeInv'
  BY TypeStep, TakeStep, Zenon
<1>1. ASSUME NEW r \in Ranges, cbt_map_set(r[1], r[2]) PROVE BaseInv'
  <2>u. /\ UNCHANGED <<numberVars, base, expected, read_map, Blocks,
                       allocated, tpc>>
        /\ tpc = "idle"
    BY <1>1, Zenon DEF cbt_map_set, sizeVars, Blocks
  <2>1. SUFFICES ASSUME ~is_corrupted', Live
                 PROVE  /\ base.number < snap_number_active
                        /\ \A b \in since' :
                              b \in Blocks /\ write_map'[b] > base.number
                        /\ \A b \in expected :
                              b \in Blocks /\ read_map[b] > base.number
    BY <2>u, Zenon DEF BaseInv, Live, numberVars
  <2>2. ~is_corrupted /\ allocated /\ since' = since \cup (r[1] .. r[2])
    BY <1>1, <2>1, <2>u, SetEffect, Zenon DEF cbt_map_set, TakeInv
  <2>3. /\ base.number < snap_number_active
        /\ \A b \in since : b \in Blocks /\ write_map[b] > base.number
        /\ \A b \in expected : b \in Blocks /\ read_map[b] > base.number
    BY <2>1, <2>2, <2>u, Zenon DEF BaseInv
  <2>4. /\ base.number \in Int /\ snap_number_active \in Int
        /\ \A b \in Blocks : write_map[b] \in Int /\ write_map'[b] \in Int
    BY <1>t, <2>2, <2>u, Numbers DEF TypeOK
  <2>5. /\ \A b \in Blocks : write_map'[b] >= write_map[b]
        /\ \A b \in r[1] .. r[2] : /\ b \in Blocks
                                  /\ write_map'[b] >= snap_number_active
    BY <1>1, <2>1, SetEffect, Zenon
  <2>6. QED
    BY <2>2, <2>3, <2>4, <2>5
<1>2. ASSUME NEW r \in Ranges, cbt_map_set_both(r[1], r[2]) PROVE BaseInv'
  <2>u. /\ UNCHANGED <<numberVars, base, Blocks, allocated, tpc, is_corrupted>>
        /\ allocated
    BY <1>2, Zenon DEF cbt_map_set_both, sizeVars, Blocks
  <2>1. SUFFICES ASSUME tpc \in {"idle", "switch"}, ~is_corrupted, Live
                 PROVE  /\ base.number < snap_number_active
                        /\ \A b \in since' :
                              b \in Blocks /\ write_map'[b] > base.number
                        /\ \A b \in expected' :
                              b \in Blocks /\ read_map'[b] > base.number
    BY <2>u, Zenon DEF BaseInv, Live, numberVars
  <2>2. since' = since \cup ((r[1] .. r[2]) \cap Blocks)
    BY <1>2, Zenon DEF cbt_map_set_both
  <2>3. /\ base.number < snap_number_active
        /\ \A b \in since : b \in Blocks /\ write_map[b] > base.number
        /\ \A b \in expected : b \in Blocks /\ read_map[b] > base.number
    BY <2>1, Zenon DEF BaseInv
  <2>4. /\ base.number \in Int /\ snap_number_active \in Int
        /\ snap_number_previous \in Int
        /\ \A b \in Blocks : /\ write_map[b] \in Int /\ write_map'[b] \in Int
                             /\ read_map[b] \in Int /\ read_map'[b] \in Int
    BY <1>t, <2>u, Numbers DEF TypeOK
  <2>5. \A b \in since' : b \in Blocks /\ write_map'[b] > base.number
    BY <1>2, <2>2, <2>3, <2>4, SetBothEffect
  <2>6. \A b \in expected' : b \in Blocks /\ read_map'[b] > base.number
    BY <1>2, <2>3, <2>4, SetBothEffect
  <2>7. QED
    BY <2>3, <2>5, <2>6, Zenon
<1>3. CASE cbt_map_switch
  <2>u. /\ UNCHANGED <<is_corrupted, base, since, Blocks, write_map,
                       generation_id>>
        /\ tpc = "switch" /\ read_map' = write_map /\ expected' = since
        /\ snap_number_active' = snap_number_active + 1
    BY <1>3, Zenon DEF cbt_map_switch, Taken, sizeVars, Blocks
  <2>1. base.number \in Int /\ snap_number_active \in Int
    BY Numbers, Zenon
  <2>2. SUFFICES ASSUME ~is_corrupted, Live
                 PROVE  /\ base.number < snap_number_active + 1
                        /\ \A b \in since :
                              b \in Blocks /\ write_map[b] > base.number
    BY <2>u, Zenon DEF BaseInv, Live
  <2>3. QED
    BY <2>u, <2>1, <2>2 DEF BaseInv
<1>4. CASE SwitchWraps \/ AllocateNumbers
  <2>1. generation_id' # base'.gen
    BY <1>4, Zenon DEF SwitchWraps, AllocateNumbers, Taken, FreshUuid, ghostVars
  <2>2. QED
    BY <2>1, Zenon DEF BaseInv, Live
<1>5. CASE cbt_map_deallocate \/ cbt_map_allocate \/ AllocateFails
  <2>1. tpc' \notin {"idle", "switch"}
    BY <1>5, Zenon DEF cbt_map_deallocate, cbt_map_allocate, AllocateFails
  <2>2. QED
    BY <2>1, Zenon DEF BaseInv
<1>6. CASE collect_cbt_info
  <2>u. /\ UNCHANGED <<tpc, is_corrupted, numberVars, Blocks, write_map>>
        /\ tpc = "idle" /\ base'.number = u8(snap_number_previous)
        /\ since' = changed /\ expected' = {}
    BY <1>6, Zenon DEF collect_cbt_info, sizeVars, tableVars, Blocks
  <2>1. u8(snap_number_previous) = snap_number_previous
    BY DEF TypeOK, u8
  <2>2. SUFFICES ASSUME ~is_corrupted, snap_number_previous < MaxNumber
                 PROVE  /\ snap_number_previous < snap_number_active
                        /\ \A b \in changed :
                              /\ b \in Blocks
                              /\ write_map[b] > snap_number_previous
    BY <2>u, <2>1, Zenon DEF BaseInv, Live, numberVars
  <2>3. QED
    BY <2>u, <2>2, Zenon DEF LastInv
<1>7. CASE TakeCheck
  <2>1. /\ UNCHANGED <<is_corrupted, numberVars, base, since, expected,
                       Blocks, write_map, read_map>>
        /\ tpc = "idle"
    BY <1>7, Zenon DEF TakeCheck, sizeVars, tableVars, ghostVars, Blocks
  <2>2. QED
    BY <2>1, Zenon DEF BaseInv, Live, numberVars
<1>8. CASE SetBothOops \/ tracker_release_snapshot \/ Resize
           \/ UNCHANGED vars
  <2>1. UNCHANGED <<tpc, is_corrupted, numberVars, base, since, expected,
                    Blocks, write_map, read_map>>
    BY <1>8, Zenon DEF SetBothOops, tracker_release_snapshot, Resize, vars,
       sizeVars,
                tableVars, ghostVars, Blocks
  <2>2. QED
    BY <2>1, Zenon DEF BaseInv, Live, numberVars
<1>9. QED
  BY <1>1, <1>2, <1>3, <1>4, <1>5, <1>6, <1>7, <1>8, Zenon DEF Next

-----------------------------------------------------------------------------
(* Nothing is changed, and nothing recorded, when the tracker is made.     *)
LEMMA InitInv == Init => IInv
<1>1. SUFFICES ASSUME Init PROVE IInv
  BY Zenon
<1>2. TypeOK
  <2>1. Zero \in [Blocks -> 0 .. MaxNumber]
    BY MaxNumberAssumption DEF Zero
  <2>2. 0 \in 0 .. MaxNumber /\ 1 \in 1 .. MaxNumber
    BY MaxNumberAssumption
  <2>3. QED
    BY <1>1, <2>1, <2>2, Zenon DEF Init, TypeOK
<1>3. TakeInv /\ SizeInv
  BY <1>1, UuidAssumption, Zenon DEF Init, TakeInv, SizeInv
<1>4. BaseInv
  BY <1>1, UuidAssumption, Zenon DEF Init, BaseInv, Live
<1>5. LastInv
  BY <1>1 DEF Init, LastInv
<1>6. QED
  BY <1>2, <1>3, <1>4, <1>5, Zenon DEF IInv

(* The map misses no change, and the size of a generation is fixed, in     *)
(* every state that the tracker can reach.                                 *)
LEMMA Invariance == Spec => []IInv
<1>1. IInv /\ [Next]_vars => IInv'
  BY TypeStep, TakeStep, BaseStep, LastStep, SizeStep, Zenon DEF IInv
<1>2. QED
  BY InitInv, <1>1, PTL DEF Spec

(* The map and the state of the tracker have their types: in particular    *)
(* the numbers always fit into the bytes of the tables.                    *)
THEOREM TypeCorrect == Spec => []TypeOK
BY Invariance, PTL DEF IInv

(* cbt_map_set(), cbt_map_switch() and cbt_map_reset() together: the map   *)
(* that is read at a snapshot reports every block changed since the base,  *)
(* whatever the size of the device, the writes, the marks, the failures to *)
(* record and the snapshots in between.                                    *)
THEOREM MapMissesNoChange == Spec => []NoChangeMissed
<1>1. IInv => NoChangeMissed
  <2>1. SUFFICES ASSUME IInv, Readable, Live
                 PROVE  expected \subseteq Reported
    BY Zenon DEF NoChangeMissed, Live
  <2>2. \A b \in expected : b \in Blocks /\ read_map[b] > base.number
    BY <2>1, Zenon DEF IInv, BaseInv, Readable
  <2>3. blk_count \in Nat
    BY <2>1, CapacitiesAssumption, Zenon DEF IInv, TypeOK
  <2>4. \A b \in Blocks :
          cbt_map_read_to_user(0, blk_count)[b] = read_map[b]
    BY <2>3 DEF cbt_map_read_to_user, Blocks
  <2>5. QED
    BY <2>2, <2>4, Zenon DEF Reported
<1>2. QED
  BY Invariance, <1>1, PTL

(* A new generation comes with every new size of the map.                  *)
THEOREM SizeOfGeneration == Spec => []GenerationFixesSize
<1>1. IInv => GenerationFixesSize
  BY Zenon DEF IInv, SizeInv, GenerationFixesSize
<1>2. QED
  BY Invariance, <1>1, PTL

(* A step that keeps the tables and the generation forgets no change: what *)
(* the filter recorded stays until cbt_map_switch() or cbt_map_reset()     *)
(* give out a new generation.                                              *)
THEOREM NumbersNeverDecrease == Spec => NumbersGrow
<1>1. ASSUME IInv, [Next]_vars, generation_id' = generation_id, allocated,
             allocated'
      PROVE  \A b \in Blocks : write_map'[b] >= write_map[b]
  <2>t. TypeOK /\ TakeInv
    BY <1>1, Zenon DEF IInv
  <2>n. \A b \in Blocks : write_map[b] >= write_map[b]
    BY <1>1, <2>t, Numbers
  <2>1. ASSUME NEW r \in Ranges, cbt_map_set(r[1], r[2])
        PROVE  \A b \in Blocks : write_map'[b] >= write_map[b]
    <3>1. \/ write_map' = write_map
          \/ write_map' = _cbt_map_set(write_map, u8(snap_number_active),
                                       r[1], r[2])
      BY <2>1, Zenon DEF cbt_map_set
    <3>2. /\ blk_count \in Nat /\ r[1] \in Nat /\ r[2] \in Nat
          /\ u8(snap_number_active) \in 0 .. MaxNumber
          /\ write_map \in [0 .. blk_count - 1 -> 0 .. MaxNumber]
      BY <1>1, <2>t, RangesNat, CapacitiesAssumption, MaxNumberAssumption
      DEF TypeOK, u8, Blocks
    <3>3. \A b \in 0 .. blk_count - 1 :
            _cbt_map_set(write_map, u8(snap_number_active), r[1], r[2])[b]
              >= write_map[b]
      BY <3>2, SetTable, Zenon
    <3>4. QED
      BY <2>n, <3>1, <3>3, Zenon DEF Blocks
  <2>2. ASSUME NEW r \in Ranges, cbt_map_set_both(r[1], r[2])
        PROVE  \A b \in Blocks : write_map'[b] >= write_map[b]
    BY <2>2, <2>t, SetBothEffect, Zenon
  <2>3. CASE cbt_map_allocate
    BY <1>1, <2>3, <2>t, Zenon DEF cbt_map_allocate, TypeOK, TakeInv
  <2>4. CASE SwitchWraps
    BY <1>1, <2>4, Zenon DEF SwitchWraps, FreshUuid
  <2>5. CASE SetBothOops \/ TakeCheck \/ cbt_map_deallocate \/ AllocateFails
             \/ AllocateNumbers \/ cbt_map_switch
             \/ tracker_release_snapshot \/ collect_cbt_info \/ Resize
             \/ UNCHANGED vars
    <3>1. write_map' = write_map
      BY <2>5, Zenon DEF SetBothOops, TakeCheck, cbt_map_deallocate,
         AllocateFails,
                  AllocateNumbers, cbt_map_switch, tracker_release_snapshot,
                  collect_cbt_info, Resize, vars, tableVars
    <3>2. QED
      BY <2>n, <3>1, Zenon
  <2>6. QED
    BY <1>1, <2>1, <2>2, <2>3, <2>4, <2>5, Zenon DEF Next
<1>2. IInv /\ [Next]_vars =>
        [(generation_id' = generation_id /\ allocated /\ allocated')
           => \A b \in Blocks : write_map'[b] >= write_map[b]]_vars
  BY <1>1, Zenon
<1>3. QED
  BY Invariance, <1>2, PTL DEF NumbersGrow, Spec
=============================================================================
