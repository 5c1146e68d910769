----------------------------- MODULE Snapshots ------------------------------
(***************************************************************************)
(* The life of snapshots: the ioctls of module/main.c and the functions of *)
(* module/snapshot.c that they call, with the parts of tracker.c,          *)
(* diff_area.c and snapimage.c that take, release and drop what a snapshot *)
(* holds.                                                                  *)
(*                                                                         *)
(* A snapshot holds a reference to the tracker of each of its devices.     *)
(* Taking it allocates a difference area per device, switches the trackers *)
(* to copy-on-write and creates the images.  Whoever drops the last        *)
(* reference of the snapshot undoes all that.                              *)
(*                                                                         *)
(* Abstractions.  A section under snapshots_lock is one step, so is one    *)
(* round of a loop over the devices.  The list of snapshots is what its    *)
(* next and prev pointers make of it.  A tracker is the record trk[d] of   *)
(* its device (its own life is in Trackers), a difference area a number    *)
(* with a reference count (its contents are in DiffArea), the difference   *)
(* storage whether it has capacity (its contents are in DiffStorage).      *)
(* Freeing images and dropping areas are steps that do not wait; ImageArea *)
(* has what snapimage_free() and diff_area_free() wait for.  A bio is a    *)
(* write of the file system.  Sequential selects between the two ways of   *)
(* freezing that snapshot.c can be compiled with; Makefile-standalone      *)
(* defines BLK_SNAP_SEQUENTALFREEZE.                                       *)
(***************************************************************************)
EXTENDS Integers, Sequences, FiniteSets, SequencesExt

CONSTANTS
  Threads,     \* tasks that call ioctls
  Devices,     \* original devices
  DeviceLists, \* what the snapshots are created of
  SnapshotSet, \* snapshots that are created, one after the other
  MaxLive,     \* bound: snapshots that exist at a time
  Bios,        \* writes of file systems
  Faults,      \* what may fail
  Sequential,  \* BLK_SNAP_SEQUENTALFREEZE
  HEAD, NULL

ASSUME ListsAssumption ==
  \A l \in DeviceLists : l \in Seq(Devices) /\ IsInjective(l)
ASSUME FaultsAssumption ==
  Faults \subseteq {"tracker", "area", "freeze", "cbt", "corrupt", "image",
                    "disk"}
ASSUME NamesAssumption == HEAD \notin SnapshotSet /\ NULL \notin Threads

VARIABLES
  next, prev,  \* the links of the list of snapshots
  snap,        \* the snapshots
  trk, fs,     \* the tracker of a device; how often its file system is frozen
  areas,       \* reference counts of the difference areas
  leaked,      \* areas with a reference that an error path does not drop
  th, ret,     \* where a thread is in an ioctl; what the last one returned
  bio,         \* where a bio is and what it found
  late, torn,  \* writes that an unfinished take let through (see Coherent)
  oops,        \* "no", or the kind of invalid pointer that was followed
  unload       \* of the module: "no", "running", "done"

listVars == <<next, prev>>
devVars == <<trk, fs>>
areaVars == <<areas, leaked>>
writeVars == <<bio, late, torn>>
vars == <<listVars, snap, devVars, areaVars, th, ret, writeVars, oops, unload>>

-----------------------------------------------------------------------------
(* The list of snapshots: include/linux/list.h                             *)

POISON == "poison"

(* list_add_tail(new, head)                                                *)
list_add_tail(new, head) ==
  LET last == prev[head]
      n == [next EXCEPT ![new] = head]
      p == [prev EXCEPT ![head] = new]
  IN /\ next' = [n EXCEPT ![last] = new]
     /\ prev' = [p EXCEPT ![new] = last]

(* What list_for_each_entry() visits, in its order.                        *)
Walk ==
  LET W[n \in SnapshotSet \cup {HEAD, POISON}, k \in 0 .. Cardinality(SnapshotSet)] ==
        IF n \in {HEAD, POISON} \/ k = 0 THEN << >>
        ELSE <<n>> \o W[next[n], k - 1]
  IN W[next[HEAD], Cardinality(SnapshotSet)]

Listed == Range(Walk)

CanDelete(s) == next[s] # POISON

list_del(s) ==
  LET n == [next EXCEPT ![prev[s]] = next[s]]
      p == [prev EXCEPT ![next[s]] = prev[s]]
  IN /\ next' = [n EXCEPT ![s] = POISON]
     /\ prev' = [p EXCEPT ![s] = POISON]

-----------------------------------------------------------------------------
Idle == [pc |-> "idle", s |-> NULL, inx |-> 0, frozen |-> FALSE]

At(t, pc) == th[t].pc = pc
Go(t, pc) == th' = [th EXCEPT ![t].pc = pc]
Loop(t, pc, i) == th' = [th EXCEPT ![t].pc = pc, ![t].inx = i]
Result(t, r) == ret' = [ret EXCEPT ![t] = r]

Devs(t) == snap[th[t].s].trackers
Dev(t) == Devs(t)[th[t].inx]
InLoop(t) == th[t].inx \in 1 .. Len(Devs(t))
AtLast(t) == th[t].inx = Len(Devs(t))

Fault(f) == f \in Faults

GetArea(a) == [areas EXCEPT ![a] = @ + 1]
PutArea(a) == IF a = 0 THEN areas ELSE [areas EXCEPT ![a] = @ - 1]

(* A thread that follows an invalid pointer ends where it is.              *)
Oops(t, pointer) ==
  /\ oops' = pointer
  /\ Go(t, "dead")
  /\ UNCHANGED <<listVars, snap, devVars, areaVars, ret, writeVars, unload>>

-----------------------------------------------------------------------------
(* snapshot_create()                                                       *)

Live == {s \in SnapshotSet : snap[s].mem = "live"}

snapshot_create(t, s, devices) ==
  /\ At(t, "idle") /\ unload = "no"
  /\ snap[s].mem = "none" /\ Cardinality(Live) < MaxLive
  /\ snap' = [snap EXCEPT ![s] =
       [mem |-> "live", kref |-> 1, is_taken |-> FALSE, devices |-> devices,
        trackers |-> << >>, images |-> [i \in DOMAIN devices |-> 0],
        capacity |-> FALSE]]
  /\ th' = [th EXCEPT ![t] = [Idle EXCEPT !.pc = "create", !.s = s]]
  /\ UNCHANGED <<listVars, devVars, areaVars, ret, writeVars, oops, unload>>

(* tracker_create_or_get() for the next device                             *)
CreateTracker(t) ==
  LET s == th[t].s
      i == Len(snap[s].trackers) + 1
  IN /\ At(t, "create") /\ i \in DOMAIN snap[s].devices
     /\ LET d == snap[s].devices[i]
        IN \/ /\ trk' = [trk EXCEPT ![d].refs = @ + 1]
              /\ snap' = [snap EXCEPT ![s].trackers = Append(@, d)]
              /\ UNCHANGED <<th, ret>>
           \/ /\ Fault("tracker")
              /\ Go(t, "put") /\ Result(t, "error")
              /\ UNCHANGED <<trk, snap>>
     /\ UNCHANGED <<listVars, fs, areaVars, writeVars, oops, unload>>

(* The arguments of list_add_tail() are in this order.                     *)
CreateList(t) ==
  LET s == th[t].s
  IN /\ At(t, "create")
     /\ Len(snap[s].trackers) = Len(snap[s].devices)
     /\ list_add_tail(HEAD, s)
     /\ th' = [th EXCEPT ![t] = Idle] /\ Result(t, "ok")
     /\ UNCHANGED <<snap, devVars, areaVars, writeVars, oops, unload>>

-----------------------------------------------------------------------------
(* snapshot_get_by_id(), snapshot_put() and the ioctls that only use a     *)
(* snapshot                                                                *)

(* Mutant: the snapshot is used without a reference.                       *)
CallWithoutGet(t, s, pc) ==
  /\ At(t, "idle") /\ unload = "no" /\ snap[s].mem # "none"
  /\ IF s \in Listed
     THEN /\ th' = [th EXCEPT ![t] = [Idle EXCEPT !.pc = pc, !.s = s]]
          /\ Result(t, "ok")
     ELSE Result(t, "error") /\ UNCHANGED th
  /\ UNCHANGED <<listVars, snap, devVars, areaVars, writeVars, oops, unload>>

Call(t, s, pc) ==
  /\ At(t, "idle") /\ unload = "no" /\ snap[s].mem # "none"
  /\ IF s \in Listed
     THEN /\ snap' = [snap EXCEPT ![s].kref = @ + 1]
          /\ th' = [th EXCEPT ![t] = [Idle EXCEPT !.pc = pc, !.s = s]]
          /\ Result(t, "ok")
     ELSE Result(t, "error") /\ UNCHANGED <<snap, th>>
  /\ UNCHANGED <<listVars, devVars, areaVars, writeVars, oops, unload>>

snapshot_take(t, s) == Call(t, s, "check")
snapshot_append_storage(t, s) == Call(t, s, "append")
snapshot_wait_event(t, s) == Call(t, s, "wait")
snapshot_collect_images(t, s) == Call(t, s, "images")

(* diff_storage_append_block() gives the storage capacity.                 *)
AppendStorage(t) ==
  /\ At(t, "append")
  /\ snap' = [snap EXCEPT ![th[t].s].capacity = TRUE]
  /\ Go(t, "put") /\ Result(t, "ok")
  /\ UNCHANGED <<listVars, devVars, areaVars, writeVars, oops, unload>>

(* event_wait(): with an event or without                                  *)
WaitEvent(t) ==
  /\ At(t, "wait")
  /\ Go(t, "put") /\ Result(t, "ok")
  /\ UNCHANGED <<listVars, snap, devVars, areaVars, writeVars, oops, unload>>

CollectImages(t) ==
  /\ At(t, "images")
  /\ Go(t, "put")
  /\ Result(t, IF snap[th[t].s].is_taken THEN "ok" ELSE "error")
  /\ UNCHANGED <<listVars, snap, devVars, areaVars, writeVars, oops, unload>>

(* snapshot_destroy() takes the snapshot out of the list and drops the     *)
(* reference that the list had.                                            *)
snapshot_destroy(t, s) ==
  /\ At(t, "idle") /\ unload = "no" /\ snap[s].mem # "none"
  /\ IF s \in Listed
     THEN /\ list_del(s)
          /\ th' = [th EXCEPT ![t] = [Idle EXCEPT !.pc = "put", !.s = s]]
          /\ Result(t, "ok")
     ELSE Result(t, "error") /\ UNCHANGED <<listVars, th>>
  /\ UNCHANGED <<snap, devVars, areaVars, writeVars, oops, unload>>

(* snapshot_mark_dirty_blocks() looks at the disk of every image of every  *)
(* listed snapshot: an image that is not there is a NULL pointer.          *)
snapshot_mark_dirty_blocks(t) ==
  /\ At(t, "idle") /\ unload = "no"
  /\ \E s \in Listed : \E i \in DOMAIN snap[s].trackers : snap[s].images[i] = 0
  /\ Oops(t, "null")

(* The last reference: snapshot_free().  The one that is dropped of memory *)
(* that was freed is followed no further.                                  *)
snapshot_put(t) ==
  LET s == th[t].s
  IN /\ At(t, "put")
     /\ snap[s].mem = "live"
     /\ snap' = [snap EXCEPT ![s].kref = @ - 1]
     /\ th' = [th EXCEPT ![t] =
          IF snap[s].kref = 1 THEN [@ EXCEPT !.pc = "free"]
          ELSE IF unload = "running" THEN [Idle EXCEPT !.pc = "unload"]
          ELSE Idle]
     /\ UNCHANGED <<listVars, devVars, areaVars, ret, writeVars, oops, unload>>

-----------------------------------------------------------------------------
(* snapshot_take()                                                         *)

(* is_taken is read without a lock.                                        *)
TakeCheck(t) ==
  /\ At(t, "check")
  /\ IF snap[th[t].s].is_taken \/ Devs(t) = << >>
     THEN Go(t, "put") /\ Result(t, "error")
     ELSE Loop(t, "alloc", 1) /\ UNCHANGED ret
  /\ UNCHANGED <<listVars, snap, devVars, areaVars, writeVars, oops, unload>>

(* diff_area_new().  With an empty storage it returns without giving back  *)
(* what it allocated.                                                      *)
TakeAlloc(t) ==
  /\ At(t, "alloc")
  /\ \/ /\ snap[th[t].s].capacity
        /\ areas' = Append(areas, 1)
        /\ trk' = [trk EXCEPT ![Dev(t)].area = Len(areas) + 1]
        /\ IF AtLast(t) THEN Loop(t, "freeze", 1) ELSE Loop(t, "alloc", th[t].inx + 1)
        /\ UNCHANGED <<leaked, ret>>
     \/ /\ ~ snap[th[t].s].capacity
        /\ areas' = Append(areas, 1)
        /\ leaked' = leaked \cup {Len(areas')}
        /\ Go(t, "fail") /\ Result(t, "error")
        /\ UNCHANGED trk
     \/ /\ Fault("area")
        /\ Go(t, "fail") /\ Result(t, "error")
        /\ UNCHANGED <<areaVars, trk>>
  /\ UNCHANGED <<listVars, snap, fs, writeVars, oops, unload>>

(* freeze_bdev(); what remembers it is a local variable in one variant and *)
(* a member of the tracker in the other.                                   *)
Freeze(t, d, ok, new) ==
  /\ fs' = IF ok THEN [fs EXCEPT ![d] = @ + 1] ELSE fs
  /\ trk' = IF ok /\ ~ Sequential THEN [trk EXCEPT ![d].is_frozen = TRUE] ELSE trk
  /\ th' = [th EXCEPT ![t] = [new EXCEPT !.frozen = (ok /\ Sequential)]]

FreezeOutcomes == IF Fault("freeze") THEN BOOLEAN ELSE {TRUE}

WasFrozen(t, d) == IF Sequential THEN th[t].frozen ELSE trk[d].is_frozen

Thaw(t, d) ==
  /\ fs' = IF WasFrozen(t, d) /\ fs[d] > 0 THEN [fs EXCEPT ![d] = @ - 1] ELSE fs
  /\ trk' = IF Sequential THEN trk ELSE [trk EXCEPT ![d].is_frozen = FALSE]

(* The state of the loop after the device inx, with first as the next pc   *)
(* of the loop and done as what follows it.                                *)
After(t, first, done) ==
  IF AtLast(t) THEN [th[t] EXCEPT !.pc = done, !.inx = 1]
             ELSE [th[t] EXCEPT !.pc = first, !.inx = @ + 1]

TakeFreeze(t) ==
  /\ At(t, "freeze") /\ trk[Dev(t)].area # 0
  /\ \E ok \in FreezeOutcomes :
       Freeze(t, Dev(t), ok, IF Sequential THEN [th[t] EXCEPT !.pc = "take"]
                                           ELSE After(t, "freeze", "take"))
  /\ UNCHANGED <<listVars, snap, areaVars, ret, writeVars, oops, unload>>

(* percpu_down_write() of the submit lock                                  *)
CanLock(d) ==
  /\ trk[d].lock = NULL
  /\ ~ \E b \in Bios : bio[b].pc = "handler" /\ bio[b].dev = d

(* All devices are captured: what was late is of no interest any more.     *)
Captured(t) == late' = late \ Range(Devs(t)) /\ UNCHANGED <<bio, torn>>

Taken(t) == snap' = [snap EXCEPT ![th[t].s].is_taken = TRUE]

(* tracker_take_snapshot(): when the change map cannot be reset it returns *)
(* with the submit lock.                                                   *)
TakeTracker(t) ==
  LET d == Dev(t)
  IN /\ At(t, "take") /\ trk[d].area # 0 /\ CanLock(d)
     /\ \/ /\ trk' = [trk EXCEPT ![d].taken = TRUE]
           /\ th' = [th EXCEPT ![t] =
                IF Sequential THEN [@ EXCEPT !.pc = "thaw"]
                ELSE After(t, "take", "thaw")]
           /\ IF AtLast(t) THEN Captured(t) ELSE UNCHANGED writeVars
           /\ IF AtLast(t) /\ ~ Sequential THEN Taken(t) ELSE UNCHANGED snap
           /\ UNCHANGED ret
        \/ /\ Fault("cbt")
           /\ trk' = [trk EXCEPT ![d].lock = t]
           /\ Loop(t, "undo", th[t].inx - 1) /\ Result(t, "error")
           /\ UNCHANGED <<snap, writeVars>>
     /\ UNCHANGED <<listVars, fs, areaVars, oops, unload>>

(* The devices that were taken before are released.  The sequential        *)
(* variant freezes each of them, and thaws it even if it was not frozen.   *)
TakeUndo(t) ==
  /\ At(t, "undo")
  /\ \/ /\ th[t].inx > 0 /\ CanLock(Dev(t))
        /\ trk' = [trk EXCEPT ![Dev(t)].taken = FALSE]
        /\ \E ok \in FreezeOutcomes :
             fs' = IF Sequential /\ ~ ok /\ fs[Dev(t)] > 0
                   THEN [fs EXCEPT ![Dev(t)] = @ - 1] ELSE fs
        /\ Loop(t, "undo", th[t].inx - 1)
     \/ /\ th[t].inx = 0
        /\ IF Sequential THEN Go(t, "fail") ELSE Loop(t, "thaw", 1)
        /\ UNCHANGED devVars
  /\ UNCHANGED <<listVars, snap, areaVars, ret, writeVars, oops, unload>>

Failed(t) == ret[t] = "error"

(* Mutant: off by one, the first device is not thawed.                     *)
ThawSkipsFirst(t) ==
  /\ At(t, "thaw")
  /\ IF th[t].inx = 1 THEN UNCHANGED devVars ELSE Thaw(t, Dev(t))
  /\ th' = [th EXCEPT ![t] =
       After(t, IF Sequential THEN "freeze" ELSE "thaw",
             IF Failed(t) THEN "fail" ELSE "corrupt")]
  /\ IF AtLast(t) /\ Sequential THEN Taken(t) ELSE UNCHANGED snap
  /\ UNCHANGED <<listVars, areaVars, ret, writeVars, oops, unload>>

TakeThaw(t) ==
  /\ At(t, "thaw")
  /\ Thaw(t, Dev(t))
  /\ th' = [th EXCEPT ![t] =
       After(t, IF Sequential THEN "freeze" ELSE "thaw",
             IF Failed(t) THEN "fail" ELSE "corrupt")]
  /\ IF AtLast(t) /\ Sequential THEN Taken(t) ELSE UNCHANGED snap
  /\ UNCHANGED <<listVars, areaVars, ret, writeVars, oops, unload>>

TakeCorrupted(t) ==
  /\ At(t, "corrupt")
  /\ \/ Loop(t, "image", 1) /\ UNCHANGED ret
     \/ Fault("corrupt") /\ Go(t, "fail") /\ Result(t, "error")
  /\ UNCHANGED <<listVars, snap, devVars, areaVars, writeVars, oops, unload>>

(* Mutant: the error of an image is not returned.                          *)
ImageErrorIgnored(t) ==
  LET a == trk[Dev(t)].area
  IN /\ At(t, "image") /\ a # 0
     /\ \/ /\ areas' = GetArea(a)
           /\ snap' = [snap EXCEPT ![th[t].s].images[th[t].inx] = a]
           /\ th' = [th EXCEPT ![t] = After(t, "image", "put")]
           /\ UNCHANGED leaked
        \/ /\ Fault("image")
           /\ Go(t, "put")
           /\ UNCHANGED <<areaVars, snap>>
     /\ Result(t, "ok")
     /\ UNCHANGED <<listVars, devVars, writeVars, oops, unload>>

(* snapimage_create() gets a reference to the difference area; an error    *)
(* leaves the loop but not the snapshot.  One of add_disk() keeps the      *)
(* reference.                                                              *)
TakeImage(t) ==
  LET a == trk[Dev(t)].area
  IN /\ At(t, "image") /\ a # 0
     /\ \/ /\ areas' = GetArea(a)
           /\ snap' = [snap EXCEPT ![th[t].s].images[th[t].inx] = a]
           /\ th' = [th EXCEPT ![t] = After(t, "image", "put")]
           /\ UNCHANGED <<leaked, ret>>
        \/ /\ Fault("image")
           /\ Go(t, "put") /\ Result(t, "error")
           /\ UNCHANGED <<areaVars, snap>>
        \/ /\ Fault("disk")
           /\ areas' = GetArea(a)
           /\ leaked' = leaked \cup {a}
           /\ Go(t, "put") /\ Result(t, "error")
           /\ UNCHANGED snap
     /\ UNCHANGED <<listVars, devVars, writeVars, oops, unload>>

(* The pointers that the next step follows although they are not valid:    *)
(* the area of a tracker that another snapshot of the device has dropped,  *)
(* or the links of a snapshot that another call took from the list.        *)
InvalidPointer(t, pointer) ==
  CASE pointer = "null" ->
         th[t].pc \in {"freeze", "take", "image"} /\ trk[Dev(t)].area = 0
    [] pointer = "poison" -> At(t, "fail") /\ ~ CanDelete(th[t].s)

TakeOops(t) ==
  \E pointer \in {"null", "poison"} :
    InvalidPointer(t, pointer) /\ Oops(t, pointer)

(* The failed snapshot leaves the list, and the reference of the list and  *)
(* the one of this call are dropped.                                       *)
TakeFail(t) ==
  LET s == th[t].s
  IN /\ At(t, "fail") /\ CanDelete(s)
     /\ list_del(s)
     /\ snap' = [snap EXCEPT ![s].kref = @ - 1]
     /\ Go(t, "put")
     /\ UNCHANGED <<devVars, areaVars, ret, writeVars, oops, unload>>

TakeStep(t) ==
  \/ TakeCheck(t) \/ TakeAlloc(t) \/ TakeFreeze(t) \/ TakeTracker(t)
  \/ TakeUndo(t) \/ TakeThaw(t) \/ TakeCorrupted(t) \/ TakeImage(t)
  \/ TakeOops(t) \/ TakeFail(t)

-----------------------------------------------------------------------------
(* snapshot_free(), by the thread that dropped the last reference          *)

(* snapimage_free() of all images                                          *)
FreeImages(t) ==
  LET s == th[t].s
      mine(a) == Cardinality({i \in DOMAIN snap[s].images : snap[s].images[i] = a})
  IN /\ At(t, "free")
     /\ areas' = [a \in DOMAIN areas |-> areas[a] - mine(a)]
     /\ Loop(t, IF Devs(t) = << >> THEN "drop" ELSE "rfreeze", 1)
     /\ UNCHANGED <<listVars, snap, devVars, ret, writeVars, oops, leaked, unload>>

(* snapshot_release_trackers(): devices without a difference area are left *)
(* out of freezing and thawing, in the sequential variant of all of it.    *)
ReleaseFreeze(t) ==
  LET new == IF Sequential
             THEN IF trk[Dev(t)].area = 0 THEN After(t, "rfreeze", "drop")
                  ELSE [th[t] EXCEPT !.pc = "release"]
             ELSE After(t, "rfreeze", "release")
  IN /\ At(t, "rfreeze")
     /\ IF trk[Dev(t)].area = 0
        THEN th' = [th EXCEPT ![t] = new] /\ UNCHANGED devVars
        ELSE \E ok \in FreezeOutcomes : Freeze(t, Dev(t), ok, new)
     /\ UNCHANGED <<listVars, snap, areaVars, ret, writeVars, oops, unload>>

(* Mutant: the handlers that run are not waited for.                       *)
ReleaseAtOnce(t) ==
  /\ At(t, "release") /\ trk[Dev(t)].lock = NULL
  /\ trk' = [trk EXCEPT ![Dev(t)].taken = FALSE]
  /\ th' = [th EXCEPT ![t] =
       IF Sequential THEN [@ EXCEPT !.pc = "rthaw"]
       ELSE After(t, "release", "rthaw")]
  /\ UNCHANGED <<listVars, snap, fs, areaVars, ret, writeVars, oops, unload>>

tracker_release_snapshot(t) ==
  /\ At(t, "release") /\ CanLock(Dev(t))
  /\ trk' = [trk EXCEPT ![Dev(t)].taken = FALSE]
  /\ th' = [th EXCEPT ![t] =
       IF Sequential THEN [@ EXCEPT !.pc = "rthaw"]
       ELSE After(t, "release", "rthaw")]
  /\ UNCHANGED <<listVars, snap, fs, areaVars, ret, writeVars, oops, unload>>

ReleaseThaw(t) ==
  /\ At(t, "rthaw")
  /\ IF trk[Dev(t)].area = 0 THEN UNCHANGED devVars ELSE Thaw(t, Dev(t))
  /\ th' = [th EXCEPT ![t] = After(t, IF Sequential THEN "rfreeze" ELSE "rthaw",
                                   "drop")]
  /\ UNCHANGED <<listVars, snap, areaVars, ret, writeVars, oops, unload>>

(* Mutant: the area is dropped, the pointer to it stays.                   *)
DropKeepsPointer(t) ==
  /\ At(t, "drop") /\ InLoop(t)
  /\ areas' = PutArea(trk[Dev(t)].area)
  /\ trk' = [trk EXCEPT ![Dev(t)].refs = @ - 1]
  /\ Loop(t, "drop", th[t].inx + 1)
  /\ UNCHANGED <<listVars, snap, fs, ret, writeVars, oops, leaked, unload>>

(* The difference area and the tracker are dropped, device by device.      *)
ReleaseDrop(t) ==
  /\ At(t, "drop") /\ InLoop(t)
  /\ areas' = PutArea(trk[Dev(t)].area)
  /\ trk' = [trk EXCEPT ![Dev(t)].area = 0, ![Dev(t)].refs = @ - 1]
  /\ Loop(t, "drop", th[t].inx + 1)
  /\ UNCHANGED <<listVars, snap, fs, ret, writeVars, oops, leaked, unload>>

FreeSnapshot(t) ==
  /\ At(t, "drop") /\ ~ InLoop(t)
  /\ snap' = [snap EXCEPT ![th[t].s].mem = "freed"]
  /\ th' = [th EXCEPT ![t] =
       IF unload = "running" THEN [Idle EXCEPT !.pc = "unload"] ELSE Idle]
  /\ UNCHANGED <<listVars, devVars, areaVars, ret, writeVars, oops, unload>>

FreeStep(t) ==
  \/ FreeImages(t) \/ ReleaseFreeze(t) \/ tracker_release_snapshot(t)
  \/ ReleaseThaw(t) \/ ReleaseDrop(t) \/ FreeSnapshot(t)

-----------------------------------------------------------------------------
(* snapshot_done(), when the module is unloaded                            *)

UnloadStart(t) ==
  /\ unload = "no"
  /\ \A x \in Threads : At(x, "idle")
  /\ unload' = "running"
  /\ Go(t, "unload")
  /\ UNCHANGED <<listVars, snap, devVars, areaVars, ret, writeVars, oops>>

snapshot_done(t) ==
  /\ At(t, "unload")
  /\ IF Walk = << >>
     THEN unload' = "done" /\ Go(t, "idle") /\ UNCHANGED listVars
     ELSE /\ list_del(Head(Walk))
          /\ th' = [th EXCEPT ![t] = [Idle EXCEPT !.pc = "put", !.s = Head(Walk)]]
          /\ UNCHANGED unload
  /\ UNCHANGED <<snap, devVars, areaVars, ret, writeVars, oops>>

-----------------------------------------------------------------------------
(* A write of the file system of d, through the filter.  Capturing(d) are  *)
(* the other devices of a snapshot that is being taken.                    *)

Capturing(d) ==
  UNION {Range(Devs(t)) \ {d} : t \in {x \in Threads :
    /\ th[x].pc \in {"freeze", "take", "thaw"} /\ ~ Failed(x)
    /\ ~ snap[th[x].s].is_taken /\ d \in Range(Devs(x))}}

BioEnter(b, d) ==
  /\ bio[b].pc = "idle"
  /\ fs[d] = 0 /\ trk[d].refs > 0 /\ trk[d].lock = NULL
  /\ bio' = [bio EXCEPT ![b] = [pc |-> "handler", dev |-> d,
               area |-> IF trk[d].taken THEN trk[d].area ELSE 0]]
  /\ late' = IF trk[d].taken /\ \E e \in Capturing(d) : ~ trk[e].taken
             THEN late \cup {d} ELSE late
  /\ torn' = (torn \/ (~ trk[d].taken /\ Capturing(d) \cap late # {}))
  /\ UNCHANGED <<listVars, snap, devVars, areaVars, th, ret, oops, unload>>

BioIdle == [pc |-> "idle", dev |-> NULL, area |-> 0]

BioLeave(b) ==
  /\ bio[b].pc = "handler"
  /\ bio' = [bio EXCEPT ![b] = BioIdle]
  /\ UNCHANGED <<listVars, snap, devVars, areaVars, th, ret, late, torn, oops, unload>>

-----------------------------------------------------------------------------
Init ==
  /\ next = [n \in SnapshotSet \cup {HEAD} |-> n]
  /\ prev = [n \in SnapshotSet \cup {HEAD} |-> n]
  /\ snap = [s \in SnapshotSet |->
       [mem |-> "none", kref |-> 0, is_taken |-> FALSE, devices |-> << >>,
        trackers |-> << >>, images |-> << >>, capacity |-> FALSE]]
  /\ trk = [d \in Devices |-> [refs |-> 0, taken |-> FALSE, area |-> 0,
                               is_frozen |-> FALSE, lock |-> NULL]]
  /\ fs = [d \in Devices |-> 0]
  /\ areas = << >> /\ leaked = {}
  /\ th = [t \in Threads |-> Idle]
  /\ ret = [t \in Threads |-> "ok"]
  /\ bio = [b \in Bios |-> BioIdle]
  /\ late = {} /\ torn = FALSE
  /\ oops = "no"
  /\ unload = "no"

(* What a thread does inside an ioctl.                                     *)
Kernel(t) ==
  \/ CreateTracker(t) \/ CreateList(t)
  \/ AppendStorage(t) \/ WaitEvent(t) \/ CollectImages(t)
  \/ TakeStep(t) \/ snapshot_put(t) \/ FreeStep(t) \/ snapshot_done(t)

(* The ioctls that it may call.                                            *)
Ioctl(t) ==
  \/ snapshot_mark_dirty_blocks(t)
  \/ \E s \in SnapshotSet :
       \/ \E l \in DeviceLists : snapshot_create(t, s, l)
       \/ snapshot_take(t, s) \/ snapshot_destroy(t, s)
       \/ snapshot_append_storage(t, s) \/ snapshot_wait_event(t, s)
       \/ snapshot_collect_images(t, s)

Writes ==
  \E b \in Bios : BioLeave(b) \/ \E d \in Devices : BioEnter(b, d)

Next ==
  \/ \E t \in Threads : Ioctl(t) \/ Kernel(t) \/ UnloadStart(t)
  \/ Writes

Spec == Init /\ [][Next]_vars

-----------------------------------------------------------------------------
(* Properties                                                              *)

(* Every variable keeps its type; no reference count becomes negative and  *)
(* no file system is thawed more often than it was frozen.                 *)
TypeOK ==
  /\ \A s \in SnapshotSet :
       /\ snap[s].mem \in {"none", "live", "freed"} /\ snap[s].kref \in Nat
       /\ snap[s].is_taken \in BOOLEAN /\ snap[s].trackers \in Seq(Devices)
  /\ \A d \in Devices :
       /\ trk[d].refs \in Nat /\ trk[d].area \in 0 .. Len(areas)
       /\ trk[d].taken \in BOOLEAN /\ trk[d].lock \in Threads \cup {NULL}
       /\ fs[d] \in Nat
  /\ areas \in Seq(Nat) /\ leaked \subseteq DOMAIN areas
  /\ late \subseteq Devices /\ torn \in BOOLEAN /\ oops \in {"no", "null", "poison"}

Busy == \E t \in Threads : ~ At(t, "idle")

(* A snapshot that an ioctl works on is not freed meanwhile: snapshot_take *)
(* and the others hold a reference (snapshot_get_by_id()).                 *)
UsedIsLive ==
  \A t \in Threads : th[t].s # NULL =>
    /\ snap[th[t].s].mem = "live"
    /\ th[t].pc \in {"free", "rfreeze", "release", "rthaw", "drop"} <=>
         snap[th[t].s].kref = 0

(* A write that the handler copies for uses a difference area that exists: *)
(* tracker_release_snapshot() waits for the handlers before                *)
(* snapshot_release() drops the area.                                      *)
HandlersAreaLives ==
  \A b \in Bios :
    /\ bio[b].area # 0 => areas[bio[b].area] > 0
    /\ bio[b].pc = "handler" /\ trk[bio[b].dev].taken => bio[b].area # 0

(* An image reads the difference area that the writes to its device are    *)
(* copied to (snapshot_take(): the area of the tracker and of the image).  *)
ImagesCurrent ==
  \A s \in SnapshotSet : snap[s].mem = "live" /\ snap[s].kref > 0 =>
    \A i \in DOMAIN snap[s].images :
      LET a == snap[s].images[i]
      IN a # 0 => /\ trk[snap[s].trackers[i]].area = a
                  /\ trk[snap[s].trackers[i]].taken

(* Nothing is left behind by the snapshots that are gone: no reference to  *)
(* a tracker, no difference area of a tracker, no frozen file system, no   *)
(* copy-on-write, whichever step failed (snapshot_free()).                 *)
NothingLeft ==
  ~ Busy /\ Live = {} =>
    \A d \in Devices :
      /\ trk[d].refs = 0 /\ trk[d].area = 0 /\ ~ trk[d].taken
      /\ trk[d].lock = NULL /\ fs[d] = 0 /\ ~ trk[d].is_frozen

(* When the module is unloaded, every difference area has been freed       *)
(* (memory_object_print() at the end of blk_snap_exit()), except for those *)
(* that diff_area_new() loses when the storage is empty and those that     *)
(* snapimage_create() holds when add_disk() fails.                         *)
AreasReleased ==
  unload = "done" /\ Live = {} =>
    \A a \in DOMAIN areas \ leaked : areas[a] = 0

(* t is between freezing and thawing d.                                    *)
Freezing(t, d) ==
  /\ th[t].s # NULL /\ d \in Range(Devs(t))
  /\ IF Sequential
     THEN /\ th[t].pc \in {"take", "thaw", "release", "rthaw"}
          /\ th[t].frozen /\ Dev(t) = d
     ELSE th[t].pc \in {"freeze", "take", "undo", "thaw", "rfreeze", "release",
                        "rthaw"}

(* A file system is frozen no more often than there are threads between    *)
(* freezing and thawing it, in every step of taking and releasing          *)
(* snapshots and whichever step fails.  There is one exception: when       *)
(* tracker_take_snapshot() fails it keeps the submit lock of the device,   *)
(* and snapshot_take_trackers() leaves its loop without thawing            *)
(* (snapshot.c, 489-493).                                                  *)
FileSystemsRun ==
  \A d \in Devices :
    \/ fs[d] <= Cardinality({t \in Threads : Freezing(t, d)})
    \/ trk[d].lock # NULL

(* tracker_take_snapshot() gives the submit lock back also when it fails.  *)
LocksReleased == \A d \in Devices : trk[d].lock = NULL

(* The states of the devices of a snapshot belong together: a write to one *)
(* device after it was captured does not precede a write to another one    *)
(* that is captured later (snapshot_take_trackers()).                      *)
Coherent == ~ torn

(* A snapshot that was created and not destroyed is in the list            *)
(* (snapshot_create()).                                                    *)
CreatedIsListed == ~ Busy => Live \subseteq Listed

(* A device belongs to one snapshot at most.                               *)
DeviceInOneSnapshot ==
  \A r, s \in Live : r # s => Range(snap[r].trackers) \cap Range(snap[s].trackers) = {}

(* snapshot_mark_dirty_blocks() and snapshot_take() follow no NULL pointer.*)
NoNullPointer == oops # "null"

(* A take that fails finds its snapshot in the list, to delete it there.   *)
FailedIsListed == oops # "poison"

(* When snapshot_done() returns, no snapshot is left.                      *)
UnloadedFree == unload = "done" => Live = {}
=============================================================================
