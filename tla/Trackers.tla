------------------------------ MODULE Trackers ------------------------------
(***************************************************************************)
(* The life of the trackers of one device number: the registry of filters  *)
(* (module/bdevfilter.c) and the creation, removal and release of trackers *)
(* (module/tracker.c), in the build with the standalone filter.            *)
(*                                                                         *)
(* A tracker contains a reference counted filter.  The extension of the    *)
(* device, the snapshots, a bio that is being filtered and a thread that   *)
(* works on the tracker hold references.  When the last one is dropped,    *)
(* the tracker is queued for a worker, which frees it.                     *)
(*                                                                         *)
(* Abstractions.  A section under a spin lock is one step.  The device may *)
(* be pulled out and plugged in again, which gives its number to another   *)
(* struct block_device.  A snapshot is what the module Snapshots says of   *)
(* it: it gets trackers, takes and releases them, and drops them.  What a  *)
(* thread does after it dropped the last reference may come before the     *)
(* rest of bdev_filter_free().  The file system is frozen while a filter   *)
(* is attached or detached, which nothing here depends on.  An ioctl that  *)
(* fails before it changes anything is not a step, and what an ioctl       *)
(* returns is left out.                                                    *)
(***************************************************************************)
EXTENDS Integers, Sequences, FiniteSets

CONSTANTS
  Creators,   \* threads that create snapshots of the device
  Removers,   \* threads that remove the device from tracking
  Bios,       \* tasks that send I/O to the device
  TrackerSet, \* structures that memory has room for
  MaxPlug,    \* bound: times that the device is plugged in again
  MaxSnaps,   \* bound: references that snapshots hold to a tracker
  Faults,     \* whether memory may be short
  Unloader,   \* the thread that unloads the module
  NULL

ASSUME ThreadsAssumption ==
  /\ Unloader \notin Creators \cup Removers
  /\ NULL \notin TrackerSet
ASSUME FiniteAssumption ==
  IsFiniteSet(Creators \cup Removers) /\ IsFiniteSet(Bios) /\ IsFiniteSet(TrackerSet)
ASSUME BoundAssumption == MaxPlug \in Nat /\ MaxSnaps \in Nat /\ Faults \in BOOLEAN

Threads == Creators \cup Removers \cup {Unloader}

VARIABLES
  present, bdev,   \* whether the device is there, and which block_device
  exts, listed,    \* the extensions, and the one that is in the list (or 0)
  kref, mem,       \* of a filter: its count; of a tracker: its memory
  snapshot_is_taken, frozen, \* of a tracker; of its filter's submit lock
  release_list, trackers_counter, tracked_device_list, \* the last: a number
  snaps, freezing, \* references that snapshots hold; what one is doing
  th, bio,         \* where a thread and a bio are, and what they hold
  rwsem,           \* filters whose bdev_filter_free() has not ended
  early            \* trackers released before their creator had a reference

deviceVars == <<present, bdev>>
extVars == <<exts, listed>>
refVars == <<kref, mem, release_list, rwsem, early>>
snapVars == <<snapshot_is_taken, frozen, snaps, freezing>>
listVars == <<trackers_counter, tracked_device_list>>
vars == <<deviceVars, extVars, refVars, snapVars, listVars, th, bio>>

Idle == [pc |-> "idle", bdev |-> 0, ext |-> 0, old |-> 0, flt |-> NULL]

At(t, pc) == th[t].pc = pc
Step(t, new) == th' = [th EXCEPT ![t] = new]
Go(t, pc) == Step(t, [th[t] EXCEPT !.pc = pc])

(* tracker_done() goes on with the next device, an ioctl returns.          *)
Return(t) ==
  Step(t, IF t = Unloader THEN [Idle EXCEPT !.pc = "next"] ELSE Idle)

-----------------------------------------------------------------------------
(* Reference counts                                                        *)

bdev_filter_get(f) ==
  /\ kref' = [kref EXCEPT ![f] = @ + 1]
  /\ UNCHANGED <<mem, release_list, rwsem, early>>

(* The trackers whose creators have attached them and not yet got their    *)
(* own reference (tracker_create_or_get()).                                *)
Unreferenced == {th[t].flt : t \in {c \in Creators : At(c, "ref")}}

(* Mutant: the filter is released while somebody still holds it.           *)
PutTooEarly(f) ==
  /\ kref' = [kref EXCEPT ![f] = @ - 1]
  /\ IF kref[f] \in {1, 2} /\ mem[f] = "live"
     THEN /\ mem' = [mem EXCEPT ![f] = "released"]
          /\ release_list' = Append(release_list, f)
          /\ rwsem' = rwsem \cup {f}
          /\ early' = early \cup (Unreferenced \cap {f})
     ELSE UNCHANGED <<mem, release_list, rwsem, early>>

(* The last one calls bdev_filter_free(): tracker_release() queues the     *)
(* tracker for the worker, and then the submit lock is freed.              *)
bdev_filter_put(f) ==
  /\ kref' = [kref EXCEPT ![f] = @ - 1]
  /\ IF kref[f] = 1
     THEN /\ mem' = [mem EXCEPT ![f] = "released"]
          /\ release_list' = Append(release_list, f)
          /\ rwsem' = rwsem \cup {f}
          /\ early' = early \cup (Unreferenced \cap {f})
     ELSE UNCHANGED <<mem, release_list, rwsem, early>>

(* bdev_filter_free() ends with percpu_free_rwsem().                       *)
bdev_filter_free(f) ==
  /\ f \in rwsem
  /\ rwsem' = rwsem \ {f}
  /\ UNCHANGED <<deviceVars, extVars, kref, mem, release_list, early, snapVars,
                 listVars, th, bio>>

(* Mutant: tracker_free() forgets the counter.                             *)
ReleaseForgetsCounter ==
  /\ release_list # << >>
  /\ release_list' = Tail(release_list)
  /\ mem' = [mem EXCEPT ![Head(release_list)] = "freed"]
  /\ UNCHANGED <<deviceVars, extVars, kref, rwsem, early, snapVars, listVars, th,
                 bio>>

(* The worker frees the trackers of the list, one after the other.         *)
tracker_release_work ==
  /\ release_list # << >>
  /\ release_list' = Tail(release_list)
  /\ mem' = [mem EXCEPT ![Head(release_list)] = "freed"]
  /\ trackers_counter' = trackers_counter - 1
  /\ UNCHANGED <<deviceVars, extVars, kref, rwsem, early, snapVars,
                 tracked_device_list, th, bio>>

-----------------------------------------------------------------------------
(* bdev_filters_apply(): a bio passes the filter                           *)

(* The extension is looked up by the block_device of the bio.              *)
BioFind(b) ==
  /\ bio[b].pc = "idle"
  /\ listed # 0
  /\ bio' = [bio EXCEPT ![b] = [pc |-> "found", ext |-> listed, flt |-> NULL]]
  /\ UNCHANGED <<deviceVars, extVars, refVars, snapVars, listVars, th>>

BioIdle == [pc |-> "idle", ext |-> 0, flt |-> NULL]

BioGet(b) ==
  /\ bio[b].pc = "found"
  /\ LET f == exts[bio[b].ext].filter
     IN IF f = NULL
        THEN /\ bio' = [bio EXCEPT ![b] = BioIdle]
             /\ UNCHANGED refVars
        ELSE /\ bio' = [bio EXCEPT ![b] =
                          [pc |-> "got", ext |-> 0, flt |-> f]]
             /\ bdev_filter_get(f)
  /\ UNCHANGED <<deviceVars, extVars, snapVars, listVars, th>>

BioTo(b, pc) ==
  /\ bio' = [bio EXCEPT ![b].pc = pc]
  /\ UNCHANGED <<deviceVars, extVars, refVars, snapVars, listVars, th>>

(* The submit lock is taken for reading, and submit_bio() is called.       *)
BioEnter(b) == bio[b].pc = "got" /\ ~ frozen[bio[b].flt] /\ BioTo(b, "handler")

(* With REQ_NOWAIT a bio does not wait for the lock.                       *)
BioWouldBlock(b) == bio[b].pc = "got" /\ frozen[bio[b].flt] /\ BioTo(b, "put")

BioLeave(b) == bio[b].pc = "handler" /\ BioTo(b, "put")

BioPut(b) ==
  /\ bio[b].pc = "put"
  /\ bdev_filter_put(bio[b].flt)
  /\ bio' = [bio EXCEPT ![b] = BioIdle]
  /\ UNCHANGED <<deviceVars, extVars, snapVars, listVars, th>>

BioStep(b) ==
  BioFind(b) \/ BioGet(b) \/ BioEnter(b) \/ BioWouldBlock(b) \/ BioLeave(b)
    \/ BioPut(b)

-----------------------------------------------------------------------------
(* tracker_get_by_dev(): for tracker_create_or_get() at "create", for      *)
(* tracker_remove() at "remove"                                            *)

NotFound(t) == IF At(t, "create") \/ At(t, "create_ext") THEN Go(t, "new")
                                                         ELSE Return(t)

(* The extension is looked up by the block_device that was opened.         *)
GetFind(t) ==
  /\ At(t, "create") \/ At(t, "remove")
  /\ IF listed # 0 /\ exts[listed].bdev = th[t].bdev
     THEN Step(t, [th[t] EXCEPT
            !.pc = IF @ = "create" THEN "create_ext" ELSE "remove_ext",
            !.ext = listed])
     ELSE NotFound(t)
  /\ UNCHANGED <<deviceVars, extVars, refVars, snapVars, listVars, bio>>

(* A new snapshot keeps the reference, tracker_remove() works with it.     *)
GetFilter(t) ==
  /\ At(t, "create_ext") \/ At(t, "remove_ext")
  /\ LET f == exts[th[t].ext].filter
     IN \/ /\ f = NULL
           /\ NotFound(t)
           /\ UNCHANGED <<refVars, snaps>>
        \/ /\ f # NULL
           /\ bdev_filter_get(f)
           /\ IF At(t, "create_ext")
              THEN /\ snaps' = [snaps EXCEPT ![f] = @ + 1]
                   /\ Return(t)
              ELSE /\ Step(t, [th[t] EXCEPT !.pc = "check", !.flt = f])
                   /\ UNCHANGED snaps
  /\ UNCHANGED <<deviceVars, extVars, snapshot_is_taken, frozen, freezing,
                 listVars, bio>>

-----------------------------------------------------------------------------
(* tracker_create_or_get()                                                 *)

Loaded == th[Unloader].pc = "idle"

Creating == {t \in Creators : th[t].pc \in
  {"create", "create_ext", "new", "append", "drop", "attach", "ref", "list"}}

CreateOpen(t) ==
  /\ At(t, "idle") /\ Loaded /\ present
  /\ \A f \in TrackerSet : snaps[f] + Cardinality(Creating) < MaxSnaps
  /\ Step(t, [Idle EXCEPT !.pc = "create", !.bdev = bdev])
  /\ UNCHANGED <<deviceVars, extVars, refVars, snapVars, listVars, bio>>

(* tracker_new(): the counter and the first reference, ...                 *)
tracker_new(t) ==
  /\ At(t, "new")
  /\ \E f \in TrackerSet :
       /\ mem[f] = "none"
       /\ mem' = [mem EXCEPT ![f] = "live"]
       /\ kref' = [kref EXCEPT ![f] = 1]
       /\ trackers_counter' = trackers_counter + 1
       /\ Step(t, [th[t] EXCEPT !.pc = "append", !.flt = f])
  /\ UNCHANGED <<deviceVars, extVars, release_list, rwsem, early, snapVars,
                 tracked_device_list, bio>>

(* ... or no memory for it.                                                *)
NewFails(t) ==
  /\ At(t, "new")
  /\ Faults \/ \A f \in TrackerSet : mem[f] # "none"
  /\ Return(t)
  /\ UNCHANGED <<deviceVars, extVars, refVars, snapVars, listVars, bio>>

(* No memory for the change map or for the extension.                      *)
AttachFails(t) ==
  /\ At(t, "append") /\ Faults
  /\ bdev_filter_put(th[t].flt)
  /\ Return(t)
  /\ UNCHANGED <<deviceVars, extVars, snapVars, listVars, bio>>

(* bdev_extension_append(): the extension of the device number is kept     *)
(* when it is the one of this block_device and replaced otherwise.         *)
bdev_extension_append(t) ==
  /\ At(t, "append")
  /\ LET new == Append(exts, [bdev |-> th[t].bdev, filter |-> NULL,
                              freed |-> FALSE])
     IN CASE listed = 0 ->
               /\ exts' = new
               /\ listed' = Len(new)
               /\ Step(t, [th[t] EXCEPT !.pc = "attach", !.ext = Len(new)])
          [] listed # 0 /\ exts[listed].bdev = th[t].bdev ->
               /\ Step(t, [th[t] EXCEPT !.pc = "attach", !.ext = listed])
               /\ UNCHANGED extVars
          [] OTHER ->
               /\ exts' = new
               /\ listed' = Len(new)
               /\ Step(t, [th[t] EXCEPT !.pc = "drop", !.ext = Len(new),
                                         !.old = listed])
  /\ UNCHANGED <<deviceVars, refVars, snapVars, listVars, bio>>

(* The replaced extension loses its filter and is freed.                   *)
DropReplaced(t) ==
  /\ At(t, "drop")
  /\ LET e == th[t].old
         f == exts[e].filter
     IN /\ exts' = [exts EXCEPT ![e].filter = NULL, ![e].freed = TRUE]
        /\ IF f = NULL THEN UNCHANGED refVars ELSE bdev_filter_put(f)
  /\ Go(t, "attach")
  /\ UNCHANGED <<deviceVars, listed, snapVars, listVars, bio>>

(* The first reference becomes the one of the extension.  A filter that is *)
(* there already is -EBUSY, and tracker_new() gives the tracker up.        *)
bdev_filter_attach(t) ==
  /\ At(t, "attach")
  /\ \/ /\ exts[th[t].ext].filter = NULL
        /\ exts' = [exts EXCEPT ![th[t].ext].filter = th[t].flt]
        /\ Go(t, "ref")
        /\ UNCHANGED refVars
     \/ /\ exts[th[t].ext].filter # NULL
        /\ bdev_filter_put(th[t].flt)
        /\ Return(t)
        /\ UNCHANGED exts
  /\ UNCHANGED <<deviceVars, listed, snapVars, listVars, bio>>

(* The second reference of a new tracker, for the snapshot.                *)
CreatedRef(t) ==
  /\ At(t, "ref")
  /\ bdev_filter_get(th[t].flt)
  /\ Go(t, "list")
  /\ UNCHANGED <<deviceVars, extVars, snapVars, listVars, bio>>

CreatedList(t) ==
  /\ At(t, "list")
  /\ tracked_device_list' = tracked_device_list + 1
  /\ snaps' = [snaps EXCEPT ![th[t].flt] = @ + 1]
  /\ Return(t)
  /\ UNCHANGED <<deviceVars, extVars, refVars, snapshot_is_taken, frozen,
                 freezing, trackers_counter, bio>>

CreateStep(t) ==
  \/ GetFind(t) \/ GetFilter(t)
  \/ tracker_new(t) \/ NewFails(t) \/ AttachFails(t)
  \/ bdev_extension_append(t) \/ DropReplaced(t) \/ bdev_filter_attach(t)
  \/ CreatedRef(t) \/ CreatedList(t)

-----------------------------------------------------------------------------
(* tracker_remove()                                                        *)

(* A device that cannot be opened is only detached, by its number.         *)
Remove(t) ==
  Step(t, IF present THEN [Idle EXCEPT !.pc = "remove", !.bdev = bdev]
                     ELSE [Idle EXCEPT !.pc = "detach"])

RemoveOpen(t) ==
  /\ At(t, "idle") /\ Loaded
  /\ Remove(t)
  /\ UNCHANGED <<deviceVars, extVars, refVars, snapVars, listVars, bio>>

(* Mutant: -EBUSY is returned without tracker_put().                       *)
BusyKeepsRef(t) ==
  /\ At(t, "check")
  /\ IF snapshot_is_taken[th[t].flt] THEN Return(t) ELSE Go(t, "detach")
  /\ UNCHANGED <<deviceVars, extVars, refVars, snapVars, listVars, bio>>

(* A tracker that belongs to a taken snapshot is busy.                     *)
RemoveCheck(t) ==
  /\ At(t, "check")
  /\ IF snapshot_is_taken[th[t].flt]
     THEN /\ bdev_filter_put(th[t].flt)
          /\ Return(t)
     ELSE /\ Go(t, "detach")
          /\ UNCHANGED refVars
  /\ UNCHANGED <<deviceVars, extVars, snapVars, listVars, bio>>

(* What follows lp_bdev_filter_detach(), whether it detached a filter or   *)
(* not (bdev_filter_detach() then only warns).                             *)
Detached(t) == IF th[t].flt = NULL THEN Return(t) ELSE Go(t, "unlist")

(* lp_bdev_filter_detach() looks for the device number, ...                *)
DetachFind(t) ==
  /\ At(t, "detach")
  /\ IF listed # 0
     THEN Step(t, [th[t] EXCEPT !.pc = "clear", !.ext = listed])
     ELSE Detached(t)
  /\ UNCHANGED <<deviceVars, extVars, refVars, snapVars, listVars, bio>>

(* ... and takes the filter of its extension.                              *)
lp_bdev_filter_detach(t) ==
  /\ At(t, "clear")
  /\ LET f == exts[th[t].ext].filter
     IN /\ exts' = [exts EXCEPT ![th[t].ext].filter = NULL]
        /\ IF f = NULL THEN UNCHANGED refVars ELSE bdev_filter_put(f)
        /\ Detached(t)
  /\ UNCHANGED <<deviceVars, listed, snapVars, listVars, bio>>

RemoveUnlist(t) ==
  /\ At(t, "unlist")
  /\ tracked_device_list' =
       IF tracked_device_list = 0 THEN 0 ELSE tracked_device_list - 1
  /\ Go(t, "removed")
  /\ UNCHANGED <<deviceVars, extVars, refVars, snapVars, trackers_counter, bio>>

(* The success path returns a value that it never assigned.                *)
RemovePut(t) ==
  /\ At(t, "removed")
  /\ bdev_filter_put(th[t].flt)
  /\ Return(t)
  /\ UNCHANGED <<deviceVars, extVars, snapVars, listVars, bio>>

RemoveStep(t) ==
  \/ GetFind(t) \/ GetFilter(t) \/ RemoveCheck(t) \/ DetachFind(t)
  \/ lp_bdev_filter_detach(t) \/ RemoveUnlist(t) \/ RemovePut(t)

-----------------------------------------------------------------------------
(* tracker_done(), after the control device and all snapshots are gone     *)

UnloadStart ==
  /\ Loaded
  /\ \A t \in Threads : At(t, "idle")
  /\ \A f \in TrackerSet : snaps[f] = 0
  /\ Go(Unloader, "next")
  /\ UNCHANGED <<deviceVars, extVars, refVars, snapVars, listVars, bio>>

UnloadNext ==
  /\ At(Unloader, "next")
  /\ IF tracked_device_list = 0
     THEN Go(Unloader, "wait") /\ UNCHANGED tracked_device_list
     ELSE /\ tracked_device_list' = tracked_device_list - 1
          /\ Remove(Unloader)
  /\ UNCHANGED <<deviceVars, extVars, refVars, snapVars, trackers_counter, bio>>

(* Mutant: the module does not wait for the worker.                        *)
UnloadDoesNotWait ==
  /\ At(Unloader, "wait")
  /\ Go(Unloader, "done")
  /\ UNCHANGED <<deviceVars, extVars, refVars, snapVars, listVars, bio>>

tracker_wait_for_release ==
  /\ At(Unloader, "wait")
  /\ trackers_counter = 1
  /\ Go(Unloader, "done")
  /\ UNCHANGED <<deviceVars, extVars, refVars, snapVars, listVars, bio>>

-----------------------------------------------------------------------------
(* What snapshots do with a tracker                                        *)

(* percpu_down_write() of the submit lock: no bio enters any more, ...     *)
SnapFreeze(f, what) ==
  /\ snaps[f] > 0 /\ freezing[f] = "no"
  /\ snapshot_is_taken[f] = (what = "release")
  /\ freezing' = [freezing EXCEPT ![f] = what]
  /\ frozen' = [frozen EXCEPT ![f] = TRUE]
  /\ UNCHANGED <<deviceVars, extVars, refVars, snapshot_is_taken, snaps,
                 listVars, th, bio>>

(* ... and when those inside have left, the flag changes.                  *)
SnapSet(f) ==
  /\ freezing[f] # "no"
  /\ ~ \E b \in Bios : bio[b].pc = "handler" /\ bio[b].flt = f
  /\ snapshot_is_taken' = [snapshot_is_taken EXCEPT ![f] =
                             (freezing[f] = "take")]
  /\ freezing' = [freezing EXCEPT ![f] = "no"]
  /\ frozen' = [frozen EXCEPT ![f] = FALSE]
  /\ UNCHANGED <<deviceVars, extVars, refVars, snaps, listVars, th, bio>>

SnapPut(f) ==
  /\ freezing[f] = "no"
  /\ snaps[f] > (IF snapshot_is_taken[f] THEN 1 ELSE 0)
  /\ snaps' = [snaps EXCEPT ![f] = @ - 1]
  /\ bdev_filter_put(f)
  /\ UNCHANGED <<deviceVars, extVars, snapshot_is_taken, frozen, freezing,
                 listVars, th, bio>>

-----------------------------------------------------------------------------
(* The device                                                              *)

Unplug ==
  /\ present
  /\ present' = FALSE
  /\ UNCHANGED <<bdev, extVars, refVars, snapVars, listVars, th, bio>>

Plug ==
  /\ ~ present /\ bdev < MaxPlug
  /\ present' = TRUE
  /\ bdev' = bdev + 1
  /\ UNCHANGED <<extVars, refVars, snapVars, listVars, th, bio>>

-----------------------------------------------------------------------------
Init ==
  /\ present = TRUE /\ bdev = 0
  /\ exts = << >> /\ listed = 0
  /\ kref = [f \in TrackerSet |-> 0]
  /\ mem = [f \in TrackerSet |-> "none"]
  /\ snapshot_is_taken = [f \in TrackerSet |-> FALSE]
  /\ frozen = [f \in TrackerSet |-> FALSE]
  /\ freezing = [f \in TrackerSet |-> "no"]
  /\ snaps = [f \in TrackerSet |-> 0]
  /\ release_list = << >> /\ rwsem = {} /\ early = {}
  /\ trackers_counter = 1 /\ tracked_device_list = 0
  /\ th = [t \in Threads |-> Idle]
  /\ bio = [b \in Bios |-> BioIdle]

Worker ==
  \/ tracker_release_work
  \/ \E f \in TrackerSet : bdev_filter_free(f)

ThreadStep(t) ==
  \/ t \in Creators /\ CreateStep(t)
  \/ RemoveStep(t)
  \/ t = Unloader /\ (UnloadNext \/ tracker_wait_for_release)

Next ==
  \/ \E t \in Threads : ThreadStep(t)
  \/ Worker
  \/ \E t \in Creators : CreateOpen(t)
  \/ \E t \in Removers : RemoveOpen(t)
  \/ UnloadStart
  \/ \E b \in Bios : BioStep(b)
  \/ \E f \in TrackerSet :
       \/ SnapFreeze(f, "take") \/ SnapFreeze(f, "release")
       \/ SnapSet(f) \/ SnapPut(f)
  \/ Unplug \/ Plug

Spec == Init /\ [][Next]_vars

(* A thread that runs in the kernel, the worker and a bio go on.  Nothing  *)
(* makes a caller call, or a device come or go.                            *)
Fairness ==
  /\ \A t \in Threads : WF_vars(ThreadStep(t))
  /\ WF_vars(Worker)
  /\ \A b \in Bios : WF_vars(bio[b].pc # "idle" /\ BioStep(b))

FairSpec == Spec /\ Fairness

-----------------------------------------------------------------------------
(* Properties                                                              *)

Filter == TrackerSet \cup {NULL}

Pcs == {"idle", "create", "create_ext", "new", "append", "drop", "attach",
        "ref", "list", "remove", "remove_ext", "check", "detach", "clear",
        "unlist", "removed", "next", "wait", "done"}

Extension == [bdev : 0 .. MaxPlug, filter : Filter, freed : BOOLEAN]
Thread == [pc : Pcs, bdev : 0 .. MaxPlug, ext : Nat, old : Nat, flt : Filter]
Bio == [pc : {"idle", "found", "got", "handler", "put"}, ext : Nat, flt : Filter]

(* Every variable keeps its type; that no count becomes negative follows   *)
(* from RefsExact.                                                         *)
TypeOK ==
  /\ present \in BOOLEAN /\ bdev \in 0 .. MaxPlug
  /\ exts \in Seq(Extension)
  /\ listed \in 0 .. Len(exts)
  /\ kref \in [TrackerSet -> Int] /\ snaps \in [TrackerSet -> Nat]
  /\ mem \in [TrackerSet -> {"none", "live", "released", "freed"}]
  /\ release_list \in Seq(TrackerSet) /\ rwsem \subseteq TrackerSet
  /\ early \subseteq TrackerSet
  /\ trackers_counter \in Int /\ tracked_device_list \in Nat
  /\ th \in [Threads -> Thread] /\ bio \in [Bios -> Bio]

(* Who holds a reference to the tracker f.                                 *)
Holders(f) ==
  Cardinality({e \in DOMAIN exts : exts[e].filter = f})
  + snaps[f]
  + Cardinality({t \in Threads : th[t].flt = f /\ th[t].pc # "ref"})
  + Cardinality({b \in Bios : bio[b].flt = f})

(* The reference count of a filter is the number of those that hold it, in *)
(* every step of attaching, filtering, detaching and dropping              *)
(* (bdev_filter_get() and bdev_filter_put() in tracker.c and               *)
(* bdevfilter.c): neither a leak nor a premature release builds up.        *)
RefsExact == \A f \in TrackerSet : kref[f] = Holders(f)

(* Nobody - an extension, a snapshot, a bio, a thread between two steps -  *)
(* has a pointer to a tracker that was released (bdev_filter_free()).      *)
(* There is one exception: a removal between the attachment of a new       *)
(* tracker and the second reference of its creator (tracker.c, 541-546)    *)
(* releases it under the creator.                                          *)
PointersLive ==
  \A f \in TrackerSet :
    \/ mem[f] = "live" \/ f \in early
    \/ /\ \A e \in DOMAIN exts : exts[e].filter # f
       /\ \A t \in Threads : th[t].flt # f
       /\ \A b \in Bios : bio[b].flt # f
       /\ snaps[f] = 0

(* An extension that a thread or a bio found in the list is not freed      *)
(* before its filter was read (bdevfilter.c, 312-326 and 285-298).         *)
ExtensionsLive ==
  /\ \A t \in Threads : th[t].pc \in {"create_ext", "remove_ext", "attach",
                                      "clear"} => ~ exts[th[t].ext].freed
  /\ \A b \in Bios : bio[b].pc = "found" => ~ exts[bio[b].ext].freed

(* A bio that is not filtered for it misses a change: the tracker of a     *)
(* taken snapshot is the filter of the device (tracker.c, 597).            *)
TakenAttached ==
  \A f \in TrackerSet :
    snapshot_is_taken[f] => listed # 0 /\ exts[listed].filter = f

(* bdev_filter_detach() finds the filter it has to detach.                 *)
DetachFindsFilter ==
  \A t \in Threads : th[t].flt # NULL =>
    /\ At(t, "detach") => listed # 0
    /\ At(t, "clear") => exts[th[t].ext].filter # NULL

(* A filter that no extension has any more gets no new bio                 *)
(* (bdev_filters_apply()).                                                 *)
DetachedIsSilent ==
  [][\A b \in Bios :
       bio[b].pc # "handler" /\ bio'[b].pc = "handler" =>
         \E e \in DOMAIN exts : exts[e].filter = bio[b].flt]_vars

(* The worker does not free a tracker whose bdev_filter_free() still has   *)
(* to free the submit lock in it (bdevfilter.c, 168-169).                  *)
FreedAfterRelease == \A f \in rwsem : mem[f] # "freed"

(* When tracker_done() returns, no tracker is left and no bio can be in    *)
(* the code of the module, unless a tracker was released under its creator *)
(* (see PointersLive), which counts it twice.                              *)
UnloadedClean ==
  At(Unloader, "done") /\ early = {} =>
    /\ \A f \in TrackerSet : mem[f] \in {"none", "freed"}
    /\ \A b \in Bios : bio[b].flt = NULL
    /\ release_list = << >>

(* tracker_done() is never left waiting: when it waits, no bio is in the   *)
(* filter any more and the worker has nothing to free, the count that it   *)
(* waits for (tracker_wait_for_release()) is reached, also when the device *)
(* is gone.  Two cases may keep it waiting: a device that was plugged in   *)
(* again, since tracker_get_by_dev() misses the extension of the old       *)
(* block_device and its tracker is not detached; and a tracker that was    *)
(* released under its creator (see PointersLive).                          *)
UnloadNotStuck ==
  /\ At(Unloader, "wait")
  /\ \A b \in Bios : bio[b].flt = NULL
  /\ release_list = << >>
  /\ bdev = 0 /\ early = {}
  => trackers_counter = 1

(* The same as liveness: tracker_done() comes to an end.                   *)
UnloadFinishes ==
  At(Unloader, "next") ~> (At(Unloader, "done") \/ bdev > 0 \/ early # {})
=============================================================================
