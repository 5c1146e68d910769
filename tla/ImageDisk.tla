----------------------------- MODULE ImageDisk ------------------------------
(***************************************************************************)
(* The block device of a snapshot image (module/snapimage.c): its creation *)
(* with every failure, the queue of bios and the thread that processes     *)
(* them, and its removal while the device is open and in use.              *)
(*                                                                         *)
(* Abstractions.  The processing of a bio is one step; ImageIo has its     *)
(* details.  What the block layer guarantees is modelled from how the code *)
(* relies on it: del_gendisk() refuses new bios and waits for the calls of *)
(* submit_bio in progress; free_disk is called when the last user closes   *)
(* the device.                                                             *)
(***************************************************************************)
EXTENDS Integers, Sequences

CONSTANTS
  Bios,    \* the bios that users of the device submit
  Faults   \* whether the creation may fail

VARIABLES
  disk,      \* "none", "added", "dead" or "freed"
  opened,    \* whether a user has the device open
  kthread,   \* the thread: where it is in its loop
  current,   \* the bio it processes
  stop,      \* KTHREAD_SHOULD_STOP
  queue,     \* the bios that wait
  bio,       \* the state of each bio
  refs,      \* of the difference area: the snapshot's and the image's
  corrupted, \* of the difference area
  dpc        \* of the thread that creates and removes the image

workVars == <<kthread, current>>
diskVars == <<disk, opened, workVars, stop, queue, bio, refs, corrupted, dpc>>

NoBio == "none"

DiskInit ==
  /\ disk = "none" /\ opened = FALSE
  /\ kthread = "none" /\ current = NoBio /\ stop = FALSE
  /\ queue = << >> /\ bio = [b \in Bios |-> "new"]
  /\ refs = 1 /\ corrupted = FALSE
  /\ dpc = "create"

-----------------------------------------------------------------------------
(* snapimage_create()                                                      *)

(* Without a thread nothing was taken; the snapshot drops its reference.   *)
ThreadFails ==
  /\ Faults /\ dpc = "create"
  /\ refs' = refs - 1
  /\ dpc' = "done"
  /\ UNCHANGED <<disk, opened, workVars, stop, queue, bio, corrupted>>

CreateThread ==
  /\ dpc = "create"
  /\ kthread' = "created"
  /\ dpc' = "disk"
  /\ UNCHANGED <<disk, opened, current, stop, queue, bio, refs, corrupted>>

(* A disk that cannot be allocated: the thread is stopped.                 *)
DiskFails ==
  /\ Faults /\ dpc = "disk"
  /\ stop' = TRUE
  /\ dpc' = "failed"
  /\ UNCHANGED <<disk, opened, workVars, queue, bio, refs, corrupted>>

(* The image gets its reference to the area before the disk is visible.    *)
CreateDisk ==
  /\ dpc = "disk"
  /\ refs' = refs + 1
  /\ dpc' = "add"
  /\ UNCHANGED <<disk, opened, workVars, stop, queue, bio, corrupted>>

(* When add_disk() fails the thread is stopped and the disk is put, but    *)
(* not the difference area.                                                *)
AddFails ==
  /\ Faults /\ dpc = "add"
  /\ stop' = TRUE
  /\ dpc' = "add_failed"
  /\ UNCHANGED <<disk, opened, workVars, queue, bio, refs, corrupted>>

add_disk ==
  /\ dpc = "add"
  /\ disk' = "added"
  /\ dpc' = "ready"
  /\ UNCHANGED <<opened, workVars, stop, queue, bio, refs, corrupted>>

(* kthread_stop() of a creation that failed waits for the thread.  The     *)
(* snapshot then drops its reference.                                      *)
CreateFailed ==
  /\ dpc \in {"failed", "add_failed"} /\ kthread = "ended"
  /\ refs' = refs - 1
  /\ dpc' = IF dpc = "failed" THEN "done" ELSE "not_added"
  /\ UNCHANGED <<disk, opened, workVars, stop, queue, bio, corrupted>>

-----------------------------------------------------------------------------
(* Users of the device                                                     *)

Open ==
  /\ disk = "added" /\ ~ opened
  /\ opened' = TRUE
  /\ UNCHANGED <<disk, workVars, stop, queue, bio, refs, corrupted, dpc>>

(* A user closes the device when none of its bios is on its way; the last  *)
(* one to close a dead device frees it.                                    *)
Close ==
  /\ opened
  /\ \A b \in Bios : bio[b] \in {"new", "ended", "error"}
  /\ opened' = FALSE
  /\ UNCHANGED <<disk, workVars, stop, queue, bio, refs, corrupted, dpc>>

(* The block layer calls submit_bio, or refuses the bio of a dead device.  *)
Enter(b) ==
  /\ opened /\ bio[b] = "new"
  /\ bio' = [bio EXCEPT ![b] = IF disk = "added" THEN "entered" ELSE "error"]
  /\ UNCHANGED <<disk, opened, workVars, stop, queue, refs, corrupted, dpc>>

(* Mutant: a bio that is queued does not wake the thread.                  *)
SubmitWithoutWake(b) ==
  /\ bio[b] = "entered"
  /\ IF corrupted
     THEN /\ bio' = [bio EXCEPT ![b] = "error"]
          /\ UNCHANGED queue
     ELSE /\ bio' = [bio EXCEPT ![b] = "queued"]
          /\ queue' = Append(queue, b)
  /\ UNCHANGED <<disk, opened, workVars, stop, refs, corrupted, dpc>>

(* A bio for a corrupted area ends with an error.                          *)
snapimage_submit_bio(b) ==
  /\ bio[b] = "entered"
  /\ IF corrupted
     THEN /\ bio' = [bio EXCEPT ![b] = "error"]
          /\ UNCHANGED <<queue, kthread>>
     ELSE /\ bio' = [bio EXCEPT ![b] = "queued"]
          /\ queue' = Append(queue, b)
          /\ kthread' = IF kthread = "created" THEN "start" ELSE kthread
  /\ UNCHANGED <<disk, opened, current, stop, refs, corrupted, dpc>>

(* Any failure of copy-on-write corrupts the area.                         *)
diff_area_set_corrupted ==
  /\ ~ corrupted
  /\ corrupted' = TRUE
  /\ UNCHANGED <<disk, opened, workVars, stop, queue, bio, refs, dpc>>

-----------------------------------------------------------------------------
(* snapimage_kthread_worker_fn()                                           *)

(* A thread that was never woken does not run its function when it is      *)
(* stopped.                                                                *)
WorkerStart ==
  /\ kthread \in {"created", "start"}
  /\ kthread = "start" \/ stop
  /\ kthread' = IF stop THEN "ended" ELSE "get"
  /\ UNCHANGED <<disk, opened, current, stop, queue, bio, refs, corrupted, dpc>>

get_bio_from_queue ==
  /\ kthread = "get"
  /\ IF queue = << >>
     THEN kthread' = "check" /\ UNCHANGED <<current, queue, bio>>
     ELSE /\ current' = Head(queue) /\ queue' = Tail(queue)
          /\ bio' = [bio EXCEPT ![Head(queue)] = "busy"]
          /\ kthread' = "process"
  /\ UNCHANGED <<disk, opened, stop, refs, corrupted, dpc>>

snapimage_process_bio ==
  /\ kthread = "process"
  /\ bio' = [bio EXCEPT ![current] = "ended"]
  /\ current' = NoBio
  /\ kthread' = "get"
  /\ UNCHANGED <<disk, opened, stop, queue, refs, corrupted, dpc>>


(* The state of the thread is not changed before schedule(), so it goes on *)
(* with its loop.                                                          *)
kthread_should_stop ==
  /\ kthread = "check"
  /\ kthread' = IF stop THEN "ended" ELSE "get"
  /\ UNCHANGED <<disk, opened, current, stop, queue, bio, refs, corrupted, dpc>>

-----------------------------------------------------------------------------
(* snapimage_free()                                                        *)

(* del_gendisk() marks the disk dead and ...                               *)
DelStart ==
  /\ dpc = "ready"
  /\ disk' = "dead"
  /\ dpc' = "del"
  /\ UNCHANGED <<opened, workVars, stop, queue, bio, refs, corrupted>>

(* ... waits for the calls of submit_bio.                                  *)
del_gendisk ==
  /\ dpc = "del"
  /\ \A b \in Bios : bio[b] # "entered"
  /\ dpc' = "stop"
  /\ UNCHANGED <<disk, opened, workVars, stop, queue, bio, refs, corrupted>>

StopThread ==
  /\ dpc = "stop"
  /\ stop' = TRUE
  /\ dpc' = "stopping"
  /\ UNCHANGED <<disk, opened, workVars, queue, bio, refs, corrupted>>

(* Mutant: the disk is put while the thread may still run.                 *)
StopWithoutWaiting ==
  /\ dpc = "stopping"
  /\ refs' = refs - 1
  /\ dpc' = "put"
  /\ UNCHANGED <<disk, opened, workVars, stop, queue, bio, corrupted>>

(* kthread_stop() waits for the thread; the snapshot drops its reference.  *)
kthread_stop ==
  /\ dpc = "stopping" /\ kthread = "ended"
  /\ refs' = refs - 1
  /\ dpc' = "put"
  /\ UNCHANGED <<disk, opened, workVars, stop, queue, bio, corrupted>>

snapimage_free_disk ==
  /\ dpc = "put" /\ disk = "dead" /\ ~ opened
  /\ disk' = "freed"
  /\ refs' = refs - 1
  /\ dpc' = "done"
  /\ UNCHANGED <<opened, workVars, stop, queue, bio, corrupted>>

snapimage_create ==
  \/ ThreadFails \/ CreateThread \/ DiskFails \/ CreateDisk \/ AddFails
  \/ add_disk \/ CreateFailed

snapimage_free ==
  \/ DelStart \/ del_gendisk \/ StopThread \/ kthread_stop
  \/ snapimage_free_disk

Thread ==
  \/ WorkerStart \/ get_bio_from_queue \/ snapimage_process_bio
  \/ kthread_should_stop

DiskNext ==
  \/ snapimage_create \/ snapimage_free \/ Thread
  \/ Open \/ Close \/ diff_area_set_corrupted
  \/ \E b \in Bios : Enter(b) \/ snapimage_submit_bio(b)

DiskSpec == DiskInit /\ [][DiskNext]_diskVars

-----------------------------------------------------------------------------
(* The types; there is a reference to drop whenever one is dropped.        *)
DiskTypeOK ==
  /\ disk \in {"none", "added", "dead", "freed"} /\ opened \in BOOLEAN
  /\ kthread \in {"none", "created", "start", "get", "process", "check",
                 "ended"}
  /\ current \in Bios \cup {NoBio} /\ stop \in BOOLEAN
  /\ queue \in Seq(Bios) /\ refs \in 0 .. 2 /\ corrupted \in BOOLEAN
  /\ bio \in [Bios -> {"new", "entered", "queued", "busy", "ended", "error"}]
  /\ dpc \in {"create", "disk", "add", "ready", "failed", "del", "stop",
             "stopping", "put", "done", "add_failed", "not_added"}

(* The thread processes a bio only while the image holds the difference    *)
(* area, and no thread is left once the image is freed                     *)
(* (snapimage_free(), snapimage_free_disk()).                              *)
ProcessedAreaLives ==
  /\ kthread = "process" => refs >= 1 /\ disk \in {"added", "dead"}
  /\ disk = "freed" => kthread = "ended"

(* An image that was removed, or could not be created, leaves no reference *)
(* to the difference area.  (The exception is a failed add_disk(), "not    *)
(* added", which keeps the one of the image.)                              *)
AreaReleased == dpc = "done" => refs = 0

(* A bio that is submitted ends, unless the image is removed meanwhile: a  *)
(* thread that is stopped before it ran, or between its look at the queue  *)
(* and the one at the stop flag, leaves the bios that were queued for it.  *)
BiosEnd ==
  \A b \in Bios :
    (bio[b] = "entered") ~> (bio[b] \in {"ended", "error"} \/ disk # "added")

=============================================================================
