----------------------------- MODULE ImageArea ------------------------------
(***************************************************************************)
(* A difference area and the image that shares it, from the creation of    *)
(* the image to the end of the area.  The snapshot and the image hold a    *)
(* reference each (diff_area_get(), diff_area_put()); whoever drops the    *)
(* last one, the thread that releases the snapshot or the last user that   *)
(* closes the device of the image, runs diff_area_free().                  *)
(*                                                                         *)
(* The image is ImageDisk, the end of the area AreaFree.  What the chunks  *)
(* of the area are doing is chosen when its last reference is dropped.     *)
(***************************************************************************)
EXTENDS AreaFree

CONSTANTS
  Bios,    \* the bios that users of the image submit
  Faults   \* whether the creation of the image may fail

ASSUME DiskAssumption == Faults \in BOOLEAN

VARIABLES disk, opened, kthread, current, stop, queue, bio, refs, dpc

Disk == INSTANCE ImageDisk WITH corrupted <- corrupt

imageVars == <<disk, opened, kthread, current, stop, queue, bio, refs, dpc>>
innerVars == <<chunkVars, pending, pool, worker, freeVars, useVars>>
vars == <<imageVars, areaVars>>

Init ==
  /\ Disk!DiskInit
  /\ FreeInit /\ ~ \E c \in Chunks : buffer[c]

(* A step of the image.  The one that drops the last reference to the area *)
(* begins its end, whatever its chunks are doing then.                     *)
Image(A) ==
  /\ refs > 0
  /\ A
  /\ IF refs' > 0 THEN UNCHANGED innerVars
     ELSE /\ \E left \in Leftovers :
               /\ io' = LeftIo(left) /\ cache' = LeftCache(left)
               /\ dirty' = LeftDirty(left) /\ buffer' = LeftBuffer(left)
               /\ pending' = LeftPending(left) /\ worker' = LeftWorker(left)
          /\ UNCHANGED <<tail, pool, freeVars, useVars>>

(* A step of the end of the area.                                          *)
End(A) ==
  /\ refs = 0
  /\ A
  /\ UNCHANGED imageVars

Next == Image(Disk!DiskNext) \/ End(FreeNext)

Spec == Init /\ [][Next]_vars

(* Threads in the kernel go on, I/O ends, queued work runs.  Nobody need   *)
(* submit bios or remove the image, but users that wait for no bio close   *)
(* the device when it is dead.                                             *)
Fairness ==
  /\ WF_vars(Image(Disk!snapimage_create)) /\ WF_vars(Image(Disk!Thread))
  /\ WF_vars(dpc # "ready" /\ Image(Disk!snapimage_free))
  /\ \A b \in Bios : WF_vars(Image(Disk!snapimage_submit_bio(b)))
  /\ WF_vars(disk = "dead" /\ Image(Disk!Close))
  /\ WF_vars(End(diff_area_free))
  /\ WF_vars(End(diff_area_cache_release_work))
  /\ \A c \in Chunks : WF_vars(End(Callback(c)))

FairSpec == Spec /\ Fairness

-----------------------------------------------------------------------------
(* The thread of the image processes a bio only while the image holds the  *)
(* difference area, and no thread is left once the image is freed          *)
(* (snapimage_free(), snapimage_free_disk()).                              *)
ProcessedAreaLives == Disk!ProcessedAreaLives

(* A bio that is submitted to the image ends, unless the image is removed  *)
(* meanwhile (snapimage_submit_bio(), snapimage_kthread_worker_fn()).      *)
BiosEnd == Disk!BiosEnd


(* Once the last reference is dropped diff_area_free() returns, whatever   *)
(* the chunks were doing, unless the bios of a chunk had been dropped:     *)
(* chunk_free() then waits for its semaphore for ever.                     *)
FreeReturns ==
  (refs = 0) ~> (fpc = "done" \/ \E c \in Chunks : io[c] = "dropped")
=============================================================================
