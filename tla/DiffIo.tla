------------------------------- MODULE DiffIo -------------------------------
(***************************************************************************)
(* One request of the difference I/O (module/diff_io.c): a region of a     *)
(* device is transferred from or to the pages of a buffer by several bios, *)
(* which end in any order, each in a context of its own.  The last one     *)
(* completes a synchronous request, or queues the callback of an           *)
(* asynchronous one, which frees the request.                              *)
(*                                                                         *)
(* Abstractions.  Data is abstracted to which sector of the device meets   *)
(* which sector of the buffer.  A bio is what it transfers and how far it  *)
(* is.  Page counts are unsigned short, as in calc_page_count().           *)
(***************************************************************************)
EXTENDS Integers, Sequences

CONSTANTS
  PageSectors, \* PAGE_SECTORS
  MaxSegs,     \* the pages that bio_max_segs() allows for a bio
  ShortBits,   \* the bits of an unsigned short
  Regions,     \* the regions that are requested
  PageCounts   \* the sizes of their buffers, in pages

ASSUME IoAssumption ==
  /\ PageSectors \in Nat \ {0} /\ MaxSegs \in Nat \ {0} /\ ShortBits \in Nat
  /\ Regions \subseteq [sector : Nat, count : Nat]
  /\ PageCounts \subseteq Nat

VARIABLES
  region, page_count, is_sync_io, is_nowait, \* what diff_io_do() is given
  processed, page,   \* its counter, and the index of current_page_ptr
  bios,              \* the bios, in the order they were made
  submitted,         \* how many of them were submitted
  bio_count, error,  \* of struct diff_io
  notify,            \* the completion, or the work: "no", "ready", "done"
  seen,              \* the error that was read when all was done
  pc, ret            \* where diff_io_do() is, and what it returned

args == <<region, page_count, is_sync_io, is_nowait>>
built == <<processed, page, bios>>
vars == <<args, built, submitted, bio_count, error, notify, seen, pc, ret>>

check_page_aligned(sector) == sector % PageSectors = 0

calc_page_count(sectors) ==
  ((sectors + PageSectors - 1) \div PageSectors) % 2 ^ ShortBits

Init ==
  /\ region \in Regions /\ page_count \in PageCounts
  /\ is_sync_io \in BOOLEAN
  /\ is_nowait \in (IF is_sync_io THEN {FALSE} ELSE BOOLEAN)
  /\ processed = 0 /\ page = 0 /\ bios = << >> /\ submitted = 0
  /\ bio_count = 0 /\ error = 0
  /\ notify = "no" /\ seen = 0
  /\ pc = "check" /\ ret = "none"

(* The region is page aligned and not larger than the buffer.              *)
Check ==
  /\ pc = "check"
  /\ IF /\ check_page_aligned(region.sector)
        /\ calc_page_count(region.count) <= page_count
     THEN pc' = "build" /\ UNCHANGED ret
     ELSE pc' = "returned" /\ ret' = "EINVAL"
  /\ UNCHANGED <<args, built, submitted, bio_count, error, notify, seen>>

(* The sectors of the next bio.                                            *)
Portion ==
  LET left == region.count - processed
      nr_iovecs == calc_page_count(left)
  IN IF nr_iovecs > MaxSegs THEN MaxSegs * PageSectors ELSE left

(* Mutant: every bio begins with the first page of the buffer.             *)
AddFirstPages ==
  /\ pc = "build" /\ processed < region.count
  /\ bios' = Append(bios, [sector |-> region.sector + processed, page |-> 0,
                           count |-> Portion, status |-> "built"])
  /\ bio_count' = bio_count + 1
  /\ page' = (Portion + PageSectors - 1) \div PageSectors
  /\ processed' = processed + Portion
  /\ UNCHANGED <<args, submitted, error, notify, seen, pc, ret>>

(* A bio for the next pages of the buffer.                                 *)
AddBio ==
  /\ pc = "build" /\ processed < region.count
  /\ bios' = Append(bios, [sector |-> region.sector + processed,
                           page |-> page, count |-> Portion,
                           status |-> "built"])
  /\ bio_count' = bio_count + 1
  /\ page' = page + (Portion + PageSectors - 1) \div PageSectors
  /\ processed' = processed + Portion
  /\ UNCHANGED <<args, submitted, error, notify, seen, pc, ret>>

(* There is no bio for a request that must not wait: those already made    *)
(* are put.                                                                *)
AllocFails ==
  /\ pc = "build" /\ processed < region.count /\ is_nowait
  /\ bios' = << >>
  /\ pc' = "returned" /\ ret' = "EAGAIN"
  /\ UNCHANGED <<args, processed, page, submitted, bio_count, error, notify,
                 seen>>

(* All bios are made before the first is submitted.                        *)
Submit ==
  /\ pc = "build" /\ processed = region.count /\ submitted < Len(bios)
  /\ submitted' = submitted + 1
  /\ bios' = [bios EXCEPT ![submitted + 1].status = "flight"]
  /\ pc' = IF submitted' = Len(bios) THEN "submitted" ELSE pc
  /\ UNCHANGED <<args, processed, page, bio_count, error, notify, seen, ret>>

(* What diff_io_do() reads as is_sync_io once all bios are submitted: the  *)
(* callback of an asynchronous request may have freed the request.         *)
IsSyncRead == IF notify = "done" THEN BOOLEAN ELSE {is_sync_io}

Submitted ==
  /\ pc = "submitted"
  /\ \E sync \in IsSyncRead :
       IF sync THEN pc' = "wait" /\ UNCHANGED ret
       ELSE pc' = "returned" /\ ret' = "zero"
  /\ UNCHANGED <<args, built, submitted, bio_count, error, notify, seen>>

(* wait_for_completion_io(); the caller then reads the error.              *)
Complete ==
  /\ pc = "wait" /\ is_sync_io /\ notify = "ready"
  /\ seen' = error
  /\ notify' = "done"
  /\ pc' = "returned" /\ ret' = "zero"
  /\ UNCHANGED <<args, built, submitted, bio_count, error>>

(* Mutant: the error of a bio is not stored.                               *)
EndioWithoutError(i) ==
  /\ bios[i].status = "flight"
  /\ \E ok \in BOOLEAN :
       bios' = [bios EXCEPT ![i].status = IF ok THEN "good" ELSE "failed"]
  /\ UNCHANGED <<args, processed, page, submitted, bio_count, error, notify,
                 seen, pc, ret>>

(* diff_io_endio(): an error is stored, ...                                *)
EndioStatus(i) ==
  /\ bios[i].status = "flight"
  /\ \E ok \in BOOLEAN :
       /\ bios' = [bios EXCEPT ![i].status = IF ok THEN "good" ELSE "failed"]
       /\ error' = IF ok THEN error ELSE 1
  /\ UNCHANGED <<args, processed, page, submitted, bio_count, notify, seen,
                 pc, ret>>

Final(status) == IF status = "good" THEN "ended_good" ELSE "ended_failed"

(* Mutant: the counter is tested before it is decremented.                 *)
EndioCountLate(i) ==
  /\ bios[i].status \in {"good", "failed"}
  /\ bios' = [bios EXCEPT ![i].status = Final(@)]
  /\ bio_count' = bio_count - 1
  /\ notify' = IF bio_count = 0 THEN "ready" ELSE notify
  /\ UNCHANGED <<args, processed, page, submitted, error, seen, pc, ret>>

(* ... and the last bio notifies.                                          *)
EndioCount(i) ==
  /\ bios[i].status \in {"good", "failed"}
  /\ bios' = [bios EXCEPT ![i].status = Final(@)]
  /\ bio_count' = bio_count - 1
  /\ notify' = IF bio_count' = 0 THEN "ready" ELSE notify
  /\ UNCHANGED <<args, processed, page, submitted, error, seen, pc, ret>>

(* The work of an asynchronous request: the callback reads the error and   *)
(* frees the request.                                                      *)
diff_io_notify_cb ==
  /\ ~ is_sync_io /\ notify = "ready"
  /\ seen' = error
  /\ notify' = "done"
  /\ UNCHANGED <<args, built, submitted, bio_count, error, pc, ret>>

diff_io_do == Check \/ AddBio \/ AllocFails \/ Submit \/ Submitted \/ Complete

diff_io_endio(i) == EndioStatus(i) \/ EndioCount(i)

Next ==
  \/ diff_io_do \/ diff_io_notify_cb
  \/ \E i \in DOMAIN bios : diff_io_endio(i)

Spec == Init /\ [][Next]_vars

(* A thread in the kernel goes on, a submitted bio ends, queued work runs. *)
FairSpec == Spec /\ WF_vars(Next)

-----------------------------------------------------------------------------
(* The types; no more bios are counted than there are.                     *)
TypeOK ==
  /\ region \in Regions /\ page_count \in PageCounts
  /\ is_sync_io \in BOOLEAN /\ is_nowait \in BOOLEAN
  /\ processed \in 0 .. region.count /\ page \in Nat
  /\ submitted \in 0 .. Len(bios) /\ bio_count \in Nat
  /\ error \in {0, 1} /\ seen \in {0, 1}
  /\ notify \in {"no", "ready", "done"}
  /\ pc \in {"check", "build", "submitted", "wait", "returned"}
  /\ ret \in {"none", "zero", "EINVAL", "EAGAIN"}

Ended(b) == b.status \in {"ended_good", "ended_failed"}

(* When diff_io_endio() notifies, the region is transferred as a whole:    *)
(* every bio has ended, and each sector of the region met the sector of    *)
(* the buffer with the same offset exactly once, inside of the buffer and  *)
(* with no more pages in a bio than it has room for.                       *)
TransfersExact ==
  notify # "no" =>
    /\ \A i \in DOMAIN bios : Ended(bios[i])
    /\ \A s \in region.sector .. region.sector + region.count - 1 :
         \E i \in DOMAIN bios :
           /\ s \in bios[i].sector .. bios[i].sector + bios[i].count - 1
           /\ bios[i].page * PageSectors + s - bios[i].sector
                = s - region.sector
           /\ \A j \in DOMAIN bios \ {i} :
                s \notin bios[j].sector .. bios[j].sector + bios[j].count - 1
    /\ \A i \in DOMAIN bios :
         LET pages == (bios[i].count + PageSectors - 1) \div PageSectors
         IN pages <= MaxSegs /\ bios[i].page + pages <= page_count

(* Whoever is told that the request is done sees the error of any of its   *)
(* bios, in whichever order they ended (chunk_notify_load(),               *)
(* chunk_notify_store(), chunk_load_orig(), chunk_load_diff()).            *)
ErrorSeen ==
  notify = "done" =>
    (seen = 1 <=> \E i \in DOMAIN bios : bios[i].status = "ended_failed")

(* diff_io_do() returns.  Of an asynchronous request that was notified     *)
(* before diff_io_do() looked at is_sync_io, the memory is freed: what it  *)
(* reads there may let it wait for a completion that never comes.          *)
DoReturns == <> (pc = "returned" \/ (pc = "wait" /\ ~ is_sync_io))

(* A request whose bios were submitted is notified, whatever they return.  *)
RequestEnds == (pc = "submitted") ~> (notify = "done")
=============================================================================
