--------------------------- MODULE SnapshotImage ---------------------------
(***************************************************************************)
(* What a snapshot image promises (doc/blksnap.rst, "Copy on write"): the  *)
(* image is the original device as it was when the snapshot was taken,     *)
(* changed only by the writes that are requested of the image, each chunk  *)
(* of a request once and in order, however the original device is          *)
(* overwritten.  A request may fail on its way.  A snapshot may break (its *)
(* difference area is corrupted); a broken snapshot never recovers and     *)
(* promises nothing.                                                       *)
(***************************************************************************)
EXTENDS Integers

CONSTANTS Chunk, Data, NULL, Request

VARIABLES
  orig,    \* contents of the original device
  image,   \* contents of the snapshot image
  broken,  \* the snapshot is lost
  busy,    \* a request is being served
  req,     \* that request: its first and last chunk, and whether it writes
  pos,     \* the chunk of the request that is served next
  reply    \* chunk and data last read from the image, or NULL

vars == <<orig, image, broken, busy, req, pos, reply>>

Lost == [c \in Chunk |-> NULL]

Init ==
  /\ orig \in [Chunk -> Data]
  /\ image = orig
  /\ broken = FALSE
  /\ busy = FALSE
  /\ req \in Request /\ pos = 0
  /\ reply = NULL

WriteOriginal ==
  /\ orig' \in [Chunk -> Data]
  /\ UNCHANGED <<image, broken, busy, req, pos, reply>>

Submit ==
  /\ ~busy /\ busy' = TRUE
  /\ req' \in Request /\ pos' = req'.first
  /\ UNCHANGED <<orig, image, broken, reply>>

Serve ==
  /\ busy /\ pos <= req.last
  /\ pos' = pos + 1
  /\ UNCHANGED <<orig, broken, busy, req>>

WriteImage(d) ==
  /\ req.write
  /\ Serve
  /\ image' = [image EXCEPT ![pos] = d]
  /\ UNCHANGED reply

ReadImage ==
  /\ ~req.write
  /\ Serve
  /\ reply' = <<pos, image[pos]>>
  /\ UNCHANGED image

(* The rest of the request is given up.                                    *)
Fail ==
  /\ busy /\ pos' = req.last + 1
  /\ UNCHANGED <<orig, image, broken, busy, req, reply>>

End ==
  /\ busy /\ pos = req.last + 1
  /\ busy' = FALSE
  /\ req' \in Request /\ pos' = 0
  /\ reply' = NULL
  /\ UNCHANGED <<orig, image, broken>>

(* From here on the snapshot is, and stays, broken.                        *)
Break ==
  /\ broken' = TRUE
  /\ image' = Lost
  /\ orig' \in [Chunk -> Data]

Next ==
  \/ ~broken /\ \/ WriteOriginal \/ Submit \/ ReadImage \/ Fail \/ End
                \/ \E d \in Data : WriteImage(d)
  \/ Break

Spec == Init /\ [][Next]_vars

=============================================================================
