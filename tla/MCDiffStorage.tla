--------------------------- MODULE MCDiffStorage ----------------------------
(***************************************************************************)
(* DiffStorage for TLC: two threads, with chunks of one and of two         *)
(* sectors, and portions of four sectors that come in one range or in      *)
(* two, so that blocks are left that are too small for a chunk.            *)
(***************************************************************************)
EXTENDS DiffStorage, TLC

CONSTANTS a1, a2

TwoSizes == (a1 :> 1) @@ (a2 :> 2)
=============================================================================
