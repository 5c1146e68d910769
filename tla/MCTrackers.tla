----------------------------- MODULE MCTrackers -----------------------------
(* Instances of Trackers for TLC.                                          *)
EXTENDS Trackers, TLC

(* Trackers differ in nothing but their names.                             *)
Symmetry == Permutations(TrackerSet)
=============================================================================
