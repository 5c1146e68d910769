------------------------------ MODULE MCCbtMap ------------------------------
(***************************************************************************)
(* CbtMap for TLC.  Generations are only compared for equality, so any     *)
(* permutation of the UUIDs maps behaviours to behaviours; three are       *)
(* enough, as only the current one and that of the base are remembered.    *)
(***************************************************************************)
EXTENDS CbtMap, TLC

UuidSymmetry == Permutations(Uuid)
=============================================================================
