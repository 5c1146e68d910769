----------------------------- MODULE MCDiffArea -----------------------------
(* Instances of DiffArea for TLC; the configurations cow_*.cfg use it.     *)
EXTENDS DiffArea, TLC

Symmetry == Permutations(Data) \cup Permutations(Writers)

=============================================================================
