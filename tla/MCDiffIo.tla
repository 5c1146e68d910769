------------------------------ MODULE MCDiffIo ------------------------------
(* Pages of two sectors, and bios of at most two pages: regions of up to   *)
(* five pages need three bios.                                             *)
EXTENDS DiffIo

SmallRegions == [sector : {0, 3, 4}, count : 1 .. 10]
=============================================================================
