---------------------------- MODULE MCSnapshots -----------------------------
(* Snapshots for TLC: of both devices, or of one device each.              *)
EXTENDS Snapshots

CONSTANTS d1, d2

Pair == {<<d1, d2>>}
Apart == {<<d1>>, <<d2>>}
=============================================================================
