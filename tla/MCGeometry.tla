----------------------------- MODULE MCGeometry -----------------------------
EXTENDS Geometry

(* One to three segments of at most a page (two sectors).                  *)
MCSegments == UNION {[1 .. n -> 1 .. 2] : n \in 1 .. 3}
=============================================================================
