---------------------------- MODULE MCImageArea -----------------------------
(* An instance of ImageArea for TLC.                                       *)
EXTENDS ImageArea
=============================================================================
