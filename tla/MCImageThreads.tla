--------------------------- MODULE MCImageThreads ---------------------------
(* Small instances of ImageThreads for TLC: the constants are in the .cfg. *)
EXTENDS ImageThreads
=============================================================================
