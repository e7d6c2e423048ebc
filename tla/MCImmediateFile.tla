--------------------------- MODULE MCImmediateFile ---------------------------
(* Small instances of ImmediateFile for TLC. *)
EXTENDS ImmediateFile, TLC

\* Descriptors are interchangeable.
Symmetry == Permutations(Fd)
=============================================================================
