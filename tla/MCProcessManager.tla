-------------------------- MODULE MCProcessManager --------------------------
(* Small instances of ProcessManager for TLC. *)
EXTENDS ProcessManager

AnyChild == {-1}
AnyOrPid == {-1, 4}
=============================================================================
