---------------------------- MODULE MCImagePipe ----------------------------
(* Small instances of ImagePipe for TLC: the constants are in the .cfg. *)
EXTENDS ImagePipe
=============================================================================
