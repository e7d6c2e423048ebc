------------------------------- MODULE MCFiles -------------------------------
(***************************************************************************)
(* Two small instances of ImmediateFile, a file each: that of the .cfg, in *)
(* which programs use an immediate file as it is meant to be used and a    *)
(* regular one in any way; and "any", with every call in every order on a  *)
(* disk that has a single free zone.  A behaviour has to do with one of    *)
(* the two, the other stays as it was.  The symmetry of descriptors is     *)
(* that of the first; the states of "any" mention OneFd only, so that no   *)
(* two of them are images of each other.                                   *)
(***************************************************************************)
EXTENDS MCImmediateFile

CONSTANT OneFd     \* the descriptor of "any"

VARIABLES
  any_mode, any_size, any_zone, any_has, any_data,   \* the inode of "any" ...
  any_free, any_vnode, any_filp, any_reply, any_wild, \* ... and the rest
  use                                                 \* "file" or "any"

any_vars == <<any_mode, any_size, any_zone, any_has, any_data,
              any_free, any_vnode, any_filp, any_reply, any_wild>>

AnyUse == INSTANCE ImmediateFile WITH
  Fd <- {OneFd}, NrZones <- 3, ImmMax <- 2, BlockSize <- 3, Zones <- 1, Amount <- {1, 2, 4},
  Calls <- {"part", "end", "hole", "resize", "peek", "fault"}, RegularCalls <- {},
  mode <- any_mode, i_size <- any_size, i_zone <- any_zone, has <- any_has, data <- any_data,
  free <- any_free, vnode <- any_vnode, filp <- any_filp, reply <- any_reply, wild <- any_wild

UseInit == use \in {"file", "any"} /\ Init /\ AnyUse!Init
UseNext == /\ UNCHANGED use
           /\ \/ use = "file" /\ Next /\ UNCHANGED any_vars
              \/ use = "any" /\ AnyUse!Next /\ UNCHANGED vars
UseSpec == UseInit /\ [][UseNext]_<<vars, any_vars, use>>

\* With every call in every order on a disk that fills up: a write into a file
\* that stays of its kind, one that fails half way too, has changed nothing but
\* what it covers and has not made the file shorter.
WritesOnlyRange == [][\A n \in {1, 2, 4} : AnyUse!OnlyRange(OneFd, n)]_any_vars
=============================================================================
