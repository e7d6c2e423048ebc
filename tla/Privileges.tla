----------------------------- MODULE Privileges -----------------------------
(***************************************************************************)
(* The kernel's privilege structures (Lab-05/system.c): get_priv gives a   *)
(* system process a slot, and the send masks say which slots it may send   *)
(* to.  A mask outlives the process of its slot, and so do the bits that   *)
(* others have for it: the next process of the slot must inherit neither.  *)
(***************************************************************************)
EXTENDS Integers, FiniteSetsExt

CONSTANTS PrivId,      \* ids of the privilege structures
          StaticId     \* the ones that are assigned by id

ASSUME PrivAssumption == PrivId \subseteq Nat /\ StaticId \subseteq PrivId

VARIABLE privs   \* [used: the slots with a process (s_proc_nr # NONE), ipc_to: the send masks,
                 \*  sends: the slots whose s_trap_mask has more than RECEIVE,
                 \*  allowed: history, the pairs of processes that may talk by the last request]

NULL_PRIV_ID == -1
Refused == -2     \* ENOSPC, EINVAL, EBUSY

PrivInit == privs = [used |-> {}, ipc_to |-> [i \in PrivId |-> {}], sends |-> {}, allowed |-> {}]

get_priv(id) ==
  LET free == PrivId \ (StaticId \union privs.used)
  IN IF id = NULL_PRIV_ID THEN IF free = {} THEN Refused ELSE Min(free)
     ELSE IF id \in StaticId \ privs.used THEN id ELSE Refused

set_sendto_bit(p, rp, id) ==
  IF id \notin p.used \/ id = rp THEN [p EXCEPT !.ipc_to[rp] = @ \ {id}]
  ELSE [p EXCEPT !.ipc_to = [i \in PrivId |->
         CASE i = rp -> @[i] \union {id}
           [] i = id /\ id \in p.sends -> @[i] \union {rp}
           [] OTHER -> @[i]]]

\* Mutant of unset_sendto_bit: the other direction is forgotten.
unset_sendto_bit_one(p, rp, id) == [p EXCEPT !.ipc_to[rp] = @ \ {id}]

unset_sendto_bit(p, rp, id) ==
  [p EXCEPT !.ipc_to = [i \in PrivId |->
     CASE i = rp -> @[i] \ {id} [] i = id -> @[i] \ {rp} [] OTHER -> @[i]]]

\* The loop over all ids.  Its round for id writes the bit for id in the mask of
\* rp and, unless id is rp, the bit for rp in the mask of id, and the round of no
\* other id reads or writes these: every row is put together from the rounds.
fill_sendto_mask(p, rp, map) ==
  LET round(id) == IF id \in map THEN set_sendto_bit(p, rp, id) ELSE unset_sendto_bit(p, rp, id)
  IN [p EXCEPT !.ipc_to = [i \in PrivId |->
        IF i = rp THEN {id \in PrivId : id \in round(id).ipc_to[rp]}
        ELSE round(i).ipc_to[i]]]
-----------------------------------------------------------------------------
(* The callers, sys_privctl and the exit of a process *)

Pairs(rp, map) == {{rp, i} : i \in (map \cap privs.used) \ {rp}}

\* A new process: a slot, its traps, its mask.
Privctl(id, answers, map) ==
  LET rp == get_priv(id)
      p == [privs EXCEPT !.used = @ \union {rp},
                         !.sends = IF answers THEN @ \union {rp} ELSE @ \ {rp}]
  IN /\ rp # Refused
     /\ privs' = [fill_sendto_mask(p, rp, map) EXCEPT
                    !.allowed = {a \in @ : rp \notin a} \union Pairs(rp, map)]

AddTarget(rp, id) ==
  /\ rp \in privs.used
  /\ privs' = [set_sendto_bit(privs, rp, id) EXCEPT !.allowed = @ \union Pairs(rp, {id})]

DropTarget(rp, id) ==
  /\ rp \in privs.used
  /\ privs' = [unset_sendto_bit(privs, rp, id) EXCEPT !.allowed = @ \ Pairs(rp, {id})]

\* The slot is free again; nobody's mask is touched.
Release(rp) == /\ rp \in privs.used
               /\ privs' = [privs EXCEPT !.used = @ \ {rp},
                                         !.allowed = {a \in @ : rp \notin a}]

PrivNext ==
  \/ \E id \in PrivId \union {NULL_PRIV_ID}, answers \in BOOLEAN, map \in SUBSET PrivId :
       Privctl(id, answers, map)
  \/ \E rp, id \in PrivId : AddTarget(rp, id) \/ DropTarget(rp, id)
  \/ \E rp \in PrivId : Release(rp)

PrivSpec == PrivInit /\ [][PrivNext]_privs
-----------------------------------------------------------------------------
\* A process that can send may send to exactly the processes that one of the
\* two named in its last request: never to the successor of one it knew, never
\* with what its own slot's previous process was allowed, and never to itself;
\* and who may be sent to can answer.  (A process that only receives keeps
\* bits of earlier processes, which it cannot use.)
SendMasksCurrent ==
  \A a \in privs.used \cap privs.sends :
    privs.ipc_to[a] \cap privs.used = {b \in privs.used \ {a} : {a, b} \in privs.allowed}
=============================================================================
