----------------------------- MODULE ProcessLife -----------------------------
(***************************************************************************)
(* What forkexit.c promises of the process table, as its header puts it    *)
(* (Lab-02/part3/forkexit.c, lines 4-8): "A process is removed from the    *)
(* 'mproc' table when two events have occurred: (1) it has exited or been  *)
(* killed by a signal, and (2) the parent has done a WAITPID.  If the      *)
(* process exits first, it continues to occupy a slot until the parent     *)
(* does a WAITPID."                                                        *)
(*                                                                         *)
(* Only the stage of each table entry and its parent are seen.  One step   *)
(* moves one entry; only a live parent collects; a parent that is no       *)
(* longer alive is replaced by INIT and by nobody else.                    *)
(***************************************************************************)
CONSTANTS Process,  \* the table entries
          INIT,     \* the one that inherits orphans
          Booted,   \* those in use at the start
          Boss      \* their parents

VARIABLES life,   \* the stage of each entry
          parent  \* the parent of each entry in use; INIT for the others

lvars == <<life, parent>>

\* "dying": killed, while its core is being dumped; "collected": the parent
\* knows, the entry is kept for the file system only.
Stage == {"free", "alive", "dying", "zombie", "collected"}

Alive(p) == life[p] = "alive"

LInit ==
  /\ life = [s \in Process |-> IF s \in Booted THEN "alive" ELSE "free"]
  /\ parent = [s \in Process |-> IF s \in Booted THEN Boss[s] ELSE INIT]

\* p, alive, gets a child in the free entry s.
Fork(p, s) ==
  /\ Alive(p) /\ life[s] = "free"
  /\ life' = [life EXCEPT ![s] = "alive"]
  /\ parent' = [parent EXCEPT ![s] = p]

\* s terminates; a parent that waits for it collects it on the spot.
Exit(s) ==
  /\ Alive(s) /\ s # INIT
  /\ \/ life' = [life EXCEPT ![s] = "dying"]
     \/ life' = [life EXCEPT ![s] = "zombie"]
     \/ Alive(parent[s]) /\ life' = [life EXCEPT ![s] = "collected"]
  /\ UNCHANGED parent

\* The core has been dumped; nothing but the collection is left to do.
Dumped(s) ==
  /\ life[s] = "dying"
  /\ \/ life' = [life EXCEPT ![s] = "zombie"] /\ UNCHANGED parent
     \/ /\ Alive(parent[s]) /\ life' = [life EXCEPT ![s] = "free"]
        /\ parent' = [parent EXCEPT ![s] = INIT]

\* The parent, or INIT if that is no longer alive, collects a zombie.
Collect(s) ==
  LET p == IF Alive(parent[s]) THEN parent[s] ELSE INIT
  IN  /\ life[s] = "zombie" /\ Alive(p)
      /\ \/ /\ life' = [life EXCEPT ![s] = "collected"]
            /\ parent' = [parent EXCEPT ![s] = p]
         \/ /\ life' = [life EXCEPT ![s] = "free"]
            /\ parent' = [parent EXCEPT ![s] = INIT]

\* A collected entry is freed once the file system is done with it.
Release(s) ==
  /\ life[s] = "collected"
  /\ life' = [life EXCEPT ![s] = "free"]
  /\ parent' = [parent EXCEPT ![s] = INIT]

\* INIT takes over from a dead parent.
Adopt(s) ==
  /\ life[s] # "free" /\ ~Alive(parent[s])
  /\ parent' = [parent EXCEPT ![s] = INIT]
  /\ UNCHANGED life

LNext ==
  \E s \in Process :
    \/ \E p \in Process : Fork(p, s)
    \/ Exit(s) \/ Dumped(s) \/ Collect(s) \/ Release(s) \/ Adopt(s)

LSpec == LInit /\ [][LNext]_lvars
=============================================================================
