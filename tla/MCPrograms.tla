------------------------------ MODULE MCPrograms ------------------------------
(***************************************************************************)
(* Small instances of the lab programs and of parts of the kernel, of VFS  *)
(* and of MFS that are looked at by themselves.  They share nothing; a     *)
(* behaviour is one of them (prog), and the others stay as they start.     *)
(***************************************************************************)
EXTENDS BuddySystem, PageReplacement, JobScheduling, ProcessChains, Privileges,
        BlockMap, BlockIO, DirectoryScan, VfsPipe, ImageProcesses

VARIABLE prog

MCBursts == {<<1>>, <<2>>, <<2, 1>>, <<1, 2, 1>>, <<2, 1, 2>>}
MCReclen == [e \in Entry |-> IF e = "e" THEN 3 ELSE 2]
MCMode == [e \in Entry |-> CASE e = "b" -> "directory" [] e = "c" -> "fifo" [] OTHER -> "immediate"]

Prog == {"buddy", "image", "pages", "jobs", "chains", "privileges", "blocks", "transfer",
         "listing", "pipe"}
one == <<mem, job, chain, privs, fmap, bio, dir, pipe>>

ProgInit ==
  /\ prog \in Prog
  /\ Init /\ ShmInit /\ PrivInit /\ MapInit /\ PipeInit
  /\ IF prog = "pages" THEN PageInit ELSE mem = PageStart("fifo")
  /\ IF prog = "jobs" THEN JobInit
     ELSE job = JobStart("sjf", [j \in Job |-> 0], [j \in Job |-> <<1>>])
  /\ IF prog = "chains" THEN ChainInit ELSE chain = ForkInit(TRUE)
  /\ IF prog = "transfer" THEN BioInit ELSE bio = BioStart("read", 0, 1, NrCells, FALSE)
  /\ IF prog = "listing" THEN DirInit ELSE dir = DirStart(<<>>)

Pages      == prog = "pages" /\ PageNext /\ UNCHANGED <<job, chain, privs, fmap, bio, dir, pipe>>
Jobs       == prog = "jobs" /\ JobNext /\ UNCHANGED <<mem, chain, privs, fmap, bio, dir, pipe>>
Chains     == prog = "chains" /\ ChainNext /\ UNCHANGED <<mem, job, privs, fmap, bio, dir, pipe>>
Privileged == prog = "privileges" /\ PrivNext /\ UNCHANGED <<mem, job, chain, fmap, bio, dir, pipe>>
FileBlocks == prog = "blocks" /\ MapNext /\ UNCHANGED <<mem, job, chain, privs, bio, dir, pipe>>
Transfer   == prog = "transfer" /\ BioNext /\ UNCHANGED <<mem, job, chain, privs, fmap, dir, pipe>>
Listing    == prog = "listing" /\ DirNext /\ UNCHANGED <<mem, job, chain, privs, fmap, bio, pipe>>
Pipe       == prog = "pipe" /\ PipeNext /\ UNCHANGED <<mem, job, chain, privs, fmap, bio, dir>>

ProgNext ==
  /\ UNCHANGED prog
  /\ \/ prog = "buddy" /\ Next /\ UNCHANGED <<one, shmVars>>
     \/ prog = "image" /\ ShmNext /\ UNCHANGED <<one, vars>>
     \/ /\ Pages \/ Jobs \/ Chains \/ Privileged \/ FileBlocks \/ Transfer \/ Listing \/ Pipe
        /\ UNCHANGED <<vars, shmVars>>

\* The fairness of BuddySystem and of ImageProcesses.
ProgFairness ==
  /\ WF_vars(Step)
  /\ \A p \in {"P", "B", "G", "H"} : WF_shmVars(prog = "image" /\ ShmStep(p))
  /\ WF_shmVars(prog = "image" /\ BStep) /\ WF_shmVars(prog = "image" /\ forks)

ProgSpec == ProgInit /\ [][ProgNext]_<<vars, shmVars, one, prog>> /\ ProgFairness

\* The loops of the allocator end, and so does part2_2: nobody waits for ever.
AllEnd == /\ RequestEnds
          /\ prog = "image" => Ends
=============================================================================
