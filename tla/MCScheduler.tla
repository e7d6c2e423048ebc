----------------------------- MODULE MCScheduler -----------------------------
(***************************************************************************)
(* The scheduler of each lab on a small instance: Lab 5's on three CPUs of *)
(* which one did not come up, and Lab 3's without CONFIG_SMP.              *)
(***************************************************************************)
EXTENDS Scheduler

MCBuilds == {[lab |-> 3, smp |-> FALSE], [lab |-> 5, smp |-> TRUE]}

\* A process out of quantum gets another, and in Lab 3 one that was bumped down
\* comes back up: INIT, and slot 1 for all the others, which are alike.
ProcessesServed ==
  ~SMP => \A s \in {INIT, 1} : QuantumRenewed(s) /\ (Lab = 3 => BumpedBackUp(s))
=============================================================================
