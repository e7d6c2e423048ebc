----------------------------- MODULE Scheduler -----------------------------
(***************************************************************************)
(* MINIX's user-space scheduler SCHED (Lab-03/schedule.c and its variant   *)
(* Lab-05/schedule.c) and the kernel routine that carries its decisions    *)
(* out (sched_proc in Lab-05/system.c).                                    *)
(*                                                                         *)
(* SCHED handles one message at a time: a process has run out of quantum   *)
(* (from the kernel), start and stop scheduling and nice (from PM and RS), *)
(* and its balancing timer.  It keeps a table of its own, sc, beside the   *)
(* kernel's, kn; nothing but sys_schedule keeps the two in step.  Only the *)
(* loop of do_start_scheduling over unusable CPUs is taken in steps (busy  *)
(* is the process being started): processes go on running meanwhile.       *)
(*                                                                         *)
(* Endpoint generations are left out: a message of a process is removed    *)
(* from SCHED's queue when the process is cleared (clear_ipc), so none is  *)
(* left when the slot is used again.                                       *)
(***************************************************************************)
EXTENDS Integers, FiniteSets

CONSTANTS
  NR_PROCS,         \* size of schedproc[]; slot 0 is INIT's
  NR_SCHED_QUEUES,  \* queues 0 .. NR_SCHED_QUEUES - 1, 0 is the highest
  USER_Q,           \* where INIT starts
  MIN_USER_Q,       \* the lowest queue of user processes
  UINT_MAX,         \* the largest unsigned; also CPU_DEAD
  Builds,           \* the builds of SCHED: which lab's, with CONFIG_SMP or not
  Cpu,              \* 0 .. machine.processors_count - 1
  BSP,              \* machine.bsp_id, the boot processor
  Ready,            \* the CPUs that came up (cpu_is_ready)
  MaxPrio,          \* maxprio values PM and RS send
  Quantum,          \* quanta RS sends
  MaxLoad           \* bound: no message is taken while a load exceeds it

Slot == 0 .. NR_PROCS - 1
INIT == 0
Queue == 0 .. NR_SCHED_QUEUES - 1
TASK_Q == 0
DEFAULT_USER_TIME_SLICE == 1
Unsigned == 0 .. UINT_MAX
CPU_DEAD == UINT_MAX
None == NR_PROCS    \* not a slot; as a parent, it is RS

ASSUME SchedAssumption ==
  /\ NR_PROCS \in Nat \ {0} /\ NR_SCHED_QUEUES \in Nat
  /\ USER_Q \in Queue /\ MIN_USER_Q \in Queue
  /\ UINT_MAX \in Nat /\ UINT_MAX > NR_SCHED_QUEUES
  /\ Builds \subseteq [lab : {3, 5}, smp : BOOLEAN]
  /\ Cpu \subseteq Nat /\ IsFiniteSet(Cpu) /\ 0 \in Cpu
  /\ BSP \in Cpu /\ BSP \in Ready
  /\ MaxPrio \subseteq Unsigned
  /\ Quantum \subseteq Nat \ {0}      \* sched_proc refuses less than 1
  \* A load that MaxLoad lets pass is not near to where it wraps.
  /\ MaxLoad \in Nat /\ MaxLoad + 2 * NR_PROCS + Cardinality(Cpu) + 1 < UINT_MAX

VARIABLES
  build,     \* the build of SCHED that runs
  sc,        \* SCHED: schedproc[] and cpu_proc[]
  kn,        \* the kernel: its process table, as far as scheduling goes
  stage,     \* how far PM or RS has got with each process
  ooq,       \* processes with an out-of-quantum message waiting for SCHED
  busy,      \* the process do_start_scheduling is looking for a CPU for
  declared   \* history: the CPUs SCHED has set to CPU_DEAD

vars == <<build, sc, kn, stage, ooq, busy, declared>>

Lab == build.lab
SMP == build.smp

SchedState ==
  [in_use       : SUBSET Slot,
   parent       : [Slot -> Slot \cup {None}],
   max_priority : [Slot -> Unsigned],
   priority     : [Slot -> Unsigned],
   time_slice   : [Slot -> Nat],
   cpu          : [Slot -> Cpu],
   cpu_proc     : [Cpu -> Unsigned]]

KernelState ==
  [priority : [Slot -> Int],     \* p_priority
   quantum  : [Slot -> Nat],     \* p_quantum_size_ms
   cpu      : [Slot -> Cpu],     \* p_cpu
   noq      : SUBSET Slot,       \* RTS_NO_QUANTUM: not in any run queue
   ours     : SUBSET Slot]       \* p_scheduler is SCHED

Stage == {"free", "forked", "starting", "started", "failed", "stopped"}

Decrement(n) == (n + UINT_MAX) % (UINT_MAX + 1)
Increment(n) == (n + 1) % (UINT_MAX + 1)

\* An unsigned passed as an int: the largest one reads as -1.
AsInt(n) == IF n = UINT_MAX THEN -1 ELSE n
---------------------------------------------------------------------------
(* The kernel's side.                                                      *)

\* sched_proc(): -1 leaves a value as it is.  The range check lets the
\* priority NR_SCHED_QUEUES, one queue too many, pass.
sched_proc_error(priority, quantum, cpu) ==
  IF \/ priority < TASK_Q /\ priority # -1
     \/ priority > NR_SCHED_QUEUES
     \/ quantum < 1 /\ quantum # -1
     \/ SMP /\ cpu # -1 /\ cpu \notin Cpu
  THEN "EINVAL"
  ELSE IF SMP /\ cpu # -1 /\ cpu \notin Ready THEN "EBADCPU" ELSE "OK"

sched_proc(k, s, priority, quantum, cpu) ==
  [k EXCEPT !.priority[s] = IF priority # -1 THEN priority ELSE @,
            !.quantum[s] = IF quantum # -1 THEN quantum ELSE @,
            !.cpu[s] = IF SMP /\ cpu # -1 THEN cpu ELSE @,
            !.noq = @ \ {s}]

---------------------------------------------------------------------------
(* SCHED.                                                                  *)

\* pick_cpu(): the least loaded CPU other than the boot CPU, the first of
\* several.  cpu_proc[] is unsigned, so cpu_is_available() always holds; a
\* CPU whose load is CPU_DEAD is passed over as no load is above it.
pick_cpu(t, s) ==
  LET other == {c \in Cpu \ {BSP} : t.cpu_proc[c] < UINT_MAX}
      best  == {c \in other : \A d \in other : t.cpu_proc[c] <= t.cpu_proc[d]}
      cpu   == IF best = {} THEN BSP
               ELSE CHOOSE c \in best : \A d \in best : c <= d
  IN  IF ~SMP THEN [t EXCEPT !.cpu[s] = 0]
      ELSE IF Cpu = {BSP} \/ t.parent[s] = None THEN [t EXCEPT !.cpu[s] = BSP]
      ELSE [t EXCEPT !.cpu[s] = cpu, !.cpu_proc[cpu] = Increment(@)]

\* schedule_process() and, through sys_schedule, the kernel.  all: the CPU is
\* sent as well (SCHEDULE_CHANGE_ALL); schedule_process_local sends only
\* priority and quantum, yet picks a CPU and counts it.
NewCpu(t, s, all) == IF all THEN pick_cpu(t, s).cpu[s] ELSE -1

schedule_error(t, s, all) ==
  sched_proc_error(AsInt(t.priority[s]), t.time_slice[s], NewCpu(t, s, all))

schedule_kernel(k, t, s, all) ==
  IF schedule_error(t, s, all) = "OK"
  THEN sched_proc(k, s, AsInt(t.priority[s]), t.time_slice[s], NewCpu(t, s, all))
  ELSE k

schedule_process_local(t, s) ==
  /\ sc' = pick_cpu(t, s)
  /\ kn' = schedule_kernel(kn, t, s, FALSE)

\* SCHED takes the next message.  The load bound is the model's only.
Receive ==
  /\ busy = None
  /\ \A c \in Cpu : sc.cpu_proc[c] <= MaxLoad
                    \/ sc.cpu_proc[c] > UINT_MAX - NR_PROCS

\* What do_noquantum makes of a priority: Lab 3 lowers it, Lab 5 raises it,
\* past 0 too.
NoQuantumLab3(q) == IF q < MIN_USER_Q THEN q + 1 ELSE q
NoQuantumLab5(q) == IF q < MIN_USER_Q THEN Decrement(q) ELSE q

\* Mutant of do_noquantum: the new priority is not handed to the kernel.
do_noquantum_untold(s) ==
  /\ s \in ooq /\ Receive
  /\ ooq' = ooq \ {s}
  /\ s \in sc.in_use
  /\ sc' = [sc EXCEPT !.priority[s] = NoQuantumLab3(@)]
  /\ kn' = [kn EXCEPT !.noq = @ \ {s}]
  /\ UNCHANGED <<stage, busy, declared, build>>

do_noquantum(s) ==
  LET t == [sc EXCEPT !.priority[s] = IF Lab = 3 THEN NoQuantumLab3(@)
                                      ELSE NoQuantumLab5(@)]
  IN  /\ s \in ooq /\ Receive
      /\ ooq' = ooq \ {s}
      /\ IF s \in sc.in_use THEN schedule_process_local(t, s)
         ELSE UNCHANGED <<sc, kn>>                     \* EBADEPT
      /\ UNCHANGED <<stage, busy, declared, build>>

do_stop_scheduling(s) ==
  /\ stage[s] = "started" /\ s # INIT /\ Receive
  /\ s \in sc.in_use
  /\ sc' = [sc EXCEPT !.cpu_proc[sc.cpu[s]] = IF SMP THEN Decrement(@) ELSE @,
                      !.in_use = @ \ {s}]
  /\ stage' = [stage EXCEPT ![s] = "stopped"]
  /\ UNCHANGED <<kn, ooq, busy, declared, build>>

\* The table entry of a process to be started: SCHEDULING_START (a service of
\* RS, its parent is None, or INIT, its own parent) or SCHEDULING_INHERIT.
\* The queue and the slice INIT's special case sets are overwritten.
Explicit(s, par) == par \in {None, s}

populate(s, par, max, quantum) ==
  [sc EXCEPT !.parent[s] = par,
             !.max_priority[s] = max,
             !.priority[s] = IF Explicit(s, par) THEN max ELSE sc.priority[par],
             !.time_slice[s] = IF Explicit(s, par) THEN quantum ELSE sc.time_slice[par],
             !.cpu[s] = IF SMP /\ par = s THEN BSP ELSE @]

\* do_start_scheduling() up to its loop.  Each error leaves the table as far
\* as it has been filled; PM and RS then give the process up.
do_start_scheduling(s, par, max, quantum) ==
  LET t == populate(s, par, max, quantum)
      Fail(u) == /\ sc' = u
                 /\ stage' = [stage EXCEPT ![s] = "failed"]
                 /\ UNCHANGED <<kn, busy>>
  IN  /\ stage[s] = "forked" /\ Receive
      /\ IF s \in sc.in_use THEN Fail(sc)
         ELSE IF max >= NR_SCHED_QUEUES
         THEN Fail([sc EXCEPT !.parent[s] = par, !.max_priority[s] = max])
         ELSE IF ~Explicit(s, par) /\ par \notin sc.in_use
         THEN Fail([sc EXCEPT !.parent[s] = par, !.max_priority[s] = max])
         ELSE \/ Fail(t)                                     \* sys_schedctl
              \/ /\ sc' = pick_cpu([t EXCEPT !.in_use = @ \cup {s}], s)
                 /\ kn' = [kn EXCEPT !.ours = @ \cup {s}]
                 /\ busy' = s
                 /\ stage' = [stage EXCEPT ![s] = "starting"]
      /\ UNCHANGED <<ooq, declared, build>>

\* Mutant of start_loop: the load of a CPU that cannot be used is reset.
start_loop_reset ==
  LET s == busy
      t == pick_cpu(sc, s)
  IN  /\ busy # None
      /\ kn' = schedule_kernel(kn, sc, s, TRUE)
      /\ IF schedule_error(sc, s, TRUE) = "EBADCPU"
         THEN /\ sc' = pick_cpu([t EXCEPT !.cpu_proc[t.cpu[s]] = 0], s)
              /\ declared' = declared \cup {t.cpu[s]}
              /\ UNCHANGED <<busy, stage>>
         ELSE /\ sc' = t /\ busy' = None
              /\ stage' = [stage EXCEPT ![s] = "started"]
              /\ UNCHANGED declared
      /\ UNCHANGED <<ooq, build>>

\* One round of its loop: "don't try this CPU ever again".
start_loop ==
  LET s == busy
      t == pick_cpu(sc, s)
      err == schedule_error(sc, s, TRUE)
  IN  /\ busy # None
      /\ kn' = schedule_kernel(kn, sc, s, TRUE)
      /\ IF err = "EBADCPU"
         THEN /\ sc' = pick_cpu([t EXCEPT !.cpu_proc[t.cpu[s]] = CPU_DEAD], s)
              /\ declared' = declared \cup {t.cpu[s]}
              /\ UNCHANGED <<busy, stage>>
         ELSE /\ sc' = t /\ busy' = None
              /\ stage' = [stage EXCEPT ![s] = IF err = "OK" THEN "started"
                                               ELSE "failed"]
              /\ UNCHANGED declared
      /\ UNCHANGED <<ooq, build>>

\* do_nice(): rolled back when the kernel refuses, but for the CPU picked.
do_nice(s, new_q) ==
  LET t == [sc EXCEPT !.priority[s] = new_q, !.max_priority[s] = new_q]
      back == [pick_cpu(t, s) EXCEPT !.priority[s] = sc.priority[s],
                                     !.max_priority[s] = sc.max_priority[s]]
  IN  /\ stage[s] = "started" /\ Receive
      /\ s \in sc.in_use /\ new_q < NR_SCHED_QUEUES
      /\ sc' = IF schedule_error(t, s, FALSE) = "OK" THEN pick_cpu(t, s) ELSE back
      /\ kn' = schedule_kernel(kn, t, s, FALSE)
      /\ UNCHANGED <<stage, ooq, busy, declared, build>>

\* balance_queues() goes over the table once.  Lab 5 sends the kernel the
\* priority the process had.
Lowered(t) == {s \in t.in_use : t.priority[s] > t.max_priority[s]}

\* Mutant of BalanceLab3: nothing is pulled up.
BalanceLab3_off(q) == q

BalanceLab3(q) == q - 1
BalanceLab5(q) == q

\* The table after the loop has seen the slots below n.
Balanced(t) ==
  LET f[n \in 0 .. NR_PROCS] ==
        IF n = 0 THEN t
        ELSE IF n - 1 \notin Lowered(t) THEN f[n - 1]
        ELSE pick_cpu([f[n - 1] EXCEPT !.priority[n - 1] =
                         IF Lab = 3 THEN BalanceLab3(@) ELSE BalanceLab5(@)], n - 1)
  IN  f[NR_PROCS]

balance_queues ==
  LET t == Balanced(sc)
      sent == {s \in Lowered(sc) : schedule_error(t, s, FALSE) = "OK"}
  IN  /\ Receive
      /\ Lowered(sc) # {}
      /\ sc' = t
      /\ kn' = [kn EXCEPT !.priority = [s \in Slot |->
                             IF s \in sent /\ AsInt(t.priority[s]) # -1
                             THEN t.priority[s] ELSE @[s]],
                          !.noq = @ \ sent]
      /\ UNCHANGED <<stage, ooq, busy, declared, build>>

---------------------------------------------------------------------------
(* PM, RS and the kernel: processes come, run and go.                      *)

\* The child waits for its first quantum; p = None is a fork by RS.
Fork(p, s) ==
  /\ stage[s] = "free" /\ (busy = None \/ p = None)
  /\ p # None => stage[p] = "started" /\ p \notin kn.noq \cup ooq
  /\ stage' = [stage EXCEPT ![s] = "forked"]
  /\ kn' = [kn EXCEPT !.priority[s] = IF p = None THEN TASK_Q ELSE kn.priority[p],
                      !.quantum[s] = IF p = None THEN @ ELSE kn.quantum[p],
                      !.cpu[s] = IF p = None THEN BSP ELSE kn.cpu[p],
                      !.noq = @ \cup {s},
                      !.ours = @ \ {s}]
  /\ UNCHANGED <<sc, ooq, busy, declared, build>>

\* The kernel takes a process whose time is up out of its queue and sends a
\* message to its scheduler in the name of the process.
OutOfQuantum(s) ==
  /\ stage[s] = "started" /\ s \in kn.ours /\ s \notin kn.noq \cup ooq
  /\ kn' = [kn EXCEPT !.noq = @ \cup {s}]
  /\ ooq' = ooq \cup {s}
  /\ UNCHANGED <<sc, stage, busy, declared, build>>

\* sys_clear: the slot is free, what the process was sending is dropped.  INIT
\* stays, also when it could not be started.
Clear(s) ==
  /\ stage[s] \in {"failed", "stopped"} /\ s # INIT
  /\ stage' = [stage EXCEPT ![s] = "free"]
  /\ ooq' = ooq \ {s}
  /\ UNCHANGED <<sc, kn, busy, declared, build>>

\* At boot the tables are clear, and the kernel holds INIT back until it has a
\* scheduler.
Init ==
  /\ build \in Builds
  /\ sc = [in_use       |-> {},
           parent       |-> [s \in Slot |-> 0],
           max_priority |-> [s \in Slot |-> 0],
           priority     |-> [s \in Slot |-> 0],
           time_slice   |-> [s \in Slot |-> 0],
           cpu          |-> [s \in Slot |-> 0],
           cpu_proc     |-> [c \in Cpu |-> 0]]
  /\ kn = [priority |-> [s \in Slot |-> TASK_Q],
           quantum  |-> [s \in Slot |-> 0],
           cpu      |-> [s \in Slot |-> BSP],
           noq      |-> {INIT},
           ours     |-> {}]
  /\ stage = [s \in Slot |-> IF s = INIT THEN "forked" ELSE "free"]
  /\ ooq = {} /\ busy = None /\ declared = {}

\* PM starts INIT; services are started by RS, user processes by PM, with a
\* live parent.
Start(s) ==
  \/ s = INIT /\ do_start_scheduling(s, s, USER_Q, DEFAULT_USER_TIME_SLICE)
  \/ /\ s # INIT
     /\ \E max \in MaxPrio :
          \/ \E quantum \in Quantum : do_start_scheduling(s, None, max, quantum)
          \/ \E par \in Slot \ {s} :
               stage[par] = "started" /\ do_start_scheduling(s, par, max, 0)

Handle ==
  \/ \E s \in Slot : do_noquantum(s)
  \/ \E s \in Slot : do_stop_scheduling(s)
  \/ \E s \in Slot : Start(s)
  \/ \E s \in Slot, q \in MaxPrio : do_nice(s, q)
  \/ start_loop
  \/ balance_queues

Environment ==
  \/ \E p \in Slot \cup {None}, s \in Slot : Fork(p, s)
  \/ \E s \in Slot : OutOfQuantum(s)
  \/ \E s \in Slot : Clear(s)

Next == Handle \/ Environment

\* SCHED finishes what it began and takes every message in the end: the queue
\* of senders is first come, first served.  The timer is set again each time.
\* With CONFIG_SMP it may stop at the model's load bound, so nothing is said.
Fairness ==
  /\ WF_vars(~SMP /\ start_loop)
  /\ \A s \in Slot : SF_vars(~SMP /\ do_noquantum(s))
  /\ SF_vars(~SMP /\ balance_queues)

Spec == Init /\ [][Next]_vars
FairSpec == Spec /\ Fairness
---------------------------------------------------------------------------
(* Properties.                                                             *)

\* Every variable holds values of its type.
TypeOK ==
  /\ build \in Builds
  /\ sc \in SchedState
  /\ kn \in KernelState
  /\ stage \in [Slot -> Stage]
  /\ ooq \subseteq Slot
  /\ busy \in Slot \cup {None}
  /\ declared \subseteq Cpu

\* SCHED and the kernel agree: a process runs in the queue and with the
\* quantum SCHED's table shows, whatever the order of noquantum, nice,
\* balancing, inheritance and refused requests.  Lab 5's priorities wrap, and
\* then the kernel keeps the queue it had.
KernelAgrees ==
  \A s \in Slot : stage[s] = "started" =>
    /\ kn.priority[s] = sc.priority[s] \/ (Lab = 5 /\ sc.priority[s] = UINT_MAX)
    /\ kn.quantum[s] = sc.time_slice[s]

\* No process is put into a run queue that does not exist, although the
\* kernel's own check admits one queue too many and Lab 5's priorities wrap.
QueueExists == \A s \in Slot : kn.priority[s] \in Queue

\* A slot of schedproc[] is in use for exactly the processes PM and RS have
\* started and not stopped: a process that fails to start, or exits with its
\* out-of-quantum message still queued, leaves nothing behind.
SlotFollowsProcess ==
  \A s \in Slot : s \in sc.in_use <=> stage[s] \in {"starting", "started"}

\* SCHED's table, the kernel's and what PM and RS know are in step, whatever
\* the order of messages, refusals and exits.
TablesInStep == TypeOK /\ KernelAgrees /\ QueueExists /\ SlotFollowsProcess

\* A CPU that works never looks dead or less loaded than it is: its load
\* covers the processes recorded for it.
LoadCovers ==
  SMP => \A c \in Cpu \ (declared \cup {BSP}) :
           /\ sc.cpu_proc[c] # CPU_DEAD
           /\ sc.cpu_proc[c] >= Cardinality({s \in sc.in_use : sc.cpu[s] = c})

\* System processes run on the boot CPU, and nothing runs on a CPU that did
\* not come up.
CpuRespected ==
  SMP => \A s \in Slot : stage[s] = "started" =>
           /\ kn.cpu[s] \in Ready
           /\ sc.parent[s] = None => kn.cpu[s] = BSP

\* do_start_scheduling never again tries a CPU the kernel has refused
\* ("don't try this CPU ever again"), also after processes recorded for that
\* CPU have been stopped and have counted its load down from CPU_DEAD.
NeverTriedAgain ==
  busy # None => pick_cpu(sc, busy).cpu[busy] \notin declared

\* CPUs are chosen by loads that cover their processes, never one that is not
\* ready or that the kernel has refused before.
PlacementInv == LoadCovers /\ CpuRespected /\ NeverTriedAgain

\* A process out of quantum gets a new one, or is stopped.
QuantumRenewed(s) ==
  s \in ooq ~> s \notin ooq /\ (s \notin kn.noq \/ stage[s] # "started")

\* A process that was bumped down is pulled back up to its maximum, unless
\* it uses up its quantum again and again.
BumpedBackUp(s) ==
  \/ []<>(s \in ooq)
  \/ (s \in Lowered(sc)) ~> (s \notin Lowered(sc))
=============================================================================
