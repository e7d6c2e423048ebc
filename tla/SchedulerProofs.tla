-------------------------- MODULE SchedulerProofs --------------------------
(***************************************************************************)
(* TablesInStep and PlacementInv hold of Scheduler for every number of     *)
(* processes, queues and CPUs, whichever CPUs came up, for both labs, with *)
(* and without CONFIG_SMP.                                                 *)
(*                                                                         *)
(* The tables need little more than themselves.  For the loads the proof   *)
(* tells apart whether a second CPU came up.  If one did, it is always     *)
(* less loaded than a CPU that was refused; if none did, the first process *)
(* PM starts, INIT, finds all of them refused, and nobody is recorded for  *)
(* one of them from then on.                                               *)
(***************************************************************************)
EXTENDS Scheduler, FiniteSetTheorems, WellFoundedInduction, TLAPS

\* Priorities are queues, or have wrapped in Lab 5.
Priorities ==
  \A s \in Slot : sc.priority[s] \in Queue \/ (Lab = 5 /\ sc.priority[s] = UINT_MAX)

\* What is in use has a quantum the kernel accepts.
Slices == \A s \in sc.in_use : sc.time_slice[s] >= 1

\* busy is the one process that is being started.
Starting == \A s \in Slot : stage[s] = "starting" <=> s = busy

\* The inductive invariant of the tables.
TInv == TablesInStep /\ Priorities /\ Slices /\ Starting

\* The processes recorded for a CPU.
On(t, c) == {s \in t.in_use : t.cpu[s] = c}

\* A CPU beside the boot CPU came up.
Second == \E r \in Cpu : r \in Ready /\ r # BSP

\* What the loads of table t are when the CPUs in d have been refused and no
\* other has a load above b.
Loads(t, d, b) ==
  \A c \in Cpu \ {BSP} :
    /\ c \notin d => /\ Cardinality(On(t, c)) <= t.cpu_proc[c]
                     /\ t.cpu_proc[c] <= b
    /\ c \in d => IF Second
                  THEN UINT_MAX + Cardinality(On(t, c)) <= t.cpu_proc[c] + NR_PROCS
                  ELSE t.cpu_proc[c] = UINT_MAX

\* Without a second CPU, only the process that is being started is recorded
\* for another than the boot CPU.
Alone(t, d, b) ==
  ~Second => \A s \in t.in_use \ {b} :
               /\ t.cpu[s] = BSP
               /\ t.parent[s] # None => d = Cpu \ {BSP}

\* No load is above it.
Bound == MaxLoad + NR_PROCS + Cardinality(declared) + (IF busy = None THEN 1 ELSE 0)

\* The inductive invariant of the placement.
PInv ==
  /\ SMP => /\ CpuRespected
            /\ declared \cap Ready = {}
            /\ Loads(sc, declared, Bound)
            /\ Alone(sc, declared, busy)
  /\ ~SMP => declared = {}

SInv == TInv /\ PInv
---------------------------------------------------------------------------
(* Numbers.                                                                *)

LEMMA Consts ==
  /\ NR_PROCS \in Nat /\ NR_PROCS > 0 /\ NR_SCHED_QUEUES \in Nat
  /\ USER_Q \in Queue /\ MIN_USER_Q \in Queue /\ TASK_Q \in Queue /\ INIT \in Slot
  /\ UINT_MAX \in Nat /\ UINT_MAX > NR_SCHED_QUEUES /\ Queue \subseteq Unsigned
  /\ Cpu \subseteq Nat /\ 0 \in Cpu /\ BSP \in Cpu /\ BSP \in Ready
  /\ MaxPrio \subseteq Unsigned /\ Quantum \subseteq Nat /\ \A q \in Quantum : q >= 1
  /\ None \notin Slot /\ None # INIT
BY SchedAssumption DEF Queue, Unsigned, Slot, None, INIT, TASK_Q

LEMMA Counting ==
  ASSUME NEW n \in Unsigned
  PROVE  /\ Increment(n) = IF n = UINT_MAX THEN 0 ELSE n + 1
         /\ Decrement(n) = IF n = 0 THEN UINT_MAX ELSE n - 1
         /\ Increment(n) \in Unsigned /\ Decrement(n) \in Unsigned
<1>0. n \in Nat /\ n <= UINT_MAX /\ UINT_MAX \in Nat
  BY Consts DEF Unsigned
<1>1. CASE n = UINT_MAX
  <2>1. (n + 1) % (UINT_MAX + 1) = 0
    BY <1>0, <1>1
  <2>2. (n + UINT_MAX) % (UINT_MAX + 1) = IF n = 0 THEN UINT_MAX ELSE n - 1
    BY <1>0, <1>1
  <2> QED BY <1>0, <1>1, <2>1, <2>2 DEF Increment, Decrement, Unsigned
<1>2. CASE n < UINT_MAX
  <2>1. (n + 1) % (UINT_MAX + 1) = n + 1
    BY <1>0, <1>2
  <2>2. (n + UINT_MAX) % (UINT_MAX + 1) = IF n = 0 THEN UINT_MAX ELSE n - 1
    BY <1>0, <1>2
  <2> QED BY <1>0, <1>2, <2>1, <2>2 DEF Increment, Decrement, Unsigned
<1> QED BY <1>0, <1>1, <1>2

\* A set of natural numbers that is not empty has a least member.
LEMMA Least ==
  ASSUME NEW S \in SUBSET Nat, S # {}
  PROVE  \E m \in S : \A n \in S : m <= n
<1> DEFINE less == {ss \in Nat \X Nat : ss[1] < ss[2]}
<1>1. IsWellFoundedOn(less, Nat)
  BY NatLessThanWellFounded, Zenon DEF OpToRel
<1>2. PICK m \in S : \A n \in S : ~(<<n, m>> \in less)
  BY <1>1, WFMin, Zenon
<1>3. ASSUME NEW n \in S PROVE m <= n
  <2>1. m \in Nat /\ n \in Nat
    BY <1>2
  <2>2. <<n, m>> \in Nat \X Nat /\ <<n, m>>[1] = n /\ <<n, m>>[2] = m
    BY <2>1
  <2>3. ~(n < m)
    BY <1>2, <2>2, Zenon
  <2> QED BY <2>1, <2>3
<1> QED BY <1>2, <1>3

\* Induction over the natural numbers, for a set.
LEMMA SetInduction ==
  ASSUME NEW S, 0 \in S, \A n \in Nat : n \in S => n + 1 \in S
  PROVE  \A n \in Nat : n \in S
<1>1. ASSUME Nat \ S # {} PROVE FALSE
  <2>1. PICK m \in Nat \ S : \A n \in Nat \ S : m <= n
    BY <1>1, Least
  <2>2. m # 0 /\ m - 1 \in Nat
    BY <2>1
  <2>3. m - 1 \in S
    BY <2>1, <2>2
  <2> QED BY <2>1, <2>2, <2>3
<1> QED BY <1>1
---------------------------------------------------------------------------
(* pick_cpu.                                                               *)

\* The CPU it finds when it looks for one.
Other(t) == {c \in Cpu \ {BSP} : t.cpu_proc[c] < UINT_MAX}
Best(t) == {c \in Other(t) : \A d \in Other(t) : t.cpu_proc[c] <= t.cpu_proc[d]}
Found(t) == IF Best(t) = {} THEN BSP
            ELSE CHOOSE c \in Best(t) : \A d \in Best(t) : c <= d
Chosen(t, s) == IF ~SMP THEN 0
                ELSE IF Cpu = {BSP} \/ t.parent[s] = None THEN BSP ELSE Found(t)
Counted(t, s) ==
  IF ~SMP \/ Cpu = {BSP} \/ t.parent[s] = None THEN t.cpu_proc
  ELSE [t.cpu_proc EXCEPT ![Found(t)] = Increment(@)]

LEMMA FoundCpu ==
  ASSUME NEW t
  PROVE  (Found(t) = BSP /\ Best(t) = {}) \/ Found(t) \in Best(t)
<1>1. CASE Best(t) = {}
  BY <1>1 DEF Found
<1>2. CASE Best(t) # {}
  <2>1. Best(t) \in SUBSET Nat
    BY Consts DEF Best, Other
  <2>2. \E c \in Best(t) : \A d \in Best(t) : c <= d
    BY <1>2, <2>1, Least
  <2> QED BY <1>2, <2>2, Zenon DEF Found
<1> QED BY <1>1, <1>2

LEMMA ChosenCpu ==
  ASSUME NEW t, NEW s
  PROVE  /\ Found(t) \in Cpu /\ Chosen(t, s) \in Cpu
         /\ Chosen(t, s) \in Nat /\ Chosen(t, s) # -1
<1>1. Found(t) \in Cpu /\ Chosen(t, s) \in Cpu
  BY FoundCpu, Consts DEF Chosen, Best, Other
<1>2. \A c \in Cpu : c \in Nat /\ c # -1
  BY Consts
<1> QED BY <1>1, <1>2

LEMMA Fields ==
  ASSUME NEW t \in SchedState
  PROVE  /\ t.in_use \in SUBSET Slot /\ t.parent \in [Slot -> Slot \cup {None}]
         /\ t.max_priority \in [Slot -> Unsigned] /\ t.priority \in [Slot -> Unsigned]
         /\ t.time_slice \in [Slot -> Nat] /\ t.cpu \in [Slot -> Cpu]
         /\ t.cpu_proc \in [Cpu -> Unsigned]
BY DEF SchedState

\* pick_cpu changes the CPU of the process and the load of that CPU only.
LEMMA Picks ==
  ASSUME NEW t \in SchedState, NEW s \in Slot
  PROVE  /\ pick_cpu(t, s) \in SchedState
         /\ pick_cpu(t, s).in_use = t.in_use /\ pick_cpu(t, s).parent = t.parent
         /\ pick_cpu(t, s).max_priority = t.max_priority
         /\ pick_cpu(t, s).priority = t.priority
         /\ pick_cpu(t, s).time_slice = t.time_slice
         /\ pick_cpu(t, s).cpu = [t.cpu EXCEPT ![s] = Chosen(t, s)]
         /\ pick_cpu(t, s).cpu_proc = Counted(t, s)
         /\ pick_cpu(t, s).cpu[s] = Chosen(t, s)
<1> DEFINE u == [t EXCEPT !.cpu = [t.cpu EXCEPT ![s] = Chosen(t, s)],
                          !.cpu_proc = Counted(t, s)]
<1>1. Counted(t, s) \in [Cpu -> Unsigned]
  <2>1. t.cpu_proc[Found(t)] \in Unsigned
    BY ChosenCpu, Fields
  <2>2. Increment(t.cpu_proc[Found(t)]) \in Unsigned
    BY <2>1, Counting
  <2> QED BY <2>2, ChosenCpu, Fields DEF Counted
<1>2. [t.cpu EXCEPT ![s] = Chosen(t, s)] \in [Slot -> Cpu]
  BY ChosenCpu, Fields
<1>3. u \in SchedState
  BY <1>1, <1>2 DEF SchedState
<1>4. pick_cpu(t, s) = u
  <2>1. CASE ~SMP
    <3>1. Chosen(t, s) = 0 /\ Counted(t, s) = t.cpu_proc
      BY <2>1 DEF Chosen, Counted
    <3>2. pick_cpu(t, s) = [t EXCEPT !.cpu[s] = 0]
      BY <2>1 DEF pick_cpu
    <3> QED BY <3>1, <3>2 DEF SchedState
  <2>2. CASE SMP /\ (Cpu = {BSP} \/ t.parent[s] = None)
    <3>1. Chosen(t, s) = BSP /\ Counted(t, s) = t.cpu_proc
      BY <2>2 DEF Chosen, Counted
    <3>2. pick_cpu(t, s) = [t EXCEPT !.cpu[s] = BSP]
      BY <2>2 DEF pick_cpu
    <3> QED BY <3>1, <3>2 DEF SchedState
  <2>3. CASE SMP /\ ~(Cpu = {BSP} \/ t.parent[s] = None)
    <3>1. /\ Chosen(t, s) = Found(t)
          /\ Counted(t, s) = [t.cpu_proc EXCEPT ![Found(t)] = Increment(@)]
      BY <2>3 DEF Chosen, Counted
    <3>2. pick_cpu(t, s) = [t EXCEPT !.cpu[s] = Found(t), !.cpu_proc[Found(t)] = Increment(@)]
      BY <2>3 DEF pick_cpu, Found, Best, Other
    <3> QED BY <3>1, <3>2 DEF SchedState
  <2> QED BY <2>1, <2>2, <2>3
<1>5. /\ u.in_use = t.in_use /\ u.parent = t.parent /\ u.max_priority = t.max_priority
      /\ u.priority = t.priority /\ u.time_slice = t.time_slice
      /\ u.cpu = [t.cpu EXCEPT ![s] = Chosen(t, s)] /\ u.cpu_proc = Counted(t, s)
  BY DEF SchedState
<1>6. u.cpu[s] = Chosen(t, s)
  BY <1>5, Fields
<1> QED BY <1>3, <1>4, <1>5, <1>6
---------------------------------------------------------------------------
(* sys_schedule.                                                           *)

Accepted(p) == p \in Queue \/ (Lab = 5 /\ p = UINT_MAX)

LEMMA AcceptedInt ==
  ASSUME NEW p, Accepted(p)
  PROVE  /\ AsInt(p) = IF p = UINT_MAX THEN -1 ELSE p
         /\ p # UINT_MAX => p \in Queue
         /\ AsInt(p) # -1 <=> p # UINT_MAX
         /\ AsInt(p) \in Int /\ AsInt(p) < NR_SCHED_QUEUES /\ AsInt(p) >= -1
         /\ p \in Unsigned
BY Consts DEF Accepted, AsInt, Queue, Unsigned

\* The kernel refuses a CPU that did not come up, and nothing else.
LEMMA Errors ==
  ASSUME NEW t \in SchedState, NEW s \in Slot, NEW all \in BOOLEAN,
         Accepted(t.priority[s]), t.time_slice[s] >= 1
  PROVE  schedule_error(t, s, all) =
           IF SMP /\ all /\ Chosen(t, s) \notin Ready THEN "EBADCPU" ELSE "OK"
<1>1. t.time_slice[s] \in Nat
  BY Fields
<1>2. Chosen(t, s) \in Cpu /\ Chosen(t, s) \in Nat /\ Chosen(t, s) # -1
  BY ChosenCpu
<1>3. NewCpu(t, s, all) = IF all THEN Chosen(t, s) ELSE -1
  BY Picks DEF NewCpu
<1>4. /\ ~(AsInt(t.priority[s]) < TASK_Q /\ AsInt(t.priority[s]) # -1)
      /\ ~(AsInt(t.priority[s]) > NR_SCHED_QUEUES)
      /\ ~(t.time_slice[s] < 1 /\ t.time_slice[s] # -1)
  BY <1>1, AcceptedInt, Consts DEF TASK_Q
<1>5. ~(SMP /\ NewCpu(t, s, all) # -1 /\ NewCpu(t, s, all) \notin Cpu)
  BY <1>2, <1>3
<1>6. SMP /\ NewCpu(t, s, all) # -1 /\ NewCpu(t, s, all) \notin Ready
        <=> SMP /\ all /\ Chosen(t, s) \notin Ready
  BY <1>2, <1>3
<1> QED BY <1>4, <1>5, <1>6 DEF schedule_error, sched_proc_error

\* v is what the kernel has after a request that it accepts.
Scheduled(v, k, t, s, all) ==
  /\ v \in KernelState /\ v.noq = k.noq \ {s} /\ v.ours = k.ours
  /\ \A x \in Slot :
       /\ v.priority[x] = IF x = s /\ t.priority[s] # UINT_MAX
                          THEN t.priority[s] ELSE k.priority[x]
       /\ v.quantum[x] = IF x = s THEN t.time_slice[s] ELSE k.quantum[x]
       /\ v.cpu[x] = IF x = s /\ SMP /\ all THEN Chosen(t, s) ELSE k.cpu[x]

LEMMA KernelSchedules ==
  ASSUME NEW k \in KernelState, NEW t \in SchedState, NEW s \in Slot, NEW all \in BOOLEAN,
         Accepted(t.priority[s]), t.time_slice[s] >= 1,
         ~(SMP /\ all /\ Chosen(t, s) \notin Ready)
  PROVE  Scheduled(schedule_kernel(k, t, s, all), k, t, s, all)
<1> DEFINE pr == [k.priority EXCEPT ![s] = IF t.priority[s] # UINT_MAX THEN t.priority[s] ELSE @]
           qu == [k.quantum EXCEPT ![s] = t.time_slice[s]]
           cp == [k.cpu EXCEPT ![s] = IF SMP /\ all THEN Chosen(t, s) ELSE @]
           v  == schedule_kernel(k, t, s, all)
<1>1. t.time_slice[s] \in Nat /\ t.time_slice[s] # -1
  BY Fields
<1>2. Chosen(t, s) \in Cpu /\ Chosen(t, s) \in Nat /\ Chosen(t, s) # -1
  BY ChosenCpu
<1>3. NewCpu(t, s, all) = IF all THEN Chosen(t, s) ELSE -1
  BY Picks DEF NewCpu
<1>4. /\ k.priority \in [Slot -> Int] /\ k.quantum \in [Slot -> Nat]
      /\ k.cpu \in [Slot -> Cpu] /\ k.noq \in SUBSET Slot /\ k.ours \in SUBSET Slot
  BY DEF KernelState
<1>5. schedule_error(t, s, all) = "OK"
  BY Errors
<1>6. v = sched_proc(k, s, AsInt(t.priority[s]), t.time_slice[s], NewCpu(t, s, all))
  BY <1>5 DEF schedule_kernel
<1>7. v = [k EXCEPT !.priority = pr, !.quantum = qu, !.cpu = cp, !.noq = k.noq \ {s}]
  <2>1. pr = [k.priority EXCEPT ![s] = IF AsInt(t.priority[s]) # -1 THEN AsInt(t.priority[s])
                                       ELSE @]
    BY AcceptedInt
  <2>2. cp = [k.cpu EXCEPT ![s] = IF SMP /\ NewCpu(t, s, all) # -1 THEN NewCpu(t, s, all)
                                  ELSE @]
    BY <1>2, <1>3
  <2>3. qu = [k.quantum EXCEPT ![s] = IF t.time_slice[s] # -1 THEN t.time_slice[s] ELSE @]
    BY <1>1
  <2> QED BY <1>6, <2>1, <2>2, <2>3 DEF sched_proc, KernelState
<1>8. /\ pr \in [Slot -> Int] /\ qu \in [Slot -> Nat] /\ cp \in [Slot -> Cpu]
  BY <1>1, <1>2, <1>4, AcceptedInt DEF Queue
<1>9. /\ v \in KernelState /\ v.noq = k.noq \ {s} /\ v.ours = k.ours
      /\ v.priority = pr /\ v.quantum = qu /\ v.cpu = cp
  <2> HIDE DEF pr, qu, cp, v
  <2> QED BY <1>7, <1>8 DEF KernelState
<1>10. \A x \in Slot :
         /\ pr[x] = IF x = s /\ t.priority[s] # UINT_MAX THEN t.priority[s] ELSE k.priority[x]
         /\ qu[x] = IF x = s THEN t.time_slice[s] ELSE k.quantum[x]
         /\ cp[x] = IF x = s /\ SMP /\ all THEN Chosen(t, s) ELSE k.cpu[x]
  BY <1>4
<1> HIDE DEF pr, qu, cp
<1> QED BY <1>9, <1>10 DEF Scheduled
---------------------------------------------------------------------------
(* Loads.                                                                  *)

LEMMA SlotsFinite == IsFiniteSet(Slot) /\ Cardinality(Slot) = NR_PROCS
<1>1. 0 \in Int /\ NR_PROCS - 1 \in Int
  BY Consts
<1>2. /\ IsFiniteSet(0 .. NR_PROCS - 1)
      /\ Cardinality(0 .. NR_PROCS - 1) = IF 0 > NR_PROCS - 1 THEN 0 ELSE NR_PROCS - 1 - 0 + 1
  BY <1>1, FS_Interval, Zenon
<1>3. (IF 0 > NR_PROCS - 1 THEN 0 ELSE NR_PROCS - 1 - 0 + 1) = NR_PROCS
  BY Consts
<1> QED BY <1>2, <1>3 DEF Slot

LEMMA OnFinite ==
  ASSUME NEW t \in SchedState, NEW c
  PROVE  /\ IsFiniteSet(On(t, c)) /\ Cardinality(On(t, c)) \in Nat
         /\ Cardinality(On(t, c)) <= NR_PROCS
<1>1. On(t, c) \subseteq Slot
  BY Fields DEF On
<1>2. IsFiniteSet(On(t, c)) /\ Cardinality(On(t, c)) <= Cardinality(Slot)
  BY <1>1, SlotsFinite, FS_Subset
<1> QED BY <1>2, SlotsFinite, FS_CardinalityType

\* Two tables: what is on a CPU can only get less if nothing is moved to it.
LEMMA OnLess ==
  ASSUME NEW t \in SchedState, NEW u \in SchedState, NEW c, On(u, c) \subseteq On(t, c)
  PROVE  Cardinality(On(u, c)) <= Cardinality(On(t, c))
BY OnFinite, FS_Subset

LEMMA OnMore ==
  ASSUME NEW t \in SchedState, NEW u \in SchedState, NEW c, NEW s,
         On(u, c) \subseteq On(t, c) \cup {s}
  PROVE  Cardinality(On(u, c)) <= Cardinality(On(t, c)) + 1
<1>1. IsFiniteSet(On(t, c) \cup {s})
  BY OnFinite, FS_AddElement
<1>2. Cardinality(On(t, c) \cup {s}) \in Nat
      /\ Cardinality(On(t, c) \cup {s}) <= Cardinality(On(t, c)) + 1
  BY OnFinite, FS_AddElement, <1>1, FS_CardinalityType
<1>3. Cardinality(On(u, c)) <= Cardinality(On(t, c) \cup {s})
  BY <1>1, FS_Subset
<1> QED BY <1>2, <1>3, OnFinite

\* pick_cpu finds a CPU unless every one is marked as dead.
LEMMA BestExists ==
  ASSUME NEW t \in SchedState, NEW c \in Other(t)
  PROVE  Best(t) # {}
<1> DEFINE S == {t.cpu_proc[x] : x \in Other(t)}
<1>1. Other(t) \subseteq Cpu
  BY DEF Other
<1>2. \A x \in Cpu : t.cpu_proc[x] \in Nat
  BY Fields DEF Unsigned
<1>3. S \in SUBSET Nat /\ S # {}
  BY <1>1, <1>2
<1>4. PICK m \in S : \A n \in S : m <= n
  BY <1>3, Least
<1>5. PICK x \in Other(t) : m = t.cpu_proc[x]
  BY <1>4
<1>6. x \in Best(t)
  BY <1>4, <1>5 DEF Best
<1> QED BY <1>6

LEMMA LoadsMore ==
  ASSUME NEW t \in SchedState, NEW d, NEW b \in Int, NEW e \in Int, b <= e, Loads(t, d, b)
  PROVE  Loads(t, d, e)
<1>1. \A c \in Cpu : t.cpu_proc[c] \in Nat
  BY Fields DEF Unsigned
<1> QED BY <1>1 DEF Loads

\* Table t is v, but for process s and what the loads do not depend on.
ButFor(t, v, s) ==
  /\ t.cpu_proc = v.cpu_proc /\ t.in_use \ {s} \subseteq v.in_use
  /\ \A x \in Slot : x # s => t.cpu[x] = v.cpu[x] /\ t.parent[x] = v.parent[x]

\* pick_cpu leaves the loads of the other CPUs alone, and records nothing more
\* for them.
LEMMA PickOthers ==
  ASSUME NEW v \in SchedState, NEW t \in SchedState, NEW s \in Slot, ButFor(t, v, s),
         NEW c \in Cpu \ {BSP}, c # Chosen(t, s)
  PROVE  /\ pick_cpu(t, s).cpu_proc[c] = v.cpu_proc[c]
         /\ Cardinality(On(pick_cpu(t, s), c)) <= Cardinality(On(v, c))
<1> DEFINE u == pick_cpu(t, s)
<1>0. /\ u \in SchedState /\ u.in_use = t.in_use
      /\ u.cpu = [t.cpu EXCEPT ![s] = Chosen(t, s)] /\ u.cpu_proc = Counted(t, s)
  BY Picks
<1>1. u.cpu_proc[c] = v.cpu_proc[c]
  BY <1>0, Fields DEF Counted, Chosen, ButFor
<1>2. On(u, c) \subseteq On(v, c)
  BY <1>0, Fields DEF On, ButFor
<1> QED BY <1>0, <1>1, <1>2, OnLess

\* The process goes to no CPU that was refused, and is counted there.
LEMMA PickLoads ==
  ASSUME SMP, NEW v \in SchedState, NEW t \in SchedState, NEW s \in Slot, ButFor(t, v, s),
         NEW d \in SUBSET Cpu, d \cap Ready = {},
         NEW b \in Nat, b + NR_PROCS < UINT_MAX, Loads(v, d, b)
  PROVE  /\ Chosen(t, s) \notin d
         /\ Loads(pick_cpu(t, s), d, b + 1)
         /\ d = Cpu \ {BSP} => Chosen(t, s) = BSP
         /\ Chosen(t, s) = BSP /\ t.parent[s] # None => d = Cpu \ {BSP}
<1> DEFINE u == pick_cpu(t, s)
           x == Chosen(t, s)
<1>0. /\ u \in SchedState /\ u.in_use = t.in_use /\ u.cpu = [t.cpu EXCEPT ![s] = x]
      /\ u.cpu_proc = Counted(t, s)
  BY Picks
<1>1. \A c \in Cpu : t.cpu_proc[c] \in Nat /\ t.cpu_proc[c] <= UINT_MAX
  BY Fields, Consts DEF Unsigned
<1>b. v.cpu_proc = t.cpu_proc
  BY DEF ButFor
<1>2. UINT_MAX \in Nat /\ NR_PROCS \in Nat
  BY Consts
<1>3. ASSUME NEW c \in d PROVE c \notin Best(t)
  <2>1. c \in Cpu /\ c # BSP
    BY Consts
  <2>2. CASE ~Second
    BY <1>2, <1>b, <2>1, <2>2 DEF Loads, Best, Other
  <2>3. CASE Second
    <3>1. PICK r \in Cpu : r \in Ready /\ r # BSP
      BY <2>3 DEF Second
    <3>2. r \notin d
      BY <3>1
    <3>3. t.cpu_proc[r] <= b
      BY <1>b, <3>1, <3>2 DEF Loads
    <3>4. UINT_MAX + Cardinality(On(v, c)) <= t.cpu_proc[c] + NR_PROCS
      BY <1>b, <2>1, <2>3 DEF Loads
    <3>5. t.cpu_proc[r] < t.cpu_proc[c] /\ t.cpu_proc[r] < UINT_MAX
      BY <1>1, <1>2, <2>1, <3>3, <3>4, OnFinite
    <3>6. r \in Other(t)
      BY <3>1, <3>5 DEF Other
    <3> QED BY <1>1, <2>1, <3>5, <3>6 DEF Best
  <2> QED BY <2>2, <2>3
<1>4. BSP \notin d
  BY Consts
<1>5. x \notin d
  BY <1>3, <1>4, FoundCpu DEF Chosen
<1>6. ASSUME x = BSP, t.parent[s] # None PROVE d = Cpu \ {BSP}
  <2>1. CASE Cpu = {BSP}
    BY <1>4, <2>1
  <2>2. CASE Cpu # {BSP}
    <3>1. Found(t) = BSP
      BY <1>6, <2>2 DEF Chosen
    <3>2. BSP \notin Best(t)
      BY DEF Best, Other
    <3>3. Best(t) = {}
      BY <3>1, <3>2, FoundCpu
    <3>4. ASSUME NEW c \in Cpu \ {BSP}, c \notin d PROVE FALSE
      <4>1. t.cpu_proc[c] <= b
        BY <1>b, <3>4 DEF Loads
      <4>2. c \in Other(t)
        BY <1>1, <1>2, <4>1 DEF Other
      <4> QED BY <4>2, <3>3, BestExists
    <3> QED BY <3>4, <1>4
  <2> QED BY <2>1, <2>2
<1>7. ASSUME d = Cpu \ {BSP} PROVE x = BSP
  BY <1>5, <1>7, ChosenCpu
<1>8. ASSUME NEW c \in Cpu \ {BSP}, c # x
      PROVE  u.cpu_proc[c] = t.cpu_proc[c] /\ Cardinality(On(u, c)) <= Cardinality(On(v, c))
  BY <1>8, <1>b, PickOthers
<1>9. ASSUME x # BSP
      PROVE  u.cpu_proc[x] = t.cpu_proc[x] + 1 /\ Cardinality(On(u, x)) <= Cardinality(On(v, x)) + 1
  <2>1. x = Found(t) /\ ~(Cpu = {BSP} \/ t.parent[s] = None)
    BY <1>9 DEF Chosen
  <2>2. x \in Best(t)
    BY <1>9, <2>1, FoundCpu
  <2>3. x \in Cpu /\ t.cpu_proc[x] < UINT_MAX
    BY <2>2 DEF Best, Other
  <2>4. Increment(t.cpu_proc[x]) = t.cpu_proc[x] + 1
    BY <2>3, Counting, Fields, <1>1, <1>2
  <2>5. u.cpu_proc[x] = Increment(t.cpu_proc[x])
    BY <1>0, <2>1, <2>3, Fields DEF Counted
  <2>6. On(u, x) \subseteq On(v, x) \cup {s}
    BY <1>0, Fields DEF On, ButFor
  <2> QED BY <1>0, <2>4, <2>5, <2>6, OnMore
<1>10. ASSUME NEW c \in Cpu \ {BSP}
       PROVE  /\ c \notin d => Cardinality(On(u, c)) <= u.cpu_proc[c] /\ u.cpu_proc[c] <= b + 1
              /\ c \in d => IF Second
                            THEN UINT_MAX + Cardinality(On(u, c)) <= u.cpu_proc[c] + NR_PROCS
                            ELSE u.cpu_proc[c] = UINT_MAX
  <2>1. /\ Cardinality(On(v, c)) \in Nat /\ Cardinality(On(u, c)) \in Nat
        /\ t.cpu_proc[c] \in Nat
    BY <1>0, <1>1, OnFinite
  <2>2. /\ c \notin d => /\ Cardinality(On(v, c)) <= t.cpu_proc[c]
                         /\ t.cpu_proc[c] <= b
        /\ c \in d => IF Second
                      THEN UINT_MAX + Cardinality(On(v, c)) <= t.cpu_proc[c] + NR_PROCS
                      ELSE t.cpu_proc[c] = UINT_MAX
    BY <1>b DEF Loads
  <2>3. CASE c # x
    BY <1>2, <1>8, <2>1, <2>2, <2>3
  <2>4. CASE c = x
    BY <1>2, <1>5, <1>9, <2>1, <2>2, <2>4
  <2> QED BY <2>3, <2>4
<1>11. Loads(u, d, b + 1)
  BY <1>10 DEF Loads
<1> QED BY <1>5, <1>6, <1>7, <1>11

LEMMA PickAlone ==
  ASSUME SMP, NEW v \in SchedState, NEW t \in SchedState, NEW s \in Slot, ButFor(t, v, s),
         t.in_use = v.in_use, t.parent = v.parent,
         NEW d \in SUBSET Cpu, d \cap Ready = {},
         NEW b \in Nat, b + NR_PROCS < UINT_MAX, Loads(v, d, b),
         NEW e, Alone(v, d, e)
  PROVE  Alone(pick_cpu(t, s), d, e)
<1> DEFINE u == pick_cpu(t, s)
<1>0. /\ u.in_use = t.in_use /\ u.parent = t.parent
      /\ u.cpu = [t.cpu EXCEPT ![s] = Chosen(t, s)]
  BY Picks
<1>1. ASSUME ~Second, NEW x \in u.in_use \ {e}
      PROVE  u.cpu[x] = BSP /\ (u.parent[x] # None => d = Cpu \ {BSP})
  <2>1. x \in Slot /\ v.cpu[x] = BSP /\ (v.parent[x] # None => d = Cpu \ {BSP})
    BY <1>0, <1>1, Fields DEF Alone
  <2>2. CASE x # s
    BY <1>0, <2>1, <2>2, Fields DEF ButFor
  <2>3. CASE x = s
    <3>1. u.cpu[x] = Chosen(t, s)
      BY <1>0, <2>3, Fields
    <3>2. Chosen(t, s) = BSP
      BY <2>1, <2>3, PickLoads DEF Chosen
    <3> QED BY <1>0, <2>1, <3>1, <3>2
  <2> QED BY <2>2, <2>3
<1> QED BY <1>1 DEF Alone

\* The bound on loads is below what a refused CPU has.
LEMMA BoundIs ==
  ASSUME TypeOK
  PROVE  /\ Bound \in Nat /\ Bound + NR_PROCS < UINT_MAX
         /\ MaxLoad \in Nat /\ MaxLoad + NR_PROCS + NR_PROCS < UINT_MAX
         /\ IsFiniteSet(declared) /\ Cardinality(declared) \in Nat
         /\ MaxLoad + NR_PROCS + Cardinality(declared) <= Bound
         /\ MaxLoad + NR_PROCS <= Bound
<1>1. declared \subseteq Cpu /\ IsFiniteSet(Cpu)
  BY SchedAssumption DEF TypeOK
<1>2. IsFiniteSet(declared) /\ Cardinality(declared) <= Cardinality(Cpu)
  BY <1>1, FS_Subset
<1>3. Cardinality(declared) \in Nat /\ Cardinality(Cpu) \in Nat
  BY <1>1, <1>2, FS_CardinalityType
<1>4. /\ MaxLoad \in Nat /\ NR_PROCS \in Nat /\ UINT_MAX \in Nat
      /\ MaxLoad + 2 * NR_PROCS + Cardinality(Cpu) + 1 < UINT_MAX
  BY SchedAssumption
<1>5. CASE busy = None
  BY <1>2, <1>3, <1>4, <1>5 DEF Bound
<1>6. CASE busy # None
  BY <1>2, <1>3, <1>4, <1>6 DEF Bound
<1> QED BY <1>5, <1>6

\* When SCHED takes a message the loads are within MaxLoad.
LEMMA ReceiveLoads ==
  ASSUME SInv, SMP, Receive
  PROVE  Loads(sc, declared, MaxLoad)
<1>0. TypeOK /\ Loads(sc, declared, Bound)
  BY DEF SInv, TInv, PInv, TablesInStep
<1>1. sc \in SchedState
  BY <1>0 DEF TypeOK
<1>2. \A c \in Cpu : sc.cpu_proc[c] \in Nat
  BY <1>1, Fields DEF Unsigned
<1>3. Bound \in Nat /\ Bound + NR_PROCS < UINT_MAX /\ NR_PROCS \in Nat /\ UINT_MAX \in Nat
  BY <1>0, BoundIs, Consts
<1>4. ASSUME NEW c \in Cpu \ {BSP}, c \notin declared PROVE sc.cpu_proc[c] <= MaxLoad
  <2>1. sc.cpu_proc[c] <= Bound
    BY <1>0, <1>4 DEF Loads
  <2>2. sc.cpu_proc[c] <= MaxLoad \/ sc.cpu_proc[c] > UINT_MAX - NR_PROCS
    BY DEF Receive
  <2> QED BY <1>2, <1>3, <2>1, <2>2
<1> QED BY <1>0, <1>4 DEF Loads

\* The facts about a state that the steps use.
LEMMA State ==
  ASSUME SInv
  PROVE  /\ build \in Builds /\ Lab \in {3, 5} /\ SMP \in BOOLEAN
         /\ sc \in SchedState /\ kn \in KernelState /\ stage \in [Slot -> Stage]
         /\ ooq \subseteq Slot /\ busy \in Slot \cup {None} /\ declared \subseteq Cpu
         /\ TypeOK
         /\ \A s \in Slot : Accepted(sc.priority[s])
         /\ \A s \in sc.in_use : s \in Slot /\ sc.time_slice[s] >= 1
         /\ \A s \in Slot : s \in sc.in_use <=> stage[s] \in {"starting", "started"}
         /\ \A s \in Slot : stage[s] = "starting" <=> s = busy
         /\ \A s \in Slot : kn.priority[s] \in Queue
         /\ \A s \in Slot : stage[s] = "started" =>
              /\ kn.priority[s] = sc.priority[s] \/ (Lab = 5 /\ sc.priority[s] = UINT_MAX)
              /\ kn.quantum[s] = sc.time_slice[s]
<1>1. TypeOK
  BY DEF SInv, TInv, TablesInStep
<1>2. sc \in SchedState /\ sc.in_use \subseteq Slot
  BY <1>1, Fields DEF TypeOK
<1>3. Lab \in {3, 5} /\ SMP \in BOOLEAN
  BY <1>1, SchedAssumption DEF TypeOK, Lab, SMP
<1> QED BY <1>1, <1>2, <1>3 DEF SInv, TInv, TablesInStep, TypeOK, Priorities, Accepted, Slices,
           SlotFollowsProcess, Starting, QueueExists, KernelAgrees

\* How the invariant of the tables is put together again.
LEMMA Tables ==
  ASSUME build' \in Builds, sc' \in SchedState, kn' \in KernelState, stage' \in [Slot -> Stage],
         ooq' \subseteq Slot, busy' \in Slot \cup {None}, declared' \subseteq Cpu,
         build' = build,
         \A s \in Slot : Accepted(sc'.priority[s]),
         \A s \in sc'.in_use : sc'.time_slice[s] >= 1,
         \A s \in Slot : s \in sc'.in_use <=> stage'[s] \in {"starting", "started"},
         \A s \in Slot : stage'[s] = "starting" <=> s = busy',
         \A s \in Slot : kn'.priority[s] \in Queue,
         \A s \in Slot : stage'[s] = "started" =>
              /\ kn'.priority[s] = sc'.priority[s] \/ (Lab = 5 /\ sc'.priority[s] = UINT_MAX)
              /\ kn'.quantum[s] = sc'.time_slice[s]
  PROVE  TInv'
<1>1. Lab' = Lab
  BY DEF Lab
<1>2. TypeOK'
  BY DEF TypeOK
<1>3. Priorities' /\ Slices' /\ Starting'
  BY <1>1 DEF Priorities, Slices, Starting, Accepted
<1>4. QueueExists' /\ SlotFollowsProcess' /\ KernelAgrees'
  BY <1>1 DEF QueueExists, SlotFollowsProcess, KernelAgrees
<1> QED BY <1>2, <1>3, <1>4 DEF TInv, TablesInStep

LEMMA Placed ==
  ASSUME SInv, SMP
  PROVE  /\ \A s \in Slot : stage[s] = "started" =>
              /\ kn.cpu[s] \in Ready
              /\ sc.parent[s] = None => kn.cpu[s] = BSP
         /\ declared \cap Ready = {} /\ declared \in SUBSET Cpu /\ BSP \notin declared
         /\ Loads(sc, declared, Bound) /\ Alone(sc, declared, busy)
BY State, Consts DEF SInv, PInv, CpuRespected

LEMMA Undeclared ==
  ASSUME SInv
  PROVE  ~SMP => declared = {}
BY DEF SInv, PInv

\* How the invariant of the placement is put together again.
LEMMA Placement ==
  ASSUME build' = build, ~SMP => declared' = {},
         SMP => /\ \A s \in Slot : stage'[s] = "started" =>
                     /\ kn'.cpu[s] \in Ready
                     /\ sc'.parent[s] = None => kn'.cpu[s] = BSP
                /\ declared' \cap Ready = {}
                /\ Loads(sc', declared', Bound') /\ Alone(sc', declared', busy')
  PROVE  PInv'
<1>1. SMP' = SMP
  BY DEF SMP
<1>2. Loads(sc, declared, Bound)' = Loads(sc', declared', Bound')
  BY DEF Loads, On
<1>3. Alone(sc, declared, busy)' = Alone(sc', declared', busy')
  BY DEF Alone
<1> QED BY <1>1, <1>2, <1>3 DEF PInv, CpuRespected
---------------------------------------------------------------------------
(* The actions.                                                            *)

\* A new priority for one process, told to the kernel with its quantum.
LEMMA LocalStep ==
  ASSUME SInv, Receive, NEW t \in SchedState, NEW s \in sc.in_use,
         t.in_use = sc.in_use, t.parent = sc.parent, t.cpu = sc.cpu,
         t.cpu_proc = sc.cpu_proc, t.time_slice = sc.time_slice,
         \A x \in Slot : x # s => t.priority[x] = sc.priority[x],
         Accepted(t.priority[s]),
         sc' = pick_cpu(t, s), kn' = schedule_kernel(kn, t, s, FALSE),
         ooq' \subseteq Slot, UNCHANGED <<stage, busy, declared, build>>
  PROVE  SInv'
<1>1. s \in Slot
  BY State
<1>2. /\ sc' \in SchedState /\ sc'.in_use = sc.in_use /\ sc'.parent = sc.parent
      /\ sc'.priority = t.priority /\ sc'.time_slice = sc.time_slice
  BY <1>1, Picks
<1>3. t.time_slice[s] >= 1
  BY State
<1>4. /\ kn' \in KernelState
      /\ \A x \in Slot :
           /\ kn'.priority[x] = IF x = s /\ t.priority[s] # UINT_MAX
                                THEN t.priority[s] ELSE kn.priority[x]
           /\ kn'.quantum[x] = IF x = s THEN t.time_slice[s] ELSE kn.quantum[x]
           /\ kn'.cpu[x] = kn.cpu[x]
  <2>1. kn \in KernelState /\ FALSE \in BOOLEAN /\ ~(SMP /\ FALSE /\ Chosen(t, s) \notin Ready)
    BY State
  <2>2. Scheduled(kn', kn, t, s, FALSE)
    BY <1>1, <1>3, <2>1, KernelSchedules
  <2> QED BY <2>2 DEF Scheduled
<1>5. t.priority[s] # UINT_MAX => t.priority[s] \in Queue
  BY AcceptedInt
<1>6. \A x \in Slot : Accepted(sc'.priority[x])
  BY <1>2, State
<1>7. \A x \in Slot : kn'.priority[x] \in Queue
  BY <1>4, <1>5, State
<1>8. \A x \in Slot : stage'[x] = "started" =>
        /\ kn'.priority[x] = sc'.priority[x] \/ (Lab = 5 /\ sc'.priority[x] = UINT_MAX)
        /\ kn'.quantum[x] = sc'.time_slice[x]
  <2> TAKE x \in Slot
  <2>1. CASE x = s
    <3>1. CASE t.priority[s] # UINT_MAX
      BY <1>2, <1>4, <2>1, <3>1
    <3>2. CASE t.priority[s] = UINT_MAX
      <4>1. Lab = 5
        BY <3>2, Consts DEF Accepted, Queue
      <4> QED BY <1>2, <1>4, <2>1, <3>2, <4>1
    <3> QED BY <3>1, <3>2
  <2>2. CASE x # s
    <3>1. /\ kn'.priority[x] = kn.priority[x] /\ kn'.quantum[x] = kn.quantum[x]
          /\ sc'.priority[x] = sc.priority[x] /\ sc'.time_slice[x] = sc.time_slice[x]
      BY <1>2, <1>4, <2>2
    <3> QED BY <3>1, State
  <2> QED BY <2>1, <2>2
<1>9. TInv'
  BY <1>2, <1>4, <1>6, <1>7, <1>8, State, Tables
<1>10. ASSUME SMP
       PROVE  Loads(sc', declared', Bound') /\ Alone(sc', declared', busy')
  <2>1. Loads(sc, declared, MaxLoad)
    BY <1>10, ReceiveLoads
  <2>2. /\ MaxLoad \in Nat /\ MaxLoad + NR_PROCS < UINT_MAX /\ MaxLoad + 1 <= Bound
        /\ Bound \in Nat
    BY State, BoundIs, Consts
  <2>3. ButFor(t, sc, s)
    BY DEF ButFor
  <2>4. Loads(sc', declared, MaxLoad + 1)
    BY <1>1, <1>10, <2>1, <2>2, <2>3, PickLoads, State, Placed
  <2>5. Loads(sc', declared, Bound)
    BY <1>2, <2>2, <2>4, LoadsMore
  <2>6. Alone(sc', declared, busy)
    BY <1>1, <1>10, <2>1, <2>2, <2>3, PickAlone, State, Placed
  <2>7. Bound' = Bound /\ declared' = declared /\ busy' = busy
    BY DEF Bound
  <2> QED BY <2>5, <2>6, <2>7
<1>11. PInv'
  BY <1>2, <1>4, <1>10, Placed, Undeclared, Placement
<1> QED BY <1>9, <1>11 DEF SInv

LEMMA NoQuantumStep ==
  ASSUME SInv, NEW s \in Slot, do_noquantum(s)
  PROVE  SInv'
<1> DEFINE t == [sc EXCEPT !.priority[s] = IF Lab = 3 THEN NoQuantumLab3(@)
                                           ELSE NoQuantumLab5(@)]
           p == sc.priority[s]
           q == IF Lab = 3 THEN NoQuantumLab3(p) ELSE NoQuantumLab5(p)
<1>1. /\ Receive /\ ooq' = ooq \ {s} /\ UNCHANGED <<stage, busy, declared, build>>
      /\ IF s \in sc.in_use
         THEN sc' = pick_cpu(t, s) /\ kn' = schedule_kernel(kn, t, s, FALSE)
         ELSE UNCHANGED <<sc, kn>>
  BY DEF do_noquantum, schedule_process_local
<1>2. CASE s \in sc.in_use
  <2>1. Accepted(p) /\ p \in Unsigned
    BY State, Fields
  <2>2. Accepted(q)
    <3>1. CASE Lab = 3
      BY <2>1, <3>1, Consts DEF Accepted, NoQuantumLab3, Queue
    <3>2. CASE Lab = 5
      BY <2>1, <3>2, Counting, Consts DEF Accepted, NoQuantumLab5, Queue
    <3> QED BY <3>1, <3>2, State
  <2>3. q \in Unsigned
    BY <2>2, AcceptedInt
  <2>4. [sc.priority EXCEPT ![s] = q] \in [Slot -> Unsigned]
    BY <2>3, State, Fields
  <2>5. t = [sc EXCEPT !.priority = [sc.priority EXCEPT ![s] = q]]
    OBVIOUS
  <2>6. /\ t \in SchedState /\ t.in_use = sc.in_use /\ t.parent = sc.parent /\ t.cpu = sc.cpu
        /\ t.cpu_proc = sc.cpu_proc /\ t.time_slice = sc.time_slice
        /\ t.priority = [sc.priority EXCEPT ![s] = q]
    <3> HIDE DEF q, t
    <3> QED BY <2>4, <2>5, State DEF SchedState
  <2>7. t.priority[s] = q /\ \A x \in Slot : x # s => t.priority[x] = sc.priority[x]
    BY <2>6, State, Fields
  <2> HIDE DEF t, q
  <2>8. ooq' \subseteq Slot
    BY <1>1, State
  <2> QED BY <1>1, <1>2, <2>2, <2>6, <2>7, <2>8, LocalStep
<1>3. CASE s \notin sc.in_use
  <2>1. UNCHANGED <<sc, kn, stage, busy, declared, build>> /\ ooq' \subseteq Slot
    BY <1>1, <1>3, State
  <2>2. Bound' = Bound
    BY <2>1 DEF Bound
  <2>3. TInv'
    BY <2>1, State, Tables
  <2>4. PInv'
    BY <2>1, <2>2, Placed, Undeclared, Placement
  <2> QED BY <2>3, <2>4 DEF SInv
<1> QED BY <1>2, <1>3

LEMMA NiceStep ==
  ASSUME SInv, NEW s \in Slot, NEW new_q \in MaxPrio, do_nice(s, new_q)
  PROVE  SInv'
<1> DEFINE t == [sc EXCEPT !.priority[s] = new_q, !.max_priority[s] = new_q]
<1>1. new_q \in Unsigned /\ new_q < NR_SCHED_QUEUES /\ s \in sc.in_use /\ Receive
  BY Consts DEF do_nice
<1>2. Accepted(new_q)
  BY <1>1, Consts DEF Accepted, Queue, Unsigned
<1>3. /\ [sc.priority EXCEPT ![s] = new_q] \in [Slot -> Unsigned]
      /\ [sc.max_priority EXCEPT ![s] = new_q] \in [Slot -> Unsigned]
  BY <1>1, State, Fields
<1>4. /\ t \in SchedState /\ t.in_use = sc.in_use /\ t.parent = sc.parent /\ t.cpu = sc.cpu
      /\ t.cpu_proc = sc.cpu_proc /\ t.time_slice = sc.time_slice
      /\ t.priority = [sc.priority EXCEPT ![s] = new_q]
  BY <1>3, State DEF SchedState
<1>5. t.priority[s] = new_q /\ \A x \in Slot : x # s => t.priority[x] = sc.priority[x]
  BY <1>4, State, Fields
<1>6. t.time_slice[s] >= 1
  BY <1>1, <1>4, State
<1> HIDE DEF t
<1>7. schedule_error(t, s, FALSE) = "OK"
  BY <1>2, <1>4, <1>5, <1>6, Errors
<1>8. /\ sc' = pick_cpu(t, s) /\ kn' = schedule_kernel(kn, t, s, FALSE)
      /\ UNCHANGED <<stage, ooq, busy, declared, build>>
  BY <1>7 DEF do_nice, t
<1> QED BY <1>1, <1>2, <1>4, <1>5, <1>8, LocalStep, State

\* The process that stops was counted on its CPU.
LEMMA StopStep ==
  ASSUME SInv, NEW s \in Slot, do_stop_scheduling(s)
  PROVE  SInv'
<1> DEFINE c == sc.cpu[s]
           load == [sc.cpu_proc EXCEPT ![c] = IF SMP THEN Decrement(@) ELSE @]
<1>1. /\ stage[s] = "started" /\ s # INIT /\ Receive /\ s \in sc.in_use
      /\ sc' = [sc EXCEPT !.cpu_proc = load, !.in_use = sc.in_use \ {s}]
      /\ stage' = [stage EXCEPT ![s] = "stopped"]
      /\ UNCHANGED <<kn, ooq, busy, declared, build>>
  BY DEF do_stop_scheduling
<1>2. c \in Cpu /\ sc.cpu_proc[c] \in Unsigned
  BY State, Fields
<1>3. load \in [Cpu -> Unsigned]
  BY <1>2, Counting, State, Fields
<1>4. /\ sc' \in SchedState /\ sc'.in_use = sc.in_use \ {s} /\ sc'.parent = sc.parent
      /\ sc'.priority = sc.priority /\ sc'.time_slice = sc.time_slice /\ sc'.cpu = sc.cpu
      /\ sc'.cpu_proc = load
  <2> HIDE DEF load
  <2> QED BY <1>1, <1>3, State DEF SchedState
<1>5. /\ stage' \in [Slot -> Stage]
      /\ \A x \in Slot : stage'[x] = IF x = s THEN "stopped" ELSE stage[x]
  BY <1>1, State DEF Stage
<1>6. busy = None /\ busy' = None
  BY <1>1 DEF Receive
<1>7. TInv'
  <2>1. \A x \in Slot : x \in sc'.in_use <=> stage'[x] \in {"starting", "started"}
    BY <1>4, <1>5, State
  <2>2. \A x \in Slot : stage'[x] = "starting" <=> x = busy'
    BY <1>1, <1>5, State
  <2>3. \A x \in Slot : stage'[x] = "started" => stage[x] = "started"
    BY <1>5
  <2>4. \A x \in Slot : stage'[x] = "started" =>
        /\ kn'.priority[x] = sc'.priority[x] \/ (Lab = 5 /\ sc'.priority[x] = UINT_MAX)
        /\ kn'.quantum[x] = sc'.time_slice[x]
    BY <1>1, <1>4, <2>3, State
  <2>5. /\ \A x \in Slot : Accepted(sc'.priority[x])
        /\ \A x \in sc'.in_use : sc'.time_slice[x] >= 1
        /\ \A x \in Slot : kn'.priority[x] \in Queue
    BY <1>1, <1>4, State
  <2> QED BY <1>1, <1>4, <1>5, <2>1, <2>2, <2>4, <2>5, State, Tables
<1>8. ASSUME SMP
      PROVE  Loads(sc', declared, Bound) /\ Alone(sc', declared, busy)
  <2>1. Alone(sc', declared, busy)
    BY <1>4, <1>8, Placed DEF Alone
  <2>2. /\ UINT_MAX \in Nat /\ NR_PROCS \in Nat /\ Bound \in Nat
        /\ Bound + NR_PROCS < UINT_MAX
    BY BoundIs, State, Consts
  <2>3. ASSUME NEW x \in Cpu \ {BSP}
        PROVE  /\ x \notin declared => /\ Cardinality(On(sc', x)) <= sc'.cpu_proc[x]
                                       /\ sc'.cpu_proc[x] <= Bound
               /\ x \in declared =>
                    IF Second
                    THEN UINT_MAX + Cardinality(On(sc', x)) <= sc'.cpu_proc[x] + NR_PROCS
                    ELSE sc'.cpu_proc[x] = UINT_MAX
    <3>1. /\ x \notin declared => /\ Cardinality(On(sc, x)) <= sc.cpu_proc[x]
                                  /\ sc.cpu_proc[x] <= Bound
          /\ x \in declared => IF Second
                               THEN UINT_MAX + Cardinality(On(sc, x)) <= sc.cpu_proc[x] + NR_PROCS
                               ELSE sc.cpu_proc[x] = UINT_MAX
      BY <1>8, Placed DEF Loads
    <3>2. /\ Cardinality(On(sc, x)) \in Nat /\ Cardinality(On(sc', x)) \in Nat
          /\ IsFiniteSet(On(sc, x)) /\ sc.cpu_proc[x] \in Nat
      BY <1>4, State, OnFinite, Fields DEF Unsigned
    <3>3. On(sc', x) = On(sc, x) \ {s}
      BY <1>4 DEF On
    <3>4. CASE x # c
      <4>1. sc'.cpu_proc[x] = sc.cpu_proc[x]
        BY <1>4, <3>4, State, Fields
      <4>2. Cardinality(On(sc', x)) <= Cardinality(On(sc, x))
        BY <1>4, <3>3, State, OnLess
      <4> QED BY <2>2, <3>1, <3>2, <4>1, <4>2
    <3>5. CASE x = c
      <4>1. s \in On(sc, x)
        BY <1>1, <3>5 DEF On
      <4>2. Cardinality(On(sc', x)) = Cardinality(On(sc, x)) - 1
        BY <3>2, <3>3, <4>1, FS_RemoveElement
      <4>3. sc'.cpu_proc[x] = Decrement(sc.cpu_proc[x])
        BY <1>2, <1>4, <1>8, <3>5, State, Fields
      <4>4. sc.cpu_proc[x] # 0 => sc'.cpu_proc[x] = sc.cpu_proc[x] - 1
        BY <1>2, <3>5, <4>3, Counting
      <4>5. CASE x \notin declared
        BY <2>2, <3>1, <3>2, <4>2, <4>4, <4>5
      <4>6. CASE x \in declared /\ Second
        BY <2>2, <3>1, <3>2, <4>2, <4>4, <4>6
      <4>7. CASE x \in declared /\ ~Second
        <5>1. s # busy
          BY <1>6, Consts
        <5>2. sc.cpu[s] = BSP
          BY <1>1, <1>8, <4>7, <5>1, Placed DEF Alone
        <5> QED BY <3>5, <5>2
      <4> QED BY <4>5, <4>6, <4>7
    <3> QED BY <3>4, <3>5
  <2> QED BY <2>1, <2>3 DEF Loads
<1>9. PInv'
  <2>1. Bound' = Bound
    BY <1>1 DEF Bound
  <2>2. \A x \in Slot : stage'[x] = "started" => stage[x] = "started"
    BY <1>5
  <2> QED BY <1>1, <1>4, <1>8, <2>1, <2>2, Placed, Undeclared, Placement
<1> QED BY <1>7, <1>9 DEF SInv

\* A slot that is not in use may be filled as far as do_start_scheduling gets.
LEMMA FailStep ==
  ASSUME SInv, NEW s \in Slot, stage[s] = "forked",
         sc' \in SchedState, sc'.in_use = sc.in_use, sc'.cpu_proc = sc.cpu_proc,
         Accepted(sc'.priority[s]),
         \A x \in Slot : x # s =>
           /\ sc'.parent[x] = sc.parent[x] /\ sc'.priority[x] = sc.priority[x]
           /\ sc'.time_slice[x] = sc.time_slice[x] /\ sc'.cpu[x] = sc.cpu[x],
         stage' = [stage EXCEPT ![s] = "failed"],
         UNCHANGED <<kn, ooq, busy, declared, build>>
  PROVE  SInv'
<1>1. /\ stage' \in [Slot -> Stage]
      /\ \A x \in Slot : stage'[x] = IF x = s THEN "failed" ELSE stage[x]
  BY State DEF Stage
<1>2. s \notin sc.in_use /\ s # busy
  BY State
<1>3. TInv'
  <2>1. \A x \in Slot : x \in sc'.in_use <=> stage'[x] \in {"starting", "started"}
    BY <1>1, <1>2, State
  <2>2. \A x \in Slot : stage'[x] = "starting" <=> x = busy'
    BY <1>1, <1>2, State
  <2>3. \A x \in Slot : stage'[x] = "started" => stage[x] = "started" /\ x # s
    BY <1>1
  <2>4. \A x \in Slot : stage'[x] = "started" =>
        /\ kn'.priority[x] = sc'.priority[x] \/ (Lab = 5 /\ sc'.priority[x] = UINT_MAX)
        /\ kn'.quantum[x] = sc'.time_slice[x]
    BY <2>3, State
  <2>5. /\ \A x \in Slot : Accepted(sc'.priority[x])
        /\ \A x \in sc'.in_use : sc'.time_slice[x] >= 1
        /\ \A x \in Slot : kn'.priority[x] \in Queue
    BY <1>2, State
  <2> QED BY <1>1, <2>1, <2>2, <2>4, <2>5, State, Tables
<1>4. ASSUME SMP
      PROVE  Loads(sc', declared, Bound) /\ Alone(sc', declared, busy)
  <2>1. \A x \in sc.in_use : x \in Slot /\ x # s
    BY <1>2, State
  <2>2. \A x : On(sc', x) = On(sc, x)
    BY <2>1 DEF On
  <2> QED BY <1>4, <2>1, <2>2, Placed DEF Loads, Alone
<1>5. PInv'
  <2>1. Bound' = Bound
    BY DEF Bound
  <2>2. \A x \in Slot : stage'[x] = "started" => stage[x] = "started" /\ x # s
    BY <1>1
  <2> QED BY <1>4, <2>1, <2>2, Placed, Undeclared, Placement
<1> QED BY <1>3, <1>5 DEF SInv

LEMMA StartStep ==
  ASSUME SInv, NEW s \in Slot, NEW par \in Slot \cup {None}, NEW max \in Unsigned,
         NEW quantum \in Nat, Explicit(s, par) => quantum >= 1,
         do_start_scheduling(s, par, max, quantum)
  PROVE  SInv'
<1> DEFINE p == populate(s, par, max, quantum)
           t == [p EXCEPT !.in_use = @ \cup {s}]
           prio == IF Explicit(s, par) THEN max ELSE sc.priority[par]
           slice == IF Explicit(s, par) THEN quantum ELSE sc.time_slice[par]
           first == IF SMP /\ par = s THEN BSP ELSE sc.cpu[s]
<1>0. stage[s] = "forked" /\ Receive /\ UNCHANGED <<ooq, declared, build>>
  BY DEF do_start_scheduling
<1>1. s \notin sc.in_use /\ s # busy
  BY <1>0, State
<1>2. ~Explicit(s, par) => par \in Slot
  BY DEF Explicit
<1>3. CASE max >= NR_SCHED_QUEUES \/ (~Explicit(s, par) /\ par \notin sc.in_use)
  <2>1. /\ sc' = [sc EXCEPT !.parent[s] = par, !.max_priority[s] = max]
        /\ stage' = [stage EXCEPT ![s] = "failed"] /\ UNCHANGED <<kn, busy>>
    BY <1>1, <1>3 DEF do_start_scheduling
  <2>2. /\ [sc.parent EXCEPT ![s] = par] \in [Slot -> Slot \cup {None}]
        /\ [sc.max_priority EXCEPT ![s] = max] \in [Slot -> Unsigned]
    BY State, Fields
  <2>3. /\ sc' \in SchedState /\ sc'.in_use = sc.in_use
        /\ sc'.parent = [sc.parent EXCEPT ![s] = par]
        /\ sc'.priority = sc.priority /\ sc'.time_slice = sc.time_slice /\ sc'.cpu = sc.cpu
        /\ sc'.cpu_proc = sc.cpu_proc
    BY <2>1, <2>2, State DEF SchedState
  <2>4. \A x \in Slot : x # s => sc'.parent[x] = sc.parent[x]
    BY <2>3, State, Fields
  <2>5. Accepted(sc'.priority[s])
    BY <2>3, State
  <2> QED BY <1>0, <2>1, <2>3, <2>4, <2>5, FailStep
<1>4. CASE ~(max >= NR_SCHED_QUEUES) /\ ~(~Explicit(s, par) /\ par \notin sc.in_use)
  <2>1. Accepted(prio)
    BY <1>2, <1>4, State, Consts DEF Accepted, Queue, Unsigned
  <2>2. slice \in Nat /\ slice >= 1
    <3>1. CASE Explicit(s, par)
      BY <3>1
    <3>2. CASE ~Explicit(s, par)
      BY <1>2, <1>4, <3>2, State, Fields
    <3> QED BY <3>1, <3>2
  <2>3. prio \in Unsigned /\ first \in Cpu
    BY <2>1, AcceptedInt, State, Fields, Consts
  <2> HIDE DEF prio, slice, first
  <2>4. /\ [sc.parent EXCEPT ![s] = par] \in [Slot -> Slot \cup {None}]
        /\ [sc.max_priority EXCEPT ![s] = max] \in [Slot -> Unsigned]
        /\ [sc.priority EXCEPT ![s] = prio] \in [Slot -> Unsigned]
        /\ [sc.time_slice EXCEPT ![s] = slice] \in [Slot -> Nat]
        /\ [sc.cpu EXCEPT ![s] = first] \in [Slot -> Cpu]
        /\ sc.in_use \cup {s} \in SUBSET Slot
    BY <2>2, <2>3, State, Fields
  <2>5. p = [sc EXCEPT !.parent = [sc.parent EXCEPT ![s] = par],
                       !.max_priority = [sc.max_priority EXCEPT ![s] = max],
                       !.priority = [sc.priority EXCEPT ![s] = prio],
                       !.time_slice = [sc.time_slice EXCEPT ![s] = slice],
                       !.cpu = [sc.cpu EXCEPT ![s] = first]]
    BY State DEF populate, SchedState, prio, slice, first
  <2>6. /\ p \in SchedState /\ p.in_use = sc.in_use
         /\ p.parent = [sc.parent EXCEPT ![s] = par]
         /\ p.priority = [sc.priority EXCEPT ![s] = prio]
         /\ p.time_slice = [sc.time_slice EXCEPT ![s] = slice]
         /\ p.cpu = [sc.cpu EXCEPT ![s] = first] /\ p.cpu_proc = sc.cpu_proc
    <3> HIDE DEF p
    <3> QED BY <2>4, <2>5, State DEF SchedState
  <2> HIDE DEF p
  <2>7. /\ t \in SchedState /\ t.in_use = sc.in_use \cup {s} /\ t.parent = p.parent
        /\ t.priority = p.priority /\ t.time_slice = p.time_slice /\ t.cpu = p.cpu
        /\ t.cpu_proc = sc.cpu_proc
    BY <2>4, <2>6 DEF SchedState
  <2> HIDE DEF t
  <2>8. /\ p.priority[s] = prio /\ p.time_slice[s] = slice
         /\ \A x \in Slot : x # s => /\ p.priority[x] = sc.priority[x]
                                     /\ p.time_slice[x] = sc.time_slice[x]
                                     /\ p.parent[x] = sc.parent[x]
                                     /\ p.cpu[x] = sc.cpu[x]
    BY <2>6, State, Fields
  <2>9. CASE /\ sc' = p /\ stage' = [stage EXCEPT ![s] = "failed"]
              /\ UNCHANGED <<kn, busy>>
    BY <1>0, <2>1, <2>6, <2>8, <2>9, FailStep
  <2>10. CASE /\ sc' = pick_cpu(t, s) /\ busy' = s
              /\ stage' = [stage EXCEPT ![s] = "starting"]
              /\ kn' = [kn EXCEPT !.ours = @ \cup {s}]
    <3>1. /\ sc' \in SchedState /\ sc'.in_use = sc.in_use \cup {s}
          /\ sc'.parent = t.parent /\ sc'.priority = t.priority /\ sc'.time_slice = t.time_slice
          /\ sc'.cpu = [t.cpu EXCEPT ![s] = Chosen(t, s)]
      <4>1. /\ pick_cpu(t, s) \in SchedState /\ pick_cpu(t, s).in_use = t.in_use
            /\ pick_cpu(t, s).parent = t.parent /\ pick_cpu(t, s).priority = t.priority
            /\ pick_cpu(t, s).time_slice = t.time_slice
            /\ pick_cpu(t, s).cpu = [t.cpu EXCEPT ![s] = Chosen(t, s)]
        BY <2>7, Picks
      <4> QED BY <2>10, <2>7, <4>1
    <3>2. /\ sc'.priority[s] = prio /\ sc'.time_slice[s] = slice
          /\ \A x \in Slot : x # s => /\ sc'.priority[x] = sc.priority[x]
                                      /\ sc'.time_slice[x] = sc.time_slice[x]
                                      /\ sc'.parent[x] = sc.parent[x]
                                      /\ sc'.cpu[x] = sc.cpu[x]
      BY <2>7, <2>6, <2>8, <3>1, Fields
    <3>3. /\ kn' \in KernelState /\ kn'.priority = kn.priority /\ kn'.quantum = kn.quantum
           /\ kn'.cpu = kn.cpu
      BY <2>10, State DEF KernelState
    <3>4. /\ stage' \in [Slot -> Stage]
           /\ \A x \in Slot : stage'[x] = IF x = s THEN "starting" ELSE stage[x]
      BY <2>10, State DEF Stage
    <3>5. busy = None
      BY <1>0 DEF Receive
    <3>6. TInv'
      <4>1. \A x \in Slot : x \in sc'.in_use <=> stage'[x] \in {"starting", "started"}
        BY <3>1, <3>4, State
      <4>2. \A x \in Slot : stage'[x] = "starting" <=> x = busy'
        BY <2>10, <3>4, <3>5, State, Consts
      <4>3. \A x \in Slot : stage'[x] = "started" => stage[x] = "started" /\ x # s
        BY <3>4
      <4>4. \A x \in Slot : stage'[x] = "started" =>
            /\ kn'.priority[x] = sc'.priority[x] \/ (Lab = 5 /\ sc'.priority[x] = UINT_MAX)
            /\ kn'.quantum[x] = sc'.time_slice[x]
        BY <3>2, <3>3, <4>3, State
      <4>5. \A x \in Slot : Accepted(sc'.priority[x])
        BY <2>1, <3>2, State
      <4>6. \A x \in sc'.in_use : sc'.time_slice[x] >= 1
        BY <2>2, <3>1, <3>2, State
      <4>7. \A x \in Slot : kn'.priority[x] \in Queue
        BY <3>3, State
      <4> QED BY <1>0, <2>10, <3>1, <3>3, <3>4, <4>1, <4>2, <4>4, <4>5, <4>6, <4>7,
                 State, Tables
    <3>7. ASSUME SMP
           PROVE  Loads(sc', declared, Bound') /\ Alone(sc', declared, busy')
      <4>1. Loads(sc, declared, MaxLoad)
        BY <1>0, <3>7, ReceiveLoads
      <4>2. /\ MaxLoad \in Nat /\ MaxLoad + NR_PROCS < UINT_MAX
            /\ Cardinality(declared) \in Nat /\ NR_PROCS \in Nat /\ NR_PROCS > 0
        BY State, BoundIs, Consts
      <4>3. ButFor(t, sc, s)
        BY <2>7, <2>8 DEF ButFor
      <4>4. Loads(sc', declared, MaxLoad + 1)
        BY <2>10, <2>7, <3>7, <4>1, <4>2, <4>3, PickLoads, State, Placed
      <4>5. Bound' = MaxLoad + NR_PROCS + Cardinality(declared) + 0
        BY <1>0, <2>10, Consts DEF Bound
      <4>6. Bound' \in Int /\ MaxLoad + 1 <= Bound'
        BY <4>2, <4>5
      <4>7. Loads(sc', declared, Bound')
        BY <3>1, <4>2, <4>4, <4>6, LoadsMore
      <4>8. Alone(sc', declared, s)
        <5>1. \A x \in sc'.in_use \ {s} : x \in sc.in_use \ {busy} /\ x \in Slot /\ x # s
          BY <3>1, <3>5, State, Consts
        <5> QED BY <3>2, <3>7, <5>1, Placed DEF Alone
      <4> QED BY <2>10, <4>7, <4>8
    <3>8. PInv'
      <4>1. \A x \in Slot : stage'[x] = "started" => stage[x] = "started" /\ x # s
        BY <3>4
      <4> QED BY <1>0, <3>2, <3>3, <3>7, <4>1, Placed, Undeclared, Placement
    <3> QED BY <3>6, <3>8 DEF SInv
  <2> QED BY <1>1, <1>4, <2>9, <2>10 DEF do_start_scheduling, t, p
<1> QED BY <1>3, <1>4

\* One round of the loop: the process runs, or one more CPU is refused.
LEMMA LoopStep ==
  ASSUME SInv, start_loop
  PROVE  SInv'
<1> DEFINE s == busy
           x == Chosen(sc, s)
           t == pick_cpu(sc, s)
           u == [t EXCEPT !.cpu_proc[t.cpu[s]] = CPU_DEAD]
<1>0. busy # None /\ s \in Slot /\ stage[s] = "starting" /\ s \in sc.in_use
  BY State DEF start_loop
<1>1. /\ kn' = schedule_kernel(kn, sc, s, TRUE) /\ UNCHANGED <<ooq, build>>
      /\ IF schedule_error(sc, s, TRUE) = "EBADCPU"
         THEN /\ sc' = pick_cpu(u, s) /\ declared' = declared \cup {t.cpu[s]}
              /\ UNCHANGED <<busy, stage>>
         ELSE /\ sc' = t /\ busy' = None
              /\ stage' = [stage EXCEPT ![s] = IF schedule_error(sc, s, TRUE) = "OK"
                                               THEN "started" ELSE "failed"]
              /\ UNCHANGED declared
  BY DEF start_loop
<1>2. /\ t \in SchedState /\ t.in_use = sc.in_use /\ t.parent = sc.parent
      /\ t.priority = sc.priority /\ t.time_slice = sc.time_slice
      /\ t.cpu = [sc.cpu EXCEPT ![s] = x] /\ t.cpu[s] = x
  BY <1>0, State, Picks
<1>3. Accepted(sc.priority[s]) /\ sc.time_slice[s] >= 1
  BY <1>0, State
<1>4. schedule_error(sc, s, TRUE) = IF SMP /\ x \notin Ready THEN "EBADCPU" ELSE "OK"
  BY <1>0, <1>3, State, Errors
<1>5. x \in Cpu
  BY ChosenCpu
<1>6. ButFor(sc, sc, s)
  BY DEF ButFor
<1> HIDE DEF x, t
<1>7. CASE SMP /\ x \notin Ready
  <2>1. schedule_error(sc, s, TRUE) = "EBADCPU"
    BY <1>4, <1>7
  <2>2. /\ kn' = kn /\ sc' = pick_cpu(u, s) /\ declared' = declared \cup {x}
        /\ UNCHANGED <<busy, stage, ooq, build>>
    BY <1>1, <1>2, <2>1 DEF schedule_kernel
  <2>3. UINT_MAX \in Unsigned /\ UINT_MAX \in Nat /\ NR_PROCS \in Nat
    BY Consts DEF Unsigned
  <2>4. /\ u \in SchedState /\ u.in_use = sc.in_use /\ u.parent = sc.parent
        /\ u.priority = sc.priority /\ u.time_slice = sc.time_slice /\ u.cpu = t.cpu
        /\ u.cpu_proc = [t.cpu_proc EXCEPT ![x] = UINT_MAX]
    <3>1. [t.cpu_proc EXCEPT ![x] = UINT_MAX] \in [Cpu -> Unsigned]
      BY <1>2, <2>3, Fields
    <3>2. u = [t EXCEPT !.cpu_proc = [t.cpu_proc EXCEPT ![x] = UINT_MAX]]
      BY <1>2 DEF CPU_DEAD
    <3> HIDE DEF u
    <3> QED BY <1>2, <3>1, <3>2 DEF SchedState
  <2> HIDE DEF u
  <2>5. /\ sc' \in SchedState /\ sc'.in_use = sc.in_use /\ sc'.parent = sc.parent
        /\ sc'.priority = sc.priority /\ sc'.time_slice = sc.time_slice
        /\ sc'.cpu = [u.cpu EXCEPT ![s] = Chosen(u, s)]
    BY <1>0, <2>2, <2>4, Picks
  <2>6. declared' \subseteq Cpu
    BY <1>5, <2>2, State
  <2>7. TInv'
    BY <2>2, <2>5, <2>6, State, Tables
  <2>8. Bound \in Nat /\ Bound + NR_PROCS < UINT_MAX /\ IsFiniteSet(declared)
        /\ Cardinality(declared) \in Nat /\ MaxLoad \in Nat
    BY State, BoundIs
  <2>9. x \notin declared /\ (declared = Cpu \ {BSP} => x = BSP)
    BY <1>0, <1>6, <1>7, <2>8, State, Placed, PickLoads DEF x
  <2>10. x # BSP
    BY <1>7, Consts
  <2>11. Loads(u, declared', Bound)
    <3>1. ASSUME NEW c \in Cpu \ {BSP}
          PROVE  /\ c \notin declared' => /\ Cardinality(On(u, c)) <= u.cpu_proc[c]
                                          /\ u.cpu_proc[c] <= Bound
                 /\ c \in declared' =>
                      IF Second
                      THEN UINT_MAX + Cardinality(On(u, c)) <= u.cpu_proc[c] + NR_PROCS
                      ELSE u.cpu_proc[c] = UINT_MAX
      <4>1. /\ Cardinality(On(u, c)) \in Nat /\ Cardinality(On(u, c)) <= NR_PROCS
            /\ Cardinality(On(sc, c)) \in Nat /\ sc.cpu_proc[c] \in Nat
        BY <2>4, State, OnFinite, Fields DEF Unsigned
      <4>2. CASE c = x
        <5>1. u.cpu_proc[c] = UINT_MAX /\ c \in declared'
          BY <1>2, <1>5, <2>2, <2>4, <4>2, Fields
        <5> QED BY <2>3, <4>1, <5>1
      <4>3. CASE c # x
        <5>1. u.cpu_proc[c] = t.cpu_proc[c] /\ On(u, c) = On(t, c)
          BY <1>2, <2>4, <4>3, Fields DEF On
        <5>2. /\ t.cpu_proc[c] = sc.cpu_proc[c]
              /\ Cardinality(On(t, c)) <= Cardinality(On(sc, c))
          BY <1>0, <1>6, <4>3, State, PickOthers DEF t, x
        <5>3. /\ c \notin declared => /\ Cardinality(On(sc, c)) <= sc.cpu_proc[c]
                                      /\ sc.cpu_proc[c] <= Bound
              /\ c \in declared =>
                   IF Second
                   THEN UINT_MAX + Cardinality(On(sc, c)) <= sc.cpu_proc[c] + NR_PROCS
                   ELSE sc.cpu_proc[c] = UINT_MAX
          BY <1>7, Placed DEF Loads
        <5>4. c \in declared' <=> c \in declared
          BY <2>2, <4>3
        <5> QED BY <2>3, <2>8, <4>1, <5>1, <5>2, <5>3, <5>4
      <4> QED BY <4>2, <4>3
    <3> QED BY <3>1 DEF Loads
  <2>12. declared' \cap Ready = {}
    BY <1>7, <2>2, Placed
  <2>13. Loads(sc', declared', Bound + 1)
    <3>1. ButFor(u, u, s)
      BY DEF ButFor
    <3> QED BY <1>0, <1>7, <2>2, <2>4, <2>6, <2>8, <2>11, <2>12, <3>1, PickLoads
  <2>14. Bound' = Bound + 1
    <3>1. Cardinality(declared') = Cardinality(declared) + 1
      BY <2>2, <2>8, <2>9, FS_AddElement
    <3>2. Bound = MaxLoad + NR_PROCS + Cardinality(declared) + 0
      BY <1>0 DEF Bound
    <3>3. Bound' = MaxLoad + NR_PROCS + Cardinality(declared') + 0
      BY <1>0, <2>2 DEF Bound
    <3> QED BY <2>3, <2>8, <3>1, <3>2, <3>3
  <2>15. Alone(sc', declared', busy')
    <3>1. ASSUME ~Second, NEW y \in sc'.in_use \ {busy'}
          PROVE  sc'.cpu[y] = BSP /\ sc'.parent[y] = None
      <4>1. y \in Slot /\ y # s /\ y \in sc.in_use \ {busy}
        BY <2>2, <2>5, <3>1, State
      <4>2. sc'.cpu[y] = sc.cpu[y]
        BY <1>0, <1>2, <2>4, <2>5, <4>1, State, Fields
      <4>3. sc.cpu[y] = BSP /\ (sc.parent[y] # None => declared = Cpu \ {BSP})
        BY <1>7, <3>1, <4>1, Placed DEF Alone
      <4> QED BY <2>5, <2>9, <2>10, <4>2, <4>3
    <3> QED BY <3>1 DEF Alone
  <2>16. PInv'
    <3>1. \A y \in Slot : stage'[y] = "started" =>
            /\ kn'.cpu[y] \in Ready
            /\ sc'.parent[y] = None => kn'.cpu[y] = BSP
      BY <1>7, <2>2, <2>5, Placed
    <3>2. Loads(sc', declared', Bound')
      BY <2>13, <2>14
    <3>3. build' = build
      BY <2>2
    <3> QED BY <1>7, <2>12, <2>15, <3>1, <3>2, <3>3, Placement
  <2> QED BY <2>7, <2>16 DEF SInv
<1>8. CASE ~(SMP /\ x \notin Ready)
  <2>1. schedule_error(sc, s, TRUE) = "OK"
    BY <1>4, <1>8
  <2>2. /\ sc' = t /\ busy' = None /\ stage' = [stage EXCEPT ![s] = "started"]
        /\ UNCHANGED <<declared, ooq, build>>
    BY <1>1, <2>1
  <2>3. Scheduled(kn', kn, sc, s, TRUE)
    BY <1>0, <1>1, <1>3, <1>8, State, KernelSchedules DEF x
  <2>4. /\ kn' \in KernelState
        /\ \A y \in Slot :
             /\ kn'.priority[y] = IF y = s /\ sc.priority[s] # UINT_MAX
                                  THEN sc.priority[s] ELSE kn.priority[y]
             /\ kn'.quantum[y] = IF y = s THEN sc.time_slice[s] ELSE kn.quantum[y]
             /\ kn'.cpu[y] = IF y = s /\ SMP THEN x ELSE kn.cpu[y]
    BY <2>3 DEF Scheduled, x
  <2>5. /\ stage' \in [Slot -> Stage]
        /\ \A y \in Slot : stage'[y] = IF y = s THEN "started" ELSE stage[y]
    BY <1>0, <2>2, State DEF Stage
  <2>6. TInv'
    <3>1. \A y \in Slot : y \in sc'.in_use <=> stage'[y] \in {"starting", "started"}
      BY <1>0, <1>2, <2>2, <2>5, State
    <3>2. \A y \in Slot : stage'[y] = "starting" <=> y = busy'
      BY <1>0, <2>2, <2>5, State, Consts
    <3>3. sc.priority[s] # UINT_MAX => sc.priority[s] \in Queue
      BY <1>3, AcceptedInt
    <3>4. sc.priority[s] = UINT_MAX => Lab = 5
      BY <1>3, Consts DEF Accepted, Queue
    <3>5. ASSUME NEW y \in Slot, stage'[y] = "started"
          PROVE  /\ kn'.priority[y] = sc'.priority[y] \/ (Lab = 5 /\ sc'.priority[y] = UINT_MAX)
                 /\ kn'.quantum[y] = sc'.time_slice[y]
      <4>1. CASE y = s
        BY <1>2, <2>2, <2>4, <3>4, <4>1
      <4>2. CASE y # s
        <5>1. stage[y] = "started"
          BY <2>5, <3>5, <4>2
        <5>2. kn'.priority[y] = kn.priority[y] /\ kn'.quantum[y] = kn.quantum[y]
          BY <2>4, <4>2
        <5> QED BY <1>2, <2>2, <5>1, <5>2, State
      <4> QED BY <4>1, <4>2
    <3>6. /\ \A y \in Slot : Accepted(sc'.priority[y])
          /\ \A y \in sc'.in_use : sc'.time_slice[y] >= 1
      BY <1>2, <2>2, State
    <3>7. \A y \in Slot : kn'.priority[y] \in Queue
      BY <2>4, <3>3, State
    <3> QED BY <1>2, <2>2, <2>4, <2>5, <3>1, <3>2, <3>5, <3>6, <3>7, State, Tables
  <2>7. ASSUME SMP
        PROVE  Loads(sc', declared', Bound') /\ Alone(sc', declared', busy')
    <3>1. Bound \in Nat /\ Bound + NR_PROCS < UINT_MAX
      BY State, BoundIs
    <3>2. /\ Loads(sc', declared, Bound + 1)
          /\ x = BSP /\ sc.parent[s] # None => declared = Cpu \ {BSP}
      BY <1>0, <1>6, <2>2, <2>7, <3>1, State, Placed, PickLoads DEF x, t
    <3>3. Bound' = Bound + 1
      <4>1. Bound = MaxLoad + NR_PROCS + Cardinality(declared) + 0
        BY <1>0 DEF Bound
      <4>2. Bound' = MaxLoad + NR_PROCS + Cardinality(declared) + 1
        BY <2>2 DEF Bound
      <4> QED BY <4>1, <4>2, State, BoundIs, Consts
    <3>4. ASSUME ~Second, NEW y \in sc'.in_use \ {busy'}
          PROVE  sc'.cpu[y] = BSP /\ (sc'.parent[y] # None => declared = Cpu \ {BSP})
      <4>1. CASE y = s
        <5>1. x = BSP
          BY <1>5, <1>8, <2>7, <3>4 DEF Second
        <5> QED BY <1>2, <2>2, <3>2, <4>1, <5>1
      <4>2. CASE y # s
        <5>1. y \in Slot /\ y \in sc.in_use \ {busy}
          BY <1>2, <2>2, <3>4, <4>2, State
        <5>2. sc'.cpu[y] = sc.cpu[y] /\ sc'.parent[y] = sc.parent[y]
          BY <1>0, <1>2, <2>2, <4>2, <5>1, State, Fields
        <5> QED BY <2>7, <3>4, <5>1, <5>2, Placed DEF Alone
      <4> QED BY <4>1, <4>2
    <3>5. Alone(sc', declared, busy')
      BY <3>4 DEF Alone
    <3> QED BY <2>2, <3>2, <3>3, <3>5
  <2>8. PInv'
    <3>1. ASSUME SMP, NEW y \in Slot, stage'[y] = "started"
          PROVE  /\ kn'.cpu[y] \in Ready
                 /\ sc'.parent[y] = None => kn'.cpu[y] = BSP
      <4>1. CASE y = s
        <5>1. kn'.cpu[y] = x /\ x \in Ready
          BY <1>8, <2>4, <3>1, <4>1
        <5>2. sc.parent[s] = None => x = BSP
          BY <3>1 DEF x, Chosen
        <5> QED BY <1>2, <2>2, <4>1, <5>1, <5>2
      <4>2. CASE y # s
        <5>1. stage[y] = "started" /\ kn'.cpu[y] = kn.cpu[y]
          BY <2>4, <2>5, <3>1, <4>2
        <5> QED BY <1>2, <2>2, <3>1, <5>1, Placed
      <4> QED BY <4>1, <4>2
    <3>2. SMP => declared' \cap Ready = {}
      BY <2>2, Placed
    <3> QED BY <2>2, <2>7, <3>1, <3>2, Undeclared, Placement
  <2> QED BY <2>6, <2>8 DEF SInv
<1> QED BY <1>7, <1>8
---------------------------------------------------------------------------
(* balance_queues.                                                         *)

Pulled(q) == IF Lab = 3 THEN BalanceLab3(q) ELSE BalanceLab5(q)

\* The loop has come from table v to slot n - 1.
Visit(t, v, n) ==
  IF n - 1 \notin Lowered(t) THEN v
  ELSE pick_cpu([v EXCEPT !.priority[n - 1] = Pulled(@)], n - 1)

\* f holds the tables of the first n rounds.
Rounds(f, t, n) == f = [i \in 0 .. n |-> IF i = 0 THEN t ELSE Visit(t, f[i - 1], i)]

LEMMA RoundsExist ==
  ASSUME NEW t
  PROVE  \A n \in Nat : \E f : Rounds(f, t, n)
<1> DEFINE S == {n \in Nat : \E f : Rounds(f, t, n)}
<1>1. 0 \in S
  <2>1. Rounds([i \in 0 .. 0 |-> t], t, 0)
    BY DEF Rounds
  <2> QED BY <2>1
<1>2. ASSUME NEW n \in Nat, n \in S PROVE n + 1 \in S
  <2>1. PICK f : Rounds(f, t, n)
    BY <1>2
  <2> DEFINE g == [i \in 0 .. n + 1 |-> IF i # n + 1 THEN f[i] ELSE Visit(t, f[n], n + 1)]
  <2>2. ASSUME NEW i \in 0 .. n + 1
        PROVE  g[i] = IF i = 0 THEN t ELSE Visit(t, g[i - 1], i)
    <3>1. CASE i = n + 1
      <4>1. i # 0 /\ i - 1 = n /\ n \in 0 .. n + 1 /\ n # n + 1
        BY <3>1
      <4>2. g[i - 1] = f[n]
        BY <4>1
      <4> QED BY <3>1, <4>1, <4>2
    <3>2. CASE i = 0
      <4>1. f[0] = t
        BY <2>1 DEF Rounds
      <4> QED BY <3>2, <4>1
    <3>3. CASE i # 0 /\ i # n + 1
      <4>1. i \in 0 .. n /\ i - 1 \in 0 .. n + 1 /\ i - 1 # n + 1
        BY <3>3
      <4>2. f[i] = Visit(t, f[i - 1], i)
        BY <2>1, <3>3, <4>1 DEF Rounds
      <4>3. g[i - 1] = f[i - 1] /\ g[i] = f[i]
        BY <3>3, <4>1
      <4> QED BY <3>3, <4>2, <4>3
    <3> QED BY <3>1, <3>2, <3>3
  <2>3. Rounds(g, t, n + 1)
    BY <2>2 DEF Rounds
  <2> QED BY <2>3
<1>3. \A n \in Nat : n \in S
  <2> HIDE DEF S
  <2> QED BY <1>1, <1>2, SetInduction
<1> QED BY <1>3

LEMMA BalancedIs ==
  ASSUME NEW t
  PROVE  \E f : Rounds(f, t, NR_PROCS) /\ Balanced(t) = f[NR_PROCS]
<1>1. \E f : Rounds(f, t, NR_PROCS)
  BY RoundsExist, Consts
<1> DEFINE F == CHOOSE f : Rounds(f, t, NR_PROCS)
<1>2. Rounds(F, t, NR_PROCS)
  BY <1>1, Zenon
<1>3. Balanced(t) = F[NR_PROCS]
  BY DEF Balanced, Rounds, Visit, Pulled
<1> QED BY <1>2, <1>3

\* The table after the first n rounds.
Pulling(v, n) ==
  /\ v \in SchedState
  /\ v.in_use = sc.in_use /\ v.parent = sc.parent /\ v.max_priority = sc.max_priority
  /\ v.time_slice = sc.time_slice
  /\ \A x \in Slot : v.priority[x] = IF x < n /\ x \in Lowered(sc) THEN Pulled(sc.priority[x])
                                     ELSE sc.priority[x]
  /\ SMP => Loads(v, declared, MaxLoad + n) /\ Alone(v, declared, busy)

LEMMA PulledAccepted ==
  ASSUME SInv, NEW s \in Lowered(sc)
  PROVE  s \in Slot /\ Accepted(Pulled(sc.priority[s])) /\ Pulled(sc.priority[s]) \in Unsigned
<1>1. s \in sc.in_use /\ s \in Slot /\ sc.priority[s] > sc.max_priority[s]
  BY State DEF Lowered
<1>2. sc.max_priority[s] \in Unsigned /\ Accepted(sc.priority[s])
  BY <1>1, State, Fields
<1>3. Accepted(Pulled(sc.priority[s]))
  <2>1. CASE Lab = 3
    BY <1>1, <1>2, <2>1, Consts DEF Accepted, Pulled, BalanceLab3, Queue, Unsigned
  <2>2. CASE Lab = 5
    BY <1>2, <2>2 DEF Pulled, BalanceLab5
  <2> QED BY <2>1, <2>2, State
<1> QED BY <1>1, <1>3, AcceptedInt

LEMMA PullOne ==
  ASSUME SInv, Receive, NEW n \in Slot, NEW v, Pulling(v, n)
  PROVE  Pulling(Visit(sc, v, n + 1), n + 1)
<1>0. n \in Nat /\ n < NR_PROCS /\ n + 1 - 1 = n /\ (\A x \in Slot : x \in Nat)
  BY Consts DEF Slot
<1>1. /\ v \in SchedState
      /\ \A c \in Cpu : v.cpu_proc[c] \in Nat
  BY Fields DEF Pulling, Unsigned
<1>b. /\ MaxLoad + n \in Nat /\ MaxLoad + n + NR_PROCS < UINT_MAX
      /\ MaxLoad + n + 1 = MaxLoad + (n + 1) /\ MaxLoad + (n + 1) \in Nat
  BY <1>0, State, BoundIs, Consts
<1>2. CASE n \notin Lowered(sc)
  <2>1. Visit(sc, v, n + 1) = v
    BY <1>0, <1>2 DEF Visit
  <2>2. \A x \in Slot : x < n + 1 /\ x \in Lowered(sc) <=> x < n /\ x \in Lowered(sc)
    BY <1>0, <1>2
  <2>3. SMP => Loads(v, declared, MaxLoad + (n + 1))
    BY <1>0, <1>1, <1>b, LoadsMore DEF Pulling
  <2> QED BY <2>1, <2>2, <2>3 DEF Pulling
<1>3. CASE n \in Lowered(sc)
  <2> DEFINE w == [v EXCEPT !.priority[n] = Pulled(@)]
             u == pick_cpu(w, n)
  <2>1. Visit(sc, v, n + 1) = u
    BY <1>0, <1>3 DEF Visit
  <2>2. v.priority[n] = sc.priority[n]
    BY <1>0 DEF Pulling
  <2>3. Pulled(sc.priority[n]) \in Unsigned
    BY <1>3, PulledAccepted
  <2>4. w = [v EXCEPT !.priority = [v.priority EXCEPT ![n] = Pulled(sc.priority[n])]]
    BY <2>2
  <2>5. [v.priority EXCEPT ![n] = Pulled(sc.priority[n])] \in [Slot -> Unsigned]
    BY <1>1, <2>3, Fields
  <2>6. /\ w \in SchedState /\ w.in_use = v.in_use /\ w.parent = v.parent
        /\ w.max_priority = v.max_priority /\ w.time_slice = v.time_slice
        /\ w.cpu = v.cpu /\ w.cpu_proc = v.cpu_proc
        /\ w.priority = [v.priority EXCEPT ![n] = Pulled(sc.priority[n])]
    <3> HIDE DEF w
    <3> QED BY <1>1, <2>4, <2>5 DEF SchedState
  <2> HIDE DEF w
  <2>7. /\ u \in SchedState /\ u.in_use = w.in_use /\ u.parent = w.parent
        /\ u.max_priority = w.max_priority /\ u.time_slice = w.time_slice
        /\ u.priority = w.priority
    BY <2>6, Picks
  <2>8. ButFor(w, v, n)
    BY <2>6 DEF ButFor
  <2>9. ASSUME SMP
        PROVE  Loads(u, declared, MaxLoad + (n + 1)) /\ Alone(u, declared, busy)
    <3>1. Loads(v, declared, MaxLoad + n) /\ Alone(v, declared, busy)
      BY <2>9 DEF Pulling
    <3>2. Loads(u, declared, MaxLoad + n + 1)
      BY <1>1, <1>b, <2>6, <2>8, <2>9, <3>1, PickLoads, Placed
    <3>3. Alone(u, declared, busy)
      BY <1>1, <1>b, <2>6, <2>8, <2>9, <3>1, PickAlone, Placed
    <3> QED BY <1>b, <3>2, <3>3
  <2>10. \A x \in Slot : u.priority[x] = IF x < n + 1 /\ x \in Lowered(sc)
                                         THEN Pulled(sc.priority[x]) ELSE sc.priority[x]
    <3> TAKE x \in Slot
    <3>1. CASE x = n
      <4>1. u.priority[x] = Pulled(sc.priority[n])
        BY <1>1, <2>6, <2>7, <3>1, Fields
      <4> QED BY <1>0, <1>3, <3>1, <4>1
    <3>2. CASE x # n
      <4>1. u.priority[x] = v.priority[x]
        BY <1>1, <2>6, <2>7, <3>2, Fields
      <4>2. x < n + 1 <=> x < n
        BY <1>0, <3>2
      <4> QED BY <4>1, <4>2 DEF Pulling
    <3> QED BY <3>1, <3>2
  <2> HIDE DEF u
  <2>11. Pulling(u, n + 1)
    BY <2>6, <2>7, <2>9, <2>10 DEF Pulling
  <2> QED BY <2>1, <2>11
<1> QED BY <1>2, <1>3

LEMMA PullAll ==
  ASSUME SInv, Receive
  PROVE  Pulling(Balanced(sc), NR_PROCS)
<1>1. PICK f : Rounds(f, sc, NR_PROCS) /\ Balanced(sc) = f[NR_PROCS]
  BY BalancedIs
<1> DEFINE S == {n \in Nat : n <= NR_PROCS => Pulling(f[n], n)}
<1>2. 0 \in S
  <2>1. f[0] = sc
    BY <1>1, Consts DEF Rounds
  <2>2. \A x \in Slot : ~(x < 0)
    BY Consts DEF Slot
  <2>3. SMP => Loads(sc, declared, MaxLoad + 0)
    BY ReceiveLoads, BoundIs, State
  <2>4. Pulling(sc, 0)
    BY <2>2, <2>3, State, Placed DEF Pulling
  <2> QED BY <2>1, <2>4
<1>3. ASSUME NEW n \in Nat, n \in S PROVE n + 1 \in S
  <2>1. CASE n + 1 <= NR_PROCS
    <3>1. n \in Slot /\ Pulling(f[n], n)
      BY <1>3, <2>1, Consts DEF Slot
    <3>2. f[n + 1] = Visit(sc, f[n], n + 1)
      <4>1. n + 1 \in 0 .. NR_PROCS /\ n + 1 # 0 /\ n + 1 - 1 = n
        BY <2>1, Consts
      <4>2. \A i \in 0 .. NR_PROCS : f[i] = IF i = 0 THEN sc ELSE Visit(sc, f[i - 1], i)
        BY <1>1, Zenon DEF Rounds
      <4>3. f[n + 1] = IF n + 1 = 0 THEN sc ELSE Visit(sc, f[n + 1 - 1], n + 1)
        BY <4>1, <4>2
      <4> QED BY <4>1, <4>3
    <3>3. Pulling(f[n + 1], n + 1)
      BY <3>1, <3>2, PullOne
    <3> QED BY <3>3
  <2>2. CASE ~(n + 1 <= NR_PROCS)
    BY <2>2
  <2> QED BY <2>1, <2>2
<1>4. \A n \in Nat : n \in S
  <2> HIDE DEF S
  <2> QED BY <1>2, <1>3, SetInduction
<1>5. NR_PROCS \in S
  BY <1>4, Consts
<1> QED BY <1>1, <1>5, Consts

LEMMA BalanceStep ==
  ASSUME SInv, balance_queues
  PROVE  SInv'
<1> DEFINE t == Balanced(sc)
           sent == {s \in Lowered(sc) : schedule_error(t, s, FALSE) = "OK"}
           pr == [s \in Slot |-> IF s \in sent /\ AsInt(t.priority[s]) # -1
                                 THEN t.priority[s] ELSE kn.priority[s]]
<1>1. /\ Receive /\ sc' = t /\ UNCHANGED <<stage, ooq, busy, declared, build>>
      /\ kn' = [kn EXCEPT !.priority = pr, !.noq = kn.noq \ sent]
  BY DEF balance_queues
<1>2. Pulling(t, NR_PROCS)
  BY <1>1, PullAll
<1> HIDE DEF t
<1>3. \A s \in Slot : t.priority[s] = IF s \in Lowered(sc) THEN Pulled(sc.priority[s])
                                      ELSE sc.priority[s]
  BY <1>2, Consts DEF Pulling, Slot
<1>4. \A s \in Slot : Accepted(t.priority[s])
  BY <1>3, PulledAccepted, State
<1>5. sent = Lowered(sc)
  <2>1. ASSUME NEW s \in Lowered(sc) PROVE schedule_error(t, s, FALSE) = "OK"
    <3>1. s \in Slot /\ s \in sc.in_use
      BY State DEF Lowered
    <3>2. t.time_slice[s] >= 1 /\ t \in SchedState /\ Accepted(t.priority[s])
      BY <1>2, <1>4, <3>1, State DEF Pulling
    <3> QED BY <3>1, <3>2, Errors
  <2> QED BY <2>1
<1>6. pr \in [Slot -> Int] /\ \A s \in Slot : pr[s] \in Queue
  <2>1. \A s \in Slot : AsInt(t.priority[s]) # -1 => t.priority[s] \in Queue
    BY <1>4, AcceptedInt
  <2>2. \A s \in Slot : pr[s] \in Queue
    BY <2>1, State
  <2>3. pr = [s \in Slot |-> pr[s]]
    OBVIOUS
  <2> HIDE DEF pr
  <2>4. \A s \in Slot : pr[s] \in Int
    BY <2>2 DEF Queue
  <2> QED BY <2>2, <2>3, <2>4
<1>7. \A s \in Slot : s \in Lowered(sc) /\ t.priority[s] # UINT_MAX => pr[s] = t.priority[s]
  BY <1>4, <1>5, AcceptedInt
<1>8. \A s \in Slot : s \notin Lowered(sc) => pr[s] = kn.priority[s]
  BY <1>5
<1> HIDE DEF pr, sent
<1>9. /\ kn' \in KernelState /\ kn'.priority = pr /\ kn'.quantum = kn.quantum
      /\ kn'.cpu = kn.cpu
  BY <1>1, <1>6, State DEF KernelState
<1>10. /\ sc' \in SchedState /\ sc'.in_use = sc.in_use /\ sc'.time_slice = sc.time_slice
       /\ sc'.parent = sc.parent
  BY <1>1, <1>2 DEF Pulling
<1>11. TInv'
  <2>1. ASSUME NEW s \in Slot, stage'[s] = "started"
        PROVE  /\ kn'.priority[s] = sc'.priority[s] \/ (Lab = 5 /\ sc'.priority[s] = UINT_MAX)
               /\ kn'.quantum[s] = sc'.time_slice[s]
    <3>1. stage[s] = "started"
      BY <1>1, <2>1
    <3>2. CASE s \in Lowered(sc)
      <4>1. t.priority[s] = UINT_MAX => Lab = 5
        BY <1>4, Consts DEF Accepted, Queue
      <4> QED BY <1>1, <1>7, <1>9, <1>10, <3>1, <3>2, <4>1, State
    <3>3. CASE s \notin Lowered(sc)
      BY <1>1, <1>3, <1>8, <1>9, <1>10, <3>1, <3>3, State
    <3> QED BY <3>2, <3>3
  <2>2. \A s \in Slot : Accepted(sc'.priority[s]) /\ kn'.priority[s] \in Queue
    BY <1>1, <1>4, <1>6, <1>9
  <2> QED BY <1>1, <1>9, <1>10, <2>1, <2>2, State, Tables
<1>12. ASSUME SMP
       PROVE  Loads(sc', declared', Bound') /\ Alone(sc', declared', busy')
  <2>1. Bound' = Bound
    BY <1>1 DEF Bound
  <2>2. MaxLoad + NR_PROCS \in Int /\ Bound \in Int /\ MaxLoad + NR_PROCS <= Bound
    BY State, BoundIs, Consts
  <2>3. Loads(t, declared, MaxLoad + NR_PROCS) /\ Alone(t, declared, busy)
    BY <1>2, <1>12 DEF Pulling
  <2>4. Loads(t, declared, Bound)
    BY <1>1, <1>10, <2>2, <2>3, LoadsMore
  <2> QED BY <1>1, <2>1, <2>3, <2>4
<1>13. PInv'
  BY <1>1, <1>9, <1>10, <1>12, Placed, Undeclared, Placement
<1> QED BY <1>11, <1>13 DEF SInv
---------------------------------------------------------------------------
(* PM, RS and the kernel.                                                  *)

\* What happens outside SCHED changes neither its table nor the kernel's for a
\* process that has been started.
LEMMA OutsideStep ==
  ASSUME SInv, UNCHANGED <<sc, busy, declared, build>>,
         kn' \in KernelState, stage' \in [Slot -> Stage], ooq' \subseteq Slot,
         \A s \in Slot : stage'[s] \in {"starting", "started"} => stage'[s] = stage[s],
         \A s \in Slot : stage[s] \in {"starting", "started"} =>
           /\ stage'[s] = stage[s] /\ kn'.priority[s] = kn.priority[s]
           /\ kn'.quantum[s] = kn.quantum[s] /\ kn'.cpu[s] = kn.cpu[s],
         \A s \in Slot : kn'.priority[s] \in Queue
  PROVE  SInv'
<1>1. \A s \in Slot : s \in sc'.in_use <=> stage'[s] \in {"starting", "started"}
  BY State
<1>2. \A s \in Slot : stage'[s] = "starting" <=> s = busy'
  BY State
<1>3. \A s \in Slot : stage'[s] = "started" => stage[s] = "started"
  OBVIOUS
<1>4. \A s \in Slot : stage'[s] = "started" =>
        /\ kn'.priority[s] = sc'.priority[s] \/ (Lab = 5 /\ sc'.priority[s] = UINT_MAX)
        /\ kn'.quantum[s] = sc'.time_slice[s]
  BY <1>3, State
<1>5. TInv'
  BY <1>1, <1>2, <1>4, State, Tables
<1>6. Bound' = Bound
  BY DEF Bound
<1>7. PInv'
  BY <1>3, <1>6, Placed, Undeclared, Placement
<1> QED BY <1>5, <1>7 DEF SInv

LEMMA ForkStep ==
  ASSUME SInv, NEW p \in Slot \cup {None}, NEW s \in Slot, Fork(p, s)
  PROVE  SInv'
<1> DEFINE pr == [kn.priority EXCEPT ![s] = IF p = None THEN TASK_Q ELSE kn.priority[p]]
           qu == [kn.quantum EXCEPT ![s] = IF p = None THEN @ ELSE kn.quantum[p]]
           cp == [kn.cpu EXCEPT ![s] = IF p = None THEN BSP ELSE kn.cpu[p]]
<1>1. /\ stage[s] = "free" /\ stage' = [stage EXCEPT ![s] = "forked"]
      /\ kn' = [kn EXCEPT !.priority = pr, !.quantum = qu, !.cpu = cp,
                          !.noq = kn.noq \cup {s}, !.ours = kn.ours \ {s}]
      /\ UNCHANGED <<sc, ooq, busy, declared, build>>
  BY DEF Fork
<1>2. /\ kn.priority \in [Slot -> Int] /\ kn.quantum \in [Slot -> Nat]
      /\ kn.cpu \in [Slot -> Cpu]
  BY State DEF KernelState
<1>3. /\ pr \in [Slot -> Int] /\ qu \in [Slot -> Nat] /\ cp \in [Slot -> Cpu]
      /\ \A x \in Slot : pr[x] \in Queue
      /\ \A x \in Slot : x # s => pr[x] = kn.priority[x] /\ qu[x] = kn.quantum[x]
                                  /\ cp[x] = kn.cpu[x]
  BY <1>2, State, Consts DEF TASK_Q
<1> HIDE DEF pr, qu, cp
<1>4. /\ kn' \in KernelState /\ kn'.priority = pr /\ kn'.quantum = qu /\ kn'.cpu = cp
  BY <1>1, <1>3, State DEF KernelState
<1>5. /\ stage' \in [Slot -> Stage]
      /\ \A x \in Slot : stage'[x] = IF x = s THEN "forked" ELSE stage[x]
  BY <1>1, State DEF Stage
<1>6. /\ \A x \in Slot : stage'[x] \in {"starting", "started"} => stage'[x] = stage[x]
      /\ \A x \in Slot : stage[x] \in {"starting", "started"} =>
           /\ stage'[x] = stage[x] /\ kn'.priority[x] = kn.priority[x]
           /\ kn'.quantum[x] = kn.quantum[x] /\ kn'.cpu[x] = kn.cpu[x]
  BY <1>1, <1>3, <1>4, <1>5
<1> QED BY <1>1, <1>3, <1>4, <1>5, <1>6, OutsideStep, State

LEMMA OutOfQuantumStep ==
  ASSUME SInv, NEW s \in Slot, OutOfQuantum(s)
  PROVE  SInv'
<1>1. /\ kn' = [kn EXCEPT !.noq = kn.noq \cup {s}] /\ ooq' = ooq \cup {s}
      /\ UNCHANGED <<sc, stage, busy, declared, build>>
  BY DEF OutOfQuantum
<1>2. /\ kn' \in KernelState /\ kn'.priority = kn.priority /\ kn'.quantum = kn.quantum
      /\ kn'.cpu = kn.cpu
  BY <1>1, State DEF KernelState
<1> QED BY <1>1, <1>2, OutsideStep, State

LEMMA ClearStep ==
  ASSUME SInv, NEW s \in Slot, Clear(s)
  PROVE  SInv'
<1>1. /\ stage[s] \in {"failed", "stopped"} /\ stage' = [stage EXCEPT ![s] = "free"]
      /\ ooq' = ooq \ {s} /\ UNCHANGED <<sc, kn, busy, declared, build>>
  BY DEF Clear
<1>2. /\ stage' \in [Slot -> Stage]
      /\ \A x \in Slot : stage'[x] = IF x = s THEN "free" ELSE stage[x]
  BY <1>1, State DEF Stage
<1>3. /\ \A x \in Slot : stage'[x] \in {"starting", "started"} => stage'[x] = stage[x]
      /\ \A x \in Slot : stage[x] \in {"starting", "started"} => stage'[x] = stage[x]
  BY <1>1, <1>2
<1> QED BY <1>1, <1>2, <1>3, OutsideStep, State

LEMMA NextStep ==
  ASSUME SInv, [Next]_vars
  PROVE  SInv'
<1>1. CASE UNCHANGED vars
  BY <1>1, OutsideStep, State DEF vars
<1>2. ASSUME NEW s \in Slot, do_noquantum(s) PROVE SInv'
  BY <1>2, NoQuantumStep
<1>3. ASSUME NEW s \in Slot, do_stop_scheduling(s) PROVE SInv'
  BY <1>3, StopStep
<1>4. ASSUME NEW s \in Slot, Start(s) PROVE SInv'
  <2>1. ASSUME NEW max \in MaxPrio, NEW quantum \in Quantum,
               do_start_scheduling(s, None, max, quantum)
        PROVE  SInv'
    BY <2>1, StartStep, Consts
  <2>2. ASSUME NEW max \in MaxPrio, NEW par \in Slot \ {s},
               do_start_scheduling(s, par, max, 0)
        PROVE  SInv'
    BY <2>2, StartStep, Consts DEF Explicit
  <2>3. ASSUME do_start_scheduling(s, s, USER_Q, DEFAULT_USER_TIME_SLICE)
        PROVE  SInv'
    BY <2>3, StartStep, Consts DEF DEFAULT_USER_TIME_SLICE
  <2> QED BY <1>4, <2>1, <2>2, <2>3 DEF Start
<1>5. ASSUME NEW s \in Slot, NEW q \in MaxPrio, do_nice(s, q) PROVE SInv'
  BY <1>5, NiceStep
<1>6. CASE start_loop
  BY <1>6, LoopStep
<1>7. CASE balance_queues
  BY <1>7, BalanceStep
<1>8. ASSUME NEW p \in Slot \cup {None}, NEW s \in Slot, Fork(p, s) PROVE SInv'
  BY <1>8, ForkStep
<1>9. ASSUME NEW s \in Slot, OutOfQuantum(s) PROVE SInv'
  BY <1>9, OutOfQuantumStep
<1>10. ASSUME NEW s \in Slot, Clear(s) PROVE SInv'
  BY <1>10, ClearStep
<1> QED BY <1>1, <1>2, <1>3, <1>4, <1>5, <1>6, <1>7, <1>8, <1>9, <1>10
        DEF Next, Handle, Environment

LEMMA InitStep == Init => SInv
<1> SUFFICES ASSUME Init PROVE SInv
  OBVIOUS
<1>1. /\ sc \in SchedState /\ sc.in_use = {} /\ sc.cpu_proc = [c \in Cpu |-> 0]
      /\ \A s \in Slot : sc.priority[s] = 0
  BY Consts DEF Init, SchedState, Unsigned, Slot
<1>2. kn \in KernelState /\ \A s \in Slot : kn.priority[s] = TASK_Q
  BY Consts DEF Init, KernelState, TASK_Q
<1>3. /\ stage \in [Slot -> Stage] /\ \A s \in Slot : stage[s] \in {"forked", "free"}
      /\ ooq = {} /\ busy = None /\ declared = {} /\ build \in Builds
  BY DEF Init, Stage
<1>4. 0 \in Queue /\ TASK_Q \in Queue /\ None \notin Slot
  BY Consts DEF TASK_Q
<1>5. TypeOK
  BY <1>1, <1>2, <1>3 DEF TypeOK
<1>6. KernelAgrees /\ QueueExists /\ SlotFollowsProcess
  BY <1>1, <1>2, <1>3, <1>4 DEF KernelAgrees, QueueExists, SlotFollowsProcess
<1>7. Priorities /\ Slices /\ Starting
  BY <1>1, <1>3, <1>4 DEF Priorities, Slices, Starting
<1>8. TInv
  BY <1>5, <1>6, <1>7 DEF TInv, TablesInStep
<1>9. Loads(sc, declared, Bound) /\ Alone(sc, declared, busy)
  <2>1. \A c \in Cpu : On(sc, c) = {} /\ sc.cpu_proc[c] = 0
    BY <1>1 DEF On
  <2>2. Cardinality({}) = 0
    BY FS_EmptySet
  <2>3. Bound \in Nat
    BY <1>5, BoundIs
  <2> QED BY <1>1, <1>3, <2>1, <2>2, <2>3 DEF Loads, Alone
<1>10. PInv
  BY <1>3, <1>9 DEF PInv, CpuRespected
<1> QED BY <1>8, <1>10 DEF SInv
---------------------------------------------------------------------------
(* The theorems.                                                           *)

LEMMA SchedCorrect == Spec => []SInv
BY InitStep, NextStep, PTL DEF Spec

\* No process is in a queue that does not exist, though Lab 5's priorities wrap;
\* SCHED's table, the kernel's and what PM and RS know are in step, whatever the
\* order of out-of-quantum messages, nice, balancing, refusals and exits.
THEOREM TablesCorrect == Spec => []TablesInStep
<1>1. SInv => TablesInStep
  BY DEF SInv, TInv
<1> QED BY <1>1, SchedCorrect, PTL

\* CPUs are chosen by loads that cover their processes; nothing runs on a CPU
\* that did not come up, a service only on the boot CPU, and a CPU that the kernel
\* has refused is never tried again.
THEOREM PlacementCorrect == Spec => []PlacementInv
<1>1. ASSUME SInv PROVE LoadCovers
  <2>1. ASSUME SMP, NEW c \in Cpu \ (declared \cup {BSP})
        PROVE  sc.cpu_proc[c] # CPU_DEAD
               /\ sc.cpu_proc[c] >= Cardinality({s \in sc.in_use : sc.cpu[s] = c})
    <3>1. Cardinality(On(sc, c)) <= sc.cpu_proc[c] /\ sc.cpu_proc[c] <= Bound
      BY <1>1, <2>1, Placed DEF Loads
    <3>2. Bound \in Nat /\ Bound + NR_PROCS < UINT_MAX /\ NR_PROCS \in Nat /\ UINT_MAX \in Nat
      BY <1>1, State, BoundIs, Consts
    <3>3. sc.cpu_proc[c] \in Nat /\ Cardinality(On(sc, c)) \in Nat
      BY <1>1, State, Fields, OnFinite DEF Unsigned
    <3>4. sc.cpu_proc[c] # CPU_DEAD /\ sc.cpu_proc[c] >= Cardinality(On(sc, c))
      BY <3>1, <3>2, <3>3 DEF CPU_DEAD
    <3> QED BY <3>4 DEF On
  <2> QED BY <2>1 DEF LoadCovers
<1>2. ASSUME SInv PROVE CpuRespected
  BY <1>2 DEF SInv, PInv, CpuRespected
<1>3. ASSUME SInv PROVE NeverTriedAgain
  <2>1. ASSUME busy # None PROVE Chosen(sc, busy) \notin declared
    <3>1. busy \in Slot /\ ButFor(sc, sc, busy)
      BY <1>3, <2>1, State DEF ButFor
    <3>2. CASE SMP
      BY <1>3, <3>1, <3>2, State, Placed, BoundIs, PickLoads
    <3>3. CASE ~SMP
      BY <1>3, <3>3, Undeclared
    <3> QED BY <3>2, <3>3
  <2> QED BY <1>3, <2>1, State, Picks DEF NeverTriedAgain
<1>4. SInv => PlacementInv
  BY <1>1, <1>2, <1>3 DEF PlacementInv
<1> QED BY <1>4, SchedCorrect, PTL
=============================================================================
