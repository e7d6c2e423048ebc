------------------------ MODULE ProcessManagerSafety ------------------------
(***************************************************************************)
(* The safety properties of ProcessManager hold for every table size and   *)
(* every choice of its other constants: IInv is an inductive invariant.    *)
(* First the types: every routine takes a table to a table.                *)
(*                                                                         *)
(* The routines of forkexit.c are composed of a few elementary changes of  *)
(* the table.  Frame says what such a change may do: it answers waiting    *)
(* processes, stops traced ones, and moves one exiting process c further   *)
(* towards its end.  FrameBase and FrameRest show once what every Frame    *)
(* keeps; each routine is then shown to be a sequence of Frames.           *)
(***************************************************************************)
EXTENDS ProcessManager, TLAPS, WellFoundedInduction,
        SequenceTheorems, FiniteSetTheorems

---------------------------------------------------------------------------
(* Types.  Every routine takes a table to a table.                         *)

LEMMA ConstantTypes ==
  /\ NR_PROCS \in Nat /\ PM \in Slot /\ INIT_PROC_NR \in Slot
  /\ RS_PROC_NR \in Slot /\ INIT_PROC_NR # PM /\ RS_PROC_NR # PM
  /\ INIT_PROC_NR # RS_PROC_NR
  /\ 1 \in Pid /\ 2 \in Pid /\ 3 \in Pid
BY PMAssumption DEF Slot, PM, Pid

LEMMA FlagsType ==
  ASSUME NEW t \in PMState, NEW s \in Slot, NEW F \in SUBSET Flag
  PROVE  SetFlags(t, s, F) \in PMState /\ ClearFlags(t, s, F) \in PMState
BY DEF PMState, SetFlags, ClearFlags

LEMMA ReplyType ==
  ASSUME NEW t \in PMState, NEW p \in Slot, NEW k \in Call
  PROVE  reply(t, p, k) \in PMState
BY DEF PMState, reply, Call

LEMMA PanicType ==
  ASSUME NEW t \in PMState, NEW m \in Message
  PROVE  [t EXCEPT !.panic = @ \cup {m}] \in PMState
BY DEF PMState

LEMMA TellVfsType ==
  ASSUME NEW t \in PMState, NEW s \in Slot, NEW r \in Request
  PROVE  tell_vfs(t, s, r) \in PMState
<1> DEFINE u == Panic(SetFlags(t, s, {"VFS_CALL"}), VfsCall(t, s),
                      "tell_vfs: not idle")
<1>1. u \in PMState
  BY FlagsType, PanicType DEF Flag, Panic, Message
<1>2. [u EXCEPT !.vfs[s] = r] \in PMState
  <2> HIDE DEF u
  <2> QED BY <1>1 DEF PMState
<1> QED BY <1>2 DEF tell_vfs

LEMMA TraceStopType ==
  ASSUME NEW t \in PMState, NEW s \in Slot
  PROVE  trace_stop(t, s) \in PMState
<1> DEFINE u == SetFlags(t, s, {"TRACE_STOPPED"})
           d == t.tracer[s]
           v == ClearFlags(u, d, {"WAITING"})
<1>1. d \in Slot
  BY DEF PMState
<1>2. u \in PMState
  BY FlagsType DEF Flag
<1>3. v \in PMState
  BY <1>1, <1>2, FlagsType DEF Flag
<1>4. reply(v, d, "wait") \in PMState
  BY <1>1, <1>3, ReplyType DEF Call
<1>5. [u EXCEPT !.sigtrace = @ \cup {s}] \in PMState
  <2> HIDE DEF u
  <2> QED BY <1>2 DEF PMState
<1> QED BY <1>4, <1>5 DEF trace_stop

LEMMA SigProcType ==
  ASSUME NEW t \in PMState, NEW s \in Slot
  PROVE  sig_proc(t, s) \in PMState
BY PanicType, TraceStopType DEF sig_proc, Panic, Message

LEMMA TellParentType ==
  ASSUME NEW t \in PMState, NEW c \in Slot
  PROVE  tell_parent(t, c) \in PMState
<1> DEFINE p == t.parent[c]
           u1 == Panic(t, p <= 0, "tell_parent: bad mp_parent")
           u2 == Panic(u1, "ZOMBIE" \notin t.flags[c], "tell_parent: not a zombie")
           u == Panic(u2, "TOLD_PARENT" \in t.flags[c], "tell_parent: again")
<1>1. p \in Slot
  BY DEF PMState
<1>2. u1 \in PMState
  BY PanicType DEF Panic, Message
<1>3. u2 \in PMState
  <2> HIDE DEF u1
  <2> QED BY <1>2, PanicType DEF Panic, Message
<1>4. u \in PMState
  <2> HIDE DEF u2
  <2> QED BY <1>3, PanicType DEF Panic, Message
<1> HIDE DEF u
<1> QED BY <1>1, <1>4, FlagsType, ReplyType DEF tell_parent, Flag, Call, u

LEMMA TellTracerType ==
  ASSUME NEW t \in PMState, NEW c \in Slot
  PROVE  tell_tracer(t, c) \in PMState
<1> DEFINE d == t.tracer[c]
           u1 == Panic(t, d <= 0, "tell_tracer: bad mp_tracer")
           u == Panic(u1, "TRACE_ZOMBIE" \notin t.flags[c], "tell_tracer: not a zombie")
<1>1. d \in Slot
  BY DEF PMState
<1>2. u1 \in PMState
  BY PanicType DEF Panic, Message
<1>3. u \in PMState
  <2> HIDE DEF u1
  <2> QED BY <1>2, PanicType DEF Panic, Message
<1> HIDE DEF u
<1> QED BY <1>1, <1>3, FlagsType, ReplyType DEF tell_tracer, Flag, Call, u

LEMMA CleanupType ==
  ASSUME NEW t \in PMState, NEW s \in Slot
  PROVE  cleanup(t, s) \in PMState
<1> DEFINE u == [t EXCEPT !.pid[s] = 0]
           v == [u EXCEPT !.flags[s] = {}]
<1>1. u \in PMState
  BY DEF PMState
<1>2. v \in PMState
  <2> HIDE DEF u
  <2> QED BY <1>1 DEF PMState
<1>3. [v EXCEPT !.procs_in_use = @ - 1] \in PMState
  <2> HIDE DEF v
  <2>1. v.procs_in_use - 1 \in Int
    BY <1>2 DEF PMState
  <2> QED BY <1>2, <2>1 DEF PMState
<1> QED BY <1>3 DEF cleanup

LEMMA CheckParentType ==
  ASSUME NEW t \in PMState, NEW c \in Slot, NEW b \in BOOLEAN
  PROVE  check_parent(t, c, b) \in PMState
<1>1. t.parent[c] \in Slot
  BY DEF PMState
<1> QED BY <1>1, TellParentType, CleanupType, SigProcType DEF check_parent

LEMMA ZombifyType ==
  ASSUME NEW t \in PMState, NEW s \in Slot
  PROVE  zombify(t, s) \in PMState
<1> DEFINE u == Panic(t, {"ZOMBIE", "TRACE_ZOMBIE"} \cap t.flags[s] # {},
                      "zombify: already a zombie")
<1>1. u \in PMState
  BY PanicType DEF Panic, Message
<1>2. SetFlags(u, s, {"TRACE_ZOMBIE"}) \in PMState
  BY <1>1, FlagsType DEF Flag
<1>3. SetFlags(u, s, {"ZOMBIE"}) \in PMState
  BY <1>1, FlagsType DEF Flag
<1> HIDE DEF u
<1> QED BY <1>1, <1>2, <1>3, TellTracerType, CheckParentType DEF zombify, u

LEMMA BeginExitType ==
  ASSUME NEW t \in PMState, NEW s \in Slot, NEW b \in BOOLEAN
  PROVE  begin_exit(t, s, b) \in PMState
<1> DEFINE u == [t EXCEPT !.call[s] = "dead", !.pend = @ \ {s}]
           v == tell_vfs(u, s, IF b THEN "dump" ELSE "exit")
           w == [v EXCEPT !.flags[s] =
                   (@ \cap {"IN_USE", "VFS_CALL", "PRIV_PROC", "TRACE_EXIT"})
                     \cup {"EXITING"}]
<1>1. u \in PMState
  BY DEF PMState, Call
<1>2. v \in PMState
  <2> HIDE DEF u
  <2> QED BY <1>1, TellVfsType DEF Request
<1>3. w \in PMState
  <2> HIDE DEF v
  <2> QED BY <1>2 DEF PMState, Flag
<1>4. zombify(w, s) \in PMState
  <2> HIDE DEF w
  <2> QED BY <1>3, ZombifyType
<1> QED BY <1>1, <1>3, <1>4 DEF begin_exit

LEMMA ExitRestartType ==
  ASSUME NEW t \in PMState, NEW s \in Slot, NEW b \in BOOLEAN
  PROVE  exit_restart(t, s, b) \in PMState
<1> DEFINE u == [t EXCEPT !.sched = @ \ {s}]
           z == IF b THEN zombify(u, s) ELSE u
           w == IF "TRACE_EXIT" \in z.flags[s]
                THEN reply(z, z.tracer[s], "ptrace") ELSE z
<1>1. u \in PMState
  BY DEF PMState
<1>2. z \in PMState
  <2> HIDE DEF u
  <2> QED BY <1>1, ZombifyType
<1>3. w \in PMState
  <2> HIDE DEF z
  <2> z.tracer[s] \in Slot
    BY <1>2 DEF PMState
  <2> QED BY <1>2, ReplyType DEF Call
<1> HIDE DEF w
<1> QED BY <1>3, CleanupType DEF exit_restart, w

LEMMA TracerDiedType ==
  ASSUME NEW t \in PMState, NEW c \in Slot
  PROVE  tracer_died(t, c) \in PMState
<1> DEFINE u == [t EXCEPT !.tracer[c] = NO_TRACER, !.flags[c] = @ \ {"TRACE_EXIT"}]
           v == [u EXCEPT !.flags[c] = (@ \ {"TRACE_ZOMBIE"}) \cup {"ZOMBIE"}]
<1>1. u \in PMState
  BY ConstantTypes DEF PMState, NO_TRACER, PM
<1>2. v \in PMState
  <2> HIDE DEF u
  <2> QED BY <1>1 DEF PMState, Flag
<1> HIDE DEF u, v
<1> QED BY <1>1, <1>2, CheckParentType DEF tracer_died, u, v

LEMMA DisinheritType ==
  ASSUME NEW t \in PMState, NEW c \in Slot
  PROVE  disinherit(t, c) \in PMState
<1> DEFINE u == [t EXCEPT !.parent[c] = INIT_PROC_NR]
           v == IF VfsCall(u, c) THEN SetFlags(u, c, {"NEW_PARENT"}) ELSE u
<1>1. u \in PMState
  BY ConstantTypes DEF PMState
<1>2. v \in PMState
  <2> HIDE DEF u
  <2> QED BY <1>1, FlagsType DEF Flag
<1> HIDE DEF v
<1> QED BY <1>2, CheckParentType DEF disinherit, v

LEMMA AnsweredType ==
  ASSUME NEW t \in PMState, NEW s \in Slot
  PROVE  Answered(t, s) \in PMState
<1> DEFINE u == Panic(ClearFlags(t, s, {"VFS_CALL", "NEW_PARENT"}),
                      ~VfsCall(t, s), "unexpected VFS reply")
<1>1. u \in PMState
  BY FlagsType, PanicType DEF Flag, Panic, Message
<1>2. [u EXCEPT !.vfs[s] = "none"] \in PMState
  <2> HIDE DEF u
  <2> QED BY <1>1 DEF PMState, Request
<1> QED BY <1>2 DEF Answered

---------------------------------------------------------------------------
(* Types of the actions.                                                   *)

\* A non-empty set of naturals has a least element, and Least finds it.
LEMMA LeastOf ==
  ASSUME NEW S \in SUBSET Nat, S # {}
  PROVE  Least(S) \in S /\ \A d \in S : Least(S) <= d
<1> DEFINE R == OpToRel(<, Nat)
<1>1. PICK x \in S : \A y \in S : ~(<<y, x>> \in R)
  <2> HIDE DEF R
  <2>1. IsWellFoundedOn(R, Nat)
    BY NatLessThanWellFounded DEF R
  <2> QED BY <2>1, WFMin
<1>2. ASSUME NEW y \in S PROVE x <= y
  <2>1. <<y, x>> \in Nat \X Nat /\ <<y, x>>[1] = y /\ <<y, x>>[2] = x
    OBVIOUS
  <2>2. ASSUME y < x PROVE <<y, x>> \in R
    <3>1. <<y, x>>[1] < <<y, x>>[2]
      BY <2>1, <2>2
    <3> QED BY <2>1, <3>1, Zenon DEF OpToRel
  <2>3. ~(y < x)
    BY <1>1, <2>2, Zenon
  <2> HIDE DEF R
  <2>4. x \in Nat /\ y \in Nat
    OBVIOUS
  <2> QED BY <2>3, <2>4
<1> QED BY <1>2 DEF Least

\* The innermost activation, while there is one, and what is below it.
LEMMA CurType ==
  ASSUME TypeOK, Running
  PROVE  /\ cur \in Slot /\ Len(stack) \in Nat \ {0}
         /\ SubSeq(stack, 1, Len(stack) - 1) \in Seq(Slot)
<1>1. stack \in Seq(Slot) /\ stack # <<>>
  BY DEF TypeOK, Running
<1>2. Len(stack) \in Nat \ {0} /\ stack[Len(stack)] \in Slot
  BY <1>1
<1>3. \A i \in 1 .. Len(stack) - 1 : stack[i] \in Slot
  BY <1>1, <1>2
<1> QED BY <1>2, <1>3, SubSeqProperties DEF cur

LEMMA ActivationType ==
  ASSUME NEW t \in PMState, NEW s \in Slot, NEW m \in Slot
  PROVE  /\ new_activation(t, s, m) \in Activation
         /\ NoActivation \in Activation
<1>1. {0} \cup Pid \subseteq Nat /\ 0 \in 0 .. NR_PROCS /\ PM \in Slot
  BY ConstantTypes DEF Pid
<1>2. t.procgrp[m] \in {0} \cup Pid
  BY DEF PMState
<1> QED BY <1>1, <1>2 DEF new_activation, NoActivation, Activation

LEMMA MoveType ==
  ASSUME NEW a \in Activation, NEW i \in 0 .. NR_PROCS,
         NEW w \in {"tracer", "parent", "hup"}, w = "parent" => i \in Slot
  PROVE  [a EXCEPT !.at = w, !.idx = i] \in Activation
<1> DEFINE T == [at  : {"none", "tracer", "parent", "hup"},
                 idx : 0 .. NR_PROCS, grp : {0} \cup Pid, mp  : Slot]
           b == [a EXCEPT !.at = w, !.idx = i]
<1>1. a \in T
  BY DEF Activation
<1>2. b \in T /\ b.at = w /\ b.idx = i
  BY <1>1
<1> HIDE DEF b
<1> QED BY <1>2 DEF Activation

LEMMA ExitProcType ==
  ASSUME TypeOK, NEW t \in PMState, NEW s \in Slot, NEW b \in BOOLEAN,
         NEW m \in Slot, exit_proc(t, s, b, m)
  PROVE  TypeOK'
<1>1. pm' \in PMState
  BY BeginExitType DEF exit_proc
<1>2. new_activation(t, s, m) \in Activation
  BY ActivationType
<1>3. act' \in [Slot -> Activation]
  BY <1>2 DEF TypeOK, exit_proc
<1>4. <<s>> \in Seq(Slot)
  OBVIOUS
<1>5. stack' \in Seq(Slot)
  BY <1>4, Zenon DEF TypeOK, exit_proc
<1> QED BY <1>1, <1>3, <1>5 DEF TypeOK, exit_proc

LEMMA KillNestedType ==
  ASSUME TypeOK, Running, NEW t \in PMState, NEW c \in Slot,
         NEW n \in Activation, kill_nested(t, c, n), UNCHANGED next_child
  PROVE  TypeOK'
<1>1. cur \in Slot
  BY CurType
<1>2. act[cur].mp \in Slot
  BY <1>1 DEF TypeOK, Activation
<1>3. new_activation(t, c, act[cur].mp) \in Activation
  BY <1>2, ActivationType
<1>4. [t EXCEPT !.pend = @ \cup {c}] \in PMState
  BY DEF PMState
<1>5. pm' \in PMState
  BY <1>4, BeginExitType DEF kill_nested
<1>6. act' \in [Slot -> Activation]
  <2>1. [act EXCEPT ![cur] = n] \in [Slot -> Activation]
    BY <1>1 DEF TypeOK
  <2>2. \A f \in [Slot -> Activation], x \in Activation :
          [f EXCEPT ![c] = x] \in [Slot -> Activation]
    OBVIOUS
  <2> QED BY <1>3, <2>1, <2>2 DEF kill_nested
<1>7. stack' \in Seq(Slot)
  <2>1. stack \in Seq(Slot) /\ Append(stack, c) \in Seq(Slot)
    BY DEF TypeOK
  <2> QED BY <2>1, Zenon DEF kill_nested
<1> QED BY <1>5, <1>6, <1>7 DEF TypeOK

LEMMA LoopType ==
  ASSUME TypeOK, Loop
  PROVE  TypeOK'
<1>0. Running /\ cur \in Slot /\ act[cur] \in Activation /\ NR_PROCS \in Nat
  BY CurType, PMAssumption DEF TypeOK, Loop, LoopTracer, LoopParent, LoopEnd, Hangup, HangupEnd
<1>1. \A i \in 0 .. NR_PROCS : Related(cur, i) \in SUBSET Nat
  BY DEF Related, Slot
<1>2. ASSUME Related(cur, act[cur].idx) # {}
      PROVE  Least(Related(cur, act[cur].idx)) \in Slot
  BY <1>0, <1>1, <1>2, LeastOf DEF Related, Activation
<1>3. CASE LoopTracer
  <2> DEFINE c == Least(Related(cur, act[cur].idx))
             n == [act[cur] EXCEPT !.at = "parent", !.idx = c]
  <2>1. c \in Slot
    BY <1>2, <1>3 DEF LoopTracer
  <2>2. n \in Activation
    <3> HIDE DEF c
    <3>1. c \in 0 .. NR_PROCS
      BY <1>0, <2>1 DEF Slot
    <3> QED BY <1>0, <2>1, <3>1, MoveType
  <2>3. tracer_died(pm, c) \in PMState
    BY <2>1, TracerDiedType DEF TypeOK
  <2>4. CASE Exiting(pm, c)
    <3> HIDE DEF c, n
    <3>1. pm' \in PMState /\ act' = [act EXCEPT ![cur] = n] /\ UNCHANGED <<stack, next_child>>
      BY <1>3, <2>3, <2>4 DEF LoopTracer, c, n
    <3> QED BY <1>0, <2>2, <3>1 DEF TypeOK
  <2>5. CASE ~Exiting(pm, c)
    <3>1. kill_nested(tracer_died(pm, c), c, n) /\ UNCHANGED next_child
      BY <1>3, <2>5 DEF LoopTracer
    <3> HIDE DEF c, n
    <3> QED BY <1>0, <2>1, <2>2, <2>3, <3>1, KillNestedType
  <2> QED BY <2>4, <2>5
<1>4. CASE LoopParent
  <2> DEFINE c == IF act[cur].at = "parent" THEN act[cur].idx
                  ELSE Least(Related(cur, act[cur].idx))
  <2>1. c \in Slot
    BY <1>0, <1>2, <1>4 DEF LoopParent, Activation
  <2>2. pm' \in PMState
    BY <1>4, <2>1, DisinheritType DEF LoopParent, TypeOK
  <2>3. act' \in [Slot -> Activation]
    <3> HIDE DEF c
    <3>1. [act[cur] EXCEPT !.at = "tracer", !.idx = c + 1] \in Activation
      <4>1. c + 1 \in 0 .. NR_PROCS
        BY <1>0, <2>1 DEF Slot
      <4> QED BY <1>0, <4>1, MoveType
    <3>2. act' = [act EXCEPT ![cur] = [act[cur] EXCEPT !.at = "tracer", !.idx = c + 1]]
      BY <1>0, <1>4 DEF LoopParent, TypeOK, c
    <3> QED BY <1>0, <3>1, <3>2 DEF TypeOK
  <2> QED BY <1>4, <2>2, <2>3 DEF LoopParent, TypeOK
<1>5. CASE LoopEnd \/ HangupEnd
  <2>1. NoActivation \in Activation
    BY ActivationType, ConstantTypes DEF TypeOK
  <2>2. [act[cur] EXCEPT !.at = "hup", !.idx = 0] \in Activation
    <3>1. 0 \in 0 .. NR_PROCS
      BY <1>0
    <3> QED BY <1>0, <3>1, MoveType
  <2>3. act' = [act EXCEPT ![cur] = NoActivation]
        \/ act' = [act EXCEPT ![cur] = [act[cur] EXCEPT !.at = "hup", !.idx = 0]]
    BY <1>0, <1>5 DEF LoopEnd, HangupEnd, Return, TypeOK
  <2>4. stack' \in Seq(Slot)
    BY <1>0, <1>5, CurType DEF LoopEnd, HangupEnd, Return, TypeOK
  <2> QED BY <1>0, <1>5, <2>1, <2>2, <2>3, <2>4 DEF LoopEnd, HangupEnd, TypeOK
<1>6. CASE Hangup
  <2> DEFINE c == Least(Members(act[cur].grp, act[cur].idx))
             n == [act[cur] EXCEPT !.idx = c + 1]
  <2>1. Members(act[cur].grp, act[cur].idx) \in SUBSET Nat
    BY DEF Members, Slot
  <2>2. c \in Slot
    BY <1>6, <2>1, LeastOf DEF Hangup, Members
  <2>3. n \in Activation
    <3> HIDE DEF c
    <3>1. c + 1 \in 0 .. NR_PROCS
      BY <1>0, <2>2 DEF Slot
    <3>2. [act[cur] EXCEPT !.at = "hup", !.idx = c + 1] \in Activation
      BY <1>0, <3>1, MoveType
    <3>3. [act[cur] EXCEPT !.at = "hup", !.idx = c + 1] = n
      BY <1>0, <1>6 DEF Hangup, Activation
    <3> QED BY <3>2, <3>3
  <2>4. CASE kill_nested(pm, c, n)
    <3> HIDE DEF c, n
    <3> QED BY <1>0, <1>6, <2>2, <2>3, <2>4, KillNestedType DEF Hangup, TypeOK
  <2>5. CASE /\ pm' = sig_proc(pm, c) /\ act' = [act EXCEPT ![cur] = n]
             /\ UNCHANGED stack
    <3> HIDE DEF c, n
    <3> QED BY <1>0, <1>6, <2>2, <2>3, <2>5, SigProcType DEF Hangup, TypeOK
  <2> QED BY <1>6, <2>4, <2>5 DEF Hangup
<1> QED BY <1>3, <1>4, <1>5, <1>6 DEF Loop

LEMMA ForkChildType ==
  ASSUME NEW t \in PMState, NEW p \in Slot, NEW c \in Slot, NEW n \in Pid,
         NEW keep \in SUBSET Flag
  PROVE  fork_child(t, p, c, n, keep) \in PMState
BY ConstantTypes DEF fork_child, PMState, NO_TRACER, PM, Call

LEMMA SignalTracerType ==
  ASSUME NEW t \in PMState, NEW c \in Slot
  PROVE  SignalTracer(t, c) \in PMState
BY SigProcType DEF SignalTracer

LEMMA ForkSlotType ==
  ASSUME TypeOK, FreeSlots # {}, NEW n \in Slot
  PROVE  FreeSlot(n) \in Slot /\ ~InUse(pm, FreeSlot(n))
<1> DEFINE after == {s \in FreeSlots : s > n}
           S == IF after # {} THEN after ELSE FreeSlots
<1>1. S \in SUBSET Nat /\ S # {} /\ S \subseteq FreeSlots
  BY DEF FreeSlots, Slot
<1>2. Least(S) \in S
  <2> HIDE DEF S
  <2> QED BY <1>1, LeastOf
<1>3. FreeSlot(n) = Least(S)
  BY DEF FreeSlot
<1> HIDE DEF S
<1> QED BY <1>1, <1>2, <1>3 DEF FreeSlots

LEMMA FreePidType ==
  ASSUME FreePids # {}
  PROVE  Least(FreePids) \in FreePids /\ Least(FreePids) \in Pid
<1>1. FreePids \in SUBSET Nat /\ FreePids \subseteq Pid
  BY DEF FreePids, Pid
<1> QED BY <1>1, LeastOf

LEMMA ForkType ==
  ASSUME TypeOK, NEW p \in Slot, NEW uid \in Uid \cup {0},
         do_fork(p) \/ do_srv_fork(p, uid)
  PROVE  TypeOK'
<1>0. /\ pm \in PMState /\ next_child \in [fork : Slot, srv : Slot]
      /\ act' = act /\ stack' = stack
  BY DEF TypeOK, do_fork, do_srv_fork
<1>1. next_child' \in [fork : Slot, srv : Slot]
  <2>1. /\ FreeSlots # {} => FreeSlot(next_child.fork) \in Slot
        /\ FreeSlots # {} => FreeSlot(next_child.srv) \in Slot
    BY <1>0, ForkSlotType
  <2>2. ForkSlot("fork") \/ ForkSlot("srv")
    BY DEF do_fork, do_srv_fork
  <2> QED BY <1>0, <2>1, <2>2 DEF ForkSlot
<1>2. CASE NoFork
  <2>1. pm' \in PMState
    BY <1>0, <1>2, PanicType DEF NoFork, Panic, Message
  <2> QED BY <1>0, <1>1, <2>1 DEF TypeOK
<1>3. CASE do_fork(p) /\ ~NoFork
  <2> DEFINE c == FreeSlot(next_child.fork)
             n == Least(FreePids)
             t == fork_child(pm, p, c, n, {"IN_USE"})
             t1 == Panic(t, p \in pm.sched, "assert mp_scheduler")
             u == IF Priv(pm, p) THEN [t1 EXCEPT !.sched = @ \cup {c}] ELSE t
             u1 == [u EXCEPT !.call[p] = "fork"]
             v == tell_vfs(u1, c, "fork")
  <2>1. c \in Slot /\ n \in Pid
    BY <1>0, <1>3, ForkSlotType, FreePidType DEF do_fork
  <2>2. pm' = SignalTracer(v, c)
    BY <1>3 DEF do_fork
  <2> HIDE DEF c, n
  <2>3. t \in PMState
    BY <1>0, <2>1, ForkChildType DEF Flag
  <2> HIDE DEF t
  <2>4. t1 \in PMState
    BY <2>3, PanicType DEF Panic, Message
  <2> HIDE DEF t1
  <2>5. u \in PMState
    BY <2>1, <2>3, <2>4 DEF PMState
  <2> HIDE DEF u
  <2>6. u1 \in PMState
    BY <2>5 DEF PMState, Call
  <2> HIDE DEF u1
  <2>7. v \in PMState
    BY <2>1, <2>6, TellVfsType DEF Request
  <2> HIDE DEF v
  <2> QED BY <1>0, <1>1, <2>1, <2>2, <2>7, SignalTracerType DEF TypeOK
<1>4. CASE do_srv_fork(p, uid) /\ ~NoFork
  <2> DEFINE c == FreeSlot(next_child.srv)
             n == Least(FreePids)
             t == fork_child(pm, p, c, n, {"IN_USE", "PRIV_PROC"})
             u == [t EXCEPT !.effuid[c] = uid]
             v == tell_vfs(u, c, "srv_fork")
  <2>1. c \in Slot /\ n \in Pid /\ uid \in Nat
    BY <1>0, <1>4, ForkSlotType, FreePidType, PMAssumption DEF do_srv_fork
  <2>2. pm' = reply(SignalTracer(v, c), c, "born")
    BY <1>4 DEF do_srv_fork
  <2> HIDE DEF c, n
  <2>3. t \in PMState
    BY <1>0, <2>1, ForkChildType DEF Flag
  <2> HIDE DEF t
  <2>5. u \in PMState
    BY <2>1, <2>3 DEF PMState
  <2> HIDE DEF u
  <2>7. v \in PMState
    BY <2>1, <2>5, TellVfsType DEF Request
  <2> HIDE DEF v
  <2> QED BY <1>0, <1>1, <2>1, <2>2, <2>7, SignalTracerType, ReplyType DEF TypeOK, Call
<1> QED BY <1>2, <1>3, <1>4

LEMMA WaitpidType ==
  ASSUME TypeOK, NEW p \in Slot, NEW arg \in WaitArg, NEW nohang \in BOOLEAN,
         do_waitpid(p, arg, nohang)
  PROVE  TypeOK'
<1> DEFINE w == IF arg = 0 THEN -pm.procgrp[p] ELSE arg
           kids == Waitable(pm, p, w)
           dec == {x \in kids : Deciding(pm, p, x)}
           c == Least(dec)
           t == [pm EXCEPT !.call[p] = "wait"]
           told == tell_parent(t, c)
<1>0. pm \in PMState /\ UNCHANGED <<next_child, act, stack>>
  BY DEF TypeOK, do_waitpid
<1>1. pm' = IF dec # {}
            THEN IF t.tracer[c] = p /\ "TRACE_ZOMBIE" \in t.flags[c]
                 THEN check_parent(tell_tracer(t, c), c, TRUE)
                 ELSE IF StopPending(t, p, c)
                 THEN [reply(t, p, "wait") EXCEPT !.sigtrace = @ \ {c}]
                 ELSE IF VfsCall(told, c) THEN told ELSE cleanup(told, c)
            ELSE IF kids = {} \/ nohang
            THEN reply(t, p, "wait")
            ELSE [SetFlags(t, p, {"WAITING"}) EXCEPT !.wpid[p] = w]
  BY DEF do_waitpid
<1>2. t \in PMState
  BY <1>0 DEF PMState, Call
<1>3. w \in Int
  <2>1. pm.procgrp[p] \in Int
    BY <1>0 DEF PMState, Pid
  <2> QED BY <2>1, PMAssumption
<1>4. dec # {} => c \in Slot
  <2>1. dec \in SUBSET Slot /\ Slot \subseteq Nat
    BY DEF Waitable, Slot
  <2> HIDE DEF dec
  <2> QED BY <2>1, LeastOf
<1> HIDE DEF w, kids, dec, c, t
<1>5. dec # {} => told \in PMState /\ cleanup(told, c) \in PMState
  BY <1>2, <1>4, TellParentType, CleanupType
<1>6. dec # {} => check_parent(tell_tracer(t, c), c, TRUE) \in PMState
  BY <1>2, <1>4, TellTracerType, CheckParentType
<1>7. reply(t, p, "wait") \in PMState
  BY <1>2, ReplyType DEF Call
<1>8. [reply(t, p, "wait") EXCEPT !.sigtrace = @ \ {c}] \in PMState
  BY <1>7 DEF PMState
<1>9. [SetFlags(t, p, {"WAITING"}) EXCEPT !.wpid[p] = w] \in PMState
  <2>1. SetFlags(t, p, {"WAITING"}) \in PMState
    BY <1>2, FlagsType DEF Flag
  <2> QED BY <1>3, <2>1 DEF PMState
<1> HIDE DEF told
<1>10. pm' \in PMState
  BY <1>1, <1>5, <1>6, <1>7, <1>8, <1>9
<1> QED BY <1>0, <1>10 DEF TypeOK

LEMMA ResumedType ==
  ASSUME TypeOK, NEW t \in PMState, NEW s \in Slot, Resumed(t, s)
  PROVE  TypeOK'
<1>1. CASE exit_proc(t, s, FALSE, PM)
  BY <1>1, ExitProcType, ConstantTypes
<1>2. CASE pm' = t /\ UNCHANGED <<next_child, act, stack>>
  BY <1>2 DEF TypeOK
<1> QED BY <1>1, <1>2 DEF Resumed

LEMMA VfsReplyType ==
  ASSUME TypeOK, NEW s \in Slot, VfsReply(s)
  PROVE  TypeOK'
<1> DEFINE t == Answered(pm, s)
<1>1. t \in PMState
  BY AnsweredType DEF TypeOK
<1> HIDE DEF t
<1>2. ASSUME NEW u \in PMState PROVE ReplyParent(u, s) \in PMState
  <2>1. u.parent[s] \in Slot
    BY DEF PMState
  <2> QED BY <1>2, <2>1, ReplyType DEF ReplyParent, Call
<1>3. ASSUME NEW k \in Call PROVE reply(t, s, k) \in PMState
  BY <1>1, ReplyType
<1>4. CASE VfsForkReply(s)
  <2>1. CASE Resumed(ReplyParent(reply(t, s, "born"), s), s)
    <3>1. ReplyParent(reply(t, s, "born"), s) \in PMState
      BY <1>2, <1>3 DEF Call
    <3> QED BY <2>1, <3>1, ResumedType
  <2>2. CASE exit_proc(ReplyParent([t EXCEPT !.sched = @ \ {s}], s), s, FALSE, PM)
    <3>1. [t EXCEPT !.sched = @ \ {s}] \in PMState
      BY <1>1 DEF PMState
    <3>2. ReplyParent([t EXCEPT !.sched = @ \ {s}], s) \in PMState
      BY <1>2, <3>1
    <3> QED BY <2>2, <3>2, ExitProcType, ConstantTypes
  <2> QED BY <1>4, <2>1, <2>2 DEF VfsForkReply, t
<1>5. CASE VfsCallReply(s)
  <2>1. CASE Resumed(t, s)
    BY <1>1, <2>1, ResumedType
  <2>2. CASE Resumed(reply(t, s, "setsid"), s)
    <3>1. reply(t, s, "setsid") \in PMState
      BY <1>3 DEF Call
    <3> QED BY <2>2, <3>1, ResumedType
  <2> QED BY <1>5, <2>1, <2>2 DEF VfsCallReply, t
<1>6. CASE VfsExitReply(s)
  <2>1. pm' \in PMState
    BY <1>1, <1>6, ExitRestartType DEF VfsExitReply, t
  <2> QED BY <1>6, <2>1 DEF VfsExitReply, TypeOK
<1> QED BY <1>4, <1>5, <1>6 DEF VfsReply

\* The requests that start an exit, and the others outside forkexit.c.
LEMMA OtherType ==
  ASSUME TypeOK, NEW p \in Slot, NEW q \in Slot, NEW b \in BOOLEAN,
         \/ do_exit(p) \/ Kill(p, q) \/ KernelKill(p) \/ setsid(p)
         \/ Attach(p, q, b) \/ Resume(p, q, b) \/ TraceExit(p, q)
  PROVE  TypeOK'
<1>0. pm \in PMState /\ PM \in Slot
  BY ConstantTypes DEF TypeOK
<1>1. ASSUME NEW x \in Slot PROVE [pm EXCEPT !.pend = @ \cup {x}] \in PMState
  BY <1>0 DEF PMState
<1>2. CASE do_exit(p)
  <2>1. [pm EXCEPT !.call[p] = "exit", !.pend = @ \cup {p}] \in PMState
    BY <1>0 DEF PMState, Call
  <2>2. CASE exit_proc(pm, p, FALSE, p)
    BY <1>0, <2>2, ExitProcType
  <2> QED BY <1>2, <2>1, <2>2 DEF do_exit, TypeOK
<1>3. CASE Kill(p, q)
  <2>1. ASSUME NEW d \in BOOLEAN, exit_proc(pm, q, d, p) PROVE TypeOK'
    BY <1>0, <2>1, ExitProcType
  <2> QED BY <1>1, <1>3, <2>1 DEF Kill, DumpChoice, TypeOK
<1>4. CASE KernelKill(p)
  BY <1>0, <1>4, ExitProcType DEF KernelKill
<1>5. CASE setsid(p)
  <2> DEFINE t == [pm EXCEPT !.procgrp[p] = pm.pid[p], !.call[p] = "setsid"]
  <2>1. t \in PMState
    BY <1>0 DEF PMState, Call
  <2>2. pm' = tell_vfs(t, p, "setsid") /\ UNCHANGED <<next_child, act, stack>>
    BY <1>5 DEF setsid
  <2> HIDE DEF t
  <2> QED BY <2>1, <2>2, TellVfsType DEF Request, TypeOK
<1>6. CASE Attach(p, q, b)
  <2> DEFINE t == [pm EXCEPT !.tracer[q] = p,
                             !.tfork = IF b THEN @ \cup {q} ELSE @]
  <2>1. t \in PMState
    BY <1>0 DEF PMState
  <2>2. pm' = sig_proc(t, q) /\ UNCHANGED <<next_child, act, stack>>
    BY <1>6 DEF Attach
  <2> HIDE DEF t
  <2> QED BY <2>1, <2>2, SigProcType DEF TypeOK
<1>7. CASE Resume(p, q, b)
  <2> DEFINE t == ClearFlags(pm, q, {"TRACE_STOPPED"})
             u == [t EXCEPT !.tracer[q] = IF b THEN NO_TRACER ELSE @,
                            !.tfork = IF b THEN @ \ {q} ELSE @]
  <2>1. t \in PMState
    BY <1>0, FlagsType DEF Flag
  <2>2. pm' = u /\ UNCHANGED <<next_child, act, stack>>
    BY <1>7 DEF Resume
  <2>3. u \in PMState
    <3> HIDE DEF t
    <3> QED BY <1>0, <2>1 DEF PMState, NO_TRACER, PM
  <2> HIDE DEF u
  <2> QED BY <2>2, <2>3 DEF TypeOK
<1>8. CASE TraceExit(p, q)
  <2> DEFINE u == [pm EXCEPT !.call[p] = "ptrace"]
             t == SetFlags(u, q, {"TRACE_EXIT"})
  <2>1. u \in PMState
    BY <1>0 DEF PMState, Call
  <2>2. t \in PMState
    <3> HIDE DEF u
    <3> QED BY <2>1, FlagsType DEF Flag
  <2>3. \/ exit_proc(t, q, FALSE, p)
        \/ pm' = [t EXCEPT !.pend = @ \cup {q}] /\ UNCHANGED <<next_child, act, stack>>
    BY <1>8 DEF TraceExit
  <2> HIDE DEF t
  <2>4. [t EXCEPT !.pend = @ \cup {q}] \in PMState
    BY <2>2 DEF PMState
  <2> QED BY <2>2, <2>3, <2>4, ExitProcType DEF TypeOK
<1> QED BY <1>2, <1>3, <1>4, <1>5, <1>6, <1>7, <1>8

LEMMA InitType == Init => TypeOK
<1> SUFFICES ASSUME Init PROVE TypeOK
  OBVIOUS
<1>1. Boot \subseteq Slot /\ IsFiniteSet(Boot) /\ Cardinality(Boot) \in Int
  <2>1. Boot \subseteq Slot
    BY ConstantTypes DEF Boot
  <2>2. IsFiniteSet(Slot)
    BY ConstantTypes, FS_Interval DEF Slot
  <2>3. IsFiniteSet(Boot)
    BY <2>1, <2>2, FS_Subset
  <2> QED BY <2>1, <2>3, FS_CardinalityType
<1>2. pm \in PMState
  <2>1. 0 \in Slot
    BY ConstantTypes DEF PM
  <2> QED BY <1>1, <2>1, ConstantTypes
        DEF Init, PMState, Flag, Call, Request, NO_TRACER, INIT_PID, Boot
<1>3. next_child \in [fork : Slot, srv : Slot]
  BY ConstantTypes DEF Init, PM
<1>4. NoActivation \in Activation
  BY <1>2, ActivationType, ConstantTypes
<1> QED BY <1>2, <1>3, <1>4 DEF Init, TypeOK

\* Every routine of the process manager, in every order of requests, VFS
\* answers and nested exits, keeps the process table well formed.
THEOREM TypeCorrect == Spec => []TypeOK
<1>1. ASSUME TypeOK, [Next]_vars PROVE TypeOK'
  <2>1. CASE Loop
    BY <1>1, <2>1, LoopType
  <2>2. CASE \E s \in Slot \ {PM} : VfsReply(s) \/ KernelKill(s)
    BY <1>1, <2>2, VfsReplyType, OtherType
  <2>3. CASE \E s \in Caller : Request_(s)
    <3>1. PICK p \in Slot : Request_(p)
      BY <2>3, PMAssumption
    <3>2. CASE do_fork(p) \/ \E uid \in Uid : do_srv_fork(p, uid)
      BY <1>1, <3>2, ForkType
    <3>3. CASE \E arg \in WaitArg, nohang \in BOOLEAN : do_waitpid(p, arg, nohang)
      BY <1>1, <3>3, WaitpidType
    <3> QED BY <1>1, <3>1, <3>2, <3>3, OtherType DEF Request_
  <2>4. CASE UNCHANGED vars
    BY <1>1, <2>4 DEF TypeOK, vars
  <2> QED BY <1>1, <2>1, <2>2, <2>3, <2>4 DEF Next
<1> QED BY <1>1, InitType, PTL DEF Spec
---------------------------------------------------------------------------
(* Frames.                                                                 *)

Same(t, u, x, f) == f \in u.flags[x] <=> f \in t.flags[x]

\* What may happen to a bystander: its wait ends, or it is stopped.
QuietFlags(t, u, x) ==
  /\ Same(t, u, x, "IN_USE") /\ Same(t, u, x, "EXITING")
  /\ Same(t, u, x, "VFS_CALL") /\ Same(t, u, x, "NEW_PARENT")
  /\ Same(t, u, x, "PRIV_PROC") /\ Same(t, u, x, "TRACE_EXIT")
  /\ Same(t, u, x, "ZOMBIE") /\ Same(t, u, x, "TRACE_ZOMBIE")
  /\ Same(t, u, x, "TOLD_PARENT")
  /\ "WAITING" \in u.flags[x] => "WAITING" \in t.flags[x]
  /\ "TRACE_STOPPED" \in u.flags[x] =>
       "TRACE_STOPPED" \in t.flags[x] \/ (InUse(t, x) /\ ~Exiting(t, x))
  /\ u.pid[x] = t.pid[x]

\* An exiting process is announced to its tracer or parent.
Relabeled(t, u, c) ==
  /\ Exiting(t, c)
  /\ Same(t, u, c, "IN_USE") /\ Same(t, u, c, "EXITING")
  /\ Same(t, u, c, "VFS_CALL") /\ Same(t, u, c, "NEW_PARENT")
  /\ Same(t, u, c, "PRIV_PROC") /\ Same(t, u, c, "TRACE_EXIT")
  /\ Same(t, u, c, "WAITING") /\ Same(t, u, c, "TRACE_STOPPED")
  /\ "ZOMBIE" \in u.flags[c] =>
       "TRACE_ZOMBIE" \notin u.flags[c] /\ "TOLD_PARENT" \notin u.flags[c]
  /\ "TRACE_ZOMBIE" \in u.flags[c] =>
       "TOLD_PARENT" \notin u.flags[c] /\ t.tracer[c] # NO_TRACER
  /\ u.pid[c] = t.pid[c]

\* An exiting process that VFS has let go of loses its slot.
Freed(t, u, c) ==
  Exiting(t, c) /\ ~VfsCall(t, c) /\ u.flags[c] = {} /\ u.pid[c] \in {0} \cup Pid

QuietCall(t, u, x) ==
  /\ \/ u.call[x] = t.call[x]
     \/ t.call[x] = "wait" /\ u.call[x] = "run" /\ "WAITING" \notin u.flags[x]
  /\ u.call[x] = "wait" /\ "WAITING" \in t.flags[x] => "WAITING" \in u.flags[x]

SameRest(t, u) ==
  /\ u.parent = t.parent /\ u.tracer = t.tracer
  /\ u.procgrp = t.procgrp /\ u.wpid = t.wpid /\ u.sched = t.sched
  /\ u.pend = t.pend /\ u.vfs = t.vfs /\ u.panic = t.panic

Frame(t, u, c) ==
  /\ t \in PMState /\ u \in PMState
  /\ SameRest(t, u)
  /\ \A x \in Slot : QuietCall(t, u, x)
  /\ \A x \in Slot \ {c} : QuietFlags(t, u, x)
  /\ \/ /\ QuietFlags(t, u, c) \/ Relabeled(t, u, c)
        /\ u.procs_in_use = t.procs_in_use
     \/ /\ Freed(t, u, c)
        /\ u.procs_in_use = t.procs_in_use - 1

\* What BootInv says of INIT, RS and PM.
LEMMA BootFacts ==
  ASSUME NEW t, BootInv(t)
  PROVE  /\ InUse(t, INIT_PROC_NR) /\ ~Exiting(t, INIT_PROC_NR)
         /\ t.vfs[INIT_PROC_NR] = "none" /\ t.tracer[INIT_PROC_NR] = NO_TRACER
         /\ InUse(t, PM) /\ ~Exiting(t, PM) /\ t.tracer[PM] = NO_TRACER
         /\ InUse(t, RS_PROC_NR) /\ ~Exiting(t, RS_PROC_NR)
         /\ t.tracer[RS_PROC_NR] = NO_TRACER
BY DEF BootInv, Boot

LEMMA BootSlots == Boot \subseteq Slot /\ PM \in Boot /\ INIT_PROC_NR \in Boot
                   /\ RS_PROC_NR \in Boot
BY ConstantTypes DEF Boot

\* BootInv survives what leaves the boot processes alone.
LEMMA BootKept ==
  ASSUME NEW t, NEW u, BootInv(t),
         \A x \in Boot : /\ Same(t, u, x, "IN_USE") /\ Same(t, u, x, "EXITING")
                         /\ Same(t, u, x, "PRIV_PROC")
                         /\ u.tracer[x] = t.tracer[x] /\ u.vfs[x] = t.vfs[x]
                         /\ x \in u.pend => x \in t.pend
                         /\ u.procgrp[x] = t.procgrp[x] /\ u.pid[x] = t.pid[x]
  PROVE  BootInv(u)
BY BootSlots DEF BootInv, Same, InUse, Exiting, Priv

\* A Frame keeps what holds between any two calls inside a handler.
LEMMA FrameBase ==
  ASSUME NEW t, NEW u, NEW c \in Slot, NEW a \in [Slot -> Activation],
         Frame(t, u, c), BaseInv(t, a)
  PROVE  BaseInv(u, a)
<1> USE DEF InUse, Exiting, VfsCall
<1>0. t \in PMState /\ u \in PMState
  BY DEF Frame, SameRest
<1>1. ASSUME NEW x \in Slot PROVE SlotInv(u, x)
  <2>1. SlotInv(t, x) /\ QuietCall(t, u, x)
    BY DEF BaseInv, Frame
  <2>2. QuietFlags(t, u, x) \/ Relabeled(t, u, x) \/ Freed(t, u, x)
    BY DEF Frame, SameRest
  <2>3. u.vfs = t.vfs /\ u.pend = t.pend /\ u.sched = t.sched
    BY DEF Frame, SameRest
  <2>4. CASE QuietFlags(t, u, x)
    <3>1. "IN_USE" \notin u.flags[x] => u.flags[x] = {}
      <4>1. ASSUME "IN_USE" \notin u.flags[x], NEW f \in u.flags[x] PROVE FALSE
        <5>1. f \in Flag
          BY <1>0 DEF PMState
        <5> QED BY <2>1, <2>4, <4>1, <5>1 DEF SlotInv, QuietFlags, Same, Flag
      <4> QED BY <4>1
    <3> QED BY <2>1, <2>3, <2>4, <3>1 DEF SlotInv, QuietFlags, QuietCall, Same
  <2>5. CASE Relabeled(t, u, x)
    BY <2>1, <2>3, <2>5 DEF SlotInv, Relabeled, QuietCall, Same
  <2>6. CASE Freed(t, u, x)
    BY <2>1, <2>3, <2>6 DEF SlotInv, Freed
  <2> QED BY <2>2, <2>4, <2>5, <2>6
<1>2. ASSUME NEW x \in Slot
      PROVE  /\ Exiting(t, x) => Exiting(u, x) \/ Freed(t, u, x)
             /\ Exiting(u, x) => Exiting(t, x)
             /\ InUse(t, x) => InUse(u, x) \/ Freed(t, u, x)
             /\ InUse(u, x) => InUse(t, x)
             /\ Freed(t, u, x) => a[x].at = "none" /\ Exiting(t, x) /\ ~InUse(u, x)
             /\ ~Freed(t, u, x) => /\ Same(t, u, x, "VFS_CALL")
                                   /\ Same(t, u, x, "NEW_PARENT")
                                   /\ Same(t, u, x, "TRACE_EXIT")
             /\ Freed(t, u, x) => t.vfs[x] = "none" /\ u.flags[x] = {}
  <2>1. SlotInv(t, x) /\ ActiveInv(t, a, x)
    BY DEF BaseInv
  <2>2. QuietFlags(t, u, x) \/ Relabeled(t, u, x) \/ Freed(t, u, x)
    BY DEF Frame, SameRest
  <2> QED BY <2>1, <2>2 DEF SlotInv, ActiveInv, QuietFlags, Relabeled, Freed, Same
<1>3. ASSUME NEW x \in Slot, InUse(u, x)
      PROVE  /\ t.parent[x] \in Slot /\ t.tracer[x] \in Slot
             /\ ~Freed(t, u, t.parent[x])
             /\ t.tracer[x] # NO_TRACER => ~Freed(t, u, t.tracer[x])
  <2>1. t.parent[x] \in Slot /\ t.tracer[x] \in Slot
    BY <1>0 DEF PMState
  <2>2. FamilyInv(t, a, x) /\ InUse(t, x)
    BY <1>2, <1>3 DEF BaseInv
  <2> QED BY <1>2, <2>1, <2>2 DEF FamilyInv
<1>4. ASSUME NEW x \in Slot PROVE FamilyInv(u, a, x)
  <2> SUFFICES ASSUME InUse(u, x) PROVE FamilyInv(u, a, x)
    BY DEF FamilyInv
  <2> DEFINE p == t.parent[x]  d == t.tracer[x]
  <2>1. FamilyInv(t, a, x) /\ InUse(t, x) /\ ~Freed(t, u, x)
    BY <1>2 DEF BaseInv
  <2>2. u.parent = t.parent /\ u.tracer = t.tracer /\ p \in Slot /\ d \in Slot
    BY <1>3 DEF Frame, SameRest
  <2>3. InUse(u, p) /\ (Exiting(u, p) => Exiting(t, p))
    BY <1>2, <1>3, <2>1, <2>2 DEF FamilyInv
  <2>4. d # NO_TRACER => InUse(u, d) /\ (Exiting(u, d) => Exiting(t, d))
    BY <1>2, <1>3, <2>1, <2>2 DEF FamilyInv
  <2>5. {"TRACE_ZOMBIE", "TRACE_EXIT"} \cap u.flags[x] # {} => d # NO_TRACER
    <3>1. QuietFlags(t, u, x) \/ Relabeled(t, u, x)
      BY <2>1 DEF Frame, SameRest
    <3> QED BY <2>1, <3>1 DEF FamilyInv, QuietFlags, Relabeled, Same
  <2> QED BY <2>1, <2>2, <2>3, <2>4, <2>5 DEF FamilyInv
<1>5. ASSUME NEW x \in Slot PROVE CallInv(u, x)
  <2>0. /\ u.parent = t.parent /\ u.tracer = t.tracer /\ u.vfs = t.vfs
        /\ CallInv(t, x) /\ SlotInv(t, x) /\ SlotInv(u, x) /\ SlotInv(t, INIT_PROC_NR)
        /\ QuietCall(t, u, x) /\ QuietCall(t, u, INIT_PROC_NR)
        /\ t.parent[x] \in Slot /\ t.tracer[x] \in Slot
        /\ QuietCall(t, u, t.parent[x]) /\ QuietCall(t, u, t.tracer[x])
        /\ INIT_PROC_NR \in Slot
    BY <1>0, <1>1, ConstantTypes DEF Frame, SameRest, BaseInv, PMState
  <2>1. u.call[x] # "spurious" /\ (u.vfs[x] = "fork" => u.call[x] = "born")
        /\ (u.vfs[x] = "setsid" => u.call[x] = "setsid")
    BY <2>0 DEF CallInv, QuietCall
  <2>2. "WAITING" \in u.flags[x] =>
          u.call[x] = "wait" \/ (x = INIT_PROC_NR /\ u.call[x] = "dead")
    <3>1. "WAITING" \in u.flags[x] => "WAITING" \in t.flags[x]
      BY DEF Frame, SameRest, QuietFlags, Relabeled, Freed, Same
    <3> QED BY <2>0, <3>1 DEF CallInv, QuietCall
  <2>3. ASSUME u.vfs[x] = "fork", "NEW_PARENT" \notin u.flags[x]
        PROVE  \/ u.call[u.parent[x]] = "fork"
               \/ u.parent[x] = INIT_PROC_NR /\ u.call[INIT_PROC_NR] = "dead"
               \/ Exiting(u, u.parent[x])
    <3>1. ~Freed(t, u, x) /\ "NEW_PARENT" \notin t.flags[x] /\ InUse(u, x)
      BY <1>2, <2>0, <2>3 DEF SlotInv, Same
    <3>2. ~Freed(t, u, t.parent[x])
      BY <1>3, <3>1
    <3> QED BY <1>2, <2>0, <2>3, <3>1, <3>2 DEF CallInv, QuietCall
  <2>4. ASSUME "TRACE_EXIT" \in u.flags[x], u.vfs[x] # "none"
        PROVE  u.call[u.tracer[x]] = "ptrace" \/ Exiting(u, u.tracer[x])
    <3>1. ~Freed(t, u, x) /\ "TRACE_EXIT" \in t.flags[x] /\ InUse(u, x)
      BY <1>2, <2>0, <2>4 DEF SlotInv, Same
    <3>2. t.tracer[x] # NO_TRACER /\ ~Freed(t, u, t.tracer[x])
      <4>1. FamilyInv(t, a, x) /\ InUse(t, x)
        BY <1>2, <3>1 DEF BaseInv
      <4>2. t.tracer[x] # NO_TRACER
        BY <3>1, <4>1 DEF FamilyInv
      <4> QED BY <1>3, <3>1, <4>2
    <3> QED BY <1>2, <2>0, <2>4, <3>1, <3>2 DEF CallInv, QuietCall
  <2> QED BY <2>1, <2>2, <2>3, <2>4 DEF CallInv
<1>6. ASSUME NEW x \in Slot PROVE PendInv(u, x) /\ ActiveInv(u, a, x)
  <2>1. PendInv(t, x) /\ ActiveInv(t, a, x) /\ SlotInv(t, x) /\ QuietCall(t, u, x)
    BY DEF BaseInv, Frame
  <2>2. u.pend = t.pend
    BY DEF Frame, SameRest
  <2> QED BY <1>2, <2>1, <2>2 DEF PendInv, ActiveInv, SlotInv, QuietCall, Same
<1>7. ASSUME NEW x \in Slot, NEW y \in Slot PROVE OneAnswer(u, x, y)
  <2>1. OneAnswer(t, x, y) /\ SlotInv(t, x) /\ SlotInv(t, y)
    BY DEF BaseInv
  <2>2. u.parent = t.parent /\ u.tracer = t.tracer /\ u.vfs = t.vfs
    BY DEF Frame, SameRest
  <2> QED BY <1>2, <2>1, <2>2 DEF OneAnswer, Same
<1>8. BootInv(u) /\ u.panic = {}
  <2>1. BootInv(t) /\ t.panic = {} /\ SameRest(t, u)
    BY DEF BaseInv, Frame
  <2>2. ASSUME NEW x \in Boot PROVE QuietFlags(t, u, x)
    <3>1. x \in Slot /\ ~Exiting(t, x)
      BY <2>1, BootSlots DEF BootInv
    <3> QED BY <3>1 DEF Frame, Relabeled, Freed
  <2> QED BY <2>1, <2>2, BootKept DEF SameRest, QuietFlags
<1> QED BY <1>1, <1>4, <1>5, <1>6, <1>7, <1>8 DEF BaseInv

\* ... and, for everybody but c, what holds when a handler is done.
LEMMA FrameRest ==
  ASSUME NEW t, NEW u, NEW c \in Slot, Frame(t, u, c), NEW x \in Slot
  PROVE  /\ Remembered(t, x) => Remembered(u, x)
         /\ x # c /\ Announced(t, x) => Announced(u, x)
         /\ x # c => InUse(u, x) = InUse(t, x) /\ Exiting(u, x) = Exiting(t, x)
<1>1. Remembered(t, x) => Remembered(u, x)
  BY DEF Frame, SameRest, QuietCall, Remembered
<1>2. ASSUME x # c PROVE InUse(u, x) = InUse(t, x) /\ Exiting(u, x) = Exiting(t, x)
  BY <1>2 DEF Frame, SameRest, QuietFlags, Same, InUse, Exiting
<1>3. ASSUME x # c, Announced(t, x) PROVE Announced(u, x)
  <2>1. ASSUME NEW p \in Slot, wait_test(u, p, x) PROVE wait_test(t, p, x)
    BY <1>3, <2>1 DEF Frame, SameRest, wait_test, QuietFlags, Relabeled, Freed, Same
  <2>2. t.parent[x] \in Slot /\ t.tracer[x] \in Slot
    BY DEF Frame, SameRest, PMState
  <2>3. QuietFlags(t, u, x) /\ u.vfs = t.vfs /\ u.pend = t.pend
        /\ u.parent = t.parent /\ u.tracer = t.tracer
    BY <1>3 DEF Frame, SameRest
  <2> QED BY <1>3, <2>1, <2>2, <2>3 DEF Announced, QuietFlags, Same
<1> QED BY <1>1, <1>2, <1>3

LEMMA SlotFinite == IsFiniteSet(Slot) /\ Cardinality(Slot) = NR_PROCS
<1>1. 0 \in Int /\ NR_PROCS - 1 \in Int /\ NR_PROCS > 0
  BY ConstantTypes DEF Slot
<1> QED BY <1>1, FS_Interval, ConstantTypes DEF Slot

LEMMA FrameCount ==
  ASSUME NEW t, NEW u, NEW c \in Slot, Frame(t, u, c), SlotInv(t, c), CountInv(t)
  PROVE  CountInv(u)
<1> DEFINE S == {x \in Slot : InUse(t, x)}
           T == {x \in Slot : InUse(u, x)}
<1>1. IsFiniteSet(S)
  <2>1. S \in SUBSET Slot
    OBVIOUS
  <2> HIDE DEF S
  <2> QED BY <2>1, SlotFinite, FS_Subset
<1>2. \A x \in Slot \ {c} : InUse(u, x) = InUse(t, x)
  BY DEF Frame, QuietFlags, Same, InUse
<1>3. CASE Freed(t, u, c) /\ u.procs_in_use = t.procs_in_use - 1
  <2>1. T = S \ {c} /\ c \in S
    BY <1>2, <1>3 DEF Freed, SlotInv, InUse, Exiting
  <2>2. Cardinality(T) = Cardinality(S) - 1
    BY <1>1, <2>1, FS_RemoveElement
  <2> QED BY <1>3, <2>2 DEF CountInv
<1>4. CASE /\ QuietFlags(t, u, c) \/ Relabeled(t, u, c)
           /\ u.procs_in_use = t.procs_in_use
  <2>1. T = S
    BY <1>2, <1>4 DEF QuietFlags, Relabeled, Same, InUse
  <2> QED BY <1>4, <2>1 DEF CountInv
<1> QED BY <1>3, <1>4 DEF Frame

---------------------------------------------------------------------------
(* The elementary routines are Frames.                                     *)

\* Who may be sent the answer to a waitpid.
Awaits(t, p) == t.call[p] = "wait" \/ (p = INIT_PROC_NR /\ t.call[p] = "dead")

Waked(t, u, p) ==
  /\ \A x \in Slot \ {p} : u.call[x] = t.call[x]
  /\ \/ u.call[p] = t.call[p] /\ u.call[p] # "wait"
     \/ t.call[p] = "wait" /\ u.call[p] = "run"

LEMMA WakeCall ==
  ASSUME NEW t \in PMState, NEW p \in Slot, Awaits(t, p)
  PROVE  LET u == reply(t, p, "wait")
         IN  /\ u \in PMState /\ SameRest(t, u) /\ Waked(t, u, p)
             /\ u.flags = t.flags /\ u.pid = t.pid
             /\ u.procs_in_use = t.procs_in_use
<1> DEFINE u == reply(t, p, "wait")
<1>1. u \in PMState
  BY ReplyType DEF Call
<1>2. SameRest(t, u) /\ u.flags = t.flags /\ u.pid = t.pid
      /\ u.procs_in_use = t.procs_in_use
  BY DEF reply, PMState, SameRest
<1>3. \A x \in Slot \ {p} : u.call[x] = t.call[x]
  BY DEF reply, PMState
<1>4. u.call[p] = IF t.call[p] = "wait" THEN "run"
                  ELSE IF t.call[p] = "dead" /\ p = INIT_PROC_NR THEN "dead"
                  ELSE "spurious"
  BY DEF reply, PMState
<1> QED BY <1>1, <1>2, <1>3, <1>4 DEF Awaits, Waked

SameFlagsBut(t, u, s) == \A x \in Slot \ {s} : u.flags[x] = t.flags[x]

LEMMA SetFields ==
  ASSUME NEW t \in PMState, NEW s \in Slot, NEW F \in SUBSET Flag
  PROVE  LET u == SetFlags(t, s, F)
         IN  /\ u \in PMState /\ SameRest(t, u) /\ SameFlagsBut(t, u, s)
             /\ u.flags[s] = t.flags[s] \cup F
             /\ u.call = t.call /\ u.pid = t.pid
             /\ u.procs_in_use = t.procs_in_use
<1>1. SetFlags(t, s, F) \in PMState
  BY FlagsType
<1> QED BY <1>1 DEF SetFlags, PMState, SameRest, SameFlagsBut

LEMMA ClearFields ==
  ASSUME NEW t \in PMState, NEW s \in Slot, NEW F \in SUBSET Flag
  PROVE  LET u == ClearFlags(t, s, F)
         IN  /\ u \in PMState /\ SameRest(t, u) /\ SameFlagsBut(t, u, s)
             /\ u.flags[s] = t.flags[s] \ F
             /\ u.call = t.call /\ u.pid = t.pid
             /\ u.procs_in_use = t.procs_in_use
<1>1. ClearFlags(t, s, F) \in PMState
  BY FlagsType
<1> QED BY <1>1 DEF ClearFlags, PMState, SameRest, SameFlagsBut

\* What tell_parent and tell_tracer do alike: d is woken, one flag of c is
\* replaced by another.
LEMMA TellFrame ==
  ASSUME NEW t \in PMState, NEW c \in Slot, NEW d \in Slot, d # c,
         Awaits(t, d), Exiting(t, c),
         NEW f \in {"ZOMBIE", "TRACE_ZOMBIE"}, f \in t.flags[c],
         NEW g \in {"ZOMBIE", "TOLD_PARENT"}, f # g,
         \A h \in {"ZOMBIE", "TRACE_ZOMBIE", "TOLD_PARENT"} : h \in t.flags[c] => h = f
  PROVE  LET z == SetFlags(ClearFlags(ClearFlags(reply(t, d, "wait"),
                                                 d, {"WAITING"}), c, {f}), c, {g})
         IN  /\ Frame(t, z, c) /\ Relabeled(t, z, c)
             /\ z.flags[c] = (t.flags[c] \ {f}) \cup {g}
             /\ z.procs_in_use = t.procs_in_use
             /\ z.call[d] # "wait"
<1> DEFINE v == reply(t, d, "wait")
           w == ClearFlags(v, d, {"WAITING"})
           y == ClearFlags(w, c, {f})
           z == SetFlags(y, c, {g})
<1>1. /\ v \in PMState /\ SameRest(t, v) /\ Waked(t, v, d)
      /\ v.flags = t.flags /\ v.pid = t.pid /\ v.procs_in_use = t.procs_in_use
  BY WakeCall
<1> HIDE DEF v
<1>2. /\ w \in PMState /\ SameRest(v, w) /\ SameFlagsBut(v, w, d)
      /\ w.flags[d] = v.flags[d] \ {"WAITING"}
      /\ w.call = v.call /\ w.pid = v.pid /\ w.procs_in_use = v.procs_in_use
  BY <1>1, ClearFields DEF Flag
<1> HIDE DEF w
<1>3. /\ y \in PMState /\ SameRest(w, y) /\ SameFlagsBut(w, y, c)
      /\ y.flags[c] = w.flags[c] \ {f}
      /\ y.call = w.call /\ y.pid = w.pid /\ y.procs_in_use = w.procs_in_use
  BY <1>2, ClearFields DEF Flag
<1> HIDE DEF y
<1>4. /\ z \in PMState /\ SameRest(y, z) /\ SameFlagsBut(y, z, c)
      /\ z.flags[c] = y.flags[c] \cup {g}
      /\ z.call = y.call /\ z.pid = y.pid /\ z.procs_in_use = y.procs_in_use
  BY <1>3, SetFields DEF Flag
<1> HIDE DEF z
<1>5. /\ z.flags[c] = (t.flags[c] \ {f}) \cup {g}
      /\ z.flags[d] = t.flags[d] \ {"WAITING"}
      /\ \A x \in Slot \ {c, d} : z.flags[x] = t.flags[x]
  BY <1>1, <1>2, <1>3, <1>4 DEF SameFlagsBut
<1>6. SameRest(t, z) /\ z.call = v.call /\ z.pid = t.pid
      /\ z.procs_in_use = t.procs_in_use
  BY <1>1, <1>2, <1>3, <1>4 DEF SameRest
<1>7. Relabeled(t, z, c)
  BY <1>5, <1>6 DEF Relabeled, Same
<1>8. \A x \in Slot : QuietCall(t, z, x)
  BY <1>1, <1>5, <1>6 DEF QuietCall, Waked
<1>9. \A x \in Slot \ {c} : QuietFlags(t, z, x)
  BY <1>5, <1>6 DEF QuietFlags, Same
<1>10. Frame(t, z, c)
  BY <1>4, <1>6, <1>7, <1>8, <1>9 DEF Frame
<1> QED BY <1>1, <1>5, <1>6, <1>7, <1>10 DEF Waked, v, w, y, z

LEMMA TellParentFrame ==
  ASSUME NEW t \in PMState, NEW c \in Slot, t.parent[c] # PM, t.parent[c] # c,
         Awaits(t, t.parent[c]), Exiting(t, c), "ZOMBIE" \in t.flags[c],
         "TRACE_ZOMBIE" \notin t.flags[c], "TOLD_PARENT" \notin t.flags[c]
  PROVE  LET z == tell_parent(t, c)
         IN  /\ Frame(t, z, c) /\ Relabeled(t, z, c)
             /\ z.flags[c] = (t.flags[c] \ {"ZOMBIE"}) \cup {"TOLD_PARENT"}
             /\ z.procs_in_use = t.procs_in_use
             /\ z.call[t.parent[c]] # "wait"
<1> DEFINE p == t.parent[c]
<1>1. p \in Slot /\ ~(p <= 0)
  <2>1. p \in Slot
    BY DEF PMState
  <2> QED BY <2>1, ConstantTypes DEF Slot, PM
<1>2. tell_parent(t, c) =
        SetFlags(ClearFlags(ClearFlags(reply(t, p, "wait"), p, {"WAITING"}),
                            c, {"ZOMBIE"}), c, {"TOLD_PARENT"})
  BY <1>1 DEF tell_parent, Panic
<1> HIDE DEF p
<1>3. p # c /\ Awaits(t, p)
  BY DEF p
<1> QED BY <1>1, <1>2, <1>3, TellFrame DEF p

LEMMA TellTracerFrame ==
  ASSUME NEW t \in PMState, NEW c \in Slot, t.tracer[c] # NO_TRACER,
         t.tracer[c] # c, Awaits(t, t.tracer[c]), Exiting(t, c),
         "TRACE_ZOMBIE" \in t.flags[c],
         "ZOMBIE" \notin t.flags[c], "TOLD_PARENT" \notin t.flags[c]
  PROVE  LET z == tell_tracer(t, c)
         IN  /\ Frame(t, z, c) /\ Relabeled(t, z, c)
             /\ z.flags[c] = (t.flags[c] \ {"TRACE_ZOMBIE"}) \cup {"ZOMBIE"}
             /\ z.procs_in_use = t.procs_in_use
             /\ z.call[t.tracer[c]] # "wait"
<1> DEFINE d == t.tracer[c]
<1>1. d \in Slot /\ ~(d <= 0)
  <2>1. d \in Slot
    BY DEF PMState
  <2> QED BY <2>1, ConstantTypes DEF Slot, NO_TRACER
<1>2. tell_tracer(t, c) =
        SetFlags(ClearFlags(ClearFlags(reply(t, d, "wait"), d, {"WAITING"}),
                            c, {"TRACE_ZOMBIE"}), c, {"ZOMBIE"})
  BY <1>1 DEF tell_tracer, Panic
<1> HIDE DEF d
<1>3. d # c /\ Awaits(t, d)
  BY DEF d
<1> QED BY <1>1, <1>2, <1>3, TellFrame DEF d

LEMMA CleanupFrame ==
  ASSUME NEW t \in PMState, NEW c \in Slot, Exiting(t, c), ~VfsCall(t, c),
         t.call[c] = "dead"
  PROVE  LET z == cleanup(t, c)
         IN  Frame(t, z, c) /\ ~InUse(z, c) /\ z.flags[c] = {}
<1> DEFINE z == cleanup(t, c)
<1>1. z \in PMState
  BY CleanupType
<1>2. SameRest(t, z) /\ z.call = t.call /\ z.procs_in_use = t.procs_in_use - 1
  BY DEF cleanup, PMState, SameRest
<1>3. /\ z.flags[c] = {} /\ z.pid[c] = 0
      /\ \A x \in Slot \ {c} : z.flags[x] = t.flags[x] /\ z.pid[x] = t.pid[x]
  BY DEF cleanup, PMState
<1> HIDE DEF z
<1>4. Freed(t, z, c)
  BY <1>3 DEF Freed
<1>5. \A x \in Slot : QuietCall(t, z, x)
  <2>1. \A x \in Slot : z.call[x] = t.call[x]
    BY <1>2
  <2> QED BY <1>3, <2>1 DEF QuietCall
<1>6. \A x \in Slot \ {c} : QuietFlags(t, z, x)
  BY <1>3 DEF QuietFlags, Same
<1> QED BY <1>1, <1>2, <1>3, <1>4, <1>5, <1>6 DEF Frame, InUse, z

\* A signal stops a live process for its tracer, and may end its wait.
LEMMA SigProcFrame ==
  ASSUME NEW t \in PMState, NEW s \in Slot, NEW a, BaseInv(t, a),
         InUse(t, s), ~Exiting(t, s)
  PROVE  \A c \in Slot : Frame(t, sig_proc(t, s), c)
<1> DEFINE d == t.tracer[s]
           u == SetFlags(t, s, {"TRACE_STOPPED"})
           w == ClearFlags(u, d, {"WAITING"})
           z == reply(w, d, "wait")
           y == [u EXCEPT !.sigtrace = @ \cup {s}]
<1>1. d \in Slot
  BY DEF PMState
<1>2. \A c \in Slot : Frame(t, t, c)
  BY DEF Frame, SameRest, QuietFlags, Same, QuietCall
<1>3. /\ u \in PMState /\ SameRest(t, u) /\ SameFlagsBut(t, u, s)
      /\ u.flags[s] = t.flags[s] \cup {"TRACE_STOPPED"}
      /\ u.call = t.call /\ u.pid = t.pid /\ u.procs_in_use = t.procs_in_use
  BY SetFields DEF Flag
<1> HIDE DEF u
<1>4. \A c \in Slot : Frame(t, y, c)
  <2>1. /\ y \in PMState /\ SameRest(u, y) /\ y.flags = u.flags
        /\ y.call = u.call /\ y.pid = u.pid /\ y.procs_in_use = u.procs_in_use
    BY <1>3 DEF PMState, SameRest
  <2> HIDE DEF y
  <2>2. \A x \in Slot : QuietFlags(t, y, x)
    BY <1>3, <2>1 DEF QuietFlags, Same, SameFlagsBut
  <2>3. \A x \in Slot : QuietCall(t, y, x)
    BY <1>3, <2>1 DEF QuietCall, SameFlagsBut
  <2> QED BY <1>3, <2>1, <2>2, <2>3 DEF Frame, SameRest
<1>5. ASSUME wait_test(t, d, s) PROVE \A c \in Slot : Frame(t, z, c)
  <2>1. Awaits(t, d)
    <3>1. "WAITING" \in t.flags[d] /\ CallInv(t, d)
      BY <1>1, <1>5 DEF wait_test, BaseInv
    <3> QED BY <3>1 DEF CallInv, Awaits
  <2>2. /\ w \in PMState /\ SameRest(u, w) /\ SameFlagsBut(u, w, d)
        /\ w.flags[d] = u.flags[d] \ {"WAITING"}
        /\ w.call = u.call /\ w.pid = u.pid /\ w.procs_in_use = u.procs_in_use
    BY <1>1, <1>3, ClearFields DEF Flag
  <2> HIDE DEF w
  <2>3. /\ z \in PMState /\ SameRest(w, z) /\ Waked(w, z, d)
        /\ z.flags = w.flags /\ z.pid = w.pid /\ z.procs_in_use = w.procs_in_use
    <3>1. Awaits(w, d)
      BY <1>3, <2>1, <2>2 DEF Awaits
    <3> QED BY <1>1, <2>2, <3>1, WakeCall
  <2> HIDE DEF z, d
  <2>4. /\ \A x \in Slot \ {d} : z.call[x] = t.call[x]
        /\ \/ z.call[d] = t.call[d] /\ z.call[d] # "wait"
           \/ t.call[d] = "wait" /\ z.call[d] = "run"
    BY <1>3, <2>2, <2>3 DEF Waked
  <2>5. /\ \A x \in Slot \ {s, d} : z.flags[x] = t.flags[x]
        /\ z.flags[d] \subseteq t.flags[d] \cup {"TRACE_STOPPED"}
        /\ z.flags[s] \subseteq t.flags[s] \cup {"TRACE_STOPPED"}
        /\ s # d => z.flags[d] = t.flags[d] \ {"WAITING"}
        /\ s # d => z.flags[s] = t.flags[s] \cup {"TRACE_STOPPED"}
        /\ s = d => z.flags[s] = (t.flags[s] \cup {"TRACE_STOPPED"}) \ {"WAITING"}
        /\ "WAITING" \notin z.flags[d]
    BY <1>1, <1>3, <2>2, <2>3 DEF SameFlagsBut
  <2>6. z.pid = t.pid /\ SameRest(t, z) /\ z.procs_in_use = t.procs_in_use
    BY <1>3, <2>2, <2>3 DEF SameRest
  <2>7. \A x \in Slot : QuietFlags(t, z, x)
    BY <1>1, <2>5, <2>6 DEF QuietFlags, Same
  <2>8. \A x \in Slot : QuietCall(t, z, x)
    BY <1>1, <2>4, <2>5 DEF QuietCall
  <2> QED BY <2>3, <2>6, <2>7, <2>8 DEF Frame
<1>6. sig_proc(t, s) = t \/ sig_proc(t, s) = y \/ (sig_proc(t, s) = z /\ wait_test(t, d, s))
  BY DEF sig_proc, trace_stop, Panic, u
<1> QED BY <1>2, <1>4, <1>5, <1>6

\* What a routine working on c leaves as it was, or as it should be.
Kept(t, u, a, c) ==
  /\ t \in PMState /\ u \in PMState /\ SameRest(t, u)
  /\ BaseInv(u, a)
  /\ CountInv(t) => CountInv(u)
  /\ \A x \in Slot : /\ Remembered(t, x) => Remembered(u, x)
                     /\ t.call[x] # "wait" => u.call[x] = t.call[x]
  /\ \A x \in Slot \ {c} :
       /\ Announced(t, x) => Announced(u, x)
       /\ InUse(u, x) = InUse(t, x) /\ Exiting(u, x) = Exiting(t, x)
       /\ Same(t, u, x, "TRACE_EXIT")

LEMMA FrameKept ==
  ASSUME NEW t, NEW u, NEW c \in Slot, NEW a \in [Slot -> Activation],
         BaseInv(t, a), Frame(t, u, c)
  PROVE  Kept(t, u, a, c)
<1>1. BaseInv(u, a)
  BY FrameBase
<1>2. CountInv(t) => CountInv(u)
  BY FrameCount DEF BaseInv
<1>3. /\ t \in PMState /\ u \in PMState /\ SameRest(t, u)
      /\ \A x \in Slot : t.call[x] # "wait" => u.call[x] = t.call[x]
      /\ \A x \in Slot \ {c} : Same(t, u, x, "TRACE_EXIT")
  BY DEF Frame, QuietCall, QuietFlags
<1> QED BY <1>1, <1>2, <1>3, FrameRest DEF Kept

LEMMA KeptTrans ==
  ASSUME NEW t, NEW u, NEW v, NEW c \in Slot, NEW a,
         Kept(t, u, a, c), Kept(u, v, a, c)
  PROVE  Kept(t, v, a, c)
BY DEF Kept, SameRest, Same

\* The parent of an exiting process is told, or signalled, or is itself in
\* exit_proc and will hand the process over to INIT.
LEMMA CheckParentKept ==
  ASSUME NEW t \in PMState, NEW c \in Slot, NEW a \in [Slot -> Activation],
         NEW b \in BOOLEAN, BaseInv(t, a), "ZOMBIE" \in t.flags[c],
         t.vfs[c] # "dump"
  PROVE  LET u == check_parent(t, c, b)
         IN  /\ Kept(t, u, a, c)
             /\ \/ ~InUse(u, c) /\ b
                \/ /\ Exiting(u, c) /\ Same(t, u, c, "TRACE_EXIT")
                   /\ Same(t, u, c, "VFS_CALL")
                   /\ \/ Announced(u, c)
                      \/ "TOLD_PARENT" \in u.flags[c] /\ ~VfsCall(t, c) /\ ~b
<1> DEFINE p == t.parent[c]
           u == tell_parent(t, c)
           v == cleanup(u, c)
<1>0. /\ SlotInv(t, c) /\ FamilyInv(t, a, c) /\ p \in Slot
      /\ Exiting(t, c) /\ InUse(t, c) /\ t.call[c] = "dead"
      /\ "TRACE_ZOMBIE" \notin t.flags[c] /\ "TOLD_PARENT" \notin t.flags[c]
      /\ p # PM /\ InUse(t, p)
  <2>1. SlotInv(t, c) /\ FamilyInv(t, a, c) /\ p \in Slot
    BY DEF BaseInv, PMState
  <2> QED BY <2>1 DEF SlotInv, FamilyInv, Exiting, InUse
<1>1. CASE Exiting(t, p)
  <2>1. check_parent(t, c, b) = t
    BY <1>1 DEF check_parent
  <2>2. "WAITING" \notin t.flags[p]
    BY <1>0, <1>1 DEF BaseInv, SlotInv, Exiting
  <2>3. Announced(t, c)
    BY <1>0, <2>2 DEF Announced, wait_test, Exiting
  <2>4. Kept(t, t, a, c)
    BY DEF Kept, SameRest, Same
  <2> QED BY <1>0, <2>1, <2>3, <2>4 DEF Same
<1>2. CASE ~Exiting(t, p) /\ ~wait_test(t, p, c)
  <2> DEFINE w == sig_proc(t, p)
  <2>1. check_parent(t, c, b) = w
    BY <1>2 DEF check_parent
  <2>2. \A x \in Slot : Frame(t, w, x)
    BY <1>0, <1>2, SigProcFrame
  <2> HIDE DEF w
  <2>3. Kept(t, w, a, c)
    BY <2>2, FrameKept
  <2>4. Announced(t, c)
    BY <1>0, <1>2 DEF Announced, wait_test, Exiting
  <2>5. Announced(w, c) /\ QuietFlags(t, w, c)
    <3>1. PICK y \in Slot : y # c
      BY ConstantTypes
    <3> QED BY <2>2, <2>4, <3>1, FrameRest DEF Frame
  <2> QED BY <1>0, <2>1, <2>3, <2>5 DEF Same, QuietFlags, Exiting
<1>3. CASE ~Exiting(t, p) /\ wait_test(t, p, c)
  <2>1. Awaits(t, p) /\ p # c
    BY <1>0, <1>3 DEF wait_test, BaseInv, CallInv, Awaits
  <2>2. /\ Frame(t, u, c) /\ Relabeled(t, u, c)
        /\ u.flags[c] = (t.flags[c] \ {"ZOMBIE"}) \cup {"TOLD_PARENT"}
    BY <1>0, <2>1, TellParentFrame
  <2>3. check_parent(t, c, b) = IF b /\ ~VfsCall(u, c) THEN v ELSE u
    BY <1>3 DEF check_parent
  <2> HIDE DEF u
  <2>4. Kept(t, u, a, c) /\ u \in PMState /\ BaseInv(u, a)
    BY <2>2, FrameKept DEF Kept
  <2>5. VfsCall(u, c) = VfsCall(t, c) /\ Exiting(u, c)
    BY <1>0, <2>2 DEF Relabeled, Same, VfsCall, Exiting
  <2>6. CASE b /\ ~VfsCall(u, c)
    <3>1. u.call[c] = "dead"
      BY <2>4, <2>5 DEF BaseInv, SlotInv, Exiting
    <3>2. Frame(u, v, c) /\ ~InUse(v, c)
      BY <2>4, <2>5, <2>6, <3>1, CleanupFrame
    <3>3. Kept(u, v, a, c)
      BY <2>4, <3>2, FrameKept
    <3>4. Kept(t, v, a, c)
      BY <2>4, <3>3, KeptTrans
    <3> QED BY <2>3, <2>6, <3>2, <3>4
  <2>7. CASE ~(b /\ ~VfsCall(u, c))
    <3>1. Same(t, u, c, "TRACE_EXIT") /\ Same(t, u, c, "VFS_CALL")
      BY <2>2 DEF Relabeled
    <3>2. u.vfs[c] = t.vfs[c]
      BY <2>4 DEF Kept, SameRest
    <3>3. VfsCall(t, c) => Announced(u, c)
      <4>1. VfsCall(t, c) => t.vfs[c] = "exit"
        BY <1>0 DEF SlotInv, VfsCall, Exiting
      <4> QED BY <1>0, <2>2, <2>5, <3>2, <4>1 DEF Announced, Exiting
    <3> QED BY <2>2, <2>3, <2>4, <2>5, <2>7, <3>1, <3>3
  <2> QED BY <2>6, <2>7
<1> QED BY <1>1, <1>2, <1>3

\* An exiting process that nobody has been told about becomes a zombie.
LEMMA ZombifyKept ==
  ASSUME NEW t \in PMState, NEW c \in Slot, NEW a \in [Slot -> Activation],
         BaseInv(t, a), Exiting(t, c), t.vfs[c] # "dump",
         "ZOMBIE" \notin t.flags[c], "TRACE_ZOMBIE" \notin t.flags[c],
         "TOLD_PARENT" \notin t.flags[c]
  PROVE  LET u == zombify(t, c)
         IN  /\ Kept(t, u, a, c)
             /\ Exiting(u, c) /\ Same(t, u, c, "TRACE_EXIT")
             /\ Same(t, u, c, "VFS_CALL")
             /\ \/ Announced(u, c)
                \/ "TOLD_PARENT" \in u.flags[c] /\ ~VfsCall(t, c)
<1> DEFINE d == t.tracer[c]
           z == SetFlags(t, c, {"TRACE_ZOMBIE"})
           y == SetFlags(t, c, {"ZOMBIE"})
           w == tell_tracer(z, c)
<1>0. /\ SlotInv(t, c) /\ FamilyInv(t, a, c) /\ d \in Slot /\ InUse(t, c)
      /\ t.call[c] = "dead"
  <2>1. SlotInv(t, c) /\ FamilyInv(t, a, c) /\ d \in Slot
    BY DEF BaseInv, PMState
  <2> QED BY <2>1 DEF SlotInv, Exiting, InUse
<1>1. zombify(t, c) =
        IF d # NO_TRACER /\ d # t.parent[c]
        THEN IF wait_test(z, d, c) THEN check_parent(w, c, FALSE) ELSE z
        ELSE check_parent(y, c, FALSE)
  <2>1. {"ZOMBIE", "TRACE_ZOMBIE"} \cap t.flags[c] = {}
    OBVIOUS
  <2> QED BY <2>1 DEF zombify, Panic
<1>2. /\ z \in PMState /\ SameRest(t, z) /\ SameFlagsBut(t, z, c)
      /\ z.flags[c] = t.flags[c] \cup {"TRACE_ZOMBIE"}
      /\ z.call = t.call /\ z.pid = t.pid /\ z.procs_in_use = t.procs_in_use
  BY SetFields DEF Flag
<1>3. /\ y \in PMState /\ SameRest(t, y) /\ SameFlagsBut(t, y, c)
      /\ y.flags[c] = t.flags[c] \cup {"ZOMBIE"}
      /\ y.call = t.call /\ y.pid = t.pid /\ y.procs_in_use = t.procs_in_use
  BY SetFields DEF Flag
<1> HIDE DEF z, y
<1>4. Frame(t, y, c) /\ Relabeled(t, y, c)
  <2>1. Relabeled(t, y, c)
    BY <1>3 DEF Relabeled, Same
  <2>2. \A x \in Slot \ {c} : QuietFlags(t, y, x)
    BY <1>3 DEF QuietFlags, Same, SameFlagsBut
  <2>3. \A x \in Slot : QuietCall(t, y, x)
    BY <1>3 DEF QuietCall, SameFlagsBut
  <2> QED BY <1>3, <2>1, <2>2, <2>3 DEF Frame
<1>5. ASSUME d # NO_TRACER PROVE Frame(t, z, c) /\ Relabeled(t, z, c)
  <2>1. Relabeled(t, z, c)
    BY <1>2, <1>5 DEF Relabeled, Same
  <2>2. \A x \in Slot \ {c} : QuietFlags(t, z, x)
    BY <1>2 DEF QuietFlags, Same, SameFlagsBut
  <2>3. \A x \in Slot : QuietCall(t, z, x)
    BY <1>2 DEF QuietCall, SameFlagsBut
  <2> QED BY <1>2, <2>1, <2>2, <2>3 DEF Frame
<1>6. CASE ~(d # NO_TRACER /\ d # t.parent[c])
  <2>1. Kept(t, y, a, c) /\ BaseInv(y, a) /\ y.vfs[c] # "dump"
    BY <1>4, FrameKept DEF Kept, SameRest
  <2>2. LET u == check_parent(y, c, FALSE)
        IN  /\ Kept(y, u, a, c)
            /\ Exiting(u, c) /\ Same(y, u, c, "TRACE_EXIT") /\ Same(y, u, c, "VFS_CALL")
            /\ Announced(u, c) \/ ("TOLD_PARENT" \in u.flags[c] /\ ~VfsCall(y, c))
    BY <1>3, <2>1, CheckParentKept
  <2> QED BY <1>1, <1>4, <1>6, <2>1, <2>2, KeptTrans DEF Relabeled, Same, VfsCall
<1>7. CASE d # NO_TRACER /\ d # t.parent[c] /\ ~wait_test(z, d, c)
  <2>1. Kept(t, z, a, c)
    BY <1>5, <1>7, FrameKept
  <2>2. Announced(z, c) /\ Exiting(z, c)
    BY <1>2, <1>7, <2>1 DEF Announced, Kept, SameRest, Exiting
  <2> QED BY <1>1, <1>5, <1>7, <2>1, <2>2 DEF Relabeled
<1>8. CASE d # NO_TRACER /\ d # t.parent[c] /\ wait_test(z, d, c)
  <2>1. Kept(t, z, a, c) /\ BaseInv(z, a)
    BY <1>5, <1>8, FrameKept DEF Kept
  <2>2. Awaits(z, d) /\ d # c /\ z.tracer[c] = d /\ Exiting(z, c)
    <3>1. "WAITING" \in z.flags[d] /\ CallInv(z, d) /\ SlotInv(z, c) /\ Exiting(z, c)
      BY <1>0, <1>2, <1>8, <2>1 DEF wait_test, BaseInv, Exiting
    <3> QED BY <1>2, <3>1 DEF Awaits, CallInv, SlotInv, SameRest, Exiting
  <2>3. /\ Frame(z, w, c) /\ Relabeled(z, w, c)
        /\ w.flags[c] = (z.flags[c] \ {"TRACE_ZOMBIE"}) \cup {"ZOMBIE"}
    BY <1>2, <1>8, <2>2, TellTracerFrame
  <2> HIDE DEF w
  <2>4. Kept(z, w, a, c) /\ BaseInv(w, a) /\ w.vfs[c] # "dump" /\ w \in PMState
    BY <1>2, <2>1, <2>3, FrameKept DEF Kept, SameRest
  <2>5. LET u == check_parent(w, c, FALSE)
        IN  /\ Kept(w, u, a, c)
            /\ Exiting(u, c) /\ Same(w, u, c, "TRACE_EXIT") /\ Same(w, u, c, "VFS_CALL")
            /\ Announced(u, c) \/ ("TOLD_PARENT" \in u.flags[c] /\ ~VfsCall(w, c))
    BY <2>3, <2>4, CheckParentKept
  <2>6. Kept(t, check_parent(w, c, FALSE), a, c)
    BY <2>1, <2>4, <2>5, KeptTrans
  <2> QED BY <1>1, <1>5, <1>8, <2>3, <2>5, <2>6 DEF Relabeled, Same, VfsCall
<1> QED BY <1>6, <1>7, <1>8

---------------------------------------------------------------------------
(* exit_proc, up to its loop.                                              *)

\* A process that exits on behalf of a tracer is the only one that tracer,
\* blocked in ptrace(T_EXIT), is owed an answer for.
Ready(t, s) ==
  "TRACE_EXIT" \in t.flags[s] =>
    /\ t.call[t.tracer[s]] = "ptrace" \/ Exiting(t, t.tracer[s])
    /\ \A x \in Slot \ {s} :
         "TRACE_EXIT" \in t.flags[x] /\ t.vfs[x] # "none" =>
           t.tracer[x] # t.tracer[s]

\* The flags, call and VFS request of a process when it has begun to exit.
Marked(t, w, s, req) ==
  /\ t \in PMState /\ w \in PMState
  /\ w.call = [t.call EXCEPT ![s] = "dead"]
  /\ w.pend = t.pend \ {s}
  /\ w.vfs = [t.vfs EXCEPT ![s] = req]
  /\ w.flags = [t.flags EXCEPT ![s] =
       ((@ \cup {"VFS_CALL"})
          \cap {"IN_USE", "VFS_CALL", "PRIV_PROC", "TRACE_EXIT"})
       \cup {"EXITING"}]
  /\ w.parent = t.parent /\ w.tracer = t.tracer /\ w.pid = t.pid
  /\ w.procgrp = t.procgrp /\ w.wpid = t.wpid /\ w.sched = t.sched
  /\ w.procs_in_use = t.procs_in_use /\ w.panic = t.panic

LEMMA MarkedBase ==
  ASSUME NEW t, NEW w, NEW s \in Slot \ Boot,
         NEW a \in [Slot -> Activation], NEW n \in Activation,
         n.at = "tracer", n.idx = 0,
         NEW req \in {"exit", "dump"}, Marked(t, w, s, req),
         BaseInv(t, a), InUse(t, s), ~Exiting(t, s), Ready(t, s)
  PROVE  BaseInv(w, [a EXCEPT ![s] = n])
<1> DEFINE e == [a EXCEPT ![s] = n]
<1> USE DEF InUse, Exiting, VfsCall
<1>0. /\ t \in PMState /\ w \in PMState /\ SlotInv(t, s) /\ FamilyInv(t, a, s)
      /\ t.flags \in [Slot -> SUBSET Flag]
      /\ \A x \in Slot : t.parent[x] \in Slot /\ t.tracer[x] \in Slot
  BY DEF Marked, BaseInv, PMState
<1>1. /\ w.flags[s] = ((t.flags[s] \cup {"VFS_CALL"})
                \cap {"IN_USE", "VFS_CALL", "PRIV_PROC", "TRACE_EXIT"})
             \cup {"EXITING"}
      /\ \A x \in Slot \ {s} : w.flags[x] = t.flags[x]
  BY <1>0 DEF Marked
<1>2. /\ w.call[s] = "dead" /\ w.vfs[s] = req /\ s \notin w.pend
      /\ \A x \in Slot \ {s} : /\ w.call[x] = t.call[x] /\ w.vfs[x] = t.vfs[x]
                               /\ x \in w.pend <=> x \in t.pend
  BY <1>0 DEF Marked, PMState
<1>3. /\ w.parent = t.parent /\ w.tracer = t.tracer /\ w.pid = t.pid
      /\ w.procgrp = t.procgrp /\ w.sched = t.sched /\ w.panic = t.panic
  BY DEF Marked
<1>4. \A x \in Slot : InUse(w, x) = InUse(t, x) /\ (Exiting(t, x) => Exiting(w, x))
  BY <1>1
<1>5. /\ e[s].at = "tracer" /\ e[s].idx = 0
      /\ \A x \in Slot \ {s} : e[x] = a[x]
  OBVIOUS
<1> HIDE DEF e
<1>6. ASSUME NEW x \in Slot PROVE SlotInv(w, x)
  <2>1. CASE x = s
    BY <1>0, <1>1, <1>2, <1>3, <2>1 DEF SlotInv
  <2>2. CASE x # s
    <3>1. SlotInv(t, x)
      BY DEF BaseInv
    <3> QED BY <1>1, <1>2, <1>3, <2>2, <3>1 DEF SlotInv
  <2> QED BY <2>1, <2>2
<1>7. ASSUME NEW x \in Slot PROVE FamilyInv(w, e, x)
  <2> SUFFICES ASSUME InUse(w, x) PROVE FamilyInv(w, e, x)
    BY DEF FamilyInv
  <2>1. FamilyInv(t, a, x) /\ InUse(t, x)
    BY <1>4 DEF BaseInv
  <2>2. x \in Nat /\ x >= 0
    BY DEF Slot
  <2>3. /\ w.parent[x] # PM /\ InUse(w, w.parent[x])
        /\ w.tracer[x] # NO_TRACER =>
             InUse(w, w.tracer[x]) /\ w.tracer[x] # INIT_PROC_NR
    BY <1>0, <1>3, <1>4, <2>1 DEF FamilyInv
  <2>4. Exiting(w, w.parent[x]) =>
          e[w.parent[x]].at \in {"tracer", "parent"} /\ x >= e[w.parent[x]].idx
    <3>1. CASE t.parent[x] = s
      BY <1>3, <1>5, <2>2, <3>1
    <3>2. CASE t.parent[x] # s
      <4>1. w.flags[t.parent[x]] = t.flags[t.parent[x]] /\ e[t.parent[x]] = a[t.parent[x]]
        BY <1>0, <1>1, <1>5, <3>2
      <4> QED BY <1>3, <2>1, <4>1 DEF FamilyInv
    <3> QED BY <3>1, <3>2
  <2>5. w.tracer[x] # NO_TRACER /\ Exiting(w, w.tracer[x]) =>
          \/ e[w.tracer[x]].at = "tracer" /\ x >= e[w.tracer[x]].idx
          \/ e[w.tracer[x]].at = "parent" /\ x > e[w.tracer[x]].idx
    <3>1. CASE t.tracer[x] = s
      BY <1>3, <1>5, <2>2, <3>1
    <3>2. CASE t.tracer[x] # s
      <4>1. w.flags[t.tracer[x]] = t.flags[t.tracer[x]] /\ e[t.tracer[x]] = a[t.tracer[x]]
        BY <1>0, <1>1, <1>5, <3>2
      <4> QED BY <1>3, <2>1, <4>1 DEF FamilyInv
    <3> QED BY <3>1, <3>2
  <2>6. {"TRACE_ZOMBIE", "TRACE_EXIT"} \cap w.flags[x] # {} => w.tracer[x] # NO_TRACER
    BY <1>1, <1>3, <2>1 DEF FamilyInv
  <2> QED BY <2>3, <2>4, <2>5, <2>6 DEF FamilyInv
<1>8. ASSUME NEW x \in Slot PROVE CallInv(w, x)
  <2>1. CallInv(t, x) /\ INIT_PROC_NR \in Slot
    BY ConstantTypes DEF BaseInv
  <2>2. CASE x = s
    BY <1>0, <1>1, <1>2, <1>3, <1>4, <2>2 DEF CallInv, Ready
  <2>3. CASE x # s
    <3>1. w.vfs[x] = "fork" /\ "NEW_PARENT" \notin w.flags[x] =>
            \/ w.call[w.parent[x]] = "fork"
            \/ w.parent[x] = INIT_PROC_NR /\ w.call[INIT_PROC_NR] = "dead"
            \/ Exiting(w, w.parent[x])
      BY <1>0, <1>1, <1>2, <1>3, <1>4, <2>1, <2>3 DEF CallInv
    <3>2. "TRACE_EXIT" \in w.flags[x] /\ w.vfs[x] # "none" =>
            w.call[w.tracer[x]] = "ptrace" \/ Exiting(w, w.tracer[x])
      BY <1>0, <1>1, <1>2, <1>3, <1>4, <2>1, <2>3 DEF CallInv
    <3> QED BY <1>1, <1>2, <2>1, <2>3, <3>1, <3>2 DEF CallInv
  <2> QED BY <2>2, <2>3
<1>9. ASSUME NEW x \in Slot PROVE PendInv(w, x) /\ ActiveInv(w, e, x)
  <2>1. PendInv(t, x) /\ ActiveInv(t, a, x)
    BY DEF BaseInv
  <2> QED BY <1>1, <1>2, <1>5, <2>1 DEF PendInv, ActiveInv
<1>10. ASSUME NEW x \in Slot, NEW y \in Slot PROVE OneAnswer(w, x, y)
  <2>1. OneAnswer(t, x, y)
    BY DEF BaseInv
  <2>2. CASE x = s \/ y = s
    BY <1>1, <1>2, <1>3, <2>2 DEF OneAnswer, Ready
  <2>3. CASE x # s /\ y # s
    BY <1>1, <1>2, <1>3, <2>1, <2>3 DEF OneAnswer
  <2> QED BY <2>2, <2>3
<1>11. BootInv(w) /\ w.panic = {}
  <2>1. BootInv(t) /\ t.panic = {} /\ \A x \in Boot : x \in Slot \ {s}
    BY BootSlots DEF BaseInv
  <2> QED BY <1>1, <1>2, <1>3, <2>1, BootKept DEF Same
<1> QED BY <1>6, <1>7, <1>8, <1>9, <1>10, <1>11 DEF BaseInv, e

LEMMA MarkedRest ==
  ASSUME NEW t, NEW w, NEW s \in Slot, NEW req \in {"exit", "dump"},
         Marked(t, w, s, req), InUse(t, s)
  PROVE  /\ CountInv(t) => CountInv(w)
         /\ Remembered(w, s)
         /\ \A x \in Slot \ {s} : /\ Remembered(t, x) => Remembered(w, x)
                                  /\ Announced(t, x) => Announced(w, x)
         /\ Exiting(w, s) /\ VfsCall(w, s) /\ w.vfs[s] = req
         /\ "ZOMBIE" \notin w.flags[s] /\ "TRACE_ZOMBIE" \notin w.flags[s]
         /\ "TOLD_PARENT" \notin w.flags[s]
<1>0. t \in PMState /\ w \in PMState
  BY DEF Marked
<1>1. /\ w.flags[s] = ((t.flags[s] \cup {"VFS_CALL"})
                \cap {"IN_USE", "VFS_CALL", "PRIV_PROC", "TRACE_EXIT"})
             \cup {"EXITING"}
      /\ \A x \in Slot \ {s} : w.flags[x] = t.flags[x]
  BY <1>0 DEF Marked, PMState
<1>2. /\ w.call[s] = "dead" /\ w.vfs[s] = req
      /\ \A x \in Slot \ {s} : /\ w.call[x] = t.call[x] /\ w.vfs[x] = t.vfs[x]
                               /\ x \in w.pend <=> x \in t.pend
  BY <1>0 DEF Marked, PMState
<1>3. CountInv(t) => CountInv(w)
  <2>1. {x \in Slot : InUse(w, x)} = {x \in Slot : InUse(t, x)}
    BY <1>1 DEF InUse
  <2> QED BY <2>1 DEF CountInv, Marked
<1>4. ASSUME NEW x \in Slot \ {s}, Announced(t, x) PROVE Announced(w, x)
  <2>1. ASSUME NEW p \in Slot, wait_test(w, p, x) PROVE wait_test(t, p, x)
    BY <1>1, <2>1 DEF Marked, wait_test
  <2>2. t.parent[x] \in Slot /\ t.tracer[x] \in Slot
    BY <1>0 DEF PMState
  <2> QED BY <1>1, <1>2, <1>4, <2>1, <2>2 DEF Announced, Marked
<1> QED BY <1>1, <1>2, <1>3, <1>4 DEF Remembered, Exiting, VfsCall

LEMMA BeginExitMarked ==
  ASSUME NEW t \in PMState, NEW s \in Slot, NEW b \in BOOLEAN, ~VfsCall(t, s),
         s # INIT_PROC_NR
  PROVE  \E w : /\ Marked(t, w, s, IF b THEN "dump" ELSE "exit")
                /\ begin_exit(t, s, b) = IF b THEN w ELSE zombify(w, s)
<1> DEFINE req == IF b THEN "dump" ELSE "exit"
           u == [t EXCEPT !.call[s] = "dead", !.pend = @ \ {s}]
           x == SetFlags(u, s, {"VFS_CALL"})
           v == [x EXCEPT !.vfs[s] = req]
           w == [v EXCEPT !.flags[s] =
                   (@ \cap {"IN_USE", "VFS_CALL", "PRIV_PROC", "TRACE_EXIT"})
                     \cup {"EXITING"}]
<1>1. /\ u \in PMState /\ u.flags = t.flags /\ u.vfs = t.vfs
      /\ u.call = [t.call EXCEPT ![s] = "dead"] /\ u.pend = t.pend \ {s}
      /\ u.parent = t.parent /\ u.tracer = t.tracer /\ u.pid = t.pid
      /\ u.procgrp = t.procgrp /\ u.wpid = t.wpid /\ u.sched = t.sched
      /\ u.procs_in_use = t.procs_in_use /\ u.panic = t.panic
  BY DEF PMState, Call
<1>2. tell_vfs(u, s, req) = v
  BY <1>1 DEF tell_vfs, Panic, VfsCall
<1>3. begin_exit(t, s, b) = IF b THEN w ELSE zombify(w, s)
  BY <1>2 DEF begin_exit
<1> HIDE DEF u
<1>4. /\ x \in PMState /\ SameRest(u, x)
      /\ x.flags = [u.flags EXCEPT ![s] = @ \cup {"VFS_CALL"}]
      /\ x.call = u.call /\ x.pid = u.pid /\ x.procs_in_use = u.procs_in_use
  <2>1. /\ x \in PMState /\ SameRest(u, x)
        /\ x.call = u.call /\ x.pid = u.pid /\ x.procs_in_use = u.procs_in_use
    BY <1>1, SetFields DEF Flag
  <2> QED BY <1>1, <2>1 DEF SetFlags, PMState
<1> HIDE DEF x
<1>5. /\ v \in PMState /\ v.vfs = [x.vfs EXCEPT ![s] = req] /\ v.flags = x.flags
      /\ v.call = x.call /\ v.pend = x.pend
      /\ v.parent = x.parent /\ v.tracer = x.tracer /\ v.pid = x.pid
      /\ v.procgrp = x.procgrp /\ v.wpid = x.wpid /\ v.sched = x.sched
      /\ v.procs_in_use = x.procs_in_use /\ v.panic = x.panic
  BY <1>4 DEF PMState, Request
<1> HIDE DEF v
<1>6. /\ w \in PMState /\ w.vfs = v.vfs /\ w.call = v.call /\ w.pend = v.pend
      /\ w.flags = [v.flags EXCEPT ![s] =
                   (@ \cap {"IN_USE", "VFS_CALL", "PRIV_PROC", "TRACE_EXIT"})
                     \cup {"EXITING"}]
      /\ w.parent = v.parent /\ w.tracer = v.tracer /\ w.pid = v.pid
      /\ w.procgrp = v.procgrp /\ w.wpid = v.wpid /\ w.sched = v.sched
      /\ w.procs_in_use = v.procs_in_use /\ w.panic = v.panic
  BY <1>5 DEF PMState, Flag
<1> HIDE DEF w
<1>7. w.flags = [t.flags EXCEPT ![s] =
         ((@ \cup {"VFS_CALL"})
            \cap {"IN_USE", "VFS_CALL", "PRIV_PROC", "TRACE_EXIT"})
         \cup {"EXITING"}]
  <2>1. t.flags \in [Slot -> SUBSET Flag] /\ w.flags \in [Slot -> SUBSET Flag]
    BY <1>6 DEF PMState
  <2>2. x.flags[s] = t.flags[s] \cup {"VFS_CALL"}
    BY <1>1, <1>4, <2>1
  <2>3. w.flags[s] = (x.flags[s]
                       \cap {"IN_USE", "VFS_CALL", "PRIV_PROC", "TRACE_EXIT"})
                     \cup {"EXITING"}
    BY <1>4, <1>5, <1>6 DEF PMState
  <2>4. \A y \in Slot \ {s} : w.flags[y] = t.flags[y]
    BY <1>1, <1>4, <1>5, <1>6, <2>1
  <2> QED BY <2>1, <2>2, <2>3, <2>4
<1>8. Marked(t, w, s, req)
  BY <1>1, <1>4, <1>5, <1>6, <1>7 DEF Marked, SameRest
<1> QED BY <1>3, <1>8

\* exit_proc leaves the table consistent once its loop has begun.
LEMMA BeginExitTable ==
  ASSUME NEW t \in PMState, NEW s \in Slot \ Boot,
         NEW b \in BOOLEAN, NEW a \in [Slot -> Activation],
         NEW n \in Activation, n.at = "tracer", n.idx = 0,
         BaseInv(t, a), CountInv(t), InUse(t, s), ~Exiting(t, s), ~VfsCall(t, s),
         Ready(t, s),
         \A x \in Slot \ {s} : Announced(t, x) /\ Remembered(t, x)
  PROVE  /\ TableInv(begin_exit(t, s, b), [a EXCEPT ![s] = n])
         /\ CountInv(begin_exit(t, s, b))
<1> DEFINE e == [a EXCEPT ![s] = n]
           req == IF b THEN "dump" ELSE "exit"
<1>0. e \in [Slot -> Activation]
  OBVIOUS
<1>1. PICK w : /\ Marked(t, w, s, req)
               /\ begin_exit(t, s, b) = IF b THEN w ELSE zombify(w, s)
  BY BeginExitMarked, BootSlots
<1>2. req \in {"exit", "dump"}
  OBVIOUS
<1>3. BaseInv(w, e) /\ w \in PMState
  BY <1>1, <1>2, MarkedBase DEF Marked
<1>4. /\ CountInv(w) /\ Exiting(w, s) /\ VfsCall(w, s) /\ w.vfs[s] = req
      /\ \A x \in Slot : Remembered(w, x)
      /\ \A x \in Slot \ {s} : Announced(w, x)
      /\ "ZOMBIE" \notin w.flags[s] /\ "TRACE_ZOMBIE" \notin w.flags[s]
      /\ "TOLD_PARENT" \notin w.flags[s]
  BY <1>1, <1>2, MarkedRest
<1> HIDE DEF e
<1>5. CASE b
  <2>1. Announced(w, s)
    BY <1>4, <1>5 DEF Announced, Exiting
  <2> QED BY <1>1, <1>3, <1>4, <1>5, <2>1 DEF TableInv, e
<1>6. CASE ~b
  <2> DEFINE z == zombify(w, s)
  <2>1. Kept(w, z, e, s) /\ Announced(z, s)
    BY <1>0, <1>3, <1>4, <1>6, ZombifyKept
  <2> HIDE DEF z
  <2>2. TableInv(z, e) /\ CountInv(z)
    BY <1>4, <2>1 DEF Kept, TableInv
  <2> QED BY <1>1, <1>6, <2>2 DEF e, z
<1> QED BY <1>5, <1>6

\* INIT only stops running.
LEMMA InitExitTable ==
  ASSUME NEW t \in PMState, NEW b \in BOOLEAN, NEW a \in [Slot -> Activation],
         TableInv(t, a), CountInv(t)
  PROVE  /\ TableInv(begin_exit(t, INIT_PROC_NR, b), a)
         /\ CountInv(begin_exit(t, INIT_PROC_NR, b))
<1> DEFINE i == INIT_PROC_NR
           u == [t EXCEPT !.call[i] = "dead", !.pend = @ \ {i}]
<1> USE DEF InUse, Exiting, VfsCall
<1>0. i \in Slot /\ begin_exit(t, i, b) = u
  BY ConstantTypes DEF begin_exit
<1>1. /\ u \in PMState /\ u.flags = t.flags /\ u.vfs = t.vfs
      /\ u.call = [t.call EXCEPT ![i] = "dead"] /\ u.pend = t.pend \ {i}
      /\ u.parent = t.parent /\ u.tracer = t.tracer /\ u.pid = t.pid
      /\ u.procgrp = t.procgrp /\ u.wpid = t.wpid /\ u.sched = t.sched
      /\ u.procs_in_use = t.procs_in_use /\ u.panic = t.panic
  BY <1>0 DEF PMState, Call
<1> HIDE DEF u
<1>2. /\ u.call[i] = "dead" /\ \A x \in Slot \ {i} : u.call[x] = t.call[x]
      /\ \A x \in Slot : t.parent[x] \in Slot /\ t.tracer[x] \in Slot
  BY <1>0, <1>1 DEF PMState
<1>3. BaseInv(t, a)
  BY DEF TableInv
<1>4. ASSUME NEW x \in Slot PROVE SlotInv(u, x) /\ FamilyInv(u, a, x)
  <2>1. SlotInv(t, x) /\ FamilyInv(t, a, x) /\ "EXITING" \notin t.flags[i]
    BY <1>3, BootFacts DEF BaseInv, Exiting
  <2>2. SlotInv(u, x)
    BY <1>1, <1>2, <2>1 DEF SlotInv
  <2> QED BY <1>1, <2>1, <2>2 DEF FamilyInv
<1>5. ASSUME NEW x \in Slot PROVE CallInv(u, x)
  <2>1. CallInv(t, x) /\ SlotInv(t, x) /\ FamilyInv(t, a, x) /\ t.vfs[i] = "none"
    BY <1>3, BootFacts DEF BaseInv
  <2>2. t.vfs[x] = "fork" /\ "NEW_PARENT" \notin t.flags[x] =>
          \/ u.call[t.parent[x]] = "fork"
          \/ t.parent[x] = INIT_PROC_NR /\ u.call[INIT_PROC_NR] = "dead"
          \/ Exiting(t, t.parent[x])
    BY <1>2, <2>1 DEF CallInv
  <2>3. "TRACE_EXIT" \in t.flags[x] /\ t.vfs[x] # "none" =>
          u.call[t.tracer[x]] = "ptrace" \/ Exiting(t, t.tracer[x])
    BY <1>2, <2>1 DEF CallInv, SlotInv, FamilyInv
  <2> QED BY <1>1, <1>2, <2>1, <2>2, <2>3 DEF CallInv
<1>6. ASSUME NEW x \in Slot PROVE PendInv(u, x) /\ ActiveInv(u, a, x)
  <2>1. PendInv(t, x) /\ ActiveInv(t, a, x)
    BY <1>3 DEF BaseInv
  <2> QED BY <1>1, <1>2, <2>1 DEF PendInv, ActiveInv
<1>7. ASSUME NEW x \in Slot, NEW y \in Slot PROVE OneAnswer(u, x, y)
  <2>1. OneAnswer(t, x, y)
    BY <1>3 DEF BaseInv
  <2> QED BY <1>1, <2>1 DEF OneAnswer
<1>8. BaseInv(u, a)
  <2>1. BootInv(t) /\ t.panic = {}
    BY <1>3 DEF BaseInv
  <2>2. BootInv(u)
    BY <1>1, <2>1, BootKept DEF Same
  <2> QED BY <1>1, <1>4, <1>5, <1>6, <1>7, <2>1, <2>2 DEF BaseInv
<1>9. ASSUME NEW x \in Slot PROVE Announced(u, x) /\ Remembered(u, x)
  <2>1. Announced(t, x) /\ Remembered(t, x) /\ SlotInv(t, i) /\ PendInv(t, x)
        /\ "EXITING" \notin t.flags[i]
    BY <1>0, <1>3, BootFacts DEF TableInv, BaseInv, Exiting
  <2>2. Announced(u, x)
    BY <1>1, <2>1 DEF Announced, wait_test, PendInv
  <2>3. Remembered(u, x)
    BY <1>1, <1>2, <2>1 DEF Remembered
  <2> QED BY <2>2, <2>3
<1> QED BY <1>0, <1>1, <1>8, <1>9 DEF TableInv, CountInv

---------------------------------------------------------------------------
(* The loop of exit_proc.                                                  *)

\* The activation of q may move on past entries that are no longer its own.
LEMMA MoveBase ==
  ASSUME NEW t \in PMState, NEW a \in [Slot -> Activation], NEW q \in Slot,
         NEW n \in Activation, BaseInv(t, a), q # PM, Exiting(t, q), VfsCall(t, q),
         \A x \in Slot : InUse(t, x) /\ t.parent[x] = q =>
           n.at \in {"tracer", "parent"} /\ x >= n.idx,
         \A x \in Slot : InUse(t, x) /\ t.tracer[x] = q =>
           \/ n.at = "tracer" /\ x >= n.idx
           \/ n.at = "parent" /\ x > n.idx
  PROVE  BaseInv(t, [a EXCEPT ![q] = n])
<1> DEFINE e == [a EXCEPT ![q] = n]
<1>1. e[q] = n /\ \A x \in Slot \ {q} : e[x] = a[x]
  OBVIOUS
<1> HIDE DEF e
<1>2. ASSUME NEW x \in Slot PROVE FamilyInv(t, e, x)
  <2> SUFFICES ASSUME InUse(t, x) PROVE FamilyInv(t, e, x)
    BY DEF FamilyInv
  <2>1. FamilyInv(t, a, x) /\ t.parent[x] \in Slot /\ t.tracer[x] \in Slot
    BY DEF BaseInv, PMState
  <2>2. Exiting(t, t.parent[x]) =>
          e[t.parent[x]].at \in {"tracer", "parent"} /\ x >= e[t.parent[x]].idx
    <3>1. CASE t.parent[x] = q
      BY <1>1, <3>1
    <3>2. CASE t.parent[x] # q
      BY <1>1, <2>1, <3>2 DEF FamilyInv
    <3> QED BY <3>1, <3>2
  <2>3. t.tracer[x] # NO_TRACER /\ Exiting(t, t.tracer[x]) =>
          \/ e[t.tracer[x]].at = "tracer" /\ x >= e[t.tracer[x]].idx
          \/ e[t.tracer[x]].at = "parent" /\ x > e[t.tracer[x]].idx
    <3>1. CASE t.tracer[x] = q
      BY <1>1, <3>1
    <3>2. CASE t.tracer[x] # q
      BY <1>1, <2>1, <3>2 DEF FamilyInv
    <3> QED BY <3>1, <3>2
  <2> QED BY <2>1, <2>2, <2>3 DEF FamilyInv
<1>3. ASSUME NEW x \in Slot PROVE ActiveInv(t, e, x)
  BY <1>1 DEF BaseInv, ActiveInv
<1> QED BY <1>2, <1>3 DEF BaseInv, e

\* The tracer of c is gone; a zombie that was kept for it is its parent's.
Untraced(t, v, c) ==
  /\ t \in PMState /\ v \in PMState
  /\ v.flags = [t.flags EXCEPT ![c] =
       (@ \ {"TRACE_EXIT", "TRACE_ZOMBIE"})
       \cup (IF "TRACE_ZOMBIE" \in @ THEN {"ZOMBIE"} ELSE {})]
  /\ v.tracer = [t.tracer EXCEPT ![c] = NO_TRACER]
  /\ v.call = t.call /\ v.pend = t.pend /\ v.vfs = t.vfs
  /\ v.parent = t.parent /\ v.pid = t.pid
  /\ v.procgrp = t.procgrp /\ v.wpid = t.wpid /\ v.sched = t.sched
  /\ v.procs_in_use = t.procs_in_use /\ v.panic = t.panic

LEMMA UntracedBase ==
  ASSUME NEW t, NEW v, NEW c \in Slot, NEW a \in [Slot -> Activation],
         Untraced(t, v, c), TableInv(t, a), InUse(t, c)
  PROVE  /\ BaseInv(v, a)
         /\ CountInv(t) => CountInv(v)
         /\ \A x \in Slot : /\ Remembered(v, x)
                            /\ InUse(v, x) = InUse(t, x)
                            /\ Exiting(v, x) = Exiting(t, x)
                            /\ VfsCall(v, x) = VfsCall(t, x)
         /\ \A x \in Slot \ {c} : Announced(v, x)
         /\ "TRACE_ZOMBIE" \notin t.flags[c] => Announced(v, c)
         /\ v.tracer[c] = NO_TRACER /\ "TRACE_EXIT" \notin v.flags[c]
         /\ \A x \in Slot \ {c} : v.tracer[x] = t.tracer[x]
<1> USE DEF InUse, Exiting, VfsCall
<1>0. t \in PMState /\ v \in PMState /\ BaseInv(t, a)
  BY DEF Untraced, TableInv
<1>1. /\ v.flags[c] = (t.flags[c] \ {"TRACE_EXIT", "TRACE_ZOMBIE"})
                      \cup (IF "TRACE_ZOMBIE" \in t.flags[c] THEN {"ZOMBIE"} ELSE {})
      /\ \A x \in Slot \ {c} : v.flags[x] = t.flags[x]
      /\ v.tracer[c] = NO_TRACER
      /\ \A x \in Slot \ {c} : v.tracer[x] = t.tracer[x]
  BY <1>0 DEF Untraced, PMState
<1>2. /\ v.call = t.call /\ v.pend = t.pend /\ v.vfs = t.vfs
      /\ v.parent = t.parent /\ v.pid = t.pid
      /\ v.procgrp = t.procgrp /\ v.wpid = t.wpid /\ v.sched = t.sched
      /\ v.procs_in_use = t.procs_in_use /\ v.panic = t.panic
      /\ \A x \in Slot : t.parent[x] \in Slot /\ t.tracer[x] \in Slot
  BY <1>0 DEF Untraced, PMState
<1>3. \A x \in Slot : /\ InUse(v, x) = InUse(t, x)
                      /\ Exiting(v, x) = Exiting(t, x)
                      /\ VfsCall(v, x) = VfsCall(t, x)
  BY <1>1
<1>4. ASSUME NEW x \in Slot PROVE SlotInv(v, x)
  <2>1. SlotInv(t, x) /\ SlotInv(t, c)
    BY <1>0 DEF BaseInv
  <2>2. CASE x = c
    BY <1>1, <1>2, <2>1, <2>2 DEF SlotInv
  <2>3. CASE x # c
    BY <1>1, <1>2, <2>1, <2>3 DEF SlotInv
  <2> QED BY <2>2, <2>3
<1>5. ASSUME NEW x \in Slot PROVE FamilyInv(v, a, x)
  <2>1. FamilyInv(t, a, x)
    BY <1>0 DEF BaseInv
  <2>2. CASE x = c
    BY <1>1, <1>2, <1>3, <2>1, <2>2 DEF FamilyInv
  <2>3. CASE x # c
    <3>1. v.flags[x] = t.flags[x] /\ v.tracer[x] = t.tracer[x] /\ v.parent[x] = t.parent[x]
      BY <1>1, <1>2, <2>3
    <3> QED BY <1>2, <1>3, <2>1, <3>1 DEF FamilyInv
  <2> QED BY <2>2, <2>3
<1>6. ASSUME NEW x \in Slot PROVE CallInv(v, x)
  <2>1. CallInv(t, x)
    BY <1>0 DEF BaseInv
  <2>2. CASE x = c
    BY <1>1, <1>2, <1>3, <2>1, <2>2 DEF CallInv
  <2>3. CASE x # c
    BY <1>1, <1>2, <1>3, <2>1, <2>3 DEF CallInv
  <2> QED BY <2>2, <2>3
<1>7. ASSUME NEW x \in Slot PROVE PendInv(v, x) /\ ActiveInv(v, a, x)
  BY <1>0, <1>2, <1>3 DEF BaseInv, PendInv, ActiveInv
<1>8. ASSUME NEW x \in Slot, NEW y \in Slot PROVE OneAnswer(v, x, y)
  <2>1. OneAnswer(t, x, y)
    BY <1>0 DEF BaseInv
  <2> QED BY <1>1, <1>2, <2>1 DEF OneAnswer
<1>9. BaseInv(v, a)
  <2>1. BootInv(t) /\ t.panic = {}
    BY <1>0 DEF BaseInv
  <2>2. ASSUME NEW x \in Boot
        PROVE  /\ Same(t, v, x, "IN_USE") /\ Same(t, v, x, "EXITING")
               /\ Same(t, v, x, "PRIV_PROC") /\ v.tracer[x] = t.tracer[x]
    <3>1. x \in Slot /\ t.tracer[x] = NO_TRACER
      BY <2>1, BootSlots DEF BootInv
    <3> QED BY <1>1, <3>1 DEF Same
  <2>3. BootInv(v)
    BY <1>2, <2>1, <2>2, BootKept
  <2> QED BY <1>2, <1>4, <1>5, <1>6, <1>7, <1>8, <2>1, <2>3 DEF BaseInv
<1>10. CountInv(t) => CountInv(v)
  <2>1. {x \in Slot : InUse(v, x)} = {x \in Slot : InUse(t, x)}
    BY <1>3
  <2> QED BY <1>2, <2>1 DEF CountInv
<1>11. ASSUME NEW x \in Slot PROVE Remembered(v, x)
  <2>1. Remembered(t, x)
    BY DEF TableInv
  <2> QED BY <1>1, <1>2, <2>1 DEF Remembered
<1>12. ASSUME NEW x \in Slot, x # c \/ "TRACE_ZOMBIE" \notin t.flags[c]
       PROVE  Announced(v, x)
  <2>1. Announced(t, x)
    BY DEF TableInv
  <2>2. ASSUME NEW p \in Slot, wait_test(v, p, x) PROVE wait_test(t, p, x)
    BY <1>1, <1>2, <2>2 DEF wait_test
  <2>3. CASE x = c
    BY <1>1, <1>2, <1>12, <2>1, <2>2, <2>3 DEF Announced
  <2>4. CASE x # c
    BY <1>1, <1>2, <2>1, <2>2, <2>4 DEF Announced
  <2> QED BY <2>3, <2>4
<1> QED BY <1>1, <1>3, <1>9, <1>10, <1>11, <1>12

LEMMA TracerDiedFields ==
  ASSUME NEW t \in PMState, NEW c \in Slot, SlotInv(t, c)
  PROVE  \E v : /\ Untraced(t, v, c)
                /\ tracer_died(t, c) =
                     IF "TRACE_ZOMBIE" \in t.flags[c] THEN check_parent(v, c, TRUE)
                     ELSE v
<1> DEFINE u == [t EXCEPT !.tracer[c] = NO_TRACER, !.flags[c] = @ \ {"TRACE_EXIT"}]
           w == [u EXCEPT !.flags[c] = (@ \ {"TRACE_ZOMBIE"}) \cup {"ZOMBIE"}]
           v == IF "TRACE_ZOMBIE" \in t.flags[c] THEN w ELSE u
<1>1. /\ u \in PMState
      /\ u.flags = [t.flags EXCEPT ![c] = @ \ {"TRACE_EXIT"}]
      /\ u.tracer = [t.tracer EXCEPT ![c] = NO_TRACER]
      /\ u.call = t.call /\ u.pend = t.pend /\ u.vfs = t.vfs
      /\ u.parent = t.parent /\ u.pid = t.pid
      /\ u.procgrp = t.procgrp /\ u.wpid = t.wpid /\ u.sched = t.sched
      /\ u.procs_in_use = t.procs_in_use /\ u.panic = t.panic
  BY ConstantTypes DEF PMState, NO_TRACER, PM
<1>2. tracer_died(t, c) =
        IF Exiting(u, c) /\ "TRACE_ZOMBIE" \in u.flags[c]
        THEN check_parent(w, c, TRUE) ELSE u
  BY DEF tracer_died
<1> HIDE DEF u
<1>3. /\ w \in PMState
      /\ w.flags = [u.flags EXCEPT ![c] = (@ \ {"TRACE_ZOMBIE"}) \cup {"ZOMBIE"}]
      /\ w.tracer = u.tracer
      /\ w.call = u.call /\ w.pend = u.pend /\ w.vfs = u.vfs
      /\ w.parent = u.parent /\ w.pid = u.pid
      /\ w.procgrp = u.procgrp /\ w.wpid = u.wpid /\ w.sched = u.sched
      /\ w.procs_in_use = u.procs_in_use /\ w.panic = u.panic
  BY <1>1 DEF PMState, Flag
<1> HIDE DEF w
<1>4. /\ t.flags \in [Slot -> SUBSET Flag] /\ u.flags \in [Slot -> SUBSET Flag]
      /\ w.flags \in [Slot -> SUBSET Flag]
  BY <1>1, <1>3 DEF PMState
<1>5. /\ u.flags[c] = t.flags[c] \ {"TRACE_EXIT"}
      /\ w.flags[c] = (u.flags[c] \ {"TRACE_ZOMBIE"}) \cup {"ZOMBIE"}
      /\ \A x \in Slot \ {c} : u.flags[x] = t.flags[x] /\ w.flags[x] = t.flags[x]
  BY <1>1, <1>3, <1>4
<1>6. /\ v.flags \in [Slot -> SUBSET Flag]
      /\ \A x \in Slot \ {c} : v.flags[x] = t.flags[x]
      /\ v.flags[c] = (t.flags[c] \ {"TRACE_EXIT", "TRACE_ZOMBIE"})
           \cup (IF "TRACE_ZOMBIE" \in t.flags[c] THEN {"ZOMBIE"} ELSE {})
  BY <1>4, <1>5
<1>7. v.flags = [t.flags EXCEPT ![c] =
       (@ \ {"TRACE_EXIT", "TRACE_ZOMBIE"})
       \cup (IF "TRACE_ZOMBIE" \in @ THEN {"ZOMBIE"} ELSE {})]
  <2> HIDE DEF v
  <2> QED BY <1>4, <1>6
<1>8. Untraced(t, v, c)
  BY <1>1, <1>3, <1>7 DEF Untraced
<1>9. Exiting(u, c) /\ "TRACE_ZOMBIE" \in u.flags[c] <=> "TRACE_ZOMBIE" \in t.flags[c]
  BY <1>5 DEF Exiting, SlotInv
<1> QED BY <1>2, <1>8, <1>9

\* The innermost activation belongs to an exiting process VFS works on.
LEMMA CurExiting ==
  ASSUME IInv, Running
  PROVE  /\ cur \in Slot /\ cur # PM /\ cur # INIT_PROC_NR /\ act[cur].at # "none"
         /\ Exiting(pm, cur) /\ VfsCall(pm, cur) /\ InUse(pm, cur)
<1>1. cur \in Slot /\ Len(stack) \in Nat \ {0}
  BY CurType DEF IInv
<1>2. act[cur].at # "none"
  <2>1. Len(stack) \in 1 .. Len(stack) /\ stack[Len(stack)] = cur
    BY <1>1 DEF cur
  <2> QED BY <1>1, <2>1 DEF IInv, StackInv
<1>3. /\ ActiveInv(pm, act, cur) /\ SlotInv(pm, cur) /\ ~Exiting(pm, INIT_PROC_NR)
      /\ act \in [Slot -> Activation]
  BY <1>1, BootFacts DEF IInv, TableInv, BaseInv, TypeOK
<1>4. Exiting(pm, cur) /\ VfsCall(pm, cur) /\ InUse(pm, cur)
  BY <1>2, <1>3 DEF ActiveInv, SlotInv, Exiting, InUse
<1>5. cur # PM
  BY <1>4, BootFacts DEF IInv, TableInv, BaseInv
<1> QED BY <1>1, <1>2, <1>3, <1>4, <1>5

\* Moving the innermost activation on, or starting a nested one.
LEMMA StackMove ==
  ASSUME IInv, Running, NEW n, n.at # "none",
         act' = [act EXCEPT ![cur] = n], UNCHANGED stack
  PROVE  StackInv'
<1>1. cur \in Slot /\ act[cur].at # "none" /\ act \in [Slot -> Activation]
  BY CurExiting DEF IInv, TypeOK
<1>2. \A x \in Slot : (act'[x].at # "none") = (act[x].at # "none")
  BY <1>1
<1> QED BY <1>2 DEF IInv, StackInv

LEMMA StackPush ==
  ASSUME IInv, Running, NEW n, n.at # "none", NEW m, m.at # "none",
         NEW c \in Slot, act[c].at = "none",
         act' = [act EXCEPT ![cur] = n, ![c] = m], stack' = Append(stack, c)
  PROVE  StackInv'
<1>1. /\ cur \in Slot /\ act[cur].at # "none" /\ act \in [Slot -> Activation]
      /\ stack \in Seq(Slot)
  BY CurExiting DEF IInv, TypeOK
<1>2. \A x \in Slot : (act'[x].at # "none") = (act[x].at # "none" \/ x = c)
  BY <1>1
<1>3. /\ Len(stack') = Len(stack) + 1 /\ stack'[Len(stack) + 1] = c
      /\ \A i \in 1 .. Len(stack) : stack'[i] = stack[i]
      /\ Len(stack) \in Nat
  BY <1>1
<1>4. \A i \in 1 .. Len(stack) : stack[i] # c
  BY DEF IInv, StackInv
<1>5. \A i, j \in 1 .. Len(stack') : stack'[i] = stack'[j] => i = j
  <2> SUFFICES ASSUME NEW i \in 1 .. Len(stack) + 1, NEW j \in 1 .. Len(stack) + 1,
                      stack'[i] = stack'[j]
               PROVE  i = j
    BY <1>3
  <2>1. CASE i \in 1 .. Len(stack) /\ j \in 1 .. Len(stack)
    BY <1>3, <2>1 DEF IInv, StackInv
  <2>2. CASE i = Len(stack) + 1 \/ j = Len(stack) + 1
    BY <1>3, <1>4, <2>2
  <2> QED BY <1>3, <2>1, <2>2
<1>6. ASSUME NEW x \in Slot
      PROVE  act'[x].at # "none" <=> \E i \in 1 .. Len(stack') : stack'[i] = x
  <2>1. (\E i \in 1 .. Len(stack') : stack'[i] = x)
          <=> x = c \/ \E i \in 1 .. Len(stack) : stack[i] = x
    <3>1. ASSUME NEW i \in 1 .. Len(stack'), stack'[i] = x
          PROVE  x = c \/ \E k \in 1 .. Len(stack) : stack[k] = x
      <4>1. i \in 1 .. Len(stack) \/ i = Len(stack) + 1
        BY <1>3
      <4> QED BY <1>3, <3>1, <4>1
    <3>2. ASSUME x = c \/ \E k \in 1 .. Len(stack) : stack[k] = x
          PROVE  \E i \in 1 .. Len(stack') : stack'[i] = x
      <4>1. Len(stack) + 1 \in 1 .. Len(stack') /\ 1 .. Len(stack) \subseteq 1 .. Len(stack')
        BY <1>3
      <4> QED BY <1>3, <3>2, <4>1
    <3> QED BY <3>1, <3>2
  <2> QED BY <1>2, <2>1 DEF IInv, StackInv
<1> QED BY <1>5, <1>6 DEF StackInv

LEMMA StackPop ==
  ASSUME IInv, Running, Return
  PROVE  StackInv'
<1>1. /\ cur \in Slot /\ act[cur].at # "none" /\ act \in [Slot -> Activation]
      /\ stack \in Seq(Slot) /\ Len(stack) \in Nat \ {0}
      /\ cur = stack[Len(stack)]
  BY CurExiting, CurType DEF IInv, TypeOK, cur
<1>2. \A x \in Slot : (act'[x].at # "none") = (act[x].at # "none" /\ x # cur)
  BY <1>1 DEF Return, NoActivation
<1>3. /\ Len(stack') = Len(stack) - 1
      /\ \A i \in 1 .. Len(stack) - 1 : stack'[i] = stack[i]
  <2>1. \A i \in 1 .. Len(stack) - 1 : stack[i] \in Slot
    BY <1>1
  <2>2. Len(stack) - 1 \in Int /\ 1 \in Int /\ stack' = SubSeq(stack, 1, Len(stack) - 1)
    BY <1>1 DEF Return
  <2>3. /\ Len(SubSeq(stack, 1, Len(stack) - 1)) =
             IF 1 <= Len(stack) - 1 THEN Len(stack) - 1 - 1 + 1 ELSE 0
        /\ \A i \in 1 .. Len(stack) - 1 - 1 + 1 :
             SubSeq(stack, 1, Len(stack) - 1)[i] = stack[1 + i - 1]
    BY <2>1, <2>2, SubSeqProperties
  <2>4. Len(stack) - 1 - 1 + 1 = Len(stack) - 1 /\ \A i \in Int : 1 + i - 1 = i
    BY <1>1
  <2>5. Len(stack') = Len(stack) - 1
    <3>1. Len(stack') = Len(SubSeq(stack, 1, Len(stack) - 1))
      BY <2>2
    <3>2. \A n \in Nat \ {0} : (IF 1 <= n - 1 THEN n - 1 - 1 + 1 ELSE 0) = n - 1
      OBVIOUS
    <3> QED BY <1>1, <2>3, <3>1, <3>2, Zenon
  <2>6. ASSUME NEW i \in 1 .. Len(stack) - 1
        PROVE  stack'[i] = stack[i]
    <3>1. SubSeq(stack, 1, Len(stack) - 1)[i] = stack[1 + i - 1]
      BY <1>1, <2>3, <2>4
    <3> QED BY <2>2, <2>4, <3>1
  <2> QED BY <2>5, <2>6
<1>4. \A i \in 1 .. Len(stack) - 1 : stack[i] # cur
  <2>1. \A i \in 1 .. Len(stack) : stack[i] = stack[Len(stack)] => i = Len(stack)
    BY <1>1 DEF IInv, StackInv
  <2> QED BY <1>1, <2>1
<1>5. \A i, j \in 1 .. Len(stack') : stack'[i] = stack'[j] => i = j
  BY <1>1, <1>3 DEF IInv, StackInv
<1>6. ASSUME NEW x \in Slot
      PROVE  act'[x].at # "none" <=> \E i \in 1 .. Len(stack') : stack'[i] = x
  <2>1. act[x].at # "none" <=> \E i \in 1 .. Len(stack) : stack[i] = x
    BY DEF IInv, StackInv
  <2>2. ASSUME NEW i \in 1 .. Len(stack), stack[i] = x, x # cur
        PROVE  \E k \in 1 .. Len(stack') : stack'[k] = x
    <3>1. i \in 1 .. Len(stack')
      BY <1>1, <1>3, <2>2
    <3> QED BY <1>3, <2>2, <3>1
  <2>3. ASSUME NEW i \in 1 .. Len(stack'), stack'[i] = x
        PROVE  x # cur /\ \E k \in 1 .. Len(stack) : stack[k] = x
    <3>1. i \in 1 .. Len(stack) - 1 /\ i \in 1 .. Len(stack)
      BY <1>1, <1>3
    <3> QED BY <1>3, <1>4, <2>3, <3>1
  <2> QED BY <1>2, <2>1, <2>2, <2>3
<1> QED BY <1>5, <1>6 DEF StackInv
-----------------------------------------------------------------------------
(***************************************************************************)
(* Every message PM handles, and every step of exit_proc's loop, keeps     *)
(* IInv; from it follow the safety properties of ProcessManager.           *)
(*                                                                         *)
(* A handler is taken apart into elementary changes of the table, each a   *)
(* lemma on the state of the table between two calls: a process enters or  *)
(* leaves a call, a signal is remembered, VFS lets go of a process, a      *)
(* child is entered, a parent or tracer changes.                           *)
(***************************************************************************)

\* What a change that concerns only s leaves: everything TableInv adds to
\* BaseInv, for the other processes.
RestKept(t, u, s) ==
  /\ CountInv(t) => CountInv(u)
  /\ \A x \in Slot \ {s} : /\ Announced(t, x) => Announced(u, x)
                           /\ Remembered(t, x) => Remembered(u, x)

---------------------------------------------------------------------------
(* Elementary changes.                                                     *)

\* Process d enters a call, or leaves the one it was answered: nobody else
\* may owe d the answer to another call.
LEMMA RecallBase ==
  ASSUME NEW t \in PMState, NEW a \in [Slot -> Activation], NEW d \in Slot,
         NEW k \in Call, BaseInv(t, a), k # "spurious",
         "WAITING" \notin t.flags[d], ~Exiting(t, d),
         t.vfs[d] = "fork" => k = "born", t.vfs[d] = "setsid" => k = "setsid",
         \A x \in Slot : t.vfs[x] = "fork" /\ "NEW_PARENT" \notin t.flags[x]
                           /\ t.parent[x] = d => k = "fork",
         \A x \in Slot : "TRACE_EXIT" \in t.flags[x] /\ t.vfs[x] # "none"
                           /\ t.tracer[x] = d => k = "ptrace",
         d \in t.pend => VfsCall(t, d) \/ k = "exit"
  PROVE  LET u == [t EXCEPT !.call[d] = k]
         IN  /\ u \in PMState /\ BaseInv(u, a) /\ RestKept(t, u, d)
             /\ Announced(t, d) => Announced(u, d)
             /\ u.call[d] = k
             /\ \A x \in Slot \ {d} : u.call[x] = t.call[x]
<1> DEFINE u == [t EXCEPT !.call[d] = k]
<1> USE DEF InUse, Exiting, VfsCall
<1>1. /\ u \in PMState /\ u.flags = t.flags /\ u.pid = t.pid /\ u.pend = t.pend
      /\ u.parent = t.parent /\ u.tracer = t.tracer /\ u.vfs = t.vfs
      /\ u.procgrp = t.procgrp /\ u.wpid = t.wpid /\ u.sched = t.sched
      /\ u.procs_in_use = t.procs_in_use /\ u.panic = t.panic
  BY DEF PMState
<1>2. u.call[d] = k /\ \A x \in Slot \ {d} : u.call[x] = t.call[x]
  BY DEF PMState
<1> HIDE DEF u
<1>3. ASSUME NEW x \in Slot
      PROVE  SlotInv(u, x) /\ FamilyInv(u, a, x) /\ PendInv(u, x) /\ ActiveInv(u, a, x)
  <2>1. SlotInv(t, x) /\ FamilyInv(t, a, x) /\ PendInv(t, x) /\ ActiveInv(t, a, x)
    BY DEF BaseInv
  <2>2. SlotInv(u, x) /\ ActiveInv(u, a, x) /\ PendInv(u, x)
    BY <1>1, <1>2, <2>1 DEF SlotInv, ActiveInv, PendInv
  <2> QED BY <1>1, <2>1, <2>2 DEF FamilyInv
<1>4. ASSUME NEW x \in Slot PROVE CallInv(u, x)
  <2>1. CallInv(t, x) /\ t.parent[x] \in Slot /\ t.tracer[x] \in Slot
        /\ INIT_PROC_NR \in Slot
    BY ConstantTypes DEF BaseInv, PMState
  <2>2. u.vfs[x] = "fork" /\ "NEW_PARENT" \notin u.flags[x] =>
          \/ u.call[u.parent[x]] = "fork"
          \/ u.parent[x] = INIT_PROC_NR /\ u.call[INIT_PROC_NR] = "dead"
          \/ Exiting(u, u.parent[x])
    BY <1>1, <1>2, <2>1 DEF CallInv
  <2>3. "TRACE_EXIT" \in u.flags[x] /\ u.vfs[x] # "none" =>
          u.call[u.tracer[x]] = "ptrace" \/ Exiting(u, u.tracer[x])
    BY <1>1, <1>2, <2>1 DEF CallInv
  <2> QED BY <1>1, <1>2, <2>1, <2>2, <2>3 DEF CallInv
<1>5. ASSUME NEW x \in Slot, NEW y \in Slot PROVE OneAnswer(u, x, y)
  <2>1. OneAnswer(t, x, y)
    BY DEF BaseInv
  <2> QED BY <1>1, <2>1 DEF OneAnswer
<1>6. BootInv(u)
  <2>1. BootInv(t)
    BY DEF BaseInv
  <2> QED BY <1>1, <2>1, BootKept DEF Same
<1>7. BaseInv(u, a)
  BY <1>1, <1>3, <1>4, <1>5, <1>6 DEF BaseInv
<1>8. \A x \in Slot : Announced(t, x) => Announced(u, x)
  BY <1>1 DEF Announced, wait_test
<1>9. RestKept(t, u, d)
  BY <1>1, <1>2, <1>8 DEF RestKept, Remembered, CountInv
<1> QED BY <1>1, <1>2, <1>7, <1>8, <1>9 DEF u

\* A fatal signal for s is kept until VFS has answered, or comes back from
\* the kernel.
LEMMA PendBase ==
  ASSUME NEW t \in PMState, NEW a \in [Slot -> Activation], NEW s \in Slot \ Boot,
         BaseInv(t, a), InUse(t, s), ~Exiting(t, s), VfsCall(t, s) \/ t.call[s] = "exit"
  PROVE  LET u == [t EXCEPT !.pend = @ \cup {s}]
         IN  /\ u \in PMState /\ BaseInv(u, a) /\ RestKept(t, u, s)
             /\ Announced(t, s) => Announced(u, s)
             /\ Remembered(t, s) => Remembered(u, s)
             /\ s \in u.pend
<1> DEFINE u == [t EXCEPT !.pend = @ \cup {s}]
<1>1. /\ u \in PMState /\ u.flags = t.flags /\ u.pid = t.pid /\ u.call = t.call
      /\ u.parent = t.parent /\ u.tracer = t.tracer /\ u.vfs = t.vfs
      /\ u.procgrp = t.procgrp /\ u.wpid = t.wpid /\ u.sched = t.sched
      /\ u.procs_in_use = t.procs_in_use /\ u.panic = t.panic
      /\ u.pend = t.pend \cup {s}
  BY DEF PMState
<1> HIDE DEF u
<1> USE DEF InUse, Exiting, VfsCall
<1>3. ASSUME NEW x \in Slot
      PROVE  /\ SlotInv(u, x) /\ FamilyInv(u, a, x) /\ PendInv(u, x)
             /\ ActiveInv(u, a, x) /\ CallInv(u, x)
  <2>1. /\ SlotInv(t, x) /\ FamilyInv(t, a, x) /\ PendInv(t, x)
        /\ ActiveInv(t, a, x) /\ CallInv(t, x)
    BY DEF BaseInv
  <2>2. SlotInv(u, x) /\ ActiveInv(u, a, x) /\ CallInv(u, x)
    BY <1>1, <2>1 DEF SlotInv, ActiveInv, CallInv
  <2>3. PendInv(u, x)
    BY <1>1, <2>1, BootSlots DEF PendInv
  <2> QED BY <1>1, <2>1, <2>2, <2>3 DEF FamilyInv
<1>5. ASSUME NEW x \in Slot, NEW y \in Slot PROVE OneAnswer(u, x, y)
  <2>1. OneAnswer(t, x, y)
    BY DEF BaseInv
  <2> QED BY <1>1, <2>1 DEF OneAnswer
<1>6. BootInv(u)
  <2>1. BootInv(t)
    BY DEF BaseInv
  <2> QED BY <1>1, <2>1, BootKept DEF Same
<1>7. BaseInv(u, a)
  BY <1>1, <1>3, <1>5, <1>6 DEF BaseInv
<1>8. \A x \in Slot : Announced(t, x) => Announced(u, x)
  BY <1>1 DEF Announced, wait_test
<1>9. \A x \in Slot : Remembered(t, x) => Remembered(u, x)
  BY <1>1 DEF Remembered
<1>10. RestKept(t, u, s)
  BY <1>1, <1>8, <1>9 DEF RestKept, CountInv
<1> QED BY <1>1, <1>7, <1>8, <1>9, <1>10 DEF u

---------------------------------------------------------------------------
(* Between two messages.                                                   *)

\* What the handlers have to keep, besides the types.
Table == TableInv(pm, act) /\ StackInv /\ CountInv(pm)

\* Nobody is in exit_proc, so every parent and tracer is alive.
LEMMA IdleFacts ==
  ASSUME IInv, Idle
  PROVE  /\ pm \in PMState /\ act \in [Slot -> Activation] /\ stack = <<>>
         /\ BaseInv(pm, act) /\ CountInv(pm)
         /\ \A s \in Slot : /\ act[s].at = "none"
                            /\ Announced(pm, s) /\ Remembered(pm, s)
         /\ \A s \in Slot : InUse(pm, s) =>
              /\ pm.parent[s] \in Slot /\ InUse(pm, pm.parent[s])
              /\ ~Exiting(pm, pm.parent[s]) /\ pm.parent[s] # PM
              /\ pm.tracer[s] \in Slot
              /\ pm.tracer[s] # NO_TRACER =>
                   InUse(pm, pm.tracer[s]) /\ ~Exiting(pm, pm.tracer[s])
<1>1. /\ pm \in PMState /\ act \in [Slot -> Activation] /\ stack = <<>>
      /\ BaseInv(pm, act) /\ CountInv(pm)
      /\ \A s \in Slot : Announced(pm, s) /\ Remembered(pm, s)
  BY DEF IInv, TypeOK, TableInv, Idle, Running
<1>2. ASSUME NEW s \in Slot PROVE act[s].at = "none"
  <2>1. act[s].at # "none" <=> \E i \in 1 .. Len(stack) : stack[i] = s
    BY DEF IInv, StackInv
  <2>2. Len(stack) = 0
    BY <1>1
  <2> QED BY <2>1, <2>2
<1>3. ASSUME NEW s \in Slot, InUse(pm, s)
      PROVE  /\ pm.parent[s] \in Slot /\ InUse(pm, pm.parent[s])
             /\ ~Exiting(pm, pm.parent[s]) /\ pm.parent[s] # PM
             /\ pm.tracer[s] \in Slot
             /\ pm.tracer[s] # NO_TRACER =>
                  InUse(pm, pm.tracer[s]) /\ ~Exiting(pm, pm.tracer[s])
  <2>1. pm.parent[s] \in Slot /\ pm.tracer[s] \in Slot
    BY <1>1 DEF PMState
  <2>2. act[pm.parent[s]].at = "none" /\ act[pm.tracer[s]].at = "none"
    BY <1>2, <2>1
  <2>3. FamilyInv(pm, act, s)
    BY <1>1 DEF BaseInv
  <2> QED BY <1>3, <2>1, <2>2, <2>3 DEF FamilyInv
<1> QED BY <1>1, <1>2, <1>3

\* A process that calls PM is blocked in no call, so nobody owes it an answer.
LEMMA RunnableFacts ==
  ASSUME IInv, Idle, NEW p \in Slot, Runnable(p)
  PROVE  /\ InUse(pm, p) /\ ~Exiting(pm, p) /\ pm.call[p] = "run"
         /\ "WAITING" \notin pm.flags[p] /\ pm.vfs[p] \in {"none", "srv_fork"}
         /\ \A x \in Slot : ~(/\ pm.vfs[x] = "fork" /\ "NEW_PARENT" \notin pm.flags[x]
                              /\ pm.parent[x] = p)
         /\ \A x \in Slot : ~(/\ "TRACE_EXIT" \in pm.flags[x] /\ pm.vfs[x] # "none"
                              /\ pm.tracer[x] = p)
         /\ p \in pm.pend => VfsCall(pm, p)
         /\ ~Priv(pm, p) => /\ ~VfsCall(pm, p) /\ pm.vfs[p] = "none"
                            /\ p \notin pm.pend /\ "TRACE_EXIT" \notin pm.flags[p]
<1> USE DEF InUse, Exiting, VfsCall
<1>1. /\ pm \in PMState /\ BaseInv(pm, act) /\ Announced(pm, p)
      /\ InUse(pm, p) /\ ~Exiting(pm, p) /\ pm.call[p] = "run"
  BY IdleFacts DEF Runnable
<1>2. SlotInv(pm, p) /\ CallInv(pm, p) /\ PendInv(pm, p)
  BY <1>1 DEF BaseInv
<1>3. "WAITING" \notin pm.flags[p] /\ pm.vfs[p] \in {"none", "srv_fork"}
  <2>1. pm.vfs[p] \in Request
    BY <1>1 DEF PMState
  <2> QED BY <1>1, <1>2, <2>1 DEF CallInv, SlotInv, Request
<1>4. ASSUME NEW x \in Slot
      PROVE  /\ ~(/\ pm.vfs[x] = "fork" /\ "NEW_PARENT" \notin pm.flags[x]
                  /\ pm.parent[x] = p)
             /\ ~(/\ "TRACE_EXIT" \in pm.flags[x] /\ pm.vfs[x] # "none"
                  /\ pm.tracer[x] = p)
  <2>1. CallInv(pm, x)
    BY <1>1 DEF BaseInv
  <2> QED BY <1>1, <2>1 DEF CallInv
<1>5. p \in pm.pend => VfsCall(pm, p)
  BY <1>1, <1>2 DEF PendInv
<1>6. ~Priv(pm, p) => /\ ~VfsCall(pm, p) /\ pm.vfs[p] = "none"
                      /\ p \notin pm.pend /\ "TRACE_EXIT" \notin pm.flags[p]
  BY <1>1, <1>2, <1>3, <1>5 DEF SlotInv, Priv, Announced
<1> QED BY <1>1, <1>3, <1>4, <1>5, <1>6

\* It may enter any call.
LEMMA EnterCall ==
  ASSUME IInv, Idle, NEW p \in Slot, Runnable(p), NEW k \in Call \ {"spurious"}
  PROVE  LET u == [pm EXCEPT !.call[p] = k]
         IN  /\ u \in PMState /\ BaseInv(u, act) /\ CountInv(u)
             /\ \A x \in Slot : Announced(u, x)
             /\ \A x \in Slot \ {p} : Remembered(u, x)
             /\ u.call[p] = k /\ \A x \in Slot \ {p} : u.call[x] = pm.call[x]
             /\ SameRest(pm, u) /\ u.flags = pm.flags /\ u.pid = pm.pid
             /\ u.procs_in_use = pm.procs_in_use
<1> DEFINE u == [pm EXCEPT !.call[p] = k]
<1>1. /\ pm \in PMState /\ act \in [Slot -> Activation]
      /\ BaseInv(pm, act) /\ CountInv(pm)
      /\ \A s \in Slot : Announced(pm, s) /\ Remembered(pm, s)
  BY IdleFacts
<1>2. /\ ~Exiting(pm, p) /\ "WAITING" \notin pm.flags[p]
      /\ pm.vfs[p] = "fork" => k = "born"
      /\ pm.vfs[p] = "setsid" => k = "setsid"
      /\ p \in pm.pend => VfsCall(pm, p) \/ k = "exit"
      /\ \A x \in Slot : ~(/\ pm.vfs[x] = "fork" /\ "NEW_PARENT" \notin pm.flags[x]
                           /\ pm.parent[x] = p)
      /\ \A x \in Slot : ~(/\ "TRACE_EXIT" \in pm.flags[x] /\ pm.vfs[x] # "none"
                           /\ pm.tracer[x] = p)
  BY RunnableFacts
<1>3. /\ u \in PMState /\ BaseInv(u, act) /\ RestKept(pm, u, p)
      /\ Announced(pm, p) => Announced(u, p)
      /\ u.call[p] = k /\ \A x \in Slot \ {p} : u.call[x] = pm.call[x]
  BY <1>1, <1>2, RecallBase
<1>4. /\ SameRest(pm, u) /\ u.flags = pm.flags /\ u.pid = pm.pid
      /\ u.procs_in_use = pm.procs_in_use
  BY <1>1 DEF PMState, SameRest
<1> HIDE DEF u
<1>5. /\ CountInv(u) /\ \A x \in Slot : Announced(u, x)
      /\ \A x \in Slot \ {p} : Remembered(u, x)
  BY <1>1, <1>3 DEF RestKept
<1> QED BY <1>3, <1>4, <1>5 DEF u

\* A step that only changes the table.
LEMMA TableStep ==
  ASSUME IInv, UNCHANGED <<act, stack>>, TableInv(pm', act), CountInv(pm')
  PROVE  Table'
<1>1. StackInv'
  BY DEF IInv, StackInv
<1> QED BY <1>1 DEF Table

\* exit_proc, for a process whose exit can begin at once.
LEMMA ExitProcStep ==
  ASSUME IInv, Idle, NEW t \in PMState, NEW s \in Slot, NEW b \in BOOLEAN,
         NEW m \in Slot, exit_proc(t, s, b, m),
         BaseInv(t, act), CountInv(t),
         InUse(t, s), ~Exiting(t, s), ~VfsCall(t, s), s \notin Boot \ {INIT_PROC_NR},
         Ready(t, s),
         \A x \in Slot : x # s \/ s = INIT_PROC_NR => Announced(t, x) /\ Remembered(t, x)
  PROVE  Table'
<1>0. /\ act \in [Slot -> Activation] /\ stack = <<>>
      /\ \A x \in Slot : act[x].at = "none"
  BY IdleFacts
<1>1. CASE s = INIT_PROC_NR
  <2>1. TableInv(t, act)
    BY <1>1 DEF TableInv
  <2>2. TableInv(pm', act) /\ CountInv(pm')
    BY <1>0, <1>1, <2>1, InitExitTable DEF exit_proc
  <2> QED BY <1>1, <2>2, TableStep DEF exit_proc
<1>2. CASE s # INIT_PROC_NR
  <2> DEFINE n == new_activation(t, s, m)
  <2>1. n \in Activation /\ n.at = "tracer" /\ n.idx = 0
    BY ActivationType DEF new_activation
  <2> HIDE DEF n
  <2>2. s \in Slot \ Boot
    BY <1>2
  <2>3. TableInv(begin_exit(t, s, b), [act EXCEPT ![s] = n])
        /\ CountInv(begin_exit(t, s, b))
    BY <1>0, <1>2, <2>1, <2>2, BeginExitTable
  <2>4. pm' = begin_exit(t, s, b) /\ act' = [act EXCEPT ![s] = n] /\ stack' = <<s>>
    BY <1>2 DEF exit_proc, n
  <2>5. StackInv'
    <3>1. \A x \in Slot : act'[x].at # "none" <=> x = s
      BY <1>0, <2>1, <2>4
    <3>2. Len(stack') = 1 /\ stack'[1] = s
      BY <2>4
    <3> QED BY <3>1, <3>2 DEF StackInv
  <2> QED BY <2>3, <2>4, <2>5 DEF Table
<1> QED BY <1>1, <1>2

---------------------------------------------------------------------------
(* Exits and signals.                                                      *)

\* Whoever exits on no tracer's behalf, or on that of a tracer in T_EXIT.
LEMMA ReadyFacts ==
  ASSUME IInv, Idle, NEW s \in Slot, ~Exiting(pm, s), ~VfsCall(pm, s)
  PROVE  Ready(pm, s)
BY IdleFacts DEF Announced, Ready, Exiting, VfsCall

LEMMA PendStep ==
  ASSUME IInv, Idle, NEW t \in PMState, NEW s \in Slot \ Boot,
         TableInv(t, act), CountInv(t), InUse(t, s), ~Exiting(t, s),
         VfsCall(t, s) \/ t.call[s] = "exit",
         pm' = [t EXCEPT !.pend = @ \cup {s}], UNCHANGED <<act, stack>>
  PROVE  Table'
<1>1. act \in [Slot -> Activation] /\ BaseInv(t, act)
  BY DEF IInv, TypeOK, TableInv
<1>2. /\ BaseInv(pm', act) /\ RestKept(t, pm', s)
      /\ Announced(t, s) => Announced(pm', s)
      /\ Remembered(t, s) => Remembered(pm', s)
  BY <1>1, PendBase
<1>3. TableInv(pm', act) /\ CountInv(pm')
  BY <1>2 DEF TableInv, RestKept
<1> QED BY <1>3, TableStep

LEMMA ExitStep ==
  ASSUME IInv, NEW p \in Slot \ {PM}, do_exit(p)
  PROVE  Table'
<1>0. Idle /\ Runnable(p) /\ p # RS_PROC_NR
  BY PMAssumption DEF do_exit
<1>1. /\ pm \in PMState /\ act \in [Slot -> Activation]
      /\ BaseInv(pm, act) /\ CountInv(pm) /\ BootInv(pm)
      /\ \A s \in Slot : Announced(pm, s) /\ Remembered(pm, s)
  BY <1>0, IdleFacts DEF BaseInv
<1>2. CASE Priv(pm, p)
  <2> DEFINE t == [pm EXCEPT !.call[p] = "exit"]
  <2>1. /\ t \in PMState /\ BaseInv(t, act) /\ CountInv(t)
        /\ \A x \in Slot : Announced(t, x)
        /\ \A x \in Slot \ {p} : Remembered(t, x)
        /\ t.call[p] = "exit" /\ t.flags = pm.flags
    BY <1>0, EnterCall DEF Call
  <2>2. pm' = [t EXCEPT !.pend = @ \cup {p}]
    BY <1>1, <1>2 DEF do_exit, PMState
  <2> HIDE DEF t
  <2>3. TableInv(t, act)
    BY <2>1 DEF TableInv, Remembered
  <2>4. p \in Slot \ Boot
    BY <1>0, <1>1, <1>2 DEF Boot, BootInv
  <2>5. InUse(t, p) /\ ~Exiting(t, p)
    BY <1>0, <2>1 DEF Runnable, InUse, Exiting
  <2> QED BY <1>0, <1>2, <2>1, <2>2, <2>3, <2>4, <2>5, PendStep DEF do_exit
<1>3. CASE ~Priv(pm, p)
  <2>1. InUse(pm, p) /\ ~Exiting(pm, p) /\ ~VfsCall(pm, p)
    BY <1>0, <1>3, RunnableFacts
  <2>2. Ready(pm, p)
    BY <1>0, <2>1, ReadyFacts
  <2>3. p \notin Boot \ {INIT_PROC_NR}
    BY <1>0 DEF Boot
  <2> QED BY <1>0, <1>1, <1>3, <2>1, <2>2, <2>3, ExitProcStep DEF do_exit
<1> QED BY <1>2, <1>3

LEMMA KillStep ==
  ASSUME IInv, NEW k \in Slot \ {PM}, NEW p \in Slot \ {PM}, Kill(k, p)
  PROVE  Table'
<1>0. Idle /\ p # RS_PROC_NR /\ InUse(pm, p) /\ ~Exiting(pm, p)
  BY PMAssumption DEF Kill
<1>1. /\ pm \in PMState /\ act \in [Slot -> Activation] /\ TableInv(pm, act)
      /\ BaseInv(pm, act) /\ CountInv(pm) /\ BootInv(pm)
      /\ \A s \in Slot : Announced(pm, s) /\ Remembered(pm, s)
  BY <1>0, IdleFacts DEF BaseInv, IInv
<1>2. CASE VfsCall(pm, p)
  <2>1. p \in Slot \ Boot
    <3>1. SlotInv(pm, p)
      BY <1>1 DEF BaseInv
    <3> QED BY <1>0, <1>1, <1>2, <3>1, BootFacts DEF Boot, SlotInv, VfsCall
  <2> QED BY <1>0, <1>1, <1>2, <2>1, PendStep DEF Kill
<1>3. CASE ~VfsCall(pm, p)
  <2>1. PICK b \in BOOLEAN : exit_proc(pm, p, b, k)
    BY <1>3 DEF Kill, DumpChoice
  <2>2. Ready(pm, p)
    BY <1>0, <1>3, ReadyFacts
  <2>3. p \notin Boot \ {INIT_PROC_NR}
    BY <1>0 DEF Boot
  <2> QED BY <1>0, <1>1, <1>3, <2>1, <2>2, <2>3, ExitProcStep
<1> QED BY <1>2, <1>3

LEMMA KernelKillStep ==
  ASSUME IInv, NEW p \in Slot \ {PM}, KernelKill(p)
  PROVE  Table'
<1>0. Idle /\ p \in pm.pend /\ ~VfsCall(pm, p) /\ exit_proc(pm, p, FALSE, PM)
  BY DEF KernelKill
<1>1. /\ pm \in PMState /\ act \in [Slot -> Activation]
      /\ BaseInv(pm, act) /\ CountInv(pm) /\ BootInv(pm)
      /\ \A s \in Slot : Announced(pm, s) /\ Remembered(pm, s)
  BY <1>0, IdleFacts DEF BaseInv
<1>2. InUse(pm, p) /\ ~Exiting(pm, p) /\ p \notin Boot
  <2>1. PendInv(pm, p)
    BY <1>1 DEF BaseInv
  <2> QED BY <1>0, <1>1, <2>1 DEF PendInv, BootInv
<1>3. Ready(pm, p)
  BY <1>0, <1>2, ReadyFacts
<1> QED BY <1>0, <1>1, <1>2, <1>3, ExitProcStep, ConstantTypes

---------------------------------------------------------------------------
(* waitpid.                                                                *)

\* A Frame that concerns nobody in particular keeps the whole table.
LEMMA QuietTable ==
  ASSUME NEW t, NEW u, NEW a \in [Slot -> Activation], TableInv(t, a), CountInv(t),
         \A x \in Slot : Frame(t, u, x)
  PROVE  TableInv(u, a) /\ CountInv(u)
<1>1. ASSUME NEW x \in Slot PROVE Announced(u, x) /\ Remembered(u, x)
  <2>1. PICK y \in Slot : y # x
    BY ConstantTypes
  <2>2. Announced(t, x) /\ Remembered(t, x)
    BY DEF TableInv
  <2> QED BY <2>1, <2>2, FrameRest
<1>2. BaseInv(t, a) /\ PM \in Slot
  BY ConstantTypes DEF TableInv
<1>3. BaseInv(u, a) /\ CountInv(u)
  BY <1>2, FrameKept DEF Kept
<1> QED BY <1>1, <1>3 DEF TableInv

LEMMA FreeAnnounced ==
  ASSUME NEW t, NEW a, NEW c \in Slot, BaseInv(t, a), ~InUse(t, c)
  PROVE  Announced(t, c)
<1>1. t.flags[c] = {}
  BY DEF BaseInv, SlotInv, InUse
<1> QED BY <1>1 DEF Announced

\* The entry that decides a waitpid that does not block.
LEMMA WaitDecision ==
  ASSUME IInv, Idle, NEW p \in Slot \ {PM}, NEW arg \in Int,
         {c \in Waitable(pm, p, arg) : Deciding(pm, p, c)} # {}
  PROVE  LET c == Least({c \in Waitable(pm, p, arg) : Deciding(pm, p, c)})
         IN  /\ c \in Slot /\ InUse(pm, c) /\ "TOLD_PARENT" \notin pm.flags[c]
             /\ Deciding(pm, p, c)
<1> DEFINE dec == {x \in Waitable(pm, p, arg) : Deciding(pm, p, x)}
<1>1. dec \in SUBSET Nat /\ dec # {}
  BY DEF Waitable, Slot
<1>2. Least(dec) \in dec
  <2> HIDE DEF dec
  <2> QED BY <1>1, LeastOf
<1> QED BY <1>2 DEF Waitable

\* A waitpid that blocks finds nothing that has already happened.
LEMMA WaitBlocks ==
  ASSUME IInv, Idle, NEW p \in Slot \ {PM}, Runnable(p), NEW arg \in Int,
         {c \in Waitable(pm, p, arg) : Deciding(pm, p, c)} = {},
         pm' = [SetFlags([pm EXCEPT !.call[p] = "wait"], p, {"WAITING"})
                  EXCEPT !.wpid[p] = arg]
  PROVE  TableInv(pm', act) /\ CountInv(pm')
<1> DEFINE t == [pm EXCEPT !.call[p] = "wait"]
<1>1. /\ t \in PMState /\ BaseInv(t, act) /\ CountInv(t)
      /\ \A x \in Slot : Announced(t, x)
      /\ \A x \in Slot \ {p} : Remembered(t, x)
      /\ t.call[p] = "wait" /\ \A x \in Slot \ {p} : t.call[x] = pm.call[x]
      /\ SameRest(pm, t) /\ t.flags = pm.flags /\ t.pid = pm.pid
      /\ t.procs_in_use = pm.procs_in_use
  BY EnterCall DEF Call
<1>2. pm' = [SetFlags(t, p, {"WAITING"}) EXCEPT !.wpid[p] = arg]
  OBVIOUS
<1> HIDE DEF t
<1> DEFINE w == SetFlags(t, p, {"WAITING"})
           u == [w EXCEPT !.wpid[p] = arg]
<1>3. /\ w \in PMState /\ SameRest(t, w) /\ SameFlagsBut(t, w, p)
      /\ w.flags[p] = t.flags[p] \cup {"WAITING"}
      /\ w.call = t.call /\ w.pid = t.pid /\ w.procs_in_use = t.procs_in_use
  BY <1>1, SetFields DEF Flag
<1> HIDE DEF w
<1>4. /\ u \in PMState /\ u.flags = w.flags /\ u.pid = w.pid /\ u.pend = w.pend
      /\ u.parent = w.parent /\ u.tracer = w.tracer /\ u.vfs = w.vfs
      /\ u.procgrp = w.procgrp /\ u.sched = w.sched /\ u.call = w.call
      /\ u.procs_in_use = w.procs_in_use /\ u.panic = w.panic
      /\ u.wpid[p] = arg /\ \A x \in Slot \ {p} : u.wpid[x] = w.wpid[x]
  BY <1>3 DEF PMState
<1>5. pm' = u
  BY <1>2 DEF w
<1> HIDE DEF u
<1>6. /\ u.pid = t.pid /\ u.pend = t.pend /\ u.parent = t.parent
      /\ u.tracer = t.tracer /\ u.vfs = t.vfs /\ u.procgrp = t.procgrp
      /\ u.sched = t.sched /\ u.call = t.call /\ u.panic = t.panic
      /\ u.procs_in_use = t.procs_in_use
      /\ u.wpid[p] = arg /\ \A x \in Slot \ {p} : u.wpid[x] = t.wpid[x]
      /\ u.flags[p] = t.flags[p] \cup {"WAITING"}
      /\ \A x \in Slot \ {p} : u.flags[x] = t.flags[x]
  BY <1>3, <1>4 DEF SameRest, SameFlagsBut
<1> USE DEF InUse, Exiting, VfsCall
<1>7. InUse(t, p) /\ ~Exiting(t, p)
  BY <1>1 DEF Runnable
<1>8. \A x \in Slot : \A f \in Flag \ {"WAITING"} : Same(t, u, x, f)
  BY <1>6 DEF Same, Flag
<1>9. ASSUME NEW x \in Slot
      PROVE  /\ SlotInv(u, x) /\ FamilyInv(u, act, x) /\ PendInv(u, x)
             /\ ActiveInv(u, act, x) /\ CallInv(u, x)
  <2>1. /\ SlotInv(t, x) /\ FamilyInv(t, act, x) /\ PendInv(t, x)
        /\ ActiveInv(t, act, x) /\ CallInv(t, x)
        /\ t.parent[x] \in Slot /\ t.tracer[x] \in Slot
    BY <1>1 DEF BaseInv, PMState
  <2>2. SlotInv(u, x) /\ ActiveInv(u, act, x) /\ PendInv(u, x)
    <3>1. CASE x = p
      BY <1>6, <1>7, <2>1, <3>1 DEF SlotInv, ActiveInv, PendInv
    <3>2. CASE x # p
      BY <1>6, <2>1, <3>2 DEF SlotInv, ActiveInv, PendInv
    <3> QED BY <3>1, <3>2
  <2>3. CallInv(u, x)
    <3>1. \A y \in Slot : Exiting(u, y) = Exiting(t, y)
      BY <1>6
    <3>2. CASE x = p
      BY <1>1, <1>6, <2>1, <3>1, <3>2 DEF CallInv
    <3>3. CASE x # p
      BY <1>6, <2>1, <3>1, <3>3 DEF CallInv
    <3> QED BY <3>2, <3>3
  <2>4. FamilyInv(u, act, x)
    <3>1. \A y \in Slot : InUse(u, y) = InUse(t, y) /\ Exiting(u, y) = Exiting(t, y)
      BY <1>6
    <3>2. {"TRACE_ZOMBIE", "TRACE_EXIT"} \cap u.flags[x]
            = {"TRACE_ZOMBIE", "TRACE_EXIT"} \cap t.flags[x]
      BY <1>6
    <3> QED BY <1>6, <2>1, <3>1, <3>2 DEF FamilyInv
  <2> QED BY <2>2, <2>3, <2>4
<1>10. ASSUME NEW x \in Slot, NEW y \in Slot PROVE OneAnswer(u, x, y)
  <2>1. OneAnswer(t, x, y)
    BY <1>1 DEF BaseInv
  <2> QED BY <1>6, <2>1 DEF OneAnswer
<1>11. BootInv(u)
  <2>1. BootInv(t)
    BY <1>1 DEF BaseInv
  <2> QED BY <1>6, <2>1, BootKept, BootSlots DEF Same
<1>12. BaseInv(u, act)
  BY <1>1, <1>6, <1>9, <1>10, <1>11 DEF BaseInv
<1>13. ASSUME NEW x \in Slot PROVE Announced(u, x)
  <2>1. Announced(t, x) /\ SlotInv(t, x) /\ t.parent[x] \in Slot /\ t.tracer[x] \in Slot
        /\ pm.pid[x] \in Nat /\ pm.procgrp[x] \in Nat
    BY <1>1 DEF BaseInv, PMState, SameRest, Pid
  <2>2. ASSUME \/ "ZOMBIE" \in t.flags[x] /\ t.parent[x] = p
               \/ "TRACE_ZOMBIE" \in t.flags[x] /\ t.tracer[x] = p
        PROVE  ~wait_test(u, p, x)
    <3>1. /\ InUse(pm, x) /\ "TOLD_PARENT" \notin pm.flags[x]
          /\ pm.parent[x] = p \/ pm.tracer[x] = p
          /\ pm.parent[x] # p => "ZOMBIE" \notin pm.flags[x]
      BY <1>1, <2>1, <2>2 DEF SlotInv, SameRest
    <3>2. Deciding(pm, p, x)
      BY <1>1, <2>2 DEF Deciding, SameRest
    <3>3. \/ arg > 0 /\ arg # pm.pid[x]
          \/ arg < -1 /\ -arg # pm.procgrp[x]
      BY <3>1, <3>2 DEF Waitable
    <3>4. u.pid[x] = pm.pid[x] /\ u.procgrp[x] = pm.procgrp[x] /\ u.wpid[p] = arg
      BY <1>1, <1>6 DEF SameRest
    <3> QED BY <2>1, <3>3, <3>4 DEF wait_test
  <2>3. ASSUME NEW q \in Slot \ {p}, wait_test(u, q, x) PROVE wait_test(t, q, x)
    BY <1>6, <2>3 DEF wait_test
  <2>4. \A f \in {"EXITING", "ZOMBIE", "TRACE_ZOMBIE", "TOLD_PARENT", "VFS_CALL",
                  "TRACE_EXIT"} : f \in u.flags[x] <=> f \in t.flags[x]
    BY <1>6
  <2>5. /\ "ZOMBIE" \in t.flags[x] => ~wait_test(t, t.parent[x], x)
        /\ "TRACE_ZOMBIE" \in t.flags[x] => ~wait_test(t, t.tracer[x], x)
    BY <2>1 DEF Announced
  <2>6. /\ "ZOMBIE" \in t.flags[x] => ~wait_test(u, t.parent[x], x)
        /\ "TRACE_ZOMBIE" \in t.flags[x] => ~wait_test(u, t.tracer[x], x)
    <3>1. ASSUME "ZOMBIE" \in t.flags[x] PROVE ~wait_test(u, t.parent[x], x)
      <4>1. CASE t.parent[x] = p
        <5>1. ~wait_test(u, p, x)
          BY <2>2, <3>1, <4>1
        <5> QED BY <4>1, <5>1
      <4>2. CASE t.parent[x] # p
        BY <2>1, <2>3, <2>5, <3>1, <4>2
      <4> QED BY <4>1, <4>2
    <3>2. ASSUME "TRACE_ZOMBIE" \in t.flags[x] PROVE ~wait_test(u, t.tracer[x], x)
      <4>1. CASE t.tracer[x] = p
        <5>1. ~wait_test(u, p, x)
          BY <2>2, <3>2, <4>1
        <5> QED BY <4>1, <5>1
      <4>2. CASE t.tracer[x] # p
        BY <2>1, <2>3, <2>5, <3>2, <4>2
      <4> QED BY <4>1, <4>2
    <3> QED BY <3>1, <3>2
  <2> QED BY <1>6, <2>1, <2>4, <2>5, <2>6 DEF Announced
<1>14. ASSUME NEW x \in Slot PROVE Remembered(u, x)
  BY <1>1, <1>6 DEF Remembered
<1>15. CountInv(u)
  <2>1. {x \in Slot : InUse(u, x)} = {x \in Slot : InUse(t, x)}
    BY <1>6
  <2> QED BY <1>1, <1>6, <2>1 DEF CountInv
<1> QED BY <1>5, <1>12, <1>13, <1>14, <1>15 DEF TableInv

\* waitpid finds a process it traces dead: its parent is told next.
LEMMA WaitTracer ==
  ASSUME IInv, Idle, NEW p \in Slot \ {PM}, Runnable(p), NEW c \in Slot,
         "TRACE_ZOMBIE" \in pm.flags[c], pm.tracer[c] = p
  PROVE  LET u == check_parent(tell_tracer([pm EXCEPT !.call[p] = "wait"], c), c, TRUE)
         IN  TableInv(u, act) /\ CountInv(u)
<1> DEFINE t == [pm EXCEPT !.call[p] = "wait"]
           z == tell_tracer(t, c)
           u == check_parent(z, c, TRUE)
<1>0. act \in [Slot -> Activation]
  BY IdleFacts
<1>1. /\ t \in PMState /\ BaseInv(t, act) /\ CountInv(t)
      /\ \A x \in Slot : Announced(t, x)
      /\ \A x \in Slot \ {p} : Remembered(t, x)
      /\ t.call[p] = "wait" /\ SameRest(pm, t) /\ t.flags = pm.flags
  BY EnterCall DEF Call
<1> HIDE DEF t
<1>2. /\ SlotInv(t, c) /\ t.tracer[c] = p /\ "TRACE_ZOMBIE" \in t.flags[c]
      /\ p # NO_TRACER /\ ~Exiting(t, p)
  BY <1>1 DEF BaseInv, SameRest, Runnable, Exiting, NO_TRACER, PM
<1>3. /\ Exiting(t, c) /\ "ZOMBIE" \notin t.flags[c] /\ "TOLD_PARENT" \notin t.flags[c]
      /\ t.vfs[c] # "dump" /\ p # c
  BY <1>1, <1>2 DEF SlotInv, Exiting, Announced
<1>4. /\ Frame(t, z, c) /\ z.flags[c] = (t.flags[c] \ {"TRACE_ZOMBIE"}) \cup {"ZOMBIE"}
      /\ z.call[p] # "wait"
  BY <1>1, <1>2, <1>3, TellTracerFrame DEF Awaits
<1> HIDE DEF z
<1>5. Kept(t, z, act, c) /\ z \in PMState /\ BaseInv(z, act) /\ z.vfs[c] # "dump"
  BY <1>0, <1>1, <1>3, <1>4, FrameKept DEF Kept, SameRest
<1>6. \A x \in Slot : Remembered(z, x)
  BY <1>1, <1>4, <1>5 DEF Kept, Remembered
<1>7. /\ Kept(z, u, act, c)
      /\ Announced(u, c) \/ ~InUse(u, c)
  BY <1>0, <1>4, <1>5, CheckParentKept
<1> HIDE DEF u
<1>8. BaseInv(u, act) /\ CountInv(u) /\ Announced(u, c)
  BY <1>1, <1>5, <1>7, FreeAnnounced DEF Kept
<1>9. \A x \in Slot : Announced(u, x) /\ Remembered(u, x)
  BY <1>1, <1>5, <1>6, <1>7, <1>8 DEF Kept
<1>10. TableInv(u, act) /\ CountInv(u)
  BY <1>8, <1>9 DEF TableInv
<1> QED BY <1>10 DEF u, z, t

\* waitpid finds a dead child: its entry is kept for VFS, or freed.
LEMMA WaitChild ==
  ASSUME IInv, Idle, NEW p \in Slot \ {PM}, Runnable(p), NEW c \in Slot,
         "ZOMBIE" \in pm.flags[c], pm.parent[c] = p
  PROVE  LET z == tell_parent([pm EXCEPT !.call[p] = "wait"], c)
             u == IF VfsCall(z, c) THEN z ELSE cleanup(z, c)
         IN  TableInv(u, act) /\ CountInv(u)
<1> DEFINE t == [pm EXCEPT !.call[p] = "wait"]
           z == tell_parent(t, c)
           y == cleanup(z, c)
<1>0. act \in [Slot -> Activation]
  BY IdleFacts
<1>1. /\ t \in PMState /\ BaseInv(t, act) /\ CountInv(t)
      /\ \A x \in Slot : Announced(t, x)
      /\ \A x \in Slot \ {p} : Remembered(t, x)
      /\ t.call[p] = "wait" /\ SameRest(pm, t) /\ t.flags = pm.flags
  BY EnterCall DEF Call
<1> HIDE DEF t
<1>2. /\ SlotInv(t, c) /\ t.parent[c] = p /\ "ZOMBIE" \in t.flags[c]
      /\ p # PM /\ ~Exiting(t, p)
  BY <1>1 DEF BaseInv, SameRest, Runnable, Exiting
<1>3. /\ Exiting(t, c) /\ "TRACE_ZOMBIE" \notin t.flags[c]
      /\ "TOLD_PARENT" \notin t.flags[c] /\ t.vfs[c] # "dump" /\ p # c
  BY <1>1, <1>2 DEF SlotInv, Exiting, Announced
<1>4. /\ Frame(t, z, c) /\ z.flags[c] = (t.flags[c] \ {"ZOMBIE"}) \cup {"TOLD_PARENT"}
      /\ z.call[p] # "wait"
  BY <1>1, <1>2, <1>3, TellParentFrame DEF Awaits
<1> HIDE DEF z
<1>5. Kept(t, z, act, c) /\ z \in PMState /\ BaseInv(z, act) /\ z.vfs[c] # "dump"
  BY <1>0, <1>1, <1>3, <1>4, FrameKept DEF Kept, SameRest
<1>6. \A x \in Slot : Remembered(z, x)
  BY <1>1, <1>4, <1>5 DEF Kept, Remembered
<1>7. /\ SlotInv(z, c) /\ Exiting(z, c)
      /\ "ZOMBIE" \notin z.flags[c] /\ "TRACE_ZOMBIE" \notin z.flags[c]
      /\ "TOLD_PARENT" \in z.flags[c]
  BY <1>3, <1>4, <1>5 DEF BaseInv, Exiting
<1>8. CASE VfsCall(z, c)
  <2>1. Announced(z, c)
    BY <1>5, <1>7, <1>8 DEF SlotInv, Announced, Exiting, VfsCall
  <2>2. TableInv(z, act) /\ CountInv(z)
    BY <1>1, <1>5, <1>6, <2>1 DEF Kept, TableInv
  <2> QED BY <1>8, <2>2 DEF z, t
<1>9. CASE ~VfsCall(z, c)
  <2>1. z.call[c] = "dead"
    BY <1>7 DEF SlotInv, Exiting
  <2>2. Frame(z, y, c) /\ ~InUse(y, c)
    BY <1>5, <1>7, <1>9, <2>1, CleanupFrame
  <2> HIDE DEF y
  <2>3. Kept(z, y, act, c)
    BY <1>0, <1>5, <2>2, FrameKept
  <2>4. BaseInv(y, act) /\ CountInv(y) /\ Announced(y, c)
    BY <1>1, <1>5, <2>2, <2>3, FreeAnnounced DEF Kept
  <2>5. \A x \in Slot : Announced(y, x) /\ Remembered(y, x)
    BY <1>1, <1>5, <1>6, <2>3, <2>4 DEF Kept
  <2>6. TableInv(y, act) /\ CountInv(y)
    BY <2>4, <2>5 DEF TableInv
  <2> QED BY <1>9, <2>6 DEF y, z, t
<1> QED BY <1>8, <1>9

LEMMA WaitpidStep ==
  ASSUME IInv, NEW p \in Slot \ {PM}, NEW pidarg \in WaitArg, NEW nohang \in BOOLEAN,
         do_waitpid(p, pidarg, nohang)
  PROVE  Table'
<1> DEFINE arg == IF pidarg = 0 THEN -pm.procgrp[p] ELSE pidarg
           kids == Waitable(pm, p, arg)
           dec == {c \in kids : Deciding(pm, p, c)}
           c == Least(dec)
           t == [pm EXCEPT !.call[p] = "wait"]
           told == tell_parent(t, c)
<1>0. /\ Idle /\ Runnable(p) /\ UNCHANGED <<act, stack>> /\ pm \in PMState
      /\ TableInv(pm, act) /\ CountInv(pm)
  BY DEF do_waitpid, IInv, TypeOK
<1>1. arg \in Int
  <2>1. pm.procgrp[p] \in Int /\ WaitArg \subseteq Int
    BY <1>0, PMAssumption DEF PMState, Pid
  <2> QED BY <2>1
<1>2. pm' = IF dec # {}
            THEN IF t.tracer[c] = p /\ "TRACE_ZOMBIE" \in t.flags[c]
                 THEN check_parent(tell_tracer(t, c), c, TRUE)
                 ELSE IF StopPending(t, p, c)
                 THEN [reply(t, p, "wait") EXCEPT !.sigtrace = @ \ {c}]
                 ELSE IF VfsCall(told, c) THEN told ELSE cleanup(told, c)
            ELSE IF kids = {} \/ nohang THEN reply(t, p, "wait")
            ELSE [SetFlags(t, p, {"WAITING"}) EXCEPT !.wpid[p] = arg]
  BY DEF do_waitpid
<1>3. t.flags = pm.flags /\ t.tracer = pm.tracer /\ t.sigtrace = pm.sigtrace
  BY <1>0 DEF PMState
<1>4. LET v == reply(t, p, "wait")
      IN  /\ v \in PMState /\ SameRest(pm, v) /\ v.flags = pm.flags
          /\ v.call = pm.call /\ v.pid = pm.pid
          /\ v.procs_in_use = pm.procs_in_use
  <2> DEFINE v == reply(t, p, "wait")
  <2>1. t \in PMState /\ pm.call[p] = "run"
    BY <1>0, RunnableFacts DEF PMState, Call
  <2>2. v = [t EXCEPT !.call[p] = "run"]
    BY <1>0 DEF reply, PMState
  <2>3. pm.call \in [Slot -> Call] /\ t.call = [pm.call EXCEPT ![p] = "wait"]
        /\ v.call = [t.call EXCEPT ![p] = "run"]
    BY <1>0, <2>1, <2>2 DEF PMState
  <2>4. v.call = pm.call
    BY <2>1, <2>3
  <2>5. v \in PMState /\ SameRest(pm, v) /\ v.flags = pm.flags
        /\ v.pid = pm.pid /\ v.procs_in_use = pm.procs_in_use
    <3>1. /\ t.call[p] = "wait" /\ SameRest(pm, t) /\ t.flags = pm.flags
          /\ t.pid = pm.pid /\ t.procs_in_use = pm.procs_in_use
      BY <1>0, EnterCall DEF Call
    <3>2. /\ v \in PMState /\ SameRest(t, v) /\ v.flags = t.flags
          /\ v.pid = t.pid /\ v.procs_in_use = t.procs_in_use
      BY <2>1, <3>1, WakeCall DEF Awaits
    <3> HIDE DEF v, t
    <3> QED BY <3>1, <3>2 DEF SameRest
  <2> QED BY <2>4, <2>5
<1>5. CASE dec # {}
  <2>1. /\ c \in Slot /\ InUse(pm, c) /\ Deciding(pm, p, c)
    BY <1>0, <1>1, <1>5, WaitDecision
  <2> HIDE DEF c, dec, arg
  <2>2. CASE pm.tracer[c] = p /\ "TRACE_ZOMBIE" \in pm.flags[c]
    <3>1. TableInv(pm', act) /\ CountInv(pm')
      BY <1>0, <1>2, <1>3, <1>5, <2>1, <2>2, WaitTracer
    <3> QED BY <1>0, <3>1, TableStep
  <2>3. CASE ~(pm.tracer[c] = p /\ "TRACE_ZOMBIE" \in pm.flags[c])
             /\ StopPending(pm, p, c)
    <3>1. pm' = [reply(t, p, "wait") EXCEPT !.sigtrace = @ \ {c}]
      BY <1>2, <1>3, <1>5, <2>3 DEF StopPending
    <3>2. \A x \in Slot : Frame(pm, pm', x)
      <4>1. /\ pm' \in PMState /\ SameRest(pm, pm') /\ pm'.flags = pm.flags
            /\ pm'.call = pm.call /\ pm'.pid = pm.pid
            /\ pm'.procs_in_use = pm.procs_in_use
        <5> HIDE DEF t
        <5> QED BY <1>4, <3>1 DEF PMState, SameRest
      <4> QED BY <1>0, <4>1 DEF Frame, QuietFlags, QuietCall, Same
    <3>3. TableInv(pm', act) /\ CountInv(pm')
      <4>1. act \in [Slot -> Activation]
        BY DEF IInv, TypeOK
      <4> QED BY <1>0, <3>2, <4>1, QuietTable
    <3> QED BY <1>0, <3>3, TableStep
  <2>4. CASE ~(pm.tracer[c] = p /\ "TRACE_ZOMBIE" \in pm.flags[c])
             /\ ~StopPending(pm, p, c)
    <3>1. pm.parent[c] = p /\ "ZOMBIE" \in pm.flags[c]
      BY <2>1, <2>4 DEF Deciding
    <3>2. pm' = IF VfsCall(told, c) THEN told ELSE cleanup(told, c)
      BY <1>2, <1>3, <1>5, <2>4 DEF StopPending
    <3>3. TableInv(pm', act) /\ CountInv(pm')
      BY <1>0, <2>1, <3>1, <3>2, WaitChild
    <3> QED BY <1>0, <3>3, TableStep
  <2> QED BY <2>2, <2>3, <2>4
<1>6. CASE dec = {} /\ (kids = {} \/ nohang)
  <2>1. pm' = reply(t, p, "wait")
    BY <1>2, <1>6
  <2>2. \A x \in Slot : Frame(pm, pm', x)
    BY <1>0, <1>4, <2>1 DEF Frame, QuietFlags, QuietCall, Same
  <2>3. act \in [Slot -> Activation]
    BY DEF IInv, TypeOK
  <2>4. TableInv(pm', act) /\ CountInv(pm')
    BY <1>0, <2>2, <2>3, QuietTable
  <2> QED BY <1>0, <2>4, TableStep
<1>7. CASE dec = {} /\ ~(kids = {} \/ nohang)
  <2>1. pm' = [SetFlags(t, p, {"WAITING"}) EXCEPT !.wpid[p] = arg]
    BY <1>2, <1>7
  <2>2. TableInv(pm', act) /\ CountInv(pm')
    BY <1>0, <1>1, <1>7, <2>1, WaitBlocks
  <2> QED BY <1>0, <2>2, TableStep
<1> QED BY <1>5, <1>6, <1>7

---------------------------------------------------------------------------
(* VFS answers.                                                            *)

\* VFS lets go of s: the call s was in, or was born in, may end, and so may
\* the fork of a parent that is still the one it was.
Served(t, u, s, pend) ==
  /\ t \in PMState /\ u \in PMState
  /\ u.flags = [t.flags EXCEPT ![s] = @ \ {"VFS_CALL", "NEW_PARENT"}]
  /\ u.vfs = [t.vfs EXCEPT ![s] = "none"]
  /\ u.pend = pend
  /\ u.sched \subseteq t.sched /\ t.sched \subseteq u.sched \cup {s}
  /\ u.call[s] = t.call[s] \/ (u.call[s] = "run" /\ t.vfs[s] \in {"fork", "setsid"})
  /\ \A x \in Slot \ {s} :
       \/ u.call[x] = t.call[x]
       \/ /\ x = t.parent[s] /\ t.vfs[s] = "fork" /\ "NEW_PARENT" \notin t.flags[s]
          /\ t.call[x] = "fork" /\ u.call[x] = "run"
  /\ u.parent = t.parent /\ u.tracer = t.tracer /\ u.pid = t.pid
  /\ u.procgrp = t.procgrp /\ u.wpid = t.wpid
  /\ u.procs_in_use = t.procs_in_use /\ u.panic = t.panic

LEMMA ServedBase ==
  ASSUME NEW t, NEW u, NEW s \in Slot \ Boot, NEW a \in [Slot -> Activation],
         BaseInv(t, a), Served(t, u, s, t.pend \ {s}), VfsCall(t, s),
         a[s].at = "none"
  PROVE  /\ u \in PMState /\ BaseInv(u, a) /\ RestKept(t, u, s)
         /\ Remembered(t, s) => Remembered(u, s)
         /\ u.flags[s] = t.flags[s] \ {"VFS_CALL", "NEW_PARENT"}
         /\ ~VfsCall(u, s) /\ u.vfs[s] = "none"
         /\ \A x \in Slot \ {s} : u.flags[x] = t.flags[x] /\ u.vfs[x] = t.vfs[x]
<1> USE DEF InUse, Exiting, VfsCall
<1>0. t \in PMState /\ u \in PMState
  BY DEF Served
<1>1. /\ u.flags[s] = t.flags[s] \ {"VFS_CALL", "NEW_PARENT"}
      /\ \A x \in Slot \ {s} : u.flags[x] = t.flags[x]
      /\ u.vfs[s] = "none" /\ \A x \in Slot \ {s} : u.vfs[x] = t.vfs[x]
      /\ \A x \in Slot : t.parent[x] \in Slot /\ t.tracer[x] \in Slot
  BY <1>0 DEF Served, PMState
<1>2. /\ u.parent = t.parent /\ u.tracer = t.tracer /\ u.pid = t.pid
      /\ u.procgrp = t.procgrp /\ u.wpid = t.wpid
      /\ u.procs_in_use = t.procs_in_use /\ u.panic = t.panic
      /\ u.pend = t.pend \ {s} /\ u.sched \subseteq t.sched
  BY DEF Served
<1>3. \A x \in Slot : InUse(u, x) = InUse(t, x) /\ Exiting(u, x) = Exiting(t, x)
  BY <1>1
<1>4. ASSUME NEW x \in Slot
      PROVE  /\ SlotInv(t, x) /\ FamilyInv(t, a, x) /\ PendInv(t, x)
             /\ ActiveInv(t, a, x) /\ CallInv(t, x)
  BY DEF BaseInv
<1>5. /\ u.call[s] = t.call[s]
         \/ (u.call[s] = "run" /\ t.call[s] \in {"born", "setsid"})
      /\ \A x \in Slot \ {s} :
           \/ u.call[x] = t.call[x]
           \/ /\ x = t.parent[s] /\ t.vfs[s] = "fork" /\ "NEW_PARENT" \notin t.flags[s]
              /\ t.call[x] = "fork" /\ u.call[x] = "run"
  BY <1>4 DEF Served, CallInv
<1>6. ASSUME NEW x \in Slot
      PROVE  SlotInv(u, x) /\ ActiveInv(u, a, x) /\ PendInv(u, x)
  <2>1. CASE x = s
    BY <1>1, <1>2, <1>4, <1>5, <2>1 DEF SlotInv, ActiveInv, PendInv
  <2>2. CASE x # s
    BY <1>1, <1>2, <1>4, <1>5, <2>2 DEF SlotInv, ActiveInv, PendInv
  <2> QED BY <2>1, <2>2
<1>7. ASSUME NEW x \in Slot PROVE FamilyInv(u, a, x)
  <2>1. {"TRACE_ZOMBIE", "TRACE_EXIT"} \cap u.flags[x]
          = {"TRACE_ZOMBIE", "TRACE_EXIT"} \cap t.flags[x]
    BY <1>1
  <2> QED BY <1>1, <1>2, <1>3, <1>4, <2>1 DEF FamilyInv
<1>8. ASSUME NEW x \in Slot PROVE CallInv(u, x)
  <2>1. u.call[x] # "spurious"
    BY <1>4, <1>5 DEF CallInv
  <2>2. "WAITING" \in u.flags[x] =>
          u.call[x] = "wait" \/ (x = INIT_PROC_NR /\ u.call[x] = "dead")
    BY <1>1, <1>4, <1>5 DEF CallInv
  <2>3. /\ u.vfs[x] = "fork" => u.call[x] = "born"
        /\ u.vfs[x] = "setsid" => u.call[x] = "setsid"
    BY <1>1, <1>4, <1>5 DEF CallInv
  <2>4. ASSUME u.vfs[x] = "fork", "NEW_PARENT" \notin u.flags[x]
        PROVE  \/ u.call[u.parent[x]] = "fork"
               \/ u.parent[x] = INIT_PROC_NR /\ u.call[INIT_PROC_NR] = "dead"
               \/ Exiting(u, u.parent[x])
    <3>1. x # s /\ t.vfs[x] = "fork" /\ "NEW_PARENT" \notin t.flags[x]
      BY <1>1, <2>4
    <3>2. t.vfs[s] = "fork" /\ "NEW_PARENT" \notin t.flags[s] => t.parent[x] # t.parent[s]
      BY <3>1 DEF BaseInv, OneAnswer
    <3>3. t.call[t.parent[x]] \in {"fork", "dead"} =>
            u.call[t.parent[x]] = t.call[t.parent[x]]
      <4>1. CASE t.parent[x] = s
        BY <1>5, <4>1
      <4>2. CASE t.parent[x] # s
        BY <1>1, <1>5, <3>2, <4>2
      <4> QED BY <4>1, <4>2
    <3>4. \/ t.call[t.parent[x]] = "fork"
          \/ t.parent[x] = INIT_PROC_NR /\ t.call[t.parent[x]] = "dead"
          \/ Exiting(t, t.parent[x])
      BY <1>4, <3>1 DEF CallInv
    <3> QED BY <1>1, <1>2, <1>3, <3>3, <3>4
  <2>5. ASSUME "TRACE_EXIT" \in u.flags[x], u.vfs[x] # "none"
        PROVE  u.call[u.tracer[x]] = "ptrace" \/ Exiting(u, u.tracer[x])
    <3>1. x # s /\ "TRACE_EXIT" \in t.flags[x] /\ t.vfs[x] # "none"
      BY <1>1, <2>5
    <3>2. t.call[t.tracer[x]] = "ptrace" => u.call[t.tracer[x]] = "ptrace"
      BY <1>1, <1>5
    <3>3. t.call[t.tracer[x]] = "ptrace" \/ Exiting(t, t.tracer[x])
      BY <1>4, <3>1 DEF CallInv
    <3> QED BY <1>1, <1>2, <1>3, <3>2, <3>3
  <2> QED BY <2>1, <2>2, <2>3, <2>4, <2>5 DEF CallInv
<1>9. ASSUME NEW x \in Slot, NEW y \in Slot PROVE OneAnswer(u, x, y)
  <2>1. OneAnswer(t, x, y)
    BY DEF BaseInv
  <2> QED BY <1>1, <1>2, <2>1 DEF OneAnswer
<1>10. BootInv(u)
  <2>1. BootInv(t) /\ \A x \in Boot : x \in Slot \ {s}
    BY BootSlots DEF BaseInv
  <2> QED BY <1>1, <1>2, <2>1, BootKept DEF Same
<1>11. BaseInv(u, a)
  BY <1>2, <1>6, <1>7, <1>8, <1>9, <1>10 DEF BaseInv
<1>12. ASSUME NEW x \in Slot \ {s}, Announced(t, x) PROVE Announced(u, x)
  <2>1. ASSUME NEW p \in Slot, wait_test(u, p, x) PROVE wait_test(t, p, x)
    BY <1>1, <1>2, <2>1 DEF wait_test
  <2> QED BY <1>1, <1>2, <1>12, <2>1 DEF Announced
<1>13. ASSUME NEW x \in Slot, Remembered(t, x) PROVE Remembered(u, x)
  BY <1>1, <1>5, <1>13 DEF Remembered
<1>14. RestKept(t, u, s)
  <2>1. {x \in Slot : InUse(u, x)} = {x \in Slot : InUse(t, x)}
    BY <1>3
  <2> QED BY <1>2, <1>12, <1>13, <2>1 DEF RestKept, CountInv
<1> QED BY <1>0, <1>1, <1>11, <1>13, <1>14

\* The facts about a slot VFS answers for.
LEMMA OwedFacts ==
  ASSUME IInv, Idle, NEW s \in Slot, pm.vfs[s] # "none"
  PROVE  s \in Slot \ Boot /\ VfsCall(pm, s) /\ InUse(pm, s)
<1>1. BaseInv(pm, act)
  BY IdleFacts
<1>2. SlotInv(pm, s) /\ BootInv(pm)
  BY <1>1 DEF BaseInv
<1> QED BY <1>2 DEF SlotInv, BootInv, VfsCall, InUse

LEMMA AnsweredFields ==
  ASSUME NEW t \in PMState, NEW s \in Slot, VfsCall(t, s)
  PROVE  LET u == Answered(t, s)
         IN  /\ u \in PMState
             /\ u.flags = [t.flags EXCEPT ![s] = @ \ {"VFS_CALL", "NEW_PARENT"}]
             /\ u.vfs = [t.vfs EXCEPT ![s] = "none"]
             /\ u.call = t.call /\ u.pend = t.pend /\ u.sched = t.sched
             /\ u.parent = t.parent /\ u.tracer = t.tracer /\ u.pid = t.pid
             /\ u.procgrp = t.procgrp /\ u.wpid = t.wpid
             /\ u.procs_in_use = t.procs_in_use /\ u.panic = t.panic
<1> DEFINE v == ClearFlags(t, s, {"VFS_CALL", "NEW_PARENT"})
           u == [v EXCEPT !.vfs[s] = "none"]
<1>1. Answered(t, s) = u
  BY DEF Answered, Panic
<1>2. /\ v \in PMState /\ SameRest(t, v) /\ v.call = t.call /\ v.pid = t.pid
      /\ v.procs_in_use = t.procs_in_use
  BY ClearFields DEF Flag
<1>3. v.flags = [t.flags EXCEPT ![s] = @ \ {"VFS_CALL", "NEW_PARENT"}]
  BY DEF ClearFlags, PMState
<1> HIDE DEF v
<1>4. /\ u \in PMState /\ u.flags = v.flags /\ u.vfs = [v.vfs EXCEPT ![s] = "none"]
      /\ u.call = v.call /\ u.pend = v.pend /\ u.sched = v.sched
      /\ u.parent = v.parent /\ u.tracer = v.tracer /\ u.pid = v.pid
      /\ u.procgrp = v.procgrp /\ u.wpid = v.wpid
      /\ u.procs_in_use = v.procs_in_use /\ u.panic = v.panic
  BY <1>2 DEF PMState, Request
<1> HIDE DEF u
<1> QED BY <1>1, <1>2, <1>3, <1>4 DEF SameRest

\* reply() to a process that is blocked in that call.
LEMMA ReplyFields ==
  ASSUME NEW t \in PMState, NEW p \in Slot, NEW k \in Call
  PROVE  LET u == reply(t, p, k)
         IN  /\ u \in PMState /\ SameRest(t, u) /\ u.flags = t.flags
             /\ u.pid = t.pid /\ u.procs_in_use = t.procs_in_use
             /\ \A x \in Slot \ {p} : u.call[x] = t.call[x]
             /\ t.call[p] = k => u.call[p] = "run"
             /\ t.call[p] = "dead" /\ k # "dead" /\ p = INIT_PROC_NR => u.call[p] = "dead"
<1> DEFINE u == reply(t, p, k)
<1>1. u \in PMState
  BY ReplyType
<1>2. SameRest(t, u) /\ u.flags = t.flags /\ u.pid = t.pid
      /\ u.procs_in_use = t.procs_in_use
  BY DEF reply, PMState, SameRest
<1>3. \A x \in Slot \ {p} : u.call[x] = t.call[x]
  BY DEF reply, PMState
<1>4. u.call[p] = IF t.call[p] = k THEN "run"
                  ELSE IF t.call[p] = "dead" /\ p = INIT_PROC_NR THEN "dead"
                  ELSE "spurious"
  BY DEF reply, PMState
<1> QED BY <1>1, <1>2, <1>3, <1>4

\* exit_proc forgets a pending SIGKILL.
LEMMA ExitForgets ==
  ASSUME NEW t \in PMState, NEW s \in Slot, NEW b, NEW m
  PROVE  LET u == [t EXCEPT !.pend = @ \ {s}]
         IN  exit_proc(t, s, b, m) => exit_proc(u, s, b, m)
<1> DEFINE u == [t EXCEPT !.pend = @ \ {s}]
           v == [t EXCEPT !.call[s] = "dead", !.pend = @ \ {s}]
<1>1. [u EXCEPT !.call[s] = "dead", !.pend = @ \ {s}] = v
  <2>1. (t.pend \ {s}) \ {s} = t.pend \ {s}
    OBVIOUS
  <2>2. u.pend = t.pend \ {s} /\ u.call = t.call
    BY DEF PMState
  <2> QED BY <2>1, <2>2 DEF PMState
<1>2. begin_exit(u, s, b) = begin_exit(t, s, b)
  <2> HIDE DEF u, v
  <2> QED BY <1>1 DEF begin_exit, v
<1>3. new_activation(u, s, m) = new_activation(t, s, m)
  <2>1. u.pid = t.pid /\ u.procgrp = t.procgrp
    BY DEF PMState
  <2> HIDE DEF u
  <2> QED BY <2>1 DEF new_activation
<1> HIDE DEF u
<1> QED BY <1>2, <1>3 DEF exit_proc, u

\* A live process VFS has answered for can exit at once.
LEMMA ServedReady ==
  ASSUME IInv, Idle, NEW s \in Slot, pm.vfs[s] # "none", ~Exiting(pm, s),
         NEW v, Served(pm, v, s, pm.pend)
  PROVE  LET u == [v EXCEPT !.pend = @ \ {s}]
         IN  /\ u \in PMState /\ Served(pm, u, s, pm.pend \ {s}) /\ s \in Slot \ Boot
             /\ BaseInv(u, act) /\ CountInv(u)
             /\ InUse(u, s) /\ ~Exiting(u, s) /\ ~VfsCall(u, s) /\ Ready(u, s)
             /\ \A x \in Slot \ {s} : Announced(u, x) /\ Remembered(u, x)
<1> DEFINE u == [v EXCEPT !.pend = @ \ {s}]
<1>0. /\ pm \in PMState /\ act \in [Slot -> Activation] /\ act[s].at = "none"
      /\ BaseInv(pm, act) /\ CountInv(pm)
      /\ \A x \in Slot : Announced(pm, x) /\ Remembered(pm, x)
  BY IdleFacts
<1>1. s \in Slot \ Boot /\ VfsCall(pm, s) /\ InUse(pm, s)
  BY OwedFacts
<1>2. Served(pm, u, s, pm.pend \ {s})
  <2>1. v \in PMState /\ v.pend = pm.pend
    BY DEF Served
  <2>2. /\ u \in PMState /\ u.pend = pm.pend \ {s}
        /\ u.flags = v.flags /\ u.vfs = v.vfs /\ u.sched = v.sched /\ u.call = v.call
        /\ u.parent = v.parent /\ u.tracer = v.tracer /\ u.pid = v.pid
        /\ u.procgrp = v.procgrp /\ u.wpid = v.wpid
        /\ u.procs_in_use = v.procs_in_use /\ u.panic = v.panic
    BY <2>1 DEF PMState
  <2> HIDE DEF u
  <2> QED BY <2>2 DEF Served
<1> HIDE DEF u
<1>4. /\ u \in PMState /\ BaseInv(u, act) /\ RestKept(pm, u, s)
      /\ u.flags[s] = pm.flags[s] \ {"VFS_CALL", "NEW_PARENT"} /\ ~VfsCall(u, s)
      /\ \A x \in Slot \ {s} : u.flags[x] = pm.flags[x] /\ u.vfs[x] = pm.vfs[x]
  BY <1>0, <1>1, <1>2, ServedBase
<1>5. InUse(u, s) /\ ~Exiting(u, s)
  BY <1>1, <1>4 DEF InUse, Exiting
<1>6. CountInv(u) /\ \A x \in Slot \ {s} : Announced(u, x) /\ Remembered(u, x)
  BY <1>0, <1>4 DEF RestKept
<1>7. Ready(u, s)
  <2> SUFFICES ASSUME "TRACE_EXIT" \in u.flags[s]
               PROVE  /\ u.call[u.tracer[s]] = "ptrace"
                      /\ \A x \in Slot \ {s} :
                           "TRACE_EXIT" \in u.flags[x] /\ u.vfs[x] # "none" =>
                             u.tracer[x] # u.tracer[s]
    BY DEF Ready
  <2>1. "TRACE_EXIT" \in pm.flags[s] /\ u.tracer = pm.tracer /\ pm.tracer[s] \in Slot
    BY <1>0, <1>2, <1>4 DEF Served, PMState
  <2>2. FamilyInv(pm, act, s) /\ CallInv(pm, s)
    BY <1>0 DEF BaseInv
  <2>3. pm.tracer[s] # NO_TRACER
    BY <1>1, <2>1, <2>2 DEF FamilyInv
  <2>4. ~Exiting(pm, pm.tracer[s])
    BY <1>1, <2>3, IdleFacts
  <2>5. pm.call[pm.tracer[s]] = "ptrace"
    BY <2>1, <2>2, <2>4 DEF CallInv
  <2>6. u.call[pm.tracer[s]] = "ptrace"
    <3>1. CASE pm.tracer[s] = s
      BY <1>2, <2>2, <2>5, <3>1 DEF Served, CallInv
    <3>2. CASE pm.tracer[s] # s
      BY <1>2, <2>1, <2>5, <3>2 DEF Served
    <3> QED BY <3>1, <3>2
  <2>7. \A x \in Slot \ {s} : "TRACE_EXIT" \in pm.flags[x] /\ pm.vfs[x] # "none" =>
                                pm.tracer[x] # pm.tracer[s]
    BY <1>0, <2>1 DEF BaseInv, OneAnswer
  <2> QED BY <1>4, <2>1, <2>6, <2>7
<1> QED BY <1>1, <1>2, <1>4, <1>5, <1>6, <1>7 DEF u

\* ... as exit_proc does when a signal has waited.
LEMMA ServedExit ==
  ASSUME IInv, Idle, NEW s \in Slot, pm.vfs[s] # "none", ~Exiting(pm, s),
         NEW v, Served(pm, v, s, pm.pend), exit_proc(v, s, FALSE, PM)
  PROVE  Table'
<1> DEFINE u == [v EXCEPT !.pend = @ \ {s}]
<1>1. /\ u \in PMState /\ s \in Slot \ Boot /\ BaseInv(u, act) /\ CountInv(u)
      /\ InUse(u, s) /\ ~Exiting(u, s) /\ ~VfsCall(u, s) /\ Ready(u, s)
      /\ \A x \in Slot \ {s} : Announced(u, x) /\ Remembered(u, x)
  BY ServedReady
<1>2. exit_proc(u, s, FALSE, PM)
  BY ExitForgets DEF Served
<1> HIDE DEF u
<1>3. s # INIT_PROC_NR /\ s \notin Boot \ {INIT_PROC_NR} /\ PM \in Slot
  BY <1>1, BootSlots
<1> QED BY <1>1, <1>2, <1>3, ExitProcStep

\* ... or goes on, when no signal has waited for the answer.
LEMMA ServedStays ==
  ASSUME IInv, Idle, NEW s \in Slot, pm.vfs[s] # "none", ~Exiting(pm, s),
         s \notin pm.pend, Served(pm, pm', s, pm.pend), UNCHANGED <<act, stack>>
  PROVE  Table'
<1>0. /\ act \in [Slot -> Activation] /\ act[s].at = "none"
      /\ BaseInv(pm, act) /\ CountInv(pm)
      /\ \A x \in Slot : Announced(pm, x) /\ Remembered(pm, x)
  BY IdleFacts
<1>1. s \in Slot \ Boot /\ VfsCall(pm, s) /\ InUse(pm, s)
  BY OwedFacts
<1>2. Served(pm, pm', s, pm.pend \ {s})
  <2>1. pm.pend \ {s} = pm.pend
    OBVIOUS
  <2> QED BY <2>1
<1>3. /\ BaseInv(pm', act) /\ RestKept(pm, pm', s)
      /\ Remembered(pm, s) => Remembered(pm', s)
      /\ pm'.flags[s] = pm.flags[s] \ {"VFS_CALL", "NEW_PARENT"}
  BY <1>0, <1>1, <1>2, ServedBase
<1>4. Announced(pm', s)
  <2>1. "TRACE_EXIT" \notin pm.flags[s] /\ SlotInv(pm, s)
    BY <1>0 DEF Announced, Exiting, BaseInv
  <2> QED BY <1>3, <2>1 DEF Announced, SlotInv, Exiting
<1>5. TableInv(pm', act) /\ CountInv(pm')
  BY <1>0, <1>3, <1>4 DEF TableInv, RestKept
<1> QED BY <1>5, TableStep

LEMMA ResumedStep ==
  ASSUME IInv, Idle, NEW s \in Slot, pm.vfs[s] # "none", ~Exiting(pm, s),
         NEW v, Served(pm, v, s, pm.pend), Resumed(v, s)
  PROVE  Table'
<1>1. v.pend = pm.pend
  BY DEF Served
<1>2. CASE s \in v.pend
  BY <1>2, ServedExit DEF Resumed
<1>3. CASE s \notin v.pend
  BY <1>1, <1>3, ServedStays DEF Resumed
<1> QED BY <1>2, <1>3

\* The parent of a fork child is waked, unless it died or is dead.
LEMMA ReplyParentServed ==
  ASSUME IInv, Idle, NEW s \in Slot, pm.vfs[s] = "fork", NEW t,
         Served(pm, t, s, pm.pend), \A x \in Slot \ {s} : t.call[x] = pm.call[x]
  PROVE  Served(pm, ReplyParent(t, s), s, pm.pend)
<1> DEFINE p == pm.parent[s]
           u == reply(t, p, "fork")
<1>0. /\ CallInv(pm, s) /\ InUse(pm, s) /\ p \in Slot /\ ~Exiting(pm, p)
      /\ t \in PMState /\ t.parent = pm.parent
  BY IdleFacts, OwedFacts DEF BaseInv, Served
<1>1. CASE "NEW_PARENT" \in pm.flags[s]
  BY <1>1 DEF ReplyParent
<1>2. CASE "NEW_PARENT" \notin pm.flags[s]
  <2>1. ReplyParent(t, s) = u
    BY <1>0, <1>2 DEF ReplyParent
  <2>2. pm.call[p] = "fork" \/ (p = INIT_PROC_NR /\ pm.call[p] = "dead")
    BY <1>0, <1>2 DEF CallInv
  <2>3. p # s /\ t.call[p] = pm.call[p]
    <3>1. pm.call[s] = "born"
      BY <1>0 DEF CallInv
    <3> QED BY <1>0, <2>2, <3>1
  <2>4. /\ u \in PMState /\ SameRest(t, u) /\ u.flags = t.flags
        /\ u.pid = t.pid /\ u.procs_in_use = t.procs_in_use
        /\ \A x \in Slot \ {p} : u.call[x] = t.call[x]
        /\ t.call[p] = "fork" => u.call[p] = "run"
        /\ t.call[p] = "dead" /\ p = INIT_PROC_NR => u.call[p] = "dead"
    <3>1. "fork" \in Call
      BY DEF Call
    <3> HIDE DEF p
    <3> QED BY <1>0, <3>1, ReplyFields
  <2> HIDE DEF u, p
  <2>5. u.call[s] = t.call[s]
    BY <2>3, <2>4
  <2>6. \A x \in Slot \ {s} :
          \/ u.call[x] = pm.call[x]
          \/ x = p /\ pm.call[x] = "fork" /\ u.call[x] = "run"
    BY <2>2, <2>3, <2>4
  <2>7. Served(pm, u, s, pm.pend)
    BY <1>2, <2>4, <2>5, <2>6 DEF Served, SameRest, p
  <2> QED BY <2>1, <2>7
<1> QED BY <1>1, <1>2

LEMMA AnsweredServed ==
  ASSUME IInv, Idle, NEW s \in Slot, pm.vfs[s] # "none"
  PROVE  LET t == Answered(pm, s)
         IN  /\ Served(pm, t, s, pm.pend) /\ t.call = pm.call /\ t \in PMState
             /\ t.sched = pm.sched
<1>1. pm \in PMState /\ VfsCall(pm, s)
  BY IdleFacts, OwedFacts
<1> DEFINE t == Answered(pm, s)
<1>2. /\ t \in PMState
      /\ t.flags = [pm.flags EXCEPT ![s] = @ \ {"VFS_CALL", "NEW_PARENT"}]
      /\ t.vfs = [pm.vfs EXCEPT ![s] = "none"]
      /\ t.call = pm.call /\ t.pend = pm.pend /\ t.sched = pm.sched
      /\ t.parent = pm.parent /\ t.tracer = pm.tracer /\ t.pid = pm.pid
      /\ t.procgrp = pm.procgrp /\ t.wpid = pm.wpid
      /\ t.procs_in_use = pm.procs_in_use /\ t.panic = pm.panic
  BY <1>1, AnsweredFields
<1> HIDE DEF t
<1>3. Served(pm, t, s, pm.pend)
  BY <1>1, <1>2 DEF Served
<1> QED BY <1>2, <1>3 DEF t

\* A process that is answered stops being born, or leaves setsid.
LEMMA WakeServed ==
  ASSUME NEW s \in Slot, NEW t, Served(pm, t, s, pm.pend), t.call = pm.call,
         NEW k \in Call, pm.call[s] = k, pm.vfs[s] \in {"fork", "setsid"}
  PROVE  LET u == reply(t, s, k)
         IN  /\ Served(pm, u, s, pm.pend)
             /\ \A x \in Slot \ {s} : u.call[x] = pm.call[x]
<1> DEFINE u == reply(t, s, k)
<1>1. /\ u \in PMState /\ SameRest(t, u) /\ u.flags = t.flags
      /\ u.pid = t.pid /\ u.procs_in_use = t.procs_in_use
      /\ \A x \in Slot \ {s} : u.call[x] = t.call[x]
      /\ u.call[s] = "run"
  BY ReplyFields DEF Served
<1> HIDE DEF u
<1>2. Served(pm, u, s, pm.pend)
  BY <1>1 DEF Served, SameRest
<1> QED BY <1>1, <1>2 DEF u

LEMMA VfsForkReplyStep ==
  ASSUME IInv, NEW s \in Slot \ {PM}, VfsForkReply(s)
  PROVE  Table'
<1> DEFINE t == Answered(pm, s)
           v == reply(t, s, "born")
           w == [t EXCEPT !.sched = @ \ {s}]
<1>0. /\ Idle /\ pm.vfs[s] = "fork"
      /\ \/ Resumed(ReplyParent(v, s), s)
         \/ exit_proc(ReplyParent(w, s), s, FALSE, PM)
  BY DEF VfsForkReply
<1>1. SlotInv(pm, s) /\ CallInv(pm, s)
  BY <1>0, IdleFacts DEF BaseInv
<1>2. ~Exiting(pm, s) /\ pm.call[s] = "born"
  BY <1>0, <1>1 DEF SlotInv, CallInv, Exiting
<1>3. /\ Served(pm, t, s, pm.pend) /\ t.call = pm.call /\ t \in PMState
      /\ t.sched = pm.sched
  BY <1>0, AnsweredServed
<1> HIDE DEF t
<1>4. Served(pm, v, s, pm.pend) /\ \A x \in Slot \ {s} : v.call[x] = pm.call[x]
  BY <1>0, <1>2, <1>3, WakeServed DEF Call
<1>5. Served(pm, w, s, pm.pend) /\ \A x \in Slot \ {s} : w.call[x] = pm.call[x]
  <2>1. /\ w \in PMState /\ w.flags = t.flags /\ w.vfs = t.vfs /\ w.call = t.call
        /\ w.pend = t.pend /\ w.sched = t.sched \ {s}
        /\ w.parent = t.parent /\ w.tracer = t.tracer /\ w.pid = t.pid
        /\ w.procgrp = t.procgrp /\ w.wpid = t.wpid
        /\ w.procs_in_use = t.procs_in_use /\ w.panic = t.panic
    BY <1>3 DEF PMState
  <2> HIDE DEF w
  <2>2. w.sched \subseteq pm.sched /\ pm.sched \subseteq w.sched \cup {s}
    BY <1>3, <2>1
  <2> QED BY <1>3, <2>1, <2>2 DEF Served
<1> HIDE DEF v, w
<1>6. CASE Resumed(ReplyParent(v, s), s)
  BY <1>0, <1>2, <1>4, <1>6, ReplyParentServed, ResumedStep
<1>7. CASE exit_proc(ReplyParent(w, s), s, FALSE, PM)
  BY <1>0, <1>2, <1>5, <1>7, ReplyParentServed, ServedExit
<1> QED BY <1>0, <1>6, <1>7

LEMMA VfsCallReplyStep ==
  ASSUME IInv, NEW s \in Slot \ {PM}, VfsCallReply(s)
  PROVE  Table'
<1> DEFINE t == Answered(pm, s)
<1>0. /\ Idle
      /\ \/ pm.vfs[s] = "srv_fork" /\ Resumed(t, s)
         \/ pm.vfs[s] = "setsid" /\ Resumed(reply(t, s, "setsid"), s)
  BY DEF VfsCallReply
<1>1. SlotInv(pm, s) /\ CallInv(pm, s) /\ pm.vfs[s] # "none"
  BY <1>0, IdleFacts DEF BaseInv
<1>2. ~Exiting(pm, s)
  BY <1>0, <1>1 DEF SlotInv, Exiting
<1>3. Served(pm, t, s, pm.pend) /\ t.call = pm.call
  BY <1>0, <1>1, AnsweredServed
<1> HIDE DEF t
<1>4. CASE pm.vfs[s] = "srv_fork" /\ Resumed(t, s)
  BY <1>0, <1>1, <1>2, <1>3, <1>4, ResumedStep
<1>5. CASE pm.vfs[s] = "setsid" /\ Resumed(reply(t, s, "setsid"), s)
  <2>1. Served(pm, reply(t, s, "setsid"), s, pm.pend)
    <3>1. pm.call[s] = "setsid"
      BY <1>1, <1>5 DEF CallInv
    <3> QED BY <1>3, <1>5, <3>1, WakeServed DEF Call
  <2> QED BY <1>0, <1>1, <1>2, <1>5, <2>1, ResumedStep
<1> QED BY <1>0, <1>4, <1>5
\* VFS is done with an exiting process: the table without its request.
LEMMA ExitAnswered ==
  ASSUME IInv, Idle, NEW s \in Slot, pm.vfs[s] \in {"exit", "dump"}
  PROVE  LET u == [Answered(pm, s) EXCEPT !.sched = @ \ {s}]
         IN  /\ Served(pm, u, s, pm.pend \ {s}) /\ u.call = pm.call
             /\ s \in Slot \ Boot /\ Exiting(pm, s)
<1> DEFINE t == Answered(pm, s)
           u == [t EXCEPT !.sched = @ \ {s}]
<1>0. /\ pm \in PMState /\ VfsCall(pm, s) /\ SlotInv(pm, s) /\ s \in Slot \ Boot
  BY IdleFacts, OwedFacts DEF BaseInv
<1>1. Exiting(pm, s) /\ s \notin pm.pend
  BY <1>0 DEF SlotInv, Exiting
<1>2. pm.pend \ {s} = pm.pend
  BY <1>1
<1>3. Served(pm, t, s, pm.pend) /\ t.call = pm.call /\ t \in PMState
      /\ t.sched = pm.sched
  BY AnsweredServed
<1>4. /\ u \in PMState /\ u.sched = pm.sched \ {s} /\ u.flags = t.flags
      /\ u.vfs = t.vfs /\ u.pend = t.pend /\ u.call = t.call
      /\ u.parent = t.parent /\ u.tracer = t.tracer /\ u.pid = t.pid
      /\ u.procgrp = t.procgrp /\ u.wpid = t.wpid
      /\ u.procs_in_use = t.procs_in_use /\ u.panic = t.panic
  <2> HIDE DEF t
  <2> QED BY <1>3 DEF PMState
<1> HIDE DEF t, u
<1>5. Served(pm, u, s, pm.pend)
  BY <1>3, <1>4 DEF Served
<1> QED BY <1>0, <1>1, <1>2, <1>3, <1>4, <1>5 DEF t, u
\* The table while exit_restart works on s, for which VFS is done: all is in
\* order but that s may have been told about and not be freed.
Restarting(t, s) ==
  /\ t \in PMState /\ BaseInv(t, act) /\ CountInv(t)
  /\ \A x \in Slot : Remembered(t, x)
  /\ \A x \in Slot \ {s} : Announced(t, x)
  /\ Exiting(t, s) /\ ~VfsCall(t, s)
  /\ Announced(t, s) \/ "TOLD_PARENT" \in t.flags[s]

\* It frees the slot of a process whose parent has waited.
LEMMA RestartFrees ==
  ASSUME IInv, Idle, NEW s \in Slot, NEW t, Restarting(t, s)
  PROVE  LET u == IF "TOLD_PARENT" \in t.flags[s] THEN cleanup(t, s) ELSE t
         IN  TableInv(u, act) /\ CountInv(u)
<1>1. CASE "TOLD_PARENT" \notin t.flags[s]
  BY <1>1 DEF Restarting, TableInv
<1>2. CASE "TOLD_PARENT" \in t.flags[s]
  <2> DEFINE u == cleanup(t, s)
  <2>1. act \in [Slot -> Activation] /\ SlotInv(t, s)
    BY IdleFacts DEF Restarting, BaseInv
  <2>2. t.call[s] = "dead"
    BY <2>1 DEF SlotInv, Restarting, Exiting
  <2>3. Frame(t, u, s) /\ ~InUse(u, s)
    BY <2>2, CleanupFrame DEF Restarting
  <2> HIDE DEF u
  <2>4. Kept(t, u, act, s)
    BY <2>1, <2>3, FrameKept DEF Restarting
  <2>5. BaseInv(u, act) /\ CountInv(u) /\ (\A x \in Slot : Remembered(u, x))
        /\ \A x \in Slot \ {s} : Announced(u, x)
    BY <2>4 DEF Kept, Restarting
  <2>6. Announced(u, s)
    BY <2>3, <2>5, FreeAnnounced
  <2> QED BY <1>2, <2>5, <2>6 DEF TableInv, u
<1> QED BY <1>1, <1>2

\* It answers the ptrace(T_EXIT) that made the process exit.
LEMMA RestartWakes ==
  ASSUME IInv, Idle, NEW s \in Slot, NEW z, Restarting(z, s),
         NEW d \in Slot, d # s, z.call[d] = "ptrace", ~Exiting(z, d),
         \A x \in Slot : "TRACE_EXIT" \in z.flags[x] /\ z.vfs[x] # "none" =>
                           z.tracer[x] # d
  PROVE  LET w == reply(z, d, "ptrace")
         IN  Restarting(w, s) /\ w.flags = z.flags
<1> DEFINE w == [z EXCEPT !.call[d] = "run"]
<1>0. /\ z \in PMState /\ BaseInv(z, act) /\ act \in [Slot -> Activation]
      /\ CallInv(z, d) /\ PendInv(z, d) /\ \A x \in Slot : CallInv(z, x)
  BY IdleFacts DEF Restarting, BaseInv
<1>1. reply(z, d, "ptrace") = w
  BY <1>0 DEF reply, PMState
<1>2. "WAITING" \notin z.flags[d] /\ z.vfs[d] \notin {"fork", "setsid"}
  BY <1>0 DEF CallInv
<1>3. \A x \in Slot : ~(/\ z.vfs[x] = "fork" /\ "NEW_PARENT" \notin z.flags[x]
                        /\ z.parent[x] = d)
  BY <1>0 DEF CallInv
<1>4. d \in z.pend => VfsCall(z, d)
  BY <1>0 DEF PendInv
<1>5. "run" \in Call
  BY DEF Call
<1>6. /\ w \in PMState /\ BaseInv(w, act) /\ RestKept(z, w, d)
      /\ Announced(z, d) => Announced(w, d)
      /\ w.call[d] = "run"
  BY <1>0, <1>2, <1>3, <1>4, <1>5, RecallBase
<1>7. w.flags = z.flags
  BY <1>0 DEF PMState
<1> HIDE DEF w
<1>8. Restarting(w, s)
  BY <1>6, <1>7 DEF Restarting, RestKept, Remembered, Exiting, VfsCall
<1> QED BY <1>1, <1>7, <1>8

LEMMA KeptSelf ==
  ASSUME NEW t \in PMState, NEW a, BaseInv(t, a), NEW c
  PROVE  Kept(t, t, a, c)
BY DEF Kept, SameRest, Same

\* It zombifies a process whose core has been dumped.
LEMMA RestartZombie ==
  ASSUME IInv, Idle, NEW s \in Slot, pm.vfs[s] \in {"exit", "dump"},
         NEW u, Served(pm, u, s, pm.pend \ {s}), u.call = pm.call
  PROVE  LET z == IF pm.vfs[s] = "dump" THEN zombify(u, s) ELSE u
         IN  /\ Restarting(z, s) /\ Kept(u, z, act, s)
             /\ Same(u, z, s, "TRACE_EXIT")
<1>0. /\ pm \in PMState /\ act \in [Slot -> Activation] /\ BaseInv(pm, act)
      /\ act[s].at = "none" /\ Announced(pm, s) /\ SlotInv(pm, s)
      /\ VfsCall(pm, s) /\ s \in Slot \ Boot /\ CountInv(pm)
      /\ \A x \in Slot : Announced(pm, x) /\ Remembered(pm, x)
  BY IdleFacts, OwedFacts DEF BaseInv
<1>1. Exiting(pm, s)
  BY <1>0 DEF SlotInv, Exiting
<1>2. /\ u \in PMState /\ BaseInv(u, act) /\ RestKept(pm, u, s)
      /\ Remembered(pm, s) => Remembered(u, s)
      /\ u.flags[s] = pm.flags[s] \ {"VFS_CALL", "NEW_PARENT"}
      /\ ~VfsCall(u, s) /\ u.vfs[s] = "none"
  BY <1>0, ServedBase
<1>3. /\ CountInv(u) /\ Exiting(u, s) /\ (\A x \in Slot : Remembered(u, x))
      /\ \A x \in Slot \ {s} : Announced(u, x)
  BY <1>0, <1>1, <1>2 DEF RestKept, Exiting
<1>4. CASE pm.vfs[s] = "dump"
  <2> DEFINE z == zombify(u, s)
  <2>1. "ZOMBIE" \notin u.flags[s] /\ "TRACE_ZOMBIE" \notin u.flags[s]
        /\ "TOLD_PARENT" \notin u.flags[s]
    BY <1>0, <1>1, <1>2, <1>4 DEF Announced, Exiting
  <2>2. /\ Kept(u, z, act, s) /\ Exiting(z, s) /\ Same(u, z, s, "TRACE_EXIT")
        /\ Same(u, z, s, "VFS_CALL")
        /\ Announced(z, s) \/ "TOLD_PARENT" \in z.flags[s]
    BY <1>0, <1>2, <1>3, <2>1, ZombifyKept
  <2> HIDE DEF z
  <2>3. Restarting(z, s)
    BY <1>2, <1>3, <2>2 DEF Restarting, Kept, Same, VfsCall
  <2> QED BY <1>4, <2>2, <2>3 DEF z
<1>5. CASE pm.vfs[s] = "exit"
  <2>1. Announced(u, s) \/ "TOLD_PARENT" \in u.flags[s]
    <3>1. \A x \in Slot : "WAITING" \in u.flags[x] <=> "WAITING" \in pm.flags[x]
      BY <1>0 DEF Served, PMState
    <3>2. u.parent = pm.parent /\ u.tracer = pm.tracer /\ u.wpid = pm.wpid
          /\ u.pid = pm.pid /\ u.procgrp = pm.procgrp
      BY DEF Served
    <3>3. pm.parent[s] \in Slot /\ pm.tracer[s] \in Slot
      BY <1>0 DEF PMState
    <3>4. /\ wait_test(u, u.parent[s], s) <=> wait_test(pm, pm.parent[s], s)
          /\ wait_test(u, u.tracer[s], s) <=> wait_test(pm, pm.tracer[s], s)
      BY <3>1, <3>2, <3>3 DEF wait_test
    <3> QED BY <1>0, <1>1, <1>2, <1>5, <3>4 DEF Announced, Exiting
  <2>2. Restarting(u, s)
    BY <1>2, <1>3, <2>1 DEF Restarting
  <2>3. Kept(u, u, act, s) /\ Same(u, u, s, "TRACE_EXIT")
    BY <1>2, KeptSelf DEF Same
  <2> QED BY <1>5, <2>2, <2>3
<1> QED BY <1>4, <1>5

\* VFS answers for an exiting process: the whole of exit_restart.
LEMMA VfsExitReplyStep ==
  ASSUME IInv, NEW s \in Slot \ {PM}, VfsExitReply(s)
  PROVE  Table'
<1> DEFINE u == [Answered(pm, s) EXCEPT !.sched = @ \ {s}]
           z == IF pm.vfs[s] = "dump" THEN zombify(u, s) ELSE u
           d == z.tracer[s]
           w == IF "TRACE_EXIT" \in z.flags[s] THEN reply(z, d, "ptrace") ELSE z
<1>0. Idle /\ pm.vfs[s] \in {"exit", "dump"} /\ s \in Slot
      /\ UNCHANGED <<act, stack>>
  BY DEF VfsExitReply
<1>1. Served(pm, u, s, pm.pend \ {s}) /\ u.call = pm.call /\ Exiting(pm, s)
  BY <1>0, ExitAnswered
<1>a. pm' = IF "TOLD_PARENT" \in w.flags[s] THEN cleanup(w, s) ELSE w
  BY DEF VfsExitReply, exit_restart
<1> HIDE DEF u
<1>2. Restarting(z, s) /\ Kept(u, z, act, s) /\ Same(u, z, s, "TRACE_EXIT")
  BY <1>0, <1>1, RestartZombie
<1> HIDE DEF z
<1>3. Restarting(w, s)
  <2>1. CASE "TRACE_EXIT" \notin z.flags[s]
    BY <1>2, <2>1
  <2>2. CASE "TRACE_EXIT" \in z.flags[s]
    <3>1. u.flags = [pm.flags EXCEPT ![s] = @ \ {"VFS_CALL", "NEW_PARENT"}]
          /\ u.tracer = pm.tracer /\ z.tracer = u.tracer /\ z.vfs = u.vfs
          /\ u.vfs = [pm.vfs EXCEPT ![s] = "none"]
          /\ pm \in PMState
      BY <1>1, <1>2 DEF Served, Kept, SameRest
    <3>2. /\ \A x \in Slot : "TRACE_EXIT" \in u.flags[x] <=> "TRACE_EXIT" \in pm.flags[x]
          /\ u.vfs[s] = "none" /\ \A x \in Slot \ {s} : u.vfs[x] = pm.vfs[x]
          /\ \A x \in Slot : Exiting(u, x) = Exiting(pm, x)
      BY <1>0, <3>1 DEF PMState, Exiting
    <3>3. "TRACE_EXIT" \in pm.flags[s] /\ pm.vfs[s] # "none"
      BY <1>0, <1>2, <2>2, <3>2 DEF Same
    <3>4. d \in Slot /\ d = pm.tracer[s] /\ d # NO_TRACER /\ ~Exiting(pm, d)
      <4>1. FamilyInv(pm, act, s) /\ InUse(pm, s)
        BY <1>0, IdleFacts, OwedFacts DEF BaseInv
      <4>2. pm.tracer[s] # NO_TRACER
        BY <3>3, <4>1 DEF FamilyInv
      <4> QED BY <1>0, <3>1, <4>1, <4>2, IdleFacts
    <3>5. pm.call[d] = "ptrace"
      <4>1. CallInv(pm, s)
        BY <1>0, IdleFacts DEF BaseInv
      <4> QED BY <3>3, <3>4, <4>1 DEF CallInv
    <3>6. d # s /\ z.call[d] = "ptrace" /\ ~Exiting(z, d)
      BY <1>1, <1>2, <3>2, <3>4, <3>5 DEF Kept
    <3>7. \A x \in Slot : "TRACE_EXIT" \in z.flags[x] /\ z.vfs[x] # "none" =>
                            z.tracer[x] # d
      <4>1. \A x \in Slot : OneAnswer(pm, s, x)
        BY <1>0, IdleFacts DEF BaseInv
      <4>2. SUFFICES ASSUME NEW x \in Slot, "TRACE_EXIT" \in z.flags[x],
                            z.vfs[x] # "none", z.tracer[x] = d
                     PROVE  FALSE
        OBVIOUS
      <4>3. x # s /\ pm.vfs[x] # "none" /\ pm.tracer[x] = pm.tracer[s]
        BY <3>1, <3>2, <3>4, <4>2
      <4>4. "TRACE_EXIT" \in pm.flags[x]
        BY <1>2, <3>2, <4>2, <4>3 DEF Kept, Same
      <4> QED BY <3>3, <4>1, <4>3, <4>4 DEF OneAnswer
    <3> HIDE DEF d
    <3> QED BY <1>0, <1>2, <2>2, <3>4, <3>6, <3>7, RestartWakes
  <2> QED BY <2>1, <2>2
<1> HIDE DEF w
<1>4. TableInv(pm', act) /\ CountInv(pm')
  BY <1>0, <1>3, <1>a, RestartFrees
<1> QED BY <1>0, <1>4, TableStep
---------------------------------------------------------------------------
(* The forks.                                                              *)

\* u is t with slot c taken by a child of p for which VFS has request req.
Forked(t, u, p, c, F, req) ==
  /\ t \in PMState /\ u \in PMState
  /\ u.flags[c] = F /\ \A x \in Slot \ {c} : u.flags[x] = t.flags[x]
  /\ u.parent = [t.parent EXCEPT ![c] = p]
  /\ u.tracer[c] \in {NO_TRACER, t.tracer[p]}
  /\ \A x \in Slot \ {c} :
       /\ u.tracer[x] = t.tracer[x] /\ u.pid[x] = t.pid[x]
       /\ u.procgrp[x] = t.procgrp[x] /\ u.wpid[x] = t.wpid[x]
       /\ x \in u.sched <=> x \in t.sched
       /\ x \in u.pend <=> x \in t.pend
       /\ x # p => u.call[x] = t.call[x]
  /\ u.vfs = [t.vfs EXCEPT ![c] = req]
  /\ u.procs_in_use = t.procs_in_use + 1 /\ u.panic = t.panic
  /\ \/ /\ F = {"IN_USE", "VFS_CALL"} /\ req = "fork"
        /\ u.call[c] = "born" /\ u.call[p] = "fork"
     \/ /\ F = {"IN_USE", "PRIV_PROC", "VFS_CALL"} /\ req = "srv_fork"
        /\ u.call[c] = "run" /\ u.call[p] = "run" /\ c \notin u.sched

\* The table after a fork, but for the counter.
LEMMA ForkedTable ==
  ASSUME IInv, Idle, NEW p \in Slot \ {PM}, Runnable(p), NEW c \in Slot,
         ~InUse(pm, c), NEW u, NEW F, NEW req, Forked(pm, u, p, c, F, req)
  PROVE  TableInv(u, act) /\ CountInv(u)
<1>0. /\ pm \in PMState /\ u \in PMState /\ act \in [Slot -> Activation]
      /\ BaseInv(pm, act) /\ CountInv(pm)
      /\ \A x \in Slot : /\ act[x].at = "none" /\ SlotInv(pm, x) /\ CallInv(pm, x)
                         /\ FamilyInv(pm, act, x) /\ PendInv(pm, x)
                         /\ Announced(pm, x) /\ Remembered(pm, x)
      /\ \A x, y \in Slot : OneAnswer(pm, x, y)
      /\ BootInv(pm) /\ pm.panic = {}
  BY IdleFacts DEF BaseInv, Forked
<1>1. \A x \in Slot : InUse(pm, x) =>
        /\ pm.parent[x] \in Slot /\ InUse(pm, pm.parent[x])
        /\ ~Exiting(pm, pm.parent[x]) /\ pm.parent[x] # PM
        /\ pm.tracer[x] \in Slot
        /\ pm.tracer[x] # NO_TRACER =>
             InUse(pm, pm.tracer[x]) /\ ~Exiting(pm, pm.tracer[x])
  BY IdleFacts
<1>2. /\ InUse(pm, p) /\ ~Exiting(pm, p) /\ pm.call[p] = "run" /\ p # c
      /\ "WAITING" \notin pm.flags[p] /\ pm.vfs[p] \in {"none", "srv_fork"}
      /\ \A x \in Slot : ~(/\ pm.vfs[x] = "fork" /\ "NEW_PARENT" \notin pm.flags[x]
                           /\ pm.parent[x] = p)
      /\ \A x \in Slot : ~(/\ "TRACE_EXIT" \in pm.flags[x] /\ pm.vfs[x] # "none"
                           /\ pm.tracer[x] = p)
      /\ p \in pm.pend => VfsCall(pm, p)
  BY RunnableFacts
<1>3. /\ u.flags[c] = F /\ u.vfs[c] = req /\ u.parent[c] = p
      /\ \A x \in Slot \ {c} : /\ u.flags[x] = pm.flags[x] /\ u.vfs[x] = pm.vfs[x]
                               /\ u.parent[x] = pm.parent[x]
                               /\ u.tracer[x] = pm.tracer[x]
                               /\ u.procgrp[x] = pm.procgrp[x]
                               /\ u.wpid[x] = pm.wpid[x] /\ u.pid[x] = pm.pid[x]
                               /\ x \in u.sched <=> x \in pm.sched
                               /\ x \in u.pend <=> x \in pm.pend
                               /\ x # p => u.call[x] = pm.call[x]
      /\ u.tracer[c] \in {NO_TRACER, pm.tracer[p]}
      /\ u.panic = {} /\ u.procs_in_use = pm.procs_in_use + 1
  BY <1>0 DEF Forked, PMState
<1>4. \/ /\ F = {"IN_USE", "VFS_CALL"} /\ req = "fork"
         /\ u.call[c] = "born" /\ u.call[p] = "fork"
      \/ /\ F = {"IN_USE", "PRIV_PROC", "VFS_CALL"} /\ req = "srv_fork"
         /\ u.call[c] = "run" /\ u.call[p] = "run" /\ c \notin u.sched
  BY DEF Forked
<1>5. c \notin Boot
  BY <1>0 DEF BootInv
<1>6. \A x \in Slot : pm.vfs[x] # "none" \/ pm.flags[x] # {} => InUse(pm, x)
  BY <1>0 DEF SlotInv, InUse
<1>7. ASSUME NEW x \in Slot PROVE SlotInv(u, x)
  <2>1. CASE x = c
    BY <1>3, <1>4, <2>1 DEF SlotInv
  <2>2. CASE x # c
    <3>1. SlotInv(pm, x)
      BY <1>0
    <3>2. ("EXITING" \in u.flags[x]) => u.call[x] = pm.call[x]
      BY <1>2, <1>3, <2>2 DEF Exiting
    <3> QED BY <1>3, <2>2, <3>1, <3>2 DEF SlotInv
  <2> QED BY <2>1, <2>2
<1>8. ASSUME NEW x \in Slot PROVE CallInv(u, x)
  <2>1. CASE x = c
    BY <1>3, <1>4, <2>1 DEF CallInv
  <2>2. CASE x # c
    <3>1. CallInv(pm, x) /\ pm.parent[x] \in Slot /\ pm.tracer[x] \in Slot
      BY <1>0 DEF PMState
    <3>2. u.call[x] # "spurious"
      BY <1>3, <1>4, <2>2, <3>1 DEF CallInv
    <3>3. "WAITING" \in u.flags[x] =>
            u.call[x] = "wait" \/ (x = INIT_PROC_NR /\ u.call[x] = "dead")
      BY <1>2, <1>3, <2>2, <3>1 DEF CallInv
    <3>4. (u.vfs[x] = "fork" => u.call[x] = "born")
          /\ (u.vfs[x] = "setsid" => u.call[x] = "setsid")
      BY <1>2, <1>3, <2>2, <3>1 DEF CallInv
    <3>5. ASSUME u.vfs[x] = "fork", "NEW_PARENT" \notin u.flags[x]
          PROVE  \/ u.call[u.parent[x]] = "fork"
                 \/ u.parent[x] = INIT_PROC_NR /\ u.call[INIT_PROC_NR] = "dead"
                 \/ Exiting(u, u.parent[x])
      <4>1. pm.vfs[x] = "fork" /\ "NEW_PARENT" \notin pm.flags[x]
            /\ u.parent[x] = pm.parent[x]
        BY <1>3, <2>2, <3>5
      <4>2. pm.parent[x] # c /\ pm.parent[x] # p
        BY <1>1, <1>2, <1>6, <4>1
      <4>3. u.call[pm.parent[x]] = pm.call[pm.parent[x]]
            /\ u.flags[pm.parent[x]] = pm.flags[pm.parent[x]]
        BY <1>3, <3>1, <4>2
      <4> QED BY <3>1, <4>1, <4>3 DEF CallInv, Exiting
    <3>6. ASSUME "TRACE_EXIT" \in u.flags[x], u.vfs[x] # "none"
          PROVE  u.call[u.tracer[x]] = "ptrace" \/ Exiting(u, u.tracer[x])
      <4>1. "TRACE_EXIT" \in pm.flags[x] /\ pm.vfs[x] # "none"
            /\ u.tracer[x] = pm.tracer[x]
        BY <1>3, <2>2, <3>6
      <4>2. pm.tracer[x] # c /\ pm.tracer[x] # p
        <5>1. InUse(pm, x)
          BY <1>6, <4>1
        <5>2. pm.tracer[x] # NO_TRACER
          BY <1>0, <4>1, <5>1 DEF FamilyInv
        <5> QED BY <1>1, <1>2, <4>1, <5>1, <5>2
      <4>3. u.call[pm.tracer[x]] = pm.call[pm.tracer[x]]
            /\ u.flags[pm.tracer[x]] = pm.flags[pm.tracer[x]]
        BY <1>3, <3>1, <4>2
      <4> QED BY <3>1, <4>1, <4>3 DEF CallInv, Exiting
    <3> QED BY <3>2, <3>3, <3>4, <3>5, <3>6 DEF CallInv
  <2> QED BY <2>1, <2>2
<1>9. ASSUME NEW x \in Slot PROVE FamilyInv(u, act, x)
  <2>1. \A y \in Slot : InUse(pm, y) => InUse(u, y) /\ Exiting(u, y) = Exiting(pm, y)
    BY <1>3 DEF InUse, Exiting
  <2>2. CASE x = c
    <3>1. InUse(u, p) /\ ~Exiting(u, p) /\ p # PM
      BY <1>2, <2>1
    <3>2. u.tracer[c] # NO_TRACER =>
            InUse(u, u.tracer[c]) /\ ~Exiting(u, u.tracer[c])
            /\ u.tracer[c] # INIT_PROC_NR
      <4>1. FamilyInv(pm, act, p)
        BY <1>0
      <4> QED BY <1>1, <1>2, <1>3, <2>1, <4>1 DEF FamilyInv
    <3>3. {"TRACE_ZOMBIE", "TRACE_EXIT"} \cap u.flags[c] = {}
      BY <1>3, <1>4
    <3> QED BY <1>3, <2>2, <3>1, <3>2, <3>3 DEF FamilyInv
  <2>3. CASE x # c
    <3>1. FamilyInv(pm, act, x) /\ (InUse(u, x) => InUse(pm, x))
          /\ u.flags[x] = pm.flags[x] /\ u.parent[x] = pm.parent[x]
          /\ u.tracer[x] = pm.tracer[x]
      BY <1>0, <1>3, <2>3 DEF InUse
    <3> QED BY <1>1, <2>1, <3>1 DEF FamilyInv
  <2> QED BY <2>2, <2>3
<1>10. ASSUME NEW x \in Slot PROVE PendInv(u, x)
  <2>1. CASE x = c
    <3>1. InUse(u, c) /\ ~Exiting(u, c) /\ VfsCall(u, c)
      BY <1>3, <1>4 DEF InUse, Exiting, VfsCall
    <3> QED BY <1>5, <2>1, <3>1, BootSlots DEF PendInv
  <2>2. CASE x # c
    <3>1. PendInv(pm, x)
      BY <1>0
    <3> QED BY <1>2, <1>3, <2>2, <3>1 DEF PendInv, InUse, Exiting, VfsCall
  <2> QED BY <2>1, <2>2
<1>11. ASSUME NEW x \in Slot, NEW y \in Slot PROVE OneAnswer(u, x, y)
  <2>1. OneAnswer(pm, x, y)
    BY <1>0
  <2>2. "TRACE_EXIT" \notin u.flags[c]
    BY <1>3, <1>4
  <2>3. CASE x # c /\ y # c
    BY <1>3, <2>1, <2>3 DEF OneAnswer
  <2>4. CASE x = c /\ y # c
    BY <1>2, <1>3, <2>2, <2>4 DEF OneAnswer
  <2>5. CASE x # c /\ y = c
    BY <1>2, <1>3, <2>2, <2>5 DEF OneAnswer
  <2>6. CASE x = c /\ y = c
    BY <2>6 DEF OneAnswer
  <2> QED BY <2>3, <2>4, <2>5, <2>6
<1>12. BootInv(u)
  <2>1. \A x \in Boot : x \in Slot \ {c}
    BY <1>5, BootSlots
  <2> QED BY <1>0, <1>3, <2>1, BootKept DEF Same
<1>13. BaseInv(u, act)
  BY <1>0, <1>3, <1>7, <1>8, <1>9, <1>10, <1>11, <1>12 DEF BaseInv, ActiveInv
<1>14. ASSUME NEW x \in Slot PROVE Announced(u, x) /\ Remembered(u, x)
  <2>1. CASE x = c
    BY <1>3, <1>4, <2>1 DEF Announced, Remembered
  <2>2. CASE x # c
    <3>1. Announced(pm, x) /\ Remembered(pm, x)
      BY <1>0
    <3>2. Remembered(u, x)
      BY <1>3, <1>4, <2>2, <3>1 DEF Remembered
    <3>3. ASSUME "ZOMBIE" \in pm.flags[x]
          PROVE  wait_test(u, u.parent[x], x) <=> wait_test(pm, pm.parent[x], x)
      <4>1. pm.parent[x] \in Slot \ {c} /\ u.parent[x] = pm.parent[x]
        BY <1>1, <1>3, <1>6, <2>2, <3>3
      <4> QED BY <1>3, <2>2, <4>1 DEF wait_test
    <3>4. ASSUME "TRACE_ZOMBIE" \in pm.flags[x]
          PROVE  wait_test(u, u.tracer[x], x) <=> wait_test(pm, pm.tracer[x], x)
      <4>1. InUse(pm, x) /\ FamilyInv(pm, act, x)
        BY <1>0, <1>6, <3>4
      <4>2. pm.tracer[x] # NO_TRACER
        BY <3>4, <4>1 DEF FamilyInv
      <4>3. pm.tracer[x] \in Slot \ {c} /\ u.tracer[x] = pm.tracer[x]
        BY <1>1, <1>3, <2>2, <4>1, <4>2
      <4> QED BY <1>3, <2>2, <4>3 DEF wait_test
    <3>5. Announced(u, x)
      BY <1>3, <2>2, <3>1, <3>3, <3>4 DEF Announced
    <3> QED BY <3>2, <3>5
  <2> QED BY <2>1, <2>2
<1>15. CountInv(u)
  <2> DEFINE S == {x \in Slot : InUse(pm, x)}
  <2>1. {x \in Slot : InUse(u, x)} = S \cup {c}
    <3>1. InUse(u, c)
      BY <1>3, <1>4 DEF InUse
    <3>2. \A x \in Slot \ {c} : InUse(u, x) = InUse(pm, x)
      BY <1>3 DEF InUse
    <3> QED BY <3>1, <3>2
  <2>2. IsFiniteSet(S)
    BY SlotFinite, FS_Subset
  <2>3. Cardinality(S \cup {c}) = Cardinality(S) + 1
    BY <2>2, FS_AddElement
  <2> QED BY <1>0, <1>3, <2>1, <2>3 DEF CountInv
<1> QED BY <1>13, <1>14, <1>15 DEF TableInv
\* A table that is not full has a free slot: fork's search finds one.
LEMMA SlotFound ==
  ASSUME IInv, NEW p \in Slot, ~TableFull(p)
  PROVE  FreeSlots # {}
<1>1. SUFFICES ASSUME FreeSlots = {} PROVE FALSE
  OBVIOUS
<1>2. {s \in Slot : InUse(pm, s)} = Slot
  BY <1>1 DEF FreeSlots
<1>3. pm.procs_in_use = NR_PROCS
  BY <1>2, SlotFinite DEF IInv, CountInv
<1> QED BY <1>3 DEF TableFull

\* What fork_child() and tell_vfs() make of a free slot c.
LEMMA ForkFields ==
  ASSUME NEW t \in PMState, NEW p \in Slot, NEW c \in Slot, p # c, NEW n \in Pid,
         NEW keep \in SUBSET Flag, "VFS_CALL" \notin keep
  PROVE  LET u == fork_child(t, p, c, n, keep)
         IN  /\ u \in PMState
             /\ u.flags[c] = t.flags[p] \cap keep
             /\ ~VfsCall(u, c)
             /\ u.parent = [t.parent EXCEPT ![c] = p]
             /\ u.tracer[c] \in {NO_TRACER, t.tracer[p]}
             /\ \A x \in Slot \ {c} :
                  /\ u.flags[x] = t.flags[x]
                  /\ u.tracer[x] = t.tracer[x] /\ u.pid[x] = t.pid[x]
                  /\ u.procgrp[x] = t.procgrp[x] /\ u.wpid[x] = t.wpid[x]
                  /\ x \in u.sched <=> x \in t.sched
                  /\ x \in u.pend <=> x \in t.pend
                  /\ u.call[x] = t.call[x]
             /\ c \in u.sched <=> p \in t.sched
             /\ u.call[c] = "born" /\ u.vfs = t.vfs
             /\ u.procs_in_use = t.procs_in_use + 1 /\ u.panic = t.panic
<1> DEFINE u == fork_child(t, p, c, n, keep)
<1>1. u \in PMState
  BY ForkChildType
<1>2. /\ u.flags = [t.flags EXCEPT ![c] = t.flags[p] \cap keep]
      /\ u.parent = [t.parent EXCEPT ![c] = p]
      /\ u.vfs = t.vfs /\ u.call = [t.call EXCEPT ![c] = "born"]
      /\ u.procs_in_use = t.procs_in_use + 1 /\ u.panic = t.panic
  BY DEF fork_child
<1>3. /\ u.tracer = [t.tracer EXCEPT ![c] = IF p \in t.tfork THEN t.tracer[p]
                                            ELSE NO_TRACER]
      /\ u.pid = [t.pid EXCEPT ![c] = n]
      /\ u.procgrp = [t.procgrp EXCEPT ![c] = t.procgrp[p]]
      /\ u.wpid = [t.wpid EXCEPT ![c] = t.wpid[p]]
  BY DEF fork_child
<1>4. /\ u.sched = IF p \in t.sched THEN t.sched \cup {c} ELSE t.sched \ {c}
      /\ u.pend = IF p \in t.pend THEN t.pend \cup {c} ELSE t.pend \ {c}
  BY DEF fork_child
<1> HIDE DEF u
<1>5. ~VfsCall(u, c) /\ u.flags[c] = t.flags[p] \cap keep
      /\ \A x \in Slot \ {c} : u.flags[x] = t.flags[x]
  BY <1>2 DEF VfsCall, PMState
<1>6. u.tracer[c] \in {NO_TRACER, t.tracer[p]} /\ u.call[c] = "born"
  BY <1>2, <1>3 DEF PMState
<1>7. \A x \in Slot \ {c} :
        /\ u.tracer[x] = t.tracer[x] /\ u.pid[x] = t.pid[x]
        /\ u.procgrp[x] = t.procgrp[x] /\ u.wpid[x] = t.wpid[x]
        /\ u.call[x] = t.call[x]
  BY <1>2, <1>3 DEF PMState
<1>8. /\ \A x \in Slot \ {c} : (x \in u.sched <=> x \in t.sched)
                               /\ (x \in u.pend <=> x \in t.pend)
      /\ c \in u.sched <=> p \in t.sched
  BY <1>4
<1> QED BY <1>1, <1>2, <1>5, <1>6, <1>7, <1>8 DEF u

LEMMA TellFields ==
  ASSUME NEW t \in PMState, NEW c \in Slot, ~VfsCall(t, c), NEW r \in Request
  PROVE  LET u == tell_vfs(t, c, r)
         IN  /\ u \in PMState
             /\ u.flags = [t.flags EXCEPT ![c] = @ \cup {"VFS_CALL"}]
             /\ u.vfs = [t.vfs EXCEPT ![c] = r]
             /\ u.call = t.call /\ u.pend = t.pend /\ u.sched = t.sched
             /\ u.parent = t.parent /\ u.tracer = t.tracer /\ u.pid = t.pid
             /\ u.procgrp = t.procgrp /\ u.wpid = t.wpid
             /\ u.procs_in_use = t.procs_in_use /\ u.panic = t.panic
<1>1. tell_vfs(t, c, r) = [SetFlags(t, c, {"VFS_CALL"}) EXCEPT !.vfs[c] = r]
  BY DEF tell_vfs, Panic
<1> QED BY <1>1, TellVfsType DEF SetFlags, PMState

\* do_fork enters a child; its tracer is told, if it has one.
LEMMA ForkForked ==
  ASSUME IInv, NEW p \in Slot \ {PM}, do_fork(p)
  PROVE  \/ pm' = pm
         \/ \E c \in Slot, v \in PMState :
              /\ ~InUse(pm, c) /\ pm' = SignalTracer(v, c)
              /\ Forked(pm, v, p, c, {"IN_USE", "VFS_CALL"}, "fork")
<1> DEFINE c == FreeSlot(next_child.fork)
           n == Least(FreePids)
           K == {"IN_USE"}
           t == fork_child(pm, p, c, n, K)
           u == IF Priv(pm, p)
                THEN [Panic(t, p \in pm.sched, "assert mp_scheduler")
                        EXCEPT !.sched = @ \cup {c}]
                ELSE t
           w == [u EXCEPT !.call[p] = "fork"]
           v == tell_vfs(w, c, "fork")
<1>0. Idle /\ Runnable(p) /\ ~TableFull(p) /\ UNCHANGED <<act, stack>>
      /\ FreeSlots # {}
  BY SlotFound DEF do_fork
<1>1. CASE NoFork
  BY <1>0, <1>1 DEF NoFork, Panic
<1>2. CASE FreePids # {} /\ pm' = SignalTracer(v, c)
  <2>1. /\ pm \in PMState /\ act \in [Slot -> Activation] /\ SlotInv(pm, p)
        /\ InUse(pm, p)
    BY <1>0, IdleFacts, RunnableFacts DEF BaseInv
  <2>2. c \in Slot /\ ~InUse(pm, c) /\ p # c /\ n \in Pid
    <3>1. TypeOK /\ next_child.fork \in Slot
      BY DEF IInv, TypeOK
    <3> QED BY <1>0, <1>2, <2>1, <3>1, ForkSlotType, FreePidType
  <2> HIDE DEF c, n
  <2>3. /\ t \in PMState
        /\ t.flags[c] = {"IN_USE"}
        /\ \A x \in Slot \ {c} : t.flags[x] = pm.flags[x]
        /\ ~VfsCall(t, c)
        /\ t.parent = [pm.parent EXCEPT ![c] = p]
        /\ t.tracer[c] \in {NO_TRACER, pm.tracer[p]}
        /\ \A x \in Slot \ {c} :
             /\ t.tracer[x] = pm.tracer[x] /\ t.pid[x] = pm.pid[x]
             /\ t.procgrp[x] = pm.procgrp[x] /\ t.wpid[x] = pm.wpid[x]
             /\ x \in t.sched <=> x \in pm.sched
             /\ x \in t.pend <=> x \in pm.pend
             /\ t.call[x] = pm.call[x]
        /\ c \in t.sched <=> p \in pm.sched
        /\ t.call[c] = "born" /\ t.vfs = pm.vfs
        /\ t.procs_in_use = pm.procs_in_use + 1 /\ t.panic = pm.panic
    <3>1. K \in SUBSET Flag /\ "VFS_CALL" \notin K
      BY DEF Flag
    <3>2. pm.flags[p] \cap K = {"IN_USE"}
      BY <2>1 DEF InUse
    <3> HIDE DEF K
    <3>3. p \in Slot /\ pm \in PMState
      BY <2>1
    <3> QED BY <2>2, <3>1, <3>2, <3>3, ForkFields
  <2> HIDE DEF t
  <2>4. /\ w \in PMState /\ w.flags = t.flags /\ w.vfs = t.vfs
        /\ w.call = [t.call EXCEPT ![p] = "fork"] /\ w.pend = t.pend
        /\ \A x \in Slot \ {c} : x \in w.sched <=> x \in t.sched
        /\ w.parent = t.parent /\ w.tracer = t.tracer /\ w.pid = t.pid
        /\ w.procgrp = t.procgrp /\ w.wpid = t.wpid
        /\ w.procs_in_use = t.procs_in_use /\ w.panic = t.panic
    <3>1. Priv(pm, p) => p \notin pm.sched
      BY <2>1 DEF SlotInv, Priv
    <3>2. u = t \/ u = [t EXCEPT !.sched = @ \cup {c}]
      BY <3>1 DEF Panic
    <3>3. "fork" \in Call
      BY DEF Call
    <3> HIDE DEF u
    <3>4. CASE u = t
      BY <2>3, <3>3, <3>4 DEF PMState
    <3>5. CASE u = [t EXCEPT !.sched = @ \cup {c}]
      BY <2>2, <2>3, <3>3, <3>5 DEF PMState
    <3> QED BY <3>2, <3>4, <3>5
  <2> HIDE DEF u, w
  <2>5. /\ v \in PMState
        /\ v.flags = [w.flags EXCEPT ![c] = @ \cup {"VFS_CALL"}]
        /\ v.vfs = [w.vfs EXCEPT ![c] = "fork"]
        /\ v.call = w.call /\ v.pend = w.pend /\ v.sched = w.sched
        /\ v.parent = w.parent /\ v.tracer = w.tracer /\ v.pid = w.pid
        /\ v.procgrp = w.procgrp /\ v.wpid = w.wpid
        /\ v.procs_in_use = w.procs_in_use /\ v.panic = w.panic
    <3>1. "fork" \in Request /\ ~VfsCall(w, c)
      BY <2>3, <2>4 DEF Request, VfsCall
    <3> QED BY <2>2, <2>4, <3>1, TellFields
  <2> HIDE DEF v
  <2>6. Forked(pm, v, p, c, {"IN_USE", "VFS_CALL"}, "fork")
    <3>1. /\ v.flags[c] = {"IN_USE", "VFS_CALL"}
          /\ \A x \in Slot \ {c} : v.flags[x] = pm.flags[x]
      BY <2>2, <2>3, <2>4, <2>5 DEF PMState
    <3>2. v.call[c] = "born" /\ v.call[p] = "fork"
          /\ \A x \in Slot \ {c} : x # p => v.call[x] = pm.call[x]
      BY <2>2, <2>3, <2>4, <2>5 DEF PMState
    <3> QED BY <2>1, <2>3, <2>4, <2>5, <3>1, <3>2 DEF Forked
  <2> QED BY <1>2, <2>2, <2>5, <2>6
<1> QED BY <1>0, <1>1, <1>2 DEF do_fork

\* A signal to the tracer of a live process.
LEMMA SignalTracerFrame ==
  ASSUME NEW t \in PMState, NEW c \in Slot, NEW a, BaseInv(t, a),
         InUse(t, c), ~Exiting(t, c)
  PROVE  SignalTracer(t, c) = t \/ \A x \in Slot : Frame(t, SignalTracer(t, c), x)
<1>1. CASE t.tracer[c] = NO_TRACER
  BY <1>1 DEF SignalTracer
<1>2. CASE t.tracer[c] # NO_TRACER
  <2>1. SignalTracer(t, c) = sig_proc(t, c)
    BY <1>2 DEF SignalTracer
  <2>2. \A x \in Slot : Frame(t, sig_proc(t, c), x)
    BY SigProcFrame DEF BaseInv
  <2> QED BY <2>1, <2>2
<1> QED BY <1>1, <1>2

LEMMA ForkStep ==
  ASSUME IInv, NEW p \in Slot \ {PM}, do_fork(p)
  PROVE  Table'
<1>0. Idle /\ Runnable(p) /\ UNCHANGED <<act, stack>>
  BY DEF do_fork
<1>1. CASE pm' = pm
  BY <1>0, <1>1, TableStep DEF IInv
<1>2. CASE pm' # pm
  <2>1. PICK c \in Slot, v \in PMState :
          /\ ~InUse(pm, c) /\ pm' = SignalTracer(v, c)
          /\ Forked(pm, v, p, c, {"IN_USE", "VFS_CALL"}, "fork")
    BY <1>2, ForkForked
  <2>2. TableInv(v, act) /\ CountInv(v) /\ act \in [Slot -> Activation]
    BY <1>0, <2>1, ForkedTable, IdleFacts
  <2>3. InUse(v, c) /\ ~Exiting(v, c) /\ BaseInv(v, act)
    BY <2>1, <2>2 DEF Forked, InUse, Exiting, TableInv
  <2>4. pm' = v \/ \A x \in Slot : Frame(v, pm', x)
    BY <2>1, <2>3, SignalTracerFrame
  <2>5. TableInv(pm', act) /\ CountInv(pm')
    <3>1. CASE pm' = v
      BY <2>2, <3>1
    <3>2. CASE \A x \in Slot : Frame(v, pm', x)
      BY <2>2, <3>2, QuietTable
    <3> QED BY <2>4, <3>1, <3>2
  <2> QED BY <1>0, <2>5, TableStep
<1> QED BY <1>1, <1>2

\* do_srv_fork enters a service, which runs at once: RS is not traced.
LEMMA SrvForkForked ==
  ASSUME IInv, NEW p \in Slot \ {PM}, NEW uid \in Uid, do_srv_fork(p, uid)
  PROVE  \/ pm' = pm
         \/ \E c \in Slot :
              /\ ~InUse(pm, c)
              /\ Forked(pm, pm', p, c, {"IN_USE", "PRIV_PROC", "VFS_CALL"}, "srv_fork")
<1> DEFINE c == FreeSlot(next_child.srv)
           n == Least(FreePids)
           K == {"IN_USE", "PRIV_PROC"}
           t == fork_child(pm, p, c, n, K)
           w == [t EXCEPT !.effuid[c] = uid]
           v == tell_vfs(w, c, "srv_fork")
           z == reply(v, c, "born")
<1>0. Idle /\ Runnable(p) /\ ~TableFull(p) /\ UNCHANGED <<act, stack>>
      /\ FreeSlots # {} /\ p = RS_PROC_NR
  BY SlotFound DEF do_srv_fork
<1>1. CASE NoFork
  BY <1>0, <1>1 DEF NoFork, Panic
<1>2. CASE FreePids # {} /\ pm' = reply(SignalTracer(v, c), c, "born")
  <2>1. /\ pm \in PMState /\ act \in [Slot -> Activation] /\ SlotInv(pm, p)
        /\ InUse(pm, p) /\ Priv(pm, p) /\ pm.tracer[p] = NO_TRACER
        /\ pm.call[p] = "run"
    <3>1. BootInv(pm)
      BY <1>0, IdleFacts DEF BaseInv
    <3> QED BY <1>0, <3>1, IdleFacts, RunnableFacts, BootSlots DEF BaseInv, BootInv
  <2>2. c \in Slot /\ ~InUse(pm, c) /\ p # c /\ n \in Pid
    <3>1. TypeOK /\ next_child.srv \in Slot
      BY DEF IInv, TypeOK
    <3> QED BY <1>0, <1>2, <2>1, <3>1, ForkSlotType, FreePidType
  <2> HIDE DEF c, n
  <2>3. /\ t \in PMState
        /\ t.flags[c] = {"IN_USE", "PRIV_PROC"}
        /\ \A x \in Slot \ {c} : t.flags[x] = pm.flags[x]
        /\ ~VfsCall(t, c)
        /\ t.parent = [pm.parent EXCEPT ![c] = p]
        /\ t.tracer[c] \in {NO_TRACER, pm.tracer[p]}
        /\ \A x \in Slot \ {c} :
             /\ t.tracer[x] = pm.tracer[x] /\ t.pid[x] = pm.pid[x]
             /\ t.procgrp[x] = pm.procgrp[x] /\ t.wpid[x] = pm.wpid[x]
             /\ x \in t.sched <=> x \in pm.sched
             /\ x \in t.pend <=> x \in pm.pend
             /\ t.call[x] = pm.call[x]
        /\ c \in t.sched <=> p \in pm.sched
        /\ t.call[c] = "born" /\ t.vfs = pm.vfs
        /\ t.procs_in_use = pm.procs_in_use + 1 /\ t.panic = pm.panic
    <3>1. K \in SUBSET Flag /\ "VFS_CALL" \notin K
      BY DEF Flag
    <3>2. pm.flags[p] \cap K = {"IN_USE", "PRIV_PROC"}
      BY <2>1 DEF InUse, Priv
    <3> HIDE DEF K
    <3> QED BY <2>1, <2>2, <3>1, <3>2, ForkFields
  <2> HIDE DEF t
  <2>4. /\ w \in PMState /\ w.flags = t.flags /\ w.vfs = t.vfs
        /\ w.call = t.call /\ w.pend = t.pend /\ w.sched = t.sched
        /\ w.parent = t.parent /\ w.tracer = t.tracer /\ w.pid = t.pid
        /\ w.procgrp = t.procgrp /\ w.wpid = t.wpid
        /\ w.procs_in_use = t.procs_in_use /\ w.panic = t.panic
    BY <2>2, <2>3, PMAssumption DEF PMState
  <2> HIDE DEF w
  <2>5. /\ v \in PMState
        /\ v.flags = [w.flags EXCEPT ![c] = @ \cup {"VFS_CALL"}]
        /\ v.vfs = [w.vfs EXCEPT ![c] = "srv_fork"]
        /\ v.call = w.call /\ v.pend = w.pend /\ v.sched = w.sched
        /\ v.parent = w.parent /\ v.tracer = w.tracer /\ v.pid = w.pid
        /\ v.procgrp = w.procgrp /\ v.wpid = w.wpid
        /\ v.procs_in_use = w.procs_in_use /\ v.panic = w.panic
    <3>1. "srv_fork" \in Request /\ ~VfsCall(w, c)
      BY <2>3, <2>4 DEF Request, VfsCall
    <3> QED BY <2>2, <2>4, <3>1, TellFields
  <2>6. pm' = z
    <3>1. v.tracer[c] = NO_TRACER
      BY <2>1, <2>3, <2>4, <2>5
    <3> HIDE DEF v
    <3> QED BY <1>2, <3>1 DEF SignalTracer
  <2> HIDE DEF v
  <2>7. /\ z \in PMState /\ SameRest(v, z) /\ z.flags = v.flags
        /\ z.pid = v.pid /\ z.procs_in_use = v.procs_in_use
        /\ \A x \in Slot \ {c} : z.call[x] = v.call[x]
        /\ z.call[c] = "run"
    <3>1. "born" \in Call /\ v.call[c] = "born"
      BY <2>3, <2>4, <2>5 DEF Call
    <3> QED BY <2>2, <2>5, <3>1, ReplyFields
  <2> HIDE DEF z
  <2>8. Forked(pm, z, p, c, {"IN_USE", "PRIV_PROC", "VFS_CALL"}, "srv_fork")
    <3>1. /\ z.flags[c] = {"IN_USE", "PRIV_PROC", "VFS_CALL"}
          /\ \A x \in Slot \ {c} : z.flags[x] = pm.flags[x]
          /\ z.vfs = [pm.vfs EXCEPT ![c] = "srv_fork"]
      BY <2>2, <2>3, <2>4, <2>5, <2>7 DEF PMState, SameRest
    <3>2. z.call[p] = "run" /\ \A x \in Slot \ {c} : z.call[x] = pm.call[x]
      BY <2>1, <2>2, <2>3, <2>4, <2>5, <2>7
    <3>3. c \notin z.sched
      BY <2>1, <2>3, <2>4, <2>5, <2>7 DEF SlotInv, Priv, SameRest
    <3> QED BY <2>1, <2>3, <2>4, <2>5, <2>7, <3>1, <3>2, <3>3 DEF Forked, SameRest
  <2> QED BY <2>2, <2>6, <2>8
<1> QED BY <1>0, <1>1, <1>2 DEF do_srv_fork

LEMMA SrvForkStep ==
  ASSUME IInv, NEW p \in Slot \ {PM}, NEW uid \in Uid, do_srv_fork(p, uid)
  PROVE  Table'
<1>0. Idle /\ Runnable(p) /\ UNCHANGED <<act, stack>>
  BY DEF do_srv_fork
<1>1. CASE pm' = pm
  BY <1>0, <1>1, TableStep DEF IInv
<1>2. CASE pm' # pm
  <2>1. PICK c \in Slot :
          /\ ~InUse(pm, c)
          /\ Forked(pm, pm', p, c, {"IN_USE", "PRIV_PROC", "VFS_CALL"}, "srv_fork")
    BY <1>2, SrvForkForked
  <2>2. TableInv(pm', act) /\ CountInv(pm')
    BY <1>0, <2>1, ForkedTable
  <2> QED BY <1>0, <2>2, TableStep
<1> QED BY <1>1, <1>2

---------------------------------------------------------------------------
(* setsid and ptrace.                                                      *)

LEMMA SetsidStep ==
  ASSUME IInv, NEW p \in Slot \ {PM}, setsid(p)
  PROVE  Table'
<1> DEFINE t == [pm EXCEPT !.procgrp[p] = pm.pid[p], !.call[p] = "setsid"]
           u == tell_vfs(t, p, "setsid")
<1>0. /\ Idle /\ Runnable(p) /\ ~Priv(pm, p) /\ pm.procgrp[p] # pm.pid[p]
      /\ pm' = u /\ UNCHANGED <<act, stack>>
  BY DEF setsid
<1>1. /\ pm \in PMState /\ act \in [Slot -> Activation]
      /\ BaseInv(pm, act) /\ CountInv(pm)
      /\ \A x \in Slot : /\ act[x].at = "none" /\ SlotInv(pm, x) /\ CallInv(pm, x)
                         /\ FamilyInv(pm, act, x) /\ PendInv(pm, x)
                         /\ Announced(pm, x) /\ Remembered(pm, x)
      /\ \A x, y \in Slot : OneAnswer(pm, x, y)
      /\ BootInv(pm) /\ pm.panic = {}
  BY <1>0, IdleFacts DEF BaseInv
<1>2. /\ InUse(pm, p) /\ ~Exiting(pm, p) /\ pm.call[p] = "run"
      /\ "WAITING" \notin pm.flags[p]
      /\ \A x \in Slot : ~(/\ pm.vfs[x] = "fork" /\ "NEW_PARENT" \notin pm.flags[x]
                           /\ pm.parent[x] = p)
      /\ \A x \in Slot : ~(/\ "TRACE_EXIT" \in pm.flags[x] /\ pm.vfs[x] # "none"
                           /\ pm.tracer[x] = p)
      /\ ~VfsCall(pm, p) /\ pm.vfs[p] = "none" /\ p \notin pm.pend
      /\ "TRACE_EXIT" \notin pm.flags[p]
  BY <1>0, RunnableFacts
<1>3. p \in Slot \ Boot
  BY <1>0, <1>1 DEF Boot, BootInv
<1>4. /\ t \in PMState /\ t.flags = pm.flags /\ t.vfs = pm.vfs
      /\ t.call = [pm.call EXCEPT ![p] = "setsid"]
      /\ t.procgrp = [pm.procgrp EXCEPT ![p] = pm.pid[p]]
      /\ t.pend = pm.pend /\ t.sched = pm.sched
      /\ t.parent = pm.parent /\ t.tracer = pm.tracer /\ t.pid = pm.pid
      /\ t.wpid = pm.wpid
      /\ t.procs_in_use = pm.procs_in_use /\ t.panic = pm.panic
  BY <1>1 DEF PMState, Call
<1> HIDE DEF t
<1>5. /\ u \in PMState
      /\ u.flags = [t.flags EXCEPT ![p] = @ \cup {"VFS_CALL"}]
      /\ u.vfs = [t.vfs EXCEPT ![p] = "setsid"]
      /\ u.call = t.call /\ u.pend = t.pend /\ u.sched = t.sched
      /\ u.parent = t.parent /\ u.tracer = t.tracer /\ u.pid = t.pid
      /\ u.procgrp = t.procgrp /\ u.wpid = t.wpid
      /\ u.procs_in_use = t.procs_in_use /\ u.panic = t.panic
  <2>1. "setsid" \in Request /\ ~VfsCall(t, p)
    BY <1>2, <1>4 DEF Request, VfsCall
  <2> QED BY <1>4, <2>1, TellFields
<1> HIDE DEF u
<1>6. /\ u.flags[p] = pm.flags[p] \cup {"VFS_CALL"} /\ u.vfs[p] = "setsid"
      /\ u.call[p] = "setsid"
      /\ \A x \in Slot \ {p} : /\ u.flags[x] = pm.flags[x] /\ u.vfs[x] = pm.vfs[x]
                               /\ u.call[x] = pm.call[x]
                               /\ u.procgrp[x] = pm.procgrp[x]
      /\ u.pend = pm.pend /\ u.sched = pm.sched /\ u.parent = pm.parent
      /\ u.tracer = pm.tracer /\ u.pid = pm.pid /\ u.wpid = pm.wpid
      /\ u.procs_in_use = pm.procs_in_use /\ u.panic = {}
  BY <1>1, <1>4, <1>5 DEF PMState
<1>7. \A x \in Slot : /\ InUse(u, x) = InUse(pm, x) /\ Exiting(u, x) = Exiting(pm, x)
                      /\ pm.parent[x] \in Slot /\ pm.tracer[x] \in Slot
  BY <1>1, <1>6 DEF InUse, Exiting, PMState
<1>8. ASSUME NEW x \in Slot PROVE SlotInv(u, x)
  <2>1. SlotInv(pm, x)
    BY <1>1
  <2>2. CASE x = p
    BY <1>2, <1>6, <2>1, <2>2 DEF SlotInv, InUse, Exiting
  <2>3. CASE x # p
    BY <1>6, <2>1, <2>3 DEF SlotInv
  <2> QED BY <2>2, <2>3
<1>9. ASSUME NEW x \in Slot PROVE CallInv(u, x)
  <2>1. CallInv(pm, x) /\ pm.parent[x] \in Slot /\ pm.tracer[x] \in Slot
    BY <1>1, <1>7
  <2>2. CASE x = p
    BY <1>2, <1>6, <2>2 DEF CallInv
  <2>3. CASE x # p
    <3>1. /\ pm.vfs[x] = "fork" /\ "NEW_PARENT" \notin pm.flags[x] => pm.parent[x] # p
      BY <1>2
    <3>2. "TRACE_EXIT" \in pm.flags[x] /\ pm.vfs[x] # "none" => pm.tracer[x] # p
      BY <1>2
    <3>3. INIT_PROC_NR # p /\ INIT_PROC_NR \in Slot
      BY <1>3, BootSlots
    <3> QED BY <1>6, <1>7, <2>1, <2>3, <3>1, <3>2, <3>3 DEF CallInv
  <2> QED BY <2>2, <2>3
<1>10. ASSUME NEW x \in Slot PROVE FamilyInv(u, act, x) /\ PendInv(u, x)
  <2>1. FamilyInv(pm, act, x) /\ PendInv(pm, x)
    BY <1>1
  <2>2. /\ "TRACE_ZOMBIE" \in u.flags[x] <=> "TRACE_ZOMBIE" \in pm.flags[x]
        /\ "TRACE_EXIT" \in u.flags[x] <=> "TRACE_EXIT" \in pm.flags[x]
    BY <1>6
  <2>3. FamilyInv(u, act, x)
    BY <1>6, <1>7, <2>1, <2>2 DEF FamilyInv
  <2>4. PendInv(u, x)
    BY <1>2, <1>6, <1>7, <2>1 DEF PendInv, VfsCall
  <2> QED BY <2>3, <2>4
<1>11. ASSUME NEW x \in Slot, NEW y \in Slot PROVE OneAnswer(u, x, y)
  <2>1. OneAnswer(pm, x, y)
    BY <1>1
  <2>2. \A z \in Slot : u.vfs[z] = "fork" => z # p /\ pm.vfs[z] = "fork"
    BY <1>6
  <2>3. \A z \in Slot : "TRACE_EXIT" \in u.flags[z] => z # p
    BY <1>2, <1>6
  <2> QED BY <1>6, <2>1, <2>2, <2>3 DEF OneAnswer
<1>12. BootInv(u)
  <2>1. \A x \in Boot : x \in Slot \ {p}
    BY <1>3, BootSlots
  <2> QED BY <1>1, <1>6, <2>1, BootKept DEF Same
<1>13. BaseInv(u, act)
  BY <1>1, <1>6, <1>8, <1>9, <1>10, <1>11, <1>12 DEF BaseInv, ActiveInv
<1>14. ASSUME NEW x \in Slot PROVE Announced(u, x) /\ Remembered(u, x)
  <2>1. Announced(pm, x) /\ Remembered(pm, x) /\ SlotInv(u, x)
    BY <1>1, <1>8
  <2>2. CASE x = p
    BY <1>2, <1>6, <2>1, <2>2 DEF Announced, Remembered, SlotInv, Exiting
  <2>3. CASE x # p
    <3>1. \A y \in Slot : wait_test(u, y, x) <=> wait_test(pm, y, x)
      BY <1>6, <2>3 DEF wait_test
    <3> QED BY <1>6, <1>7, <2>1, <2>3, <3>1 DEF Announced, Remembered
  <2> QED BY <2>2, <2>3
<1>15. CountInv(u)
  BY <1>1, <1>6, <1>7 DEF CountInv
<1>16. TableInv(pm', act) /\ CountInv(pm')
  BY <1>0, <1>13, <1>14, <1>15 DEF TableInv
<1> QED BY <1>0, <1>16, TableStep

\* u is t with another tracer, or none, for c, and c perhaps running again.
Retraced(t, u, c) ==
  /\ t \in PMState /\ u \in PMState
  /\ u.flags[c] \in {t.flags[c], t.flags[c] \ {"TRACE_STOPPED"}}
  /\ \A x \in Slot \ {c} : u.flags[x] = t.flags[x] /\ u.tracer[x] = t.tracer[x]
  /\ u.tracer[c] # NO_TRACER =>
       /\ InUse(t, u.tracer[c]) /\ ~Exiting(t, u.tracer[c])
       /\ u.tracer[c] # INIT_PROC_NR
  /\ u.call = t.call /\ u.pend = t.pend /\ u.vfs = t.vfs /\ u.parent = t.parent
  /\ u.pid = t.pid /\ u.procgrp = t.procgrp /\ u.wpid = t.wpid
  /\ u.sched = t.sched /\ u.procs_in_use = t.procs_in_use /\ u.panic = t.panic

\* The tracer of a live process that is not to exit for it may change.
LEMMA RetracedTable ==
  ASSUME NEW t, NEW u, NEW c \in Slot \ Boot, NEW a \in [Slot -> Activation],
         TableInv(t, a), CountInv(t), Retraced(t, u, c), ~Exiting(t, c),
         "TRACE_EXIT" \notin t.flags[c]
  PROVE  TableInv(u, a) /\ CountInv(u)
<1>1. /\ t \in PMState /\ u \in PMState
      /\ \A x \in Slot : /\ SlotInv(t, x) /\ CallInv(t, x) /\ FamilyInv(t, a, x)
                         /\ PendInv(t, x) /\ ActiveInv(t, a, x)
                         /\ Announced(t, x) /\ Remembered(t, x)
      /\ \A x, y \in Slot : OneAnswer(t, x, y)
      /\ BootInv(t) /\ t.panic = {}
  BY DEF TableInv, BaseInv, Retraced
<1>2. /\ u.flags[c] \in {t.flags[c], t.flags[c] \ {"TRACE_STOPPED"}}
      /\ \A x \in Slot \ {c} : u.flags[x] = t.flags[x] /\ u.tracer[x] = t.tracer[x]
      /\ u.tracer[c] # NO_TRACER =>
           /\ InUse(t, u.tracer[c]) /\ ~Exiting(t, u.tracer[c])
           /\ u.tracer[c] # INIT_PROC_NR
      /\ u.call = t.call /\ u.pend = t.pend /\ u.vfs = t.vfs /\ u.parent = t.parent
      /\ u.pid = t.pid /\ u.procgrp = t.procgrp /\ u.wpid = t.wpid
      /\ u.sched = t.sched /\ u.procs_in_use = t.procs_in_use /\ u.panic = t.panic
  BY DEF Retraced
<1>3. ASSUME NEW f, f # "TRACE_STOPPED", NEW x \in Slot
      PROVE  f \in u.flags[x] <=> f \in t.flags[x]
  BY <1>2, <1>3
<1>4. \A x \in Slot : /\ InUse(u, x) <=> InUse(t, x)
                      /\ Exiting(u, x) <=> Exiting(t, x)
                      /\ VfsCall(u, x) <=> VfsCall(t, x)
                      /\ "TRACE_EXIT" \in u.flags[x] <=> "TRACE_EXIT" \in t.flags[x]
                      /\ "TRACE_ZOMBIE" \in u.flags[x] <=> "TRACE_ZOMBIE" \in t.flags[x]
                      /\ "ZOMBIE" \in u.flags[x] <=> "ZOMBIE" \in t.flags[x]
                      /\ "TOLD_PARENT" \in u.flags[x] <=> "TOLD_PARENT" \in t.flags[x]
                      /\ "NEW_PARENT" \in u.flags[x] <=> "NEW_PARENT" \in t.flags[x]
                      /\ "WAITING" \in u.flags[x] <=> "WAITING" \in t.flags[x]
                      /\ t.parent[x] \in Slot /\ u.tracer[x] \in Slot
  BY <1>1, <1>3 DEF InUse, Exiting, VfsCall, PMState
<1>5. "TRACE_ZOMBIE" \notin t.flags[c] /\ "ZOMBIE" \notin t.flags[c]
      /\ "TOLD_PARENT" \notin t.flags[c]
  <2>1. SlotInv(t, c)
    BY <1>1
  <2> QED BY <2>1 DEF SlotInv, Exiting
<1>6. ASSUME NEW x \in Slot PROVE SlotInv(u, x)
  <2>1. SlotInv(t, x)
    BY <1>1
  <2>2. CASE x = c
    BY <1>2, <2>1, <2>2 DEF SlotInv
  <2>3. CASE x # c
    BY <1>2, <2>1, <2>3 DEF SlotInv
  <2> QED BY <2>2, <2>3
<1>7. ASSUME NEW x \in Slot PROVE CallInv(u, x)
  <2>1. CallInv(t, x)
    BY <1>1
  <2>2. CASE x = c
    BY <1>2, <1>4, <2>1, <2>2 DEF CallInv
  <2>3. CASE x # c
    BY <1>2, <1>4, <2>1, <2>3 DEF CallInv
  <2> QED BY <2>2, <2>3
<1>8. ASSUME NEW x \in Slot PROVE FamilyInv(u, a, x) /\ PendInv(u, x) /\ ActiveInv(u, a, x)
  <2>1. FamilyInv(t, a, x) /\ PendInv(t, x) /\ ActiveInv(t, a, x)
    BY <1>1
  <2>2. CASE x = c
    <3>1. FamilyInv(u, a, x)
      BY <1>2, <1>4, <1>5, <2>1, <2>2 DEF FamilyInv
    <3> QED BY <1>2, <1>4, <2>1, <3>1 DEF PendInv, ActiveInv
  <2>3. CASE x # c
    <3>1. FamilyInv(u, a, x)
      <4>1. u.flags[x] = t.flags[x] /\ u.tracer[x] = t.tracer[x]
        BY <1>2, <2>3
      <4> QED BY <1>2, <1>4, <2>1, <4>1 DEF FamilyInv
    <3> QED BY <1>2, <1>4, <2>1, <3>1 DEF PendInv, ActiveInv
  <2> QED BY <2>2, <2>3
<1>9. ASSUME NEW x \in Slot, NEW y \in Slot PROVE OneAnswer(u, x, y)
  <2>1. OneAnswer(t, x, y)
    BY <1>1
  <2> QED BY <1>2, <1>4, <2>1 DEF OneAnswer
<1>10. BootInv(u)
  <2>1. \A x \in Boot : x \in Slot \ {c}
    BY BootSlots
  <2> QED BY <1>1, <1>2, <2>1, BootKept DEF Same
<1>11. BaseInv(u, a)
  BY <1>1, <1>2, <1>6, <1>7, <1>8, <1>9, <1>10 DEF BaseInv
<1>12. ASSUME NEW x \in Slot PROVE Announced(u, x) /\ Remembered(u, x)
  <2>1. Announced(t, x) /\ Remembered(t, x)
    BY <1>1
  <2>2. Remembered(u, x)
    BY <1>2, <1>4, <2>1 DEF Remembered
  <2>3. \A y \in Slot : wait_test(u, y, x) <=> wait_test(t, y, x)
    BY <1>2, <1>4 DEF wait_test
  <2>4. CASE x = c
    BY <1>2, <1>4, <1>5, <2>2, <2>4 DEF Announced, Exiting
  <2>5. CASE x # c
    <3>1. u.flags[x] = t.flags[x] /\ u.tracer[x] = t.tracer[x]
          /\ u.parent[x] = t.parent[x] /\ u.vfs[x] = t.vfs[x]
      BY <1>2, <2>5
    <3> QED BY <1>2, <1>4, <2>1, <2>2, <2>3, <3>1 DEF Announced
  <2> QED BY <2>4, <2>5
<1>13. CountInv(u)
  BY <1>2, <1>4 DEF CountInv
<1> QED BY <1>11, <1>12, <1>13 DEF TableInv
\* T_ATTACH gives a live process a tracer and stops it.
LEMMA AttachRetraced ==
  ASSUME IInv, NEW d \in Slot \ {PM}, NEW c \in Slot \ {PM}, NEW b \in BOOLEAN,
         Attach(d, c, b)
  PROVE  \E t \in PMState :
           /\ Retraced(pm, t, c) /\ TableInv(t, act) /\ CountInv(t)
           /\ \A x \in Slot : Frame(t, pm', x)
<1> DEFINE t == [pm EXCEPT !.tracer[c] = d,
                           !.tfork = IF b THEN @ \cup {c} ELSE @]
<1>0. /\ Idle /\ Runnable(d) /\ d # INIT_PROC_NR /\ c # INIT_PROC_NR
      /\ InUse(pm, c) /\ ~Exiting(pm, c) /\ ~Priv(pm, c)
      /\ pm.tracer[c] = NO_TRACER
      /\ pm' = sig_proc(t, c) /\ UNCHANGED <<act, stack>>
  BY DEF Attach
<1>1. /\ pm \in PMState /\ act \in [Slot -> Activation] /\ BootInv(pm)
      /\ TableInv(pm, act) /\ CountInv(pm) /\ FamilyInv(pm, act, c)
  BY <1>0, IdleFacts DEF TableInv, BaseInv
<1>2. InUse(pm, d) /\ ~Exiting(pm, d)
  BY <1>0, RunnableFacts
<1>3. c \in Slot \ Boot
  BY <1>0, <1>1 DEF Boot, BootInv
<1>4. "TRACE_EXIT" \notin pm.flags[c]
  BY <1>0, <1>1 DEF FamilyInv
<1>5. /\ t \in PMState /\ t.flags = pm.flags /\ t.tracer = [pm.tracer EXCEPT ![c] = d]
      /\ t.call = pm.call /\ t.pend = pm.pend /\ t.vfs = pm.vfs
      /\ t.parent = pm.parent /\ t.pid = pm.pid /\ t.procgrp = pm.procgrp
      /\ t.wpid = pm.wpid /\ t.sched = pm.sched
      /\ t.procs_in_use = pm.procs_in_use /\ t.panic = pm.panic
  BY <1>1 DEF PMState
<1> HIDE DEF t
<1>6. t.tracer[c] = d /\ \A x \in Slot \ {c} : t.tracer[x] = pm.tracer[x]
  BY <1>1, <1>5 DEF PMState
<1>7. Retraced(pm, t, c)
  BY <1>0, <1>1, <1>2, <1>5, <1>6 DEF Retraced
<1>8. TableInv(t, act) /\ CountInv(t)
  BY <1>0, <1>1, <1>3, <1>4, <1>7, RetracedTable
<1>9. InUse(t, c) /\ ~Exiting(t, c)
  BY <1>0, <1>5 DEF InUse, Exiting
<1>10. \A x \in Slot : Frame(t, pm', x)
  BY <1>0, <1>5, <1>8, <1>9, SigProcFrame DEF TableInv
<1> QED BY <1>5, <1>7, <1>8, <1>10

LEMMA AttachStep ==
  ASSUME IInv, NEW d \in Slot \ {PM}, NEW c \in Slot \ {PM}, NEW b \in BOOLEAN,
         Attach(d, c, b)
  PROVE  Table'
<1>1. UNCHANGED <<act, stack>> /\ act \in [Slot -> Activation]
  BY DEF Attach, IInv, TypeOK
<1>2. PICK t \in PMState : /\ TableInv(t, act) /\ CountInv(t)
                           /\ \A x \in Slot : Frame(t, pm', x)
  BY AttachRetraced
<1>3. TableInv(pm', act) /\ CountInv(pm')
  BY <1>1, <1>2, QuietTable
<1> QED BY <1>1, <1>3, TableStep

\* T_RESUME and T_DETACH let a live process run, the latter untraced.
LEMMA ResumeRetraced ==
  ASSUME IInv, NEW d \in Slot \ {PM}, NEW c \in Slot \ {PM}, NEW b \in BOOLEAN,
         Resume(d, c, b)
  PROVE  Retraced(pm, pm', c) /\ TableInv(pm', act) /\ CountInv(pm')
<1> DEFINE v == ClearFlags(pm, c, {"TRACE_STOPPED"})
           u == [v EXCEPT !.tracer[c] = IF b THEN NO_TRACER ELSE @,
                          !.tfork = IF b THEN @ \ {c} ELSE @]
<1>0. /\ Idle /\ Runnable(d) /\ InUse(pm, c) /\ ~Exiting(pm, c)
      /\ pm.tracer[c] = d /\ pm' = u /\ UNCHANGED <<act, stack>>
  BY DEF Resume, Stopped
<1>1. /\ pm \in PMState /\ act \in [Slot -> Activation] /\ BootInv(pm)
      /\ TableInv(pm, act) /\ CountInv(pm) /\ FamilyInv(pm, act, c)
      /\ Announced(pm, c) /\ SlotInv(pm, c)
  BY <1>0, IdleFacts DEF TableInv, BaseInv
<1>2. /\ InUse(pm, d) /\ ~Exiting(pm, d)
      /\ ~("TRACE_EXIT" \in pm.flags[c] /\ pm.vfs[c] # "none")
  BY <1>0, RunnableFacts
<1>3. c \in Slot \ Boot
  BY <1>0, <1>1 DEF BootInv, NO_TRACER, PM
<1>4. "TRACE_EXIT" \notin pm.flags[c]
  BY <1>0, <1>1, <1>2 DEF Announced, Exiting, SlotInv
<1>5. /\ v \in PMState /\ SameRest(pm, v) /\ SameFlagsBut(pm, v, c)
      /\ v.flags[c] = pm.flags[c] \ {"TRACE_STOPPED"}
      /\ v.call = pm.call /\ v.pid = pm.pid
      /\ v.procs_in_use = pm.procs_in_use
  <2>1. {"TRACE_STOPPED"} \in SUBSET Flag
    BY DEF Flag
  <2> QED BY <1>1, <2>1, ClearFields
<1> HIDE DEF v
<1>6. /\ u \in PMState /\ u.flags = v.flags
      /\ u.tracer = [v.tracer EXCEPT ![c] = IF b THEN NO_TRACER ELSE @]
      /\ u.call = v.call /\ u.pend = v.pend /\ u.vfs = v.vfs
      /\ u.parent = v.parent /\ u.pid = v.pid /\ u.procgrp = v.procgrp
      /\ u.wpid = v.wpid /\ u.sched = v.sched
      /\ u.procs_in_use = v.procs_in_use /\ u.panic = v.panic
  BY <1>5, ConstantTypes DEF PMState, NO_TRACER, PM
<1> HIDE DEF u
<1>7. u.tracer[c] \in {NO_TRACER, d} /\ \A x \in Slot \ {c} : u.tracer[x] = pm.tracer[x]
  BY <1>0, <1>1, <1>5, <1>6 DEF PMState, SameRest
<1>8. d # INIT_PROC_NR
  BY <1>0, <1>1 DEF FamilyInv, NO_TRACER, PM
<1>9. Retraced(pm, u, c)
  BY <1>1, <1>2, <1>5, <1>6, <1>7, <1>8 DEF Retraced, SameRest, SameFlagsBut
<1>10. TableInv(u, act) /\ CountInv(u)
  BY <1>0, <1>1, <1>3, <1>4, <1>9, RetracedTable
<1> QED BY <1>0, <1>9, <1>10

LEMMA ResumeStep ==
  ASSUME IInv, NEW d \in Slot \ {PM}, NEW c \in Slot \ {PM}, NEW b \in BOOLEAN,
         Resume(d, c, b)
  PROVE  Table'
<1>1. UNCHANGED <<act, stack>>
  BY DEF Resume
<1> QED BY <1>1, ResumeRetraced, TableStep

\* ptrace(T_EXIT) marks its victim: only the announcement is still missing.
LEMMA TraceExitMarked ==
  ASSUME IInv, NEW d \in Slot \ {PM}, NEW c \in Slot \ {PM}, Stopped(d, c)
  PROVE  LET t == SetFlags([pm EXCEPT !.call[d] = "ptrace"], c, {"TRACE_EXIT"})
         IN  /\ t \in PMState /\ BaseInv(t, act) /\ CountInv(t)
             /\ InUse(t, c) /\ ~Exiting(t, c) /\ VfsCall(t, c) = VfsCall(pm, c)
             /\ c \in Slot \ Boot /\ Ready(t, c)
             /\ \A x \in Slot : Remembered(t, x)
             /\ \A x \in Slot \ {c} : Announced(t, x)
<1> DEFINE u == [pm EXCEPT !.call[d] = "ptrace"]
           t == SetFlags(u, c, {"TRACE_EXIT"})
<1>0. /\ Idle /\ Runnable(d) /\ InUse(pm, c) /\ ~Exiting(pm, c)
      /\ pm.tracer[c] = d /\ "TRACE_STOPPED" \in pm.flags[c]
  BY DEF Stopped
<1>1. /\ pm \in PMState /\ act \in [Slot -> Activation] /\ BootInv(pm)
      /\ FamilyInv(pm, act, c)
  BY <1>0, IdleFacts DEF BaseInv
<1>2. /\ InUse(pm, d) /\ ~Exiting(pm, d) /\ d # c
      /\ \A x \in Slot : ~(/\ "TRACE_EXIT" \in pm.flags[x] /\ pm.vfs[x] # "none"
                           /\ pm.tracer[x] = d)
  BY <1>0, RunnableFacts DEF Runnable
<1>3. c \in Slot \ Boot
  BY <1>0, <1>1 DEF BootInv, NO_TRACER, PM
<1>4. /\ u \in PMState /\ BaseInv(u, act) /\ CountInv(u)
      /\ \A x \in Slot : Announced(u, x)
      /\ \A x \in Slot \ {d} : Remembered(u, x)
      /\ u.call[d] = "ptrace" /\ \A x \in Slot \ {d} : u.call[x] = pm.call[x]
      /\ SameRest(pm, u) /\ u.flags = pm.flags /\ u.pid = pm.pid
      /\ u.procs_in_use = pm.procs_in_use
  <2>1. "ptrace" \in Call \ {"spurious"}
    BY DEF Call
  <2> QED BY <1>0, <2>1, EnterCall
<1> HIDE DEF u
<1>5. /\ t \in PMState /\ SameRest(u, t) /\ SameFlagsBut(u, t, c)
      /\ t.flags[c] = u.flags[c] \cup {"TRACE_EXIT"}
      /\ t.call = u.call /\ t.pid = u.pid
      /\ t.procs_in_use = u.procs_in_use
  <2>1. {"TRACE_EXIT"} \in SUBSET Flag
    BY DEF Flag
  <2> QED BY <1>4, <2>1, SetFields
<1> HIDE DEF t
<1>6. /\ \A x \in Slot : /\ SlotInv(u, x) /\ CallInv(u, x) /\ FamilyInv(u, act, x)
                         /\ PendInv(u, x) /\ ActiveInv(u, act, x)
      /\ \A x, y \in Slot : OneAnswer(u, x, y)
      /\ BootInv(u) /\ u.panic = {}
  BY <1>4 DEF BaseInv
<1>7. ASSUME NEW f, f # "TRACE_EXIT", NEW x \in Slot
      PROVE  f \in t.flags[x] <=> f \in u.flags[x]
  BY <1>5, <1>7 DEF SameFlagsBut
<1>8. \A x \in Slot : /\ InUse(t, x) <=> InUse(u, x)
                      /\ Exiting(t, x) <=> Exiting(u, x)
                      /\ VfsCall(t, x) <=> VfsCall(u, x)
                      /\ "TRACE_ZOMBIE" \in t.flags[x] <=> "TRACE_ZOMBIE" \in u.flags[x]
                      /\ "NEW_PARENT" \in t.flags[x] <=> "NEW_PARENT" \in u.flags[x]
                      /\ "WAITING" \in t.flags[x] <=> "WAITING" \in u.flags[x]
  BY <1>7 DEF InUse, Exiting, VfsCall
<1>9. /\ t.parent = u.parent /\ t.tracer = u.tracer /\ t.procgrp = u.procgrp
      /\ t.wpid = u.wpid /\ t.sched = u.sched /\ t.pend = u.pend
      /\ t.vfs = u.vfs /\ t.panic = u.panic
      /\ \A x \in Slot \ {c} : t.flags[x] = u.flags[x]
      /\ u.tracer[c] = d /\ t.call[d] = "ptrace"
  BY <1>0, <1>4, <1>5 DEF SameRest, SameFlagsBut
<1>10. \A x \in Slot \ {c} : "TRACE_EXIT" \in t.flags[x] /\ t.vfs[x] # "none" =>
                               t.tracer[x] # d
  BY <1>2, <1>4, <1>9 DEF SameRest
<1>11. ASSUME NEW x \in Slot PROVE SlotInv(t, x)
  <2>1. SlotInv(u, x)
    BY <1>6
  <2>2. CASE x = c
    <3>1. InUse(u, c)
      BY <1>0, <1>4 DEF InUse
    <3> QED BY <1>5, <1>9, <2>1, <2>2, <3>1 DEF SlotInv, InUse
  <2>3. CASE x # c
    BY <1>5, <1>9, <2>1, <2>3 DEF SlotInv
  <2> QED BY <2>2, <2>3
<1>12. ASSUME NEW x \in Slot PROVE CallInv(t, x)
  <2>1. CallInv(u, x) /\ u.parent[x] \in Slot /\ u.tracer[x] \in Slot
    BY <1>4, <1>6 DEF PMState
  <2>2. CASE x = c
    BY <1>5, <1>8, <1>9, <2>1, <2>2 DEF CallInv
  <2>3. CASE x # c
    BY <1>5, <1>8, <1>9, <2>1, <2>3 DEF CallInv
  <2> QED BY <2>2, <2>3
<1>13. ASSUME NEW x \in Slot PROVE FamilyInv(t, act, x)
  <2>1. FamilyInv(u, act, x) /\ u.parent[x] \in Slot /\ u.tracer[x] \in Slot
    BY <1>4, <1>6 DEF PMState
  <2>2. CASE x = c
    BY <1>8, <1>9, <2>1, <2>2 DEF FamilyInv, NO_TRACER, PM
  <2>3. CASE x # c
    BY <1>8, <1>9, <2>1, <2>3 DEF FamilyInv
  <2> QED BY <2>2, <2>3
<1>14. ASSUME NEW x \in Slot PROVE PendInv(t, x) /\ ActiveInv(t, act, x)
  BY <1>5, <1>6, <1>8, <1>9 DEF PendInv, ActiveInv
<1>15. ASSUME NEW x \in Slot, NEW y \in Slot PROVE OneAnswer(t, x, y)
  <2>1. OneAnswer(u, x, y)
    BY <1>6
  <2>2. CASE x # c /\ y # c
    BY <1>9, <2>1, <2>2 DEF OneAnswer
  <2>3. CASE x = c \/ y = c
    BY <1>8, <1>9, <1>10, <2>1, <2>3 DEF OneAnswer
  <2> QED BY <2>2, <2>3
<1>16. BootInv(t)
  <2>1. \A x \in Boot : x \in Slot \ {c}
    BY <1>3, BootSlots
  <2> QED BY <1>5, <1>6, <1>9, <2>1, BootKept DEF Same
<1>17. BaseInv(t, act)
  BY <1>6, <1>9, <1>11, <1>12, <1>13, <1>14, <1>15, <1>16 DEF BaseInv
<1>18. CountInv(t)
  BY <1>4, <1>5, <1>8 DEF CountInv
<1>19. ASSUME NEW x \in Slot PROVE Remembered(t, x) /\ (x # c => Announced(t, x))
  <2>1. Announced(u, x) /\ (x # d => Remembered(u, x))
    BY <1>4
  <2>2. Remembered(t, x)
    BY <1>5, <1>8, <1>9, <2>1 DEF Remembered
  <2>3. \A y \in Slot : wait_test(t, y, x) <=> wait_test(u, y, x)
    BY <1>5, <1>8, <1>9 DEF wait_test
  <2>4. u.parent[x] \in Slot /\ u.tracer[x] \in Slot
    BY <1>4 DEF PMState
  <2> QED BY <1>9, <2>1, <2>2, <2>3, <2>4 DEF Announced
<1>20. Ready(t, c)
  BY <1>9, <1>10 DEF Ready
<1>21. InUse(t, c) /\ ~Exiting(t, c) /\ VfsCall(t, c) = VfsCall(pm, c)
  BY <1>0, <1>4, <1>8 DEF InUse, Exiting, VfsCall
<1> QED BY <1>3, <1>5, <1>17, <1>18, <1>19, <1>20, <1>21 DEF t, u

LEMMA TraceExitStep ==
  ASSUME IInv, NEW d \in Slot \ {PM}, NEW c \in Slot \ {PM}, TraceExit(d, c)
  PROVE  Table'
<1> DEFINE t == SetFlags([pm EXCEPT !.call[d] = "ptrace"], c, {"TRACE_EXIT"})
<1>0. /\ Idle /\ Stopped(d, c)
      /\ IF VfsCall(pm, c)
         THEN pm' = [t EXCEPT !.pend = @ \cup {c}] /\ UNCHANGED <<act, stack>>
         ELSE exit_proc(t, c, FALSE, d)
  BY DEF TraceExit, Stopped
<1>1. /\ t \in PMState /\ BaseInv(t, act) /\ CountInv(t)
      /\ InUse(t, c) /\ ~Exiting(t, c) /\ VfsCall(t, c) = VfsCall(pm, c)
      /\ c \in Slot \ Boot /\ Ready(t, c)
      /\ \A x \in Slot : Remembered(t, x)
      /\ \A x \in Slot \ {c} : Announced(t, x)
  BY <1>0, TraceExitMarked
<1>2. act \in [Slot -> Activation]
  BY DEF IInv, TypeOK
<1> HIDE DEF t
<1>3. CASE VfsCall(pm, c)
  <2> DEFINE u == [t EXCEPT !.pend = @ \cup {c}]
  <2>1. /\ u \in PMState /\ BaseInv(u, act) /\ RestKept(t, u, c)
        /\ Remembered(t, c) => Remembered(u, c)
        /\ c \in u.pend
    BY <1>1, <1>2, <1>3, PendBase
  <2>2. u.flags = t.flags
    BY <1>1 DEF PMState
  <2>3. pm' = u /\ UNCHANGED <<act, stack>>
    BY <1>0, <1>3
  <2> HIDE DEF u
  <2>4. Announced(u, c)
    <3>1. SlotInv(u, c)
      BY <2>1 DEF BaseInv
    <3>2. VfsCall(u, c) /\ ~Exiting(u, c)
      BY <1>1, <1>3, <2>2 DEF VfsCall, Exiting
    <3> QED BY <2>1, <3>1, <3>2 DEF Announced, SlotInv, VfsCall, Exiting
  <2>5. TableInv(u, act) /\ CountInv(u)
    BY <1>1, <2>1, <2>4 DEF TableInv, RestKept
  <2> QED BY <2>3, <2>5, TableStep
<1>4. CASE ~VfsCall(pm, c)
  BY <1>0, <1>1, <1>4, ExitProcStep DEF Boot
<1> QED BY <1>3, <1>4
---------------------------------------------------------------------------
(* exit_proc's loop over the table, and check_sig at its end.              *)

\* The children and the traced processes of cur are still before its loop.
LEMMA LoopFacts ==
  ASSUME IInv, Running
  PROVE  /\ pm \in PMState /\ act \in [Slot -> Activation] /\ act[cur] \in Activation
         /\ cur \in Slot /\ cur # PM /\ cur # INIT_PROC_NR /\ act[cur].at # "none"
         /\ TableInv(pm, act) /\ CountInv(pm)
         /\ \A x \in Slot : InUse(pm, x) /\ pm.parent[x] = cur =>
              act[cur].at \in {"tracer", "parent"} /\ x >= act[cur].idx
         /\ \A x \in Slot : InUse(pm, x) /\ pm.tracer[x] = cur =>
              \/ act[cur].at = "tracer" /\ x >= act[cur].idx
              \/ act[cur].at = "parent" /\ x > act[cur].idx
<1>1. /\ cur \in Slot /\ cur # PM /\ cur # INIT_PROC_NR /\ act[cur].at # "none"
      /\ Exiting(pm, cur)
  BY CurExiting
<1> HIDE DEF cur
<1>2. /\ pm \in PMState /\ act \in [Slot -> Activation]
      /\ TableInv(pm, act) /\ CountInv(pm)
      /\ \A x \in Slot : FamilyInv(pm, act, x)
  BY DEF IInv, TypeOK, TableInv, BaseInv
<1>3. \A x \in Slot : InUse(pm, x) /\ pm.parent[x] = cur =>
        act[cur].at \in {"tracer", "parent"} /\ x >= act[cur].idx
  BY <1>1, <1>2 DEF FamilyInv
<1>4. \A x \in Slot : InUse(pm, x) /\ pm.tracer[x] = cur =>
        \/ act[cur].at = "tracer" /\ x >= act[cur].idx
        \/ act[cur].at = "parent" /\ x > act[cur].idx
  BY <1>1, <1>2 DEF FamilyInv, NO_TRACER, PM
<1> QED BY <1>1, <1>2, <1>3, <1>4

\* The activation of cur may move on to n when its family is still before n.
LEMMA LoopMoves ==
  ASSUME IInv, Running, NEW t \in PMState, TableInv(t, act), NEW n \in Activation,
         \A x \in Slot : InUse(t, x) /\ t.parent[x] = cur =>
           n.at \in {"tracer", "parent"} /\ x >= n.idx,
         \A x \in Slot : InUse(t, x) /\ t.tracer[x] = cur =>
           \/ n.at = "tracer" /\ x >= n.idx
           \/ n.at = "parent" /\ x > n.idx
  PROVE  TableInv(t, [act EXCEPT ![cur] = n])
<1>1. /\ act \in [Slot -> Activation] /\ cur \in Slot /\ cur # PM
      /\ act[cur].at # "none"
  BY LoopFacts
<1> HIDE DEF cur
<1>2. BaseInv(t, act) /\ \A x \in Slot : Announced(t, x) /\ Remembered(t, x)
  BY DEF TableInv
<1>3. Exiting(t, cur) /\ VfsCall(t, cur)
  BY <1>1, <1>2 DEF BaseInv, ActiveInv
<1>4. BaseInv(t, [act EXCEPT ![cur] = n])
  BY <1>1, <1>2, <1>3, MoveBase
<1> QED BY <1>2, <1>4 DEF TableInv

\* A fatal signal from within the loop: it waits for VFS, stops INIT or
\* starts exit_proc for its victim.
LEMMA KillNestedStep ==
  ASSUME IInv, Running, NEW t \in PMState, NEW c \in Slot, NEW n \in Activation,
         n.at # "none", kill_nested(t, c, n),
         TableInv(t, act), TableInv(t, [act EXCEPT ![cur] = n]), CountInv(t),
         InUse(t, c), ~Exiting(t, c), c \notin Boot \ {INIT_PROC_NR}, Ready(t, c)
  PROVE  Table'
<1> DEFINE A == [act EXCEPT ![cur] = n]
           m == new_activation(t, c, act[cur].mp)
<1>1. /\ act \in [Slot -> Activation] /\ cur \in Slot /\ act[cur] \in Activation
  BY LoopFacts
<1>2. A \in [Slot -> Activation]
  BY <1>1
<1>3. CASE c = INIT_PROC_NR
  <2>1. /\ pm' = begin_exit(t, INIT_PROC_NR, FALSE) /\ act' = A /\ UNCHANGED stack
    BY <1>3 DEF kill_nested
  <2>2. StackInv'
    BY <2>1, StackMove
  <2>3. TableInv(pm', A) /\ CountInv(pm')
    BY <1>2, <2>1, InitExitTable
  <2> QED BY <2>1, <2>2, <2>3 DEF Table
<1>4. CASE c # INIT_PROC_NR /\ VfsCall(t, c)
  <2> DEFINE u == [t EXCEPT !.pend = @ \cup {c}]
  <2>1. pm' = u /\ act' = A /\ UNCHANGED stack
    BY <1>4 DEF kill_nested
  <2>2. StackInv'
    BY <2>1, StackMove
  <2>3. c \in Slot \ Boot
    BY <1>4
  <2>4. /\ BaseInv(t, A) /\ \A x \in Slot : Announced(t, x) /\ Remembered(t, x)
    BY DEF TableInv
  <2>5. /\ u \in PMState /\ BaseInv(u, A) /\ RestKept(t, u, c)
        /\ Announced(t, c) => Announced(u, c)
        /\ Remembered(t, c) => Remembered(u, c)
    <3> HIDE DEF A
    <3> QED BY <1>2, <1>4, <2>3, <2>4, PendBase
  <2> HIDE DEF u, A
  <2>6. TableInv(u, A) /\ CountInv(u)
    BY <2>4, <2>5 DEF TableInv, RestKept
  <2> QED BY <2>1, <2>2, <2>6 DEF Table
<1>5. CASE c # INIT_PROC_NR /\ ~VfsCall(t, c)
  <2>1. /\ pm' = begin_exit(t, c, FALSE)
        /\ act' = [act EXCEPT ![cur] = n, ![c] = m]
        /\ stack' = Append(stack, c)
    BY <1>5 DEF kill_nested
  <2>2. c \in Slot \ Boot
    BY <1>5
  <2>3. act[c].at = "none"
    BY DEF TableInv, BaseInv, ActiveInv
  <2>4. m \in Activation /\ m.at = "tracer" /\ m.idx = 0
    <3>1. act[cur].mp \in Slot
      BY <1>1 DEF Activation
    <3> QED BY <3>1, ActivationType DEF new_activation
  <2> HIDE DEF m
  <2>5. StackInv'
    BY <2>1, <2>3, <2>4, StackPush
  <2>6. act' = [A EXCEPT ![c] = m]
    BY <2>1
  <2>7. /\ BaseInv(t, A) /\ \A x \in Slot : Announced(t, x) /\ Remembered(t, x)
    BY DEF TableInv
  <2> HIDE DEF A
  <2>8. TableInv(pm', [A EXCEPT ![c] = m]) /\ CountInv(pm')
    BY <1>2, <1>5, <2>1, <2>2, <2>4, <2>7, BeginExitTable
  <2> QED BY <2>5, <2>6, <2>8 DEF Table
<1> QED BY <1>3, <1>4, <1>5

\* The entry the loop looks at next.
LEMMA NextRelated ==
  ASSUME TypeOK, NEW q, NEW i \in 0 .. NR_PROCS, Related(q, i) # {}
  PROVE  LET c == Least(Related(q, i))
         IN  /\ c \in Slot /\ c >= i /\ InUse(pm, c)
             /\ pm.tracer[c] = q \/ pm.parent[c] = q
             /\ \A x \in Slot : x >= i /\ InUse(pm, x)
                  /\ (pm.tracer[x] = q \/ pm.parent[x] = q) => x >= c
<1>1. Related(q, i) \in SUBSET Nat
  BY ConstantTypes DEF Related, Slot
<1>2. /\ Least(Related(q, i)) \in Related(q, i)
      /\ \A x \in Related(q, i) : Least(Related(q, i)) <= x
  BY <1>1, LeastOf
<1>3. \A x \in Slot : x \in Int
  BY ConstantTypes DEF Slot
<1> HIDE DEF Least
<1>4. \A x \in Related(q, i) : /\ x \in Slot /\ x >= i /\ InUse(pm, x)
                               /\ pm.tracer[x] = q \/ pm.parent[x] = q
  BY DEF Related
<1>5. \A x \in Slot : x >= i /\ InUse(pm, x)
                  /\ (pm.tracer[x] = q \/ pm.parent[x] = q) => x \in Related(q, i)
  BY DEF Related
<1> QED BY <1>2, <1>3, <1>4, <1>5

LEMMA ActivationFields ==
  ASSUME NEW a \in Activation
  PROVE  /\ a.idx \in 0 .. NR_PROCS /\ a.at \in {"none", "tracer", "parent", "hup"}
         /\ a.at = "parent" => a.idx \in Slot
BY DEF Activation
\* tracer_died: c loses its tracer, and a zombie kept for it goes to the parent.
LEMMA TracerDiedTable ==
  ASSUME IInv, Running, NEW c \in Slot, InUse(pm, c)
  PROVE  LET t == tracer_died(pm, c)
         IN  /\ t \in PMState /\ TableInv(t, act) /\ CountInv(t)
             /\ t.parent = pm.parent /\ t.tracer[c] = NO_TRACER
             /\ \A x \in Slot \ {c} : /\ t.tracer[x] = pm.tracer[x]
                                      /\ InUse(t, x) => InUse(pm, x)
             /\ ~Exiting(pm, c) => /\ InUse(t, c) /\ ~Exiting(t, c) /\ Ready(t, c)
<1>0. /\ pm \in PMState /\ act \in [Slot -> Activation] /\ TableInv(pm, act)
      /\ CountInv(pm) /\ SlotInv(pm, c) /\ Announced(pm, c)
  BY LoopFacts DEF TableInv, BaseInv
<1>1. PICK v : /\ Untraced(pm, v, c)
               /\ tracer_died(pm, c) =
                    IF "TRACE_ZOMBIE" \in pm.flags[c] THEN check_parent(v, c, TRUE)
                    ELSE v
  BY <1>0, TracerDiedFields
<1>2. /\ BaseInv(v, act) /\ CountInv(v)
      /\ \A x \in Slot : /\ Remembered(v, x)
                         /\ InUse(v, x) = InUse(pm, x)
                         /\ Exiting(v, x) = Exiting(pm, x)
      /\ \A x \in Slot \ {c} : Announced(v, x)
      /\ "TRACE_ZOMBIE" \notin pm.flags[c] => Announced(v, c)
      /\ v.tracer[c] = NO_TRACER /\ "TRACE_EXIT" \notin v.flags[c]
      /\ \A x \in Slot \ {c} : v.tracer[x] = pm.tracer[x]
  BY <1>0, <1>1, UntracedBase
<1>3. v \in PMState /\ v.parent = pm.parent
  BY <1>1 DEF Untraced
<1>4. CASE "TRACE_ZOMBIE" \notin pm.flags[c]
  <2>1. tracer_died(pm, c) = v
    BY <1>1, <1>4
  <2>2. TableInv(v, act)
    BY <1>2, <1>4 DEF TableInv
  <2> QED BY <1>2, <1>3, <2>1, <2>2 DEF Ready
<1>5. CASE "TRACE_ZOMBIE" \in pm.flags[c]
  <2> DEFINE u == check_parent(v, c, TRUE)
  <2>1. Exiting(pm, c) /\ pm.vfs[c] # "dump"
    BY <1>0, <1>5 DEF SlotInv, Announced, Exiting
  <2>2. "ZOMBIE" \in v.flags[c] /\ v.vfs[c] # "dump"
    BY <1>0, <1>1, <1>5, <2>1 DEF Untraced, PMState
  <2>3. /\ Kept(v, u, act, c)
        /\ ~InUse(u, c) \/ Announced(u, c)
    BY <1>0, <1>2, <1>3, <2>2, CheckParentKept
  <2> HIDE DEF u
  <2>4. /\ u \in PMState /\ BaseInv(u, act) /\ CountInv(u) /\ SameRest(v, u)
        /\ \A x \in Slot : Remembered(u, x)
        /\ \A x \in Slot \ {c} : Announced(u, x) /\ InUse(u, x) = InUse(v, x)
    BY <1>2, <2>3 DEF Kept
  <2>5. Announced(u, c)
    BY <2>3, <2>4, FreeAnnounced
  <2>6. TableInv(u, act)
    BY <2>4, <2>5 DEF TableInv
  <2>7. tracer_died(pm, c) = u
    BY <1>1, <1>5 DEF u
  <2>8. u.parent = v.parent /\ u.tracer = v.tracer
    BY <2>4 DEF SameRest
  <2> QED BY <1>2, <1>3, <2>1, <2>4, <2>6, <2>7, <2>8
<1> QED BY <1>4, <1>5

LEMMA LoopTracerStep ==
  ASSUME IInv, LoopTracer
  PROVE  Table'
<1> DEFINE q == cur
           a == act[q]
           c == Least(Related(q, a.idx))
           t == tracer_died(pm, c)
           n == [a EXCEPT !.at = "parent", !.idx = c]
<1>0. /\ Running /\ a.at = "tracer" /\ Related(q, a.idx) # {} /\ pm.tracer[c] = q
      /\ IF Exiting(pm, c)
         THEN pm' = t /\ act' = [act EXCEPT ![q] = n] /\ UNCHANGED stack
         ELSE kill_nested(t, c, n)
  BY DEF LoopTracer
<1>1. /\ pm \in PMState /\ act \in [Slot -> Activation] /\ a \in Activation
      /\ q \in Slot /\ q # PM
      /\ TableInv(pm, act)
      /\ \A x \in Slot : InUse(pm, x) /\ pm.parent[x] = q =>
           a.at \in {"tracer", "parent"} /\ x >= a.idx
      /\ \A x \in Slot : InUse(pm, x) /\ pm.tracer[x] = q =>
           \/ a.at = "tracer" /\ x >= a.idx
           \/ a.at = "parent" /\ x > a.idx
  BY <1>0, LoopFacts
<1>2. a.idx \in 0 .. NR_PROCS
  BY <1>1, ActivationFields
<1>3. /\ c \in Slot /\ c >= a.idx /\ InUse(pm, c)
      /\ \A x \in Slot : x >= a.idx /\ InUse(pm, x)
           /\ (pm.tracer[x] = q \/ pm.parent[x] = q) => x >= c
  <2>1. TypeOK
    BY DEF IInv
  <2> HIDE DEF q, a
  <2> QED BY <1>0, <1>2, <2>1, NextRelated
<1>4. /\ t \in PMState /\ TableInv(t, act) /\ CountInv(t)
      /\ t.parent = pm.parent /\ t.tracer[c] = NO_TRACER
      /\ \A x \in Slot \ {c} : /\ t.tracer[x] = pm.tracer[x]
                               /\ InUse(t, x) => InUse(pm, x)
      /\ ~Exiting(pm, c) => /\ InUse(t, c) /\ ~Exiting(t, c) /\ Ready(t, c)
  <2> HIDE DEF c
  <2> QED BY <1>0, <1>3, TracerDiedTable
<1>5. n \in Activation /\ n.at = "parent" /\ n.idx = c
  <2>1. c \in 0 .. NR_PROCS
    BY <1>3, ConstantTypes DEF Slot
  <2> HIDE DEF a, c
  <2>2. n \in Activation
    BY <1>1, <1>3, <2>1, MoveType
  <2>3. n.at = "parent" /\ n.idx = c
    BY <1>1 DEF Activation
  <2> QED BY <2>2, <2>3
<1>6. c \notin Boot
  <2>1. BootInv(pm)
    BY <1>1 DEF TableInv, BaseInv
  <2> HIDE DEF c, q
  <2> QED BY <1>0, <1>1, <2>1 DEF BootInv, NO_TRACER, PM
<1> HIDE DEF n, t, c, a
<1>7. \A x \in Slot : InUse(t, x) /\ t.parent[x] = q =>
        n.at \in {"tracer", "parent"} /\ x >= n.idx
  BY <1>0, <1>1, <1>3, <1>4, <1>5
<1>8. \A x \in Slot : InUse(t, x) /\ t.tracer[x] = q =>
        \/ n.at = "tracer" /\ x >= n.idx
        \/ n.at = "parent" /\ x > n.idx
  <2> SUFFICES ASSUME NEW x \in Slot, InUse(t, x), t.tracer[x] = q
               PROVE  n.at = "parent" /\ x > n.idx
    OBVIOUS
  <2>1. x # c
    BY <1>1, <1>4 DEF NO_TRACER, PM
  <2>2. x >= c
    BY <1>0, <1>1, <1>3, <1>4, <2>1
  <2>3. x \in Int /\ c \in Int
    BY <1>3, ConstantTypes DEF Slot
  <2> QED BY <1>5, <2>1, <2>2, <2>3
<1>9. TableInv(t, [act EXCEPT ![q] = n])
  BY <1>0, <1>4, <1>5, <1>7, <1>8, LoopMoves
<1>10. CASE Exiting(pm, c)
  <2>1. pm' = t /\ act' = [act EXCEPT ![q] = n] /\ UNCHANGED stack
    BY <1>0, <1>10
  <2>2. StackInv'
    BY <1>0, <1>5, <2>1, StackMove
  <2> QED BY <1>4, <1>9, <2>1, <2>2 DEF Table
<1>11. CASE ~Exiting(pm, c)
  BY <1>0, <1>3, <1>4, <1>5, <1>6, <1>9, <1>11, KillNestedStep
<1> QED BY <1>10, <1>11

LEMMA LoopEndStep ==
  ASSUME IInv, LoopEnd
  PROVE  Table'
<1> DEFINE q == cur
           a == act[q]
           n == [a EXCEPT !.at = "hup", !.idx = 0]
<1>0. /\ Running /\ a.at = "tracer" /\ Related(q, a.idx) = {} /\ UNCHANGED pm
      /\ IF a.grp = 0 THEN Return
         ELSE act' = [act EXCEPT ![q].at = "hup", ![q].idx = 0] /\ UNCHANGED stack
  BY DEF LoopEnd
<1>1. /\ pm \in PMState /\ act \in [Slot -> Activation] /\ a \in Activation
      /\ q \in Slot /\ TableInv(pm, act) /\ CountInv(pm)
      /\ \A x \in Slot : InUse(pm, x) /\ pm.parent[x] = q => x >= a.idx
      /\ \A x \in Slot : InUse(pm, x) /\ pm.tracer[x] = q => x >= a.idx
  BY <1>0, LoopFacts
<1>2. \A x \in Slot : InUse(pm, x) => pm.parent[x] # q /\ pm.tracer[x] # q
  BY <1>0, <1>1 DEF Related
<1>3. \A m \in Activation : TableInv(pm, [act EXCEPT ![q] = m])
  <2> TAKE m \in Activation
  <2> QED BY <1>0, <1>1, <1>2, LoopMoves
<1>4. CASE a.grp = 0
  <2>1. act' = [act EXCEPT ![q] = NoActivation] /\ Return
    BY <1>0, <1>4 DEF Return
  <2>2. NoActivation \in Activation
    BY <1>1, ConstantTypes, ActivationType
  <2>3. StackInv'
    BY <1>0, <2>1, StackPop
  <2> QED BY <1>0, <1>1, <1>3, <2>1, <2>2, <2>3 DEF Table
<1>5. CASE a.grp # 0
  <2>1. n \in Activation /\ n.at # "none"
    <3> HIDE DEF a
    <3>1. 0 \in 0 .. NR_PROCS /\ "hup" # "parent"
      BY ConstantTypes
    <3>2. n \in Activation
      BY <1>1, <3>1, MoveType
    <3> QED BY <1>1, <3>2 DEF Activation
  <2>2. act' = [act EXCEPT ![q] = n] /\ UNCHANGED stack
    <3> HIDE DEF q
    <3> QED BY <1>0, <1>1, <1>5
  <2> HIDE DEF n
  <2>3. StackInv'
    BY <1>0, <2>1, <2>2, StackMove
  <2> QED BY <1>0, <1>1, <1>3, <2>1, <2>2, <2>3 DEF Table
<1> QED BY <1>4, <1>5

\* In check_sig nobody is left who has cur for a parent or tracer.
LEMMA HangupMoves ==
  ASSUME IInv, Running, act[cur].at = "hup", NEW n \in Activation
  PROVE  TableInv(pm, [act EXCEPT ![cur] = n])
<1>1. /\ pm \in PMState /\ TableInv(pm, act)
      /\ \A x \in Slot : InUse(pm, x) => pm.parent[x] # cur /\ pm.tracer[x] # cur
  BY LoopFacts
<1> QED BY <1>1, LoopMoves

LEMMA HangupEndStep ==
  ASSUME IInv, HangupEnd
  PROVE  Table'
<1>1. /\ Running /\ act[cur].at = "hup" /\ Return /\ UNCHANGED pm
  BY DEF HangupEnd
<1>2. /\ act' = [act EXCEPT ![cur] = NoActivation] /\ NoActivation \in Activation
  <2>1. pm \in PMState
    BY DEF IInv, TypeOK
  <2> QED BY <1>1, <2>1, ConstantTypes, ActivationType DEF Return
<1>3. StackInv'
  BY <1>1, StackPop
<1>4. TableInv(pm, [act EXCEPT ![cur] = NoActivation])
  BY <1>1, <1>2, HangupMoves
<1> QED BY <1>1, <1>2, <1>3, <1>4 DEF Table, IInv

LEMMA HangupStep ==
  ASSUME IInv, Hangup
  PROVE  Table'
<1> DEFINE q == cur
           a == act[q]
           c == Least(Members(a.grp, a.idx))
           n == [a EXCEPT !.idx = c + 1]
<1>0. /\ Running /\ a.at = "hup" /\ Members(a.grp, a.idx) # {}
      /\ \/ pm' = sig_proc(pm, c) /\ act' = [act EXCEPT ![q] = n] /\ UNCHANGED stack
         \/ /\ pm.tracer[c] = NO_TRACER /\ c \notin Immortal
            /\ kill_nested(pm, c, n)
  BY DEF Hangup
<1>1. /\ pm \in PMState /\ act \in [Slot -> Activation] /\ a \in Activation
      /\ q \in Slot /\ TableInv(pm, act) /\ CountInv(pm)
  BY <1>0, LoopFacts
<1>2. c \in Slot \ {PM} /\ InUse(pm, c) /\ ~Exiting(pm, c)
  <2>1. Members(a.grp, a.idx) \in SUBSET Nat
    BY ConstantTypes DEF Members, Slot
  <2>2. c \in Members(a.grp, a.idx)
    BY <1>0, <2>1, LeastOf
  <2> QED BY <2>2 DEF Members
<1> HIDE DEF c
<1>3. n \in Activation /\ n.at # "none"
  <2>1. c + 1 \in 0 .. NR_PROCS
    BY <1>2, ConstantTypes DEF Slot
  <2> HIDE DEF a
  <2> QED BY <1>0, <1>1, <2>1 DEF Activation
<1> HIDE DEF n
<1>4. TableInv(pm, [act EXCEPT ![q] = n])
  BY <1>0, <1>3, HangupMoves
<1>5. CASE pm' = sig_proc(pm, c) /\ act' = [act EXCEPT ![q] = n] /\ UNCHANGED stack
  <2> DEFINE A == [act EXCEPT ![q] = n]
  <2>1. StackInv'
    BY <1>0, <1>3, <1>5, StackMove
  <2>2. A \in [Slot -> Activation] /\ TableInv(pm, A)
    BY <1>1, <1>3, <1>4
  <2> HIDE DEF A
  <2>3. \A x \in Slot : Frame(pm, pm', x)
    BY <1>1, <1>2, <1>5, <2>2, SigProcFrame DEF TableInv
  <2>4. TableInv(pm', A) /\ CountInv(pm')
    BY <1>1, <2>2, <2>3, QuietTable
  <2> QED BY <1>5, <2>1, <2>4 DEF Table, A
<1>6. CASE pm.tracer[c] = NO_TRACER /\ c \notin Immortal /\ kill_nested(pm, c, n)
  <2>1. c \notin Boot \ {INIT_PROC_NR}
    BY <1>2, <1>6, PMAssumption DEF Boot
  <2>2. Ready(pm, c)
    <3>1. FamilyInv(pm, act, c)
      BY <1>1, <1>2 DEF TableInv, BaseInv
    <3> QED BY <1>2, <1>6, <3>1 DEF FamilyInv, Ready
  <2> QED BY <1>0, <1>1, <1>2, <1>3, <1>4, <1>6, <2>1, <2>2, KillNestedStep
<1> QED BY <1>0, <1>5, <1>6
\* u is t with INIT for the parent of c, and VFS's call for c told of it.
Adopted(t, u, c) ==
  /\ t \in PMState /\ u \in PMState
  /\ u.parent = [t.parent EXCEPT ![c] = INIT_PROC_NR]
  /\ u.flags = [t.flags EXCEPT ![c] =
                  IF "VFS_CALL" \in @ THEN @ \cup {"NEW_PARENT"} ELSE @]
  /\ u.call = t.call /\ u.pend = t.pend /\ u.vfs = t.vfs /\ u.tracer = t.tracer
  /\ u.pid = t.pid /\ u.procgrp = t.procgrp /\ u.wpid = t.wpid
  /\ u.sched = t.sched /\ u.procs_in_use = t.procs_in_use /\ u.panic = t.panic

LEMMA AdoptedBase ==
  ASSUME NEW t, NEW u, NEW c \in Slot, NEW a \in [Slot -> Activation],
         TableInv(t, a), CountInv(t), Adopted(t, u, c)
  PROVE  /\ BaseInv(u, a) /\ CountInv(u)
         /\ \A x \in Slot : Remembered(u, x) /\ InUse(u, x) = InUse(t, x)
         /\ \A x \in Slot : x # c \/ "ZOMBIE" \notin t.flags[c] => Announced(u, x)
         /\ "ZOMBIE" \in u.flags[c] <=> "ZOMBIE" \in t.flags[c]
<1>1. /\ t \in PMState /\ u \in PMState
      /\ \A x \in Slot : /\ SlotInv(t, x) /\ CallInv(t, x) /\ FamilyInv(t, a, x)
                         /\ PendInv(t, x) /\ ActiveInv(t, a, x)
                         /\ Announced(t, x) /\ Remembered(t, x)
      /\ \A x, y \in Slot : OneAnswer(t, x, y)
      /\ BootInv(t) /\ t.panic = {}
      /\ u.call = t.call /\ u.pend = t.pend /\ u.vfs = t.vfs /\ u.tracer = t.tracer
      /\ u.pid = t.pid /\ u.procgrp = t.procgrp /\ u.wpid = t.wpid
      /\ u.sched = t.sched /\ u.procs_in_use = t.procs_in_use /\ u.panic = t.panic
  BY DEF TableInv, BaseInv, Adopted
<1>2. /\ u.parent[c] = INIT_PROC_NR
      /\ u.flags[c] = IF "VFS_CALL" \in t.flags[c] THEN t.flags[c] \cup {"NEW_PARENT"}
                      ELSE t.flags[c]
      /\ \A x \in Slot \ {c} : u.flags[x] = t.flags[x] /\ u.parent[x] = t.parent[x]
  BY <1>1 DEF Adopted, PMState
<1>3. ASSUME NEW f, f # "NEW_PARENT", NEW x \in Slot
      PROVE  f \in u.flags[x] <=> f \in t.flags[x]
  BY <1>2, <1>3
<1>4. \A x \in Slot : /\ InUse(u, x) <=> InUse(t, x)
                      /\ Exiting(u, x) <=> Exiting(t, x)
                      /\ VfsCall(u, x) <=> VfsCall(t, x)
                      /\ "TRACE_EXIT" \in u.flags[x] <=> "TRACE_EXIT" \in t.flags[x]
                      /\ "TRACE_ZOMBIE" \in u.flags[x] <=> "TRACE_ZOMBIE" \in t.flags[x]
                      /\ "ZOMBIE" \in u.flags[x] <=> "ZOMBIE" \in t.flags[x]
                      /\ "WAITING" \in u.flags[x] <=> "WAITING" \in t.flags[x]
                      /\ t.parent[x] \in Slot /\ t.tracer[x] \in Slot
  BY <1>1, <1>3 DEF InUse, Exiting, VfsCall, PMState
<1>5. /\ INIT_PROC_NR \in Slot /\ INIT_PROC_NR # PM /\ InUse(t, INIT_PROC_NR)
      /\ ~Exiting(t, INIT_PROC_NR)
  BY <1>1, BootFacts, ConstantTypes
<1>6. u.vfs[c] = "fork" => "NEW_PARENT" \in u.flags[c]
  <2>1. SlotInv(t, c)
    BY <1>1
  <2> QED BY <1>1, <1>2, <2>1 DEF SlotInv
<1>7. ASSUME NEW x \in Slot PROVE SlotInv(u, x)
  <2>1. SlotInv(t, x)
    BY <1>1
  <2>2. CASE x = c
    <3>1. CASE "VFS_CALL" \in t.flags[c]
      BY <1>1, <1>2, <2>1, <2>2, <3>1 DEF SlotInv
    <3>2. CASE "VFS_CALL" \notin t.flags[c]
      BY <1>1, <1>2, <2>1, <2>2, <3>2 DEF SlotInv
    <3> QED BY <3>1, <3>2
  <2>3. CASE x # c
    BY <1>1, <1>2, <2>1, <2>3 DEF SlotInv
  <2> QED BY <2>2, <2>3
<1>8. ASSUME NEW x \in Slot PROVE CallInv(u, x)
  <2>1. CallInv(t, x)
    BY <1>1
  <2>2. CASE x = c
    BY <1>1, <1>2, <1>4, <1>6, <2>1, <2>2 DEF CallInv
  <2>3. CASE x # c
    BY <1>1, <1>2, <1>4, <2>1, <2>3 DEF CallInv
  <2> QED BY <2>2, <2>3
<1>9. ASSUME NEW x \in Slot PROVE FamilyInv(u, a, x)
  <2>1. FamilyInv(t, a, x)
    BY <1>1
  <2>2. CASE x = c
    BY <1>1, <1>2, <1>4, <1>5, <2>1, <2>2 DEF FamilyInv
  <2>3. CASE x # c
    BY <1>1, <1>2, <1>4, <2>1, <2>3 DEF FamilyInv
  <2> QED BY <2>2, <2>3
<1>10. ASSUME NEW x \in Slot PROVE PendInv(u, x) /\ ActiveInv(u, a, x)
  BY <1>1, <1>4 DEF PendInv, ActiveInv
<1>11. ASSUME NEW x \in Slot, NEW y \in Slot PROVE OneAnswer(u, x, y)
  <2>1. OneAnswer(t, x, y)
    BY <1>1
  <2>2. CASE x = c \/ y = c
    BY <1>1, <1>4, <1>6, <2>1, <2>2 DEF OneAnswer
  <2>3. CASE x # c /\ y # c
    BY <1>1, <1>2, <2>1, <2>3 DEF OneAnswer
  <2> QED BY <2>2, <2>3
<1>12. BootInv(u)
  <2>1. \A x \in Boot : Same(t, u, x, "IN_USE") /\ Same(t, u, x, "EXITING")
                        /\ Same(t, u, x, "PRIV_PROC")
    BY <1>3, BootSlots DEF Same
  <2> QED BY <1>1, <2>1, BootKept
<1>13. BaseInv(u, a)
  BY <1>1, <1>7, <1>8, <1>9, <1>10, <1>11, <1>12 DEF BaseInv
<1>14. CountInv(u)
  BY <1>1, <1>4 DEF CountInv
<1>15. ASSUME NEW x \in Slot
       PROVE  Remembered(u, x) /\ (x # c \/ "ZOMBIE" \notin t.flags[c] => Announced(u, x))
  <2>1. Announced(t, x) /\ Remembered(t, x)
    BY <1>1
  <2>2. Remembered(u, x)
    BY <1>1, <1>4, <2>1 DEF Remembered
  <2>3. \A y \in Slot : wait_test(u, y, x) <=> wait_test(t, y, x)
    BY <1>1, <1>4 DEF wait_test
  <2>4. CASE x # c
    BY <1>1, <1>2, <1>4, <2>1, <2>2, <2>3, <2>4 DEF Announced
  <2>5. CASE x = c
    <3>1. \A f \in {"EXITING", "ZOMBIE", "TRACE_ZOMBIE", "TOLD_PARENT", "TRACE_EXIT",
                    "VFS_CALL"} : f \in u.flags[c] <=> f \in t.flags[c]
      BY <1>3
    <3> QED BY <1>1, <1>4, <2>1, <2>2, <2>3, <2>5, <3>1 DEF Announced
  <2> QED BY <2>4, <2>5
<1>16. \A x \in Slot : InUse(u, x) = InUse(t, x)
  BY <1>4 DEF InUse
<1> QED BY <1>4, <1>13, <1>14, <1>15, <1>16

\* INIT becomes the parent of c; a zombie is offered to it at once.
LEMMA DisinheritAdopted ==
  ASSUME IInv, NEW c \in Slot
  PROVE  \E v : /\ Adopted(pm, v, c)
                /\ disinherit(pm, c) = IF "ZOMBIE" \in v.flags[c]
                                       THEN check_parent(v, c, TRUE) ELSE v
<1> DEFINE u == [pm EXCEPT !.parent[c] = INIT_PROC_NR]
           v == IF VfsCall(u, c) THEN SetFlags(u, c, {"NEW_PARENT"}) ELSE u
<1>0. pm \in PMState
  BY DEF IInv, TypeOK
<1>1. disinherit(pm, c) = IF "ZOMBIE" \in v.flags[c] THEN check_parent(v, c, TRUE)
                          ELSE v
  BY DEF disinherit
<1>2. /\ u \in PMState /\ u.flags = pm.flags
      /\ u.parent = [pm.parent EXCEPT ![c] = INIT_PROC_NR]
      /\ u.call = pm.call /\ u.pend = pm.pend /\ u.vfs = pm.vfs
      /\ u.tracer = pm.tracer /\ u.pid = pm.pid /\ u.procgrp = pm.procgrp
      /\ u.wpid = pm.wpid /\ u.sched = pm.sched
      /\ u.procs_in_use = pm.procs_in_use /\ u.panic = pm.panic
  BY <1>0, ConstantTypes DEF PMState
<1> HIDE DEF u
<1>3. Adopted(pm, v, c)
  <2>1. CASE "VFS_CALL" \in pm.flags[c]
    <3>1. v = SetFlags(u, c, {"NEW_PARENT"})
      BY <1>2, <2>1 DEF VfsCall
    <3>2. /\ v \in PMState
          /\ v.flags = [pm.flags EXCEPT ![c] = @ \cup {"NEW_PARENT"}]
          /\ v.parent = u.parent
          /\ v.call = u.call /\ v.pend = u.pend /\ v.vfs = u.vfs
          /\ v.tracer = u.tracer /\ v.pid = u.pid /\ v.procgrp = u.procgrp
          /\ v.wpid = u.wpid /\ v.sched = u.sched
          /\ v.procs_in_use = u.procs_in_use /\ v.panic = u.panic
      <4>1. {"NEW_PARENT"} \in SUBSET Flag
        BY DEF Flag
      <4>2. SetFlags(u, c, {"NEW_PARENT"}) \in PMState
        BY <1>2, <4>1, FlagsType
      <4>3. SetFlags(u, c, {"NEW_PARENT"}).flags
              = [u.flags EXCEPT ![c] = @ \cup {"NEW_PARENT"}]
        BY <1>2 DEF SetFlags, PMState
      <4> HIDE DEF v
      <4>4. SameRest(u, v) /\ v.call = u.call /\ v.pid = u.pid
            /\ v.procs_in_use = u.procs_in_use
        BY <1>2, <3>1, <4>1, SetFields
      <4> QED BY <1>2, <3>1, <4>2, <4>3, <4>4 DEF SameRest
    <3> HIDE DEF v
    <3> QED BY <1>0, <1>2, <2>1, <3>2 DEF Adopted
  <2>2. CASE "VFS_CALL" \notin pm.flags[c]
    <3>1. v = u
      BY <1>2, <2>2 DEF VfsCall
    <3>2. pm.flags = [pm.flags EXCEPT ![c] = pm.flags[c]]
      BY <1>0 DEF PMState
    <3> HIDE DEF v
    <3> QED BY <1>0, <1>2, <2>2, <3>1, <3>2 DEF Adopted
  <2> QED BY <2>1, <2>2
<1> HIDE DEF v
<1> QED BY <1>1, <1>3

LEMMA DisinheritTable ==
  ASSUME IInv, Running, NEW c \in Slot
  PROVE  LET t == disinherit(pm, c)
         IN  /\ t \in PMState /\ TableInv(t, act) /\ CountInv(t)
             /\ t.tracer = pm.tracer
             /\ t.parent = [pm.parent EXCEPT ![c] = INIT_PROC_NR]
             /\ \A x \in Slot : InUse(t, x) => InUse(pm, x)
<1>0. /\ pm \in PMState /\ act \in [Slot -> Activation] /\ TableInv(pm, act)
      /\ CountInv(pm) /\ SlotInv(pm, c) /\ Announced(pm, c)
  BY LoopFacts DEF TableInv, BaseInv
<1>1. PICK v : /\ Adopted(pm, v, c)
               /\ disinherit(pm, c) = IF "ZOMBIE" \in v.flags[c]
                                      THEN check_parent(v, c, TRUE) ELSE v
  BY DisinheritAdopted
<1> DEFINE w == check_parent(v, c, TRUE)
<1>4. /\ BaseInv(v, act) /\ CountInv(v)
      /\ \A x \in Slot : Remembered(v, x) /\ InUse(v, x) = InUse(pm, x)
      /\ \A x \in Slot : x # c \/ "ZOMBIE" \notin pm.flags[c] => Announced(v, x)
      /\ "ZOMBIE" \in v.flags[c] <=> "ZOMBIE" \in pm.flags[c]
  BY <1>0, <1>1, AdoptedBase
<1>5. v \in PMState /\ v.tracer = pm.tracer /\ v.vfs = pm.vfs
      /\ v.parent = [pm.parent EXCEPT ![c] = INIT_PROC_NR]
  BY <1>1 DEF Adopted
<1>6. CASE "ZOMBIE" \notin pm.flags[c]
  <2>1. disinherit(pm, c) = v
    BY <1>1, <1>4, <1>6
  <2>2. TableInv(v, act)
    BY <1>4, <1>6 DEF TableInv
  <2> QED BY <1>4, <1>5, <2>1, <2>2
<1>7. CASE "ZOMBIE" \in pm.flags[c]
  <2>1. disinherit(pm, c) = w
    BY <1>1, <1>4, <1>7
  <2>2. v.vfs[c] # "dump"
    BY <1>0, <1>5, <1>7 DEF Announced, SlotInv
  <2>3. /\ Kept(v, w, act, c)
        /\ ~InUse(w, c) \/ Announced(w, c)
    BY <1>0, <1>4, <1>5, <1>7, <2>2, CheckParentKept
  <2> HIDE DEF w
  <2>4. /\ w \in PMState /\ BaseInv(w, act) /\ CountInv(w) /\ SameRest(v, w)
        /\ \A x \in Slot : Remembered(w, x)
        /\ \A x \in Slot \ {c} : Announced(w, x) /\ InUse(w, x) = InUse(v, x)
    BY <1>4, <2>3 DEF Kept
  <2>5. Announced(w, c)
    BY <2>3, <2>4, FreeAnnounced
  <2>6. TableInv(w, act)
    BY <2>4, <2>5 DEF TableInv
  <2>7. w.parent = v.parent /\ w.tracer = v.tracer
    BY <2>4 DEF SameRest
  <2>8. InUse(pm, c)
    BY <1>0, <1>7 DEF SlotInv, InUse
  <2> QED BY <1>4, <1>5, <2>1, <2>4, <2>6, <2>7, <2>8
<1> QED BY <1>6, <1>7

LEMMA LoopParentStep ==
  ASSUME IInv, LoopParent
  PROVE  Table'
<1> DEFINE q == cur
           a == act[q]
           c == IF a.at = "parent" THEN a.idx ELSE Least(Related(q, a.idx))
           n == [a EXCEPT !.at = "tracer", !.idx = c + 1]
           t == IF pm.parent[c] = q THEN disinherit(pm, c) ELSE pm
<1>0. /\ Running
      /\ \/ a.at = "parent"
         \/ a.at = "tracer" /\ Related(q, a.idx) # {} /\ pm.tracer[c] # q
      /\ pm' = t
      /\ act' = [act EXCEPT ![q].at = "tracer", ![q].idx = c + 1]
      /\ UNCHANGED stack
  BY DEF LoopParent
<1>1. /\ pm \in PMState /\ act \in [Slot -> Activation] /\ a \in Activation
      /\ q \in Slot /\ q # INIT_PROC_NR /\ TableInv(pm, act) /\ CountInv(pm)
      /\ \A x \in Slot : InUse(pm, x) /\ pm.parent[x] = q =>
           a.at \in {"tracer", "parent"} /\ x >= a.idx
      /\ \A x \in Slot : InUse(pm, x) /\ pm.tracer[x] = q =>
           \/ a.at = "tracer" /\ x >= a.idx
           \/ a.at = "parent" /\ x > a.idx
  BY <1>0, LoopFacts
<1>2. a.idx \in 0 .. NR_PROCS /\ (a.at = "parent" => a.idx \in Slot)
  BY <1>1, ActivationFields
<1>3. /\ c \in Slot
      /\ \A x \in Slot : InUse(pm, x) /\ pm.parent[x] = q => x >= c
      /\ \A x \in Slot : InUse(pm, x) /\ pm.tracer[x] = q => x > c
  <2>1. CASE a.at = "parent"
    <3>1. c = a.idx
      BY <2>1
    <3> HIDE DEF a, q, c
    <3> QED BY <1>1, <1>2, <2>1, <3>1
  <2>2. CASE a.at # "parent"
    <3>1. a.at = "tracer" /\ Related(q, a.idx) # {} /\ pm.tracer[c] # q
          /\ c = Least(Related(q, a.idx))
      BY <1>0, <2>2
    <3>2. TypeOK
      BY DEF IInv
    <3> HIDE DEF a, q, c
    <3>3. /\ c \in Slot
          /\ \A x \in Slot : x >= a.idx /\ InUse(pm, x)
               /\ (pm.tracer[x] = q \/ pm.parent[x] = q) => x >= c
      BY <1>2, <3>1, <3>2, NextRelated
    <3>4. \A x \in Slot : InUse(pm, x) /\ (pm.tracer[x] = q \/ pm.parent[x] = q) => x >= c
      BY <1>1, <3>1, <3>3
    <3>5. \A x \in Slot : x \in Int
      BY ConstantTypes DEF Slot
    <3> QED BY <3>1, <3>3, <3>4, <3>5
  <2> QED BY <2>1, <2>2
<1> HIDE DEF c
<1>4. n \in Activation /\ n.at = "tracer" /\ n.idx = c + 1
  <2>1. c + 1 \in 0 .. NR_PROCS
    BY <1>3, ConstantTypes DEF Slot
  <2> HIDE DEF a
  <2>2. n \in Activation
    BY <1>1, <2>1, MoveType
  <2>3. n.at = "tracer" /\ n.idx = c + 1
    BY <1>1 DEF Activation
  <2> QED BY <2>2, <2>3
<1>5. /\ t \in PMState /\ TableInv(t, act) /\ CountInv(t) /\ t.tracer = pm.tracer
      /\ t.parent[c] # q /\ \A x \in Slot \ {c} : t.parent[x] = pm.parent[x]
      /\ \A x \in Slot : InUse(t, x) => InUse(pm, x)
  <2>1. CASE pm.parent[c] # q
    BY <1>1, <2>1
  <2>2. CASE pm.parent[c] = q
    <3> HIDE DEF q
    <3> DEFINE z == disinherit(pm, c)
    <3>1. t = z
      BY <2>2
    <3>2. /\ z \in PMState /\ TableInv(z, act) /\ CountInv(z)
          /\ z.tracer = pm.tracer
          /\ z.parent = [pm.parent EXCEPT ![c] = INIT_PROC_NR]
          /\ \A x \in Slot : InUse(z, x) => InUse(pm, x)
      BY <1>0, <1>3, DisinheritTable
    <3> HIDE DEF z, t
    <3> QED BY <1>1, <1>3, <3>1, <3>2 DEF PMState
  <2> QED BY <2>1, <2>2
<1>6. act' = [act EXCEPT ![q] = n]
  <2> HIDE DEF q
  <2> QED BY <1>0, <1>1
<1> HIDE DEF t, n, a
<1>7. \A x \in Slot : x \in Int
  BY ConstantTypes DEF Slot
<1>8. \A x \in Slot : InUse(t, x) /\ t.parent[x] = q =>
        n.at \in {"tracer", "parent"} /\ x >= n.idx
  <2> HIDE DEF q
  <2> SUFFICES ASSUME NEW x \in Slot, InUse(t, x), t.parent[x] = q
               PROVE  n.at \in {"tracer", "parent"} /\ x >= n.idx
    OBVIOUS
  <2>1. x # c /\ x >= c
    BY <1>3, <1>5
  <2> QED BY <1>3, <1>4, <1>7, <2>1
<1>9. \A x \in Slot : InUse(t, x) /\ t.tracer[x] = q =>
        \/ n.at = "tracer" /\ x >= n.idx
        \/ n.at = "parent" /\ x > n.idx
  <2> HIDE DEF q
  <2> QED BY <1>3, <1>4, <1>5, <1>7
<1>10. TableInv(t, [act EXCEPT ![q] = n])
  BY <1>0, <1>4, <1>5, <1>8, <1>9, LoopMoves
<1>11. StackInv'
  BY <1>0, <1>4, <1>6, StackMove
<1> QED BY <1>0, <1>5, <1>6, <1>10, <1>11 DEF Table
---------------------------------------------------------------------------
(* The theorems.                                                           *)

LEMMA InitTable == Init => Table
<1>1. SUFFICES ASSUME Init PROVE Table
  OBVIOUS
<1>2. /\ pm.flags = [s \in Slot |-> IF s \notin Boot THEN {}
                                   ELSE IF s = INIT_PROC_NR THEN {"IN_USE"}
                                   ELSE {"IN_USE", "PRIV_PROC"}]
      /\ pm.parent = [s \in Slot |-> IF s = PM THEN RS_PROC_NR ELSE INIT_PROC_NR]
      /\ pm.tracer = [s \in Slot |-> NO_TRACER]
      /\ pm.pid = [s \in Slot |-> IF s = INIT_PROC_NR THEN INIT_PID
                                  ELSE IF s = RS_PROC_NR THEN 2
                                  ELSE IF s = PM THEN 3 ELSE 0]
      /\ pm.procgrp = [s \in Slot |-> IF s = INIT_PROC_NR THEN INIT_PID ELSE 0]
      /\ pm.sched = {INIT_PROC_NR} /\ pm.pend = {}
      /\ pm.call = [s \in Slot |-> IF s \in Boot \ {PM} THEN "run" ELSE "dead"]
      /\ pm.vfs = [s \in Slot |-> "none"]
      /\ pm.procs_in_use = Cardinality(Boot) /\ pm.panic = {}
      /\ act = [s \in Slot |-> NoActivation] /\ stack = <<>>
  BY <1>1 DEF Init
<1>3. \A s \in Slot :
        /\ pm.flags[s] = IF s \notin Boot THEN {}
                         ELSE IF s = INIT_PROC_NR THEN {"IN_USE"}
                         ELSE {"IN_USE", "PRIV_PROC"}
        /\ pm.parent[s] = IF s = PM THEN RS_PROC_NR ELSE INIT_PROC_NR
        /\ pm.tracer[s] = NO_TRACER /\ pm.vfs[s] = "none"
        /\ pm.call[s] \in {"run", "dead"} /\ act[s].at = "none"
  BY <1>2 DEF NoActivation
<1>4. \A s \in Slot : SlotInv(pm, s) /\ CallInv(pm, s)
  BY <1>2, <1>3 DEF SlotInv, CallInv
<1>5. \A s \in Slot : FamilyInv(pm, act, s) /\ PendInv(pm, s) /\ ActiveInv(pm, act, s)
  <2> TAKE s \in Slot
  <2>1. InUse(pm, INIT_PROC_NR) /\ ~Exiting(pm, INIT_PROC_NR)
        /\ InUse(pm, RS_PROC_NR) /\ ~Exiting(pm, RS_PROC_NR)
    BY <1>3, ConstantTypes, BootSlots DEF InUse, Exiting
  <2>2. FamilyInv(pm, act, s)
    BY <1>3, <2>1, ConstantTypes DEF FamilyInv
  <2> QED BY <1>2, <1>3, <2>2 DEF PendInv, ActiveInv
<1>6. \A s, c \in Slot : OneAnswer(pm, s, c)
  BY <1>3 DEF OneAnswer
<1>7. BootInv(pm)
  <2>1. \A s \in Boot : /\ InUse(pm, s) /\ ~Exiting(pm, s) /\ pm.tracer[s] = NO_TRACER
                        /\ pm.vfs[s] = "none" /\ s \notin pm.pend
    BY <1>2, <1>3, BootSlots DEF InUse, Exiting
  <2>2. ~Priv(pm, INIT_PROC_NR) /\ Priv(pm, RS_PROC_NR)
    BY <1>3, BootSlots, ConstantTypes DEF Priv
  <2>3. pm.procgrp[INIT_PROC_NR] = pm.pid[INIT_PROC_NR]
    BY <1>2, ConstantTypes
  <2> QED BY <2>1, <2>2, <2>3 DEF BootInv
<1>8. \A s \in Slot : Announced(pm, s) /\ Remembered(pm, s)
  BY <1>3 DEF Announced, Remembered
<1>9. TableInv(pm, act)
  BY <1>2, <1>4, <1>5, <1>6, <1>7, <1>8 DEF TableInv, BaseInv
<1>10. StackInv
  BY <1>2, <1>3 DEF StackInv
<1>11. CountInv(pm)
  <2>1. {s \in Slot : InUse(pm, s)} = Boot
    BY <1>3, BootSlots DEF InUse
  <2> QED BY <1>2, <2>1 DEF CountInv
<1> QED BY <1>9, <1>10, <1>11 DEF Table

\* Every message a process sends PM.
LEMMA RequestStep ==
  ASSUME IInv, NEW p \in Caller, Request_(p)
  PROVE  Table'
<1>1. p \in Slot \ {PM}
  BY PMAssumption
<1>2. CASE do_fork(p)
  BY <1>1, <1>2, ForkStep
<1>3. CASE \E uid \in Uid : do_srv_fork(p, uid)
  BY <1>1, <1>3, SrvForkStep
<1>4. CASE do_exit(p)
  BY <1>1, <1>4, ExitStep
<1>5. CASE \E arg \in WaitArg, nohang \in BOOLEAN : do_waitpid(p, arg, nohang)
  BY <1>1, <1>5, WaitpidStep
<1>6. CASE setsid(p)
  BY <1>1, <1>6, SetsidStep
<1>7. CASE \E q \in Slot \ {PM} : Kill(p, q)
  BY <1>1, <1>7, KillStep
<1>8. CASE \E q \in Slot \ {PM}, b \in BOOLEAN : Attach(p, q, b) \/ Resume(p, q, b)
  BY <1>1, <1>8, AttachStep, ResumeStep
<1>9. CASE \E q \in Slot \ {PM} : TraceExit(p, q)
  BY <1>1, <1>9, TraceExitStep
<1> QED BY <1>2, <1>3, <1>4, <1>5, <1>6, <1>7, <1>8, <1>9 DEF Request_

LEMMA LoopStep ==
  ASSUME IInv, Loop
  PROVE  Table'
BY LoopTracerStep, LoopParentStep, LoopEndStep, HangupStep, HangupEndStep DEF Loop

LEMMA NextStep ==
  ASSUME IInv, [Next]_vars
  PROVE  Table'
<1>1. CASE Loop
  BY <1>1, LoopStep
<1>2. CASE \E s \in Slot \ {PM} : VfsReply(s) \/ KernelKill(s)
  <2>1. PICK s \in Slot \ {PM} : VfsReply(s) \/ KernelKill(s)
    BY <1>2
  <2>2. CASE VfsReply(s)
    BY <2>2, VfsForkReplyStep, VfsCallReplyStep, VfsExitReplyStep DEF VfsReply
  <2>3. CASE KernelKill(s)
    BY <2>3, KernelKillStep
  <2> QED BY <2>1, <2>2, <2>3
<1>3. CASE \E s \in Caller : Request_(s)
  BY <1>3, RequestStep
<1>4. CASE UNCHANGED vars
  BY <1>4 DEF vars, Table, IInv, TableInv, BaseInv, SlotInv, CallInv, FamilyInv,
              PendInv, ActiveInv, OneAnswer, BootInv, Announced, Remembered,
              StackInv, CountInv, InUse, Exiting, VfsCall, Priv, wait_test
<1> QED BY <1>1, <1>2, <1>3, <1>4 DEF Next

\* IInv holds in every state PM can reach: whatever the size of its table, the
\* order of VFS's answers, and the exits, waits, signals and attaches that
\* come between, every entry of mproc[] agrees with the entries of its family,
\* with what VFS owes it and with the activations of exit_proc.
THEOREM TableCorrect == Spec => []IInv
<1>1. Init => IInv
  BY InitTable, InitType DEF IInv, Table
<1>2. IInv /\ [Next]_vars /\ TypeOK' => IInv'
  BY NextStep DEF IInv, Table
<1> QED BY <1>1, <1>2, TypeCorrect, PTL DEF Spec

\* PM only answers a process that is blocked in the call it answers: no exit,
\* adoption or trace makes reply() wake a process that did not ask.
THEOREM RepliesCorrect == Spec => []NoSpuriousReply
<1>1. IInv => NoSpuriousReply
  BY DEF IInv, TableInv, BaseInv, CallInv, NoSpuriousReply
<1> QED BY <1>1, TableCorrect, PTL

\* None of the panics and assertions of forkexit.c, and of the routines it
\* calls, is ever reached.
THEOREM PanicFree == Spec => []NoPanic
<1>1. IInv => NoPanic
  BY DEF IInv, TableInv, BaseInv, NoPanic
<1> QED BY <1>1, TableCorrect, PTL

\* Between two messages every process has a live parent, and a live tracer if
\* it is traced: exit_proc's loop, nested as it may be, misses nobody.
THEOREM FamiliesLive == Spec => []FamilyIsLive
<1>1. IInv => FamilyIsLive
  <2> SUFFICES ASSUME IInv, ~Running, NEW s \in Slot, InUse(pm, s)
               PROVE  /\ Live(pm.parent[s])
                      /\ pm.tracer[s] # NO_TRACER => Live(pm.tracer[s])
    BY DEF FamilyIsLive
  <2>1. Idle
    BY DEF Idle, IInv, TableInv, BaseInv
  <2> QED BY <2>1, IdleFacts DEF Live
<1> QED BY <1>1, TableCorrect, PTL

\* Between two messages nobody waits for an exit that has already happened.
THEOREM WakeupsKept == Spec => []NoLostWakeup
<1>1. IInv => NoLostWakeup
  BY DEF IInv, TableInv, Announced, NoLostWakeup
<1> QED BY <1>1, TableCorrect, PTL
=============================================================================
