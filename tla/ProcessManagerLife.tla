------------------------- MODULE ProcessManagerLife -------------------------
(***************************************************************************)
(* Two results about ProcessManager, for every table size and every choice *)
(* of the other constants, on top of IInv: nobody stays blocked whom       *)
(* nothing will wake, and the process table implements ProcessLife.        *)
(***************************************************************************)
EXTENDS ProcessManagerSafety

(***************************************************************************)
(* Nobody stays blocked in a call to PM whom nothing will wake: in every   *)
(* state each blocked process is owed its answer by an entry of the table. *)
(* With IInv this gives the whole of TableSafe, for every table size.      *)
(*                                                                         *)
(* The relation Owing says that a change of the table either ends a call   *)
(* or leaves its debtor.  It is transitive, so each routine of forkexit.c  *)
(* is followed through the same elementary changes as in the proof of IInv.*)
(***************************************************************************)

Blocking == {"wait", "fork", "ptrace", "born", "setsid", "exit"}

\* Entry c may end the waitpid that s is blocked in.
Waits(t, s, c) ==
  /\ InUse(t, c) /\ "TOLD_PARENT" \notin t.flags[c]
  /\ t.parent[c] = s \/ t.tracer[c] = s
  /\ t.parent[c] # s => "ZOMBIE" \notin t.flags[c]
  /\ t.wpid[s] > 0 => t.wpid[s] = t.pid[c]

\* Entry c owes s the answer to its call k; of a call of its own s keeps
\* track itself.
Owes(t, k, s, c) ==
  \/ k = "wait" /\ (t.wpid[s] < -1 \/ Waits(t, s, c))
  \/ /\ k = "fork" /\ t.vfs[c] = "fork" /\ t.parent[c] = s
     /\ "NEW_PARENT" \notin t.flags[c]
  \/ /\ k = "ptrace" /\ t.tracer[c] = s /\ "TRACE_EXIT" \in t.flags[c]
     /\ t.vfs[c] # "none"
  \/ k = "born" /\ t.vfs[s] = "fork"
  \/ k = "setsid" /\ t.vfs[s] = "setsid"
  \/ k = "exit" /\ s \in t.pend

\* Everybody who is blocked is owed an answer; PM is never blocked in a call.
WakerInv(t) ==
  /\ t.call[PM] \notin Blocking
  /\ \A s \in Slot : t.call[s] \in Blocking => \E c \in Slot : Owes(t, t.call[s], s, c)

\* Whoever is blocked in u was so in t, and is still owed what he was owed,
\* but for the processes in X.  (PM does not count: NO_TRACER is its slot.)
Owing(t, u, X) ==
  \A s \in Slot \ X : u.call[s] \in Blocking =>
    /\ u.call[s] = t.call[s]
    /\ s # PM => \A c \in Slot : Owes(t, t.call[s], s, c) => Owes(u, t.call[s], s, c)

LEMMA OwingTrans ==
  ASSUME NEW t, NEW u, NEW v, NEW X, Owing(t, u, X), Owing(u, v, X)
  PROVE  Owing(t, v, X)
<1> SUFFICES ASSUME NEW s \in Slot \ X, v.call[s] \in Blocking
             PROVE  /\ v.call[s] = t.call[s]
                    /\ s # PM => \A c \in Slot :
                         Owes(t, t.call[s], s, c) => Owes(v, t.call[s], s, c)
  BY DEF Owing
<1>1. /\ v.call[s] = u.call[s]
      /\ s # PM => \A c \in Slot : Owes(u, u.call[s], s, c) => Owes(v, u.call[s], s, c)
  BY Zenon DEF Owing
<1>2. /\ u.call[s] = t.call[s]
      /\ s # PM => \A c \in Slot : Owes(t, t.call[s], s, c) => Owes(u, t.call[s], s, c)
  BY <1>1, Zenon DEF Owing
<1> QED BY <1>1, <1>2, Zenon

\* What is left to show are the processes whose own calls change.
LEMMA OwingKeeps ==
  ASSUME NEW t, NEW u, NEW X \in SUBSET (Slot \ {PM}), WakerInv(t), Owing(t, u, X),
         \A p \in X : u.call[p] \in Blocking => \E c \in Slot : Owes(u, u.call[p], p, c)
  PROVE  WakerInv(u)
<1>1. PM \in Slot /\ PM \notin X
  BY ConstantTypes
<1>2. u.call[PM] \notin Blocking
  BY <1>1, Zenon DEF Owing, WakerInv
<1>3. ASSUME NEW s \in Slot, s \notin X, u.call[s] \in Blocking
      PROVE  \E c \in Slot : Owes(u, u.call[s], s, c)
  <2>1. /\ u.call[s] = t.call[s] /\ s # PM
        /\ \A c \in Slot : Owes(t, t.call[s], s, c) => Owes(u, t.call[s], s, c)
    BY <1>2, <1>3, Zenon DEF Owing
  <2>2. PICK c \in Slot : Owes(t, t.call[s], s, c)
    BY <1>3, <2>1, Zenon DEF WakerInv
  <2>3. Owes(u, u.call[s], s, c)
    BY <2>1, <2>2, Zenon
  <2> QED BY <2>3
<1> QED BY <1>2, <1>3, Zenon DEF WakerInv

LEMMA OwingMore ==
  ASSUME NEW t, NEW u, NEW X, Owing(t, u, {})
  PROVE  Owing(t, u, X)
BY Zenon DEF Owing

---------------------------------------------------------------------------
(* Changes of the table, field by field.                                   *)

\* A call of its own that s is still blocked in goes on.
OwnCall(t, u, s) ==
  /\ u.call[s] = t.call[s] /\ u.wpid[s] = t.wpid[s]
  /\ u.call[s] = "exit" /\ s \in t.pend => s \in u.pend
  /\ u.call[s] = "born" /\ t.vfs[s] = "fork" => u.vfs[s] = "fork"
  /\ u.call[s] = "setsid" /\ t.vfs[s] = "setsid" => u.vfs[s] = "setsid"

\* What entry c owes its parent or tracer s is still owed.
Debts(t, u, s, c) ==
  InUse(t, c) =>
    /\ InUse(u, c) /\ u.pid[c] = t.pid[c]
    /\ "TOLD_PARENT" \in u.flags[c] => "TOLD_PARENT" \in t.flags[c]
    /\ t.parent[c] = s =>
         /\ u.parent[c] = s
         /\ u.call[s] = "fork" /\ t.vfs[c] = "fork" /\ "NEW_PARENT" \notin t.flags[c] =>
              u.vfs[c] = "fork" /\ "NEW_PARENT" \notin u.flags[c]
    /\ t.tracer[c] = s =>
         /\ u.tracer[c] = s
         /\ "ZOMBIE" \in u.flags[c] => "ZOMBIE" \in t.flags[c]
         /\ u.call[s] = "ptrace" /\ "TRACE_EXIT" \in t.flags[c] /\ t.vfs[c] # "none" =>
              "TRACE_EXIT" \in u.flags[c] /\ u.vfs[c] # "none"

LEMMA FieldsOwing ==
  ASSUME NEW t, NEW u, NEW X, \A c \in Slot : SlotInv(t, c),
         \A s \in Slot \ X : u.call[s] \in Blocking =>
           OwnCall(t, u, s) /\ (s # PM => \A c \in Slot : Debts(t, u, s, c))
  PROVE  Owing(t, u, X)
<1>1. SUFFICES ASSUME NEW s \in Slot \ X, u.call[s] \in Blocking
               PROVE  /\ u.call[s] = t.call[s]
                      /\ s # PM => \A c \in Slot :
                           Owes(t, t.call[s], s, c) => Owes(u, t.call[s], s, c)
  BY DEF Owing
<1>2. OwnCall(t, u, s) /\ (s # PM => \A c \in Slot : Debts(t, u, s, c))
  BY <1>1
<1>3. SUFFICES ASSUME s # PM, NEW c \in Slot, Owes(t, t.call[s], s, c)
               PROVE  Owes(u, t.call[s], s, c)
  BY <1>2 DEF OwnCall
<1>4. Debts(t, u, s, c) /\ SlotInv(t, c)
  BY <1>2, <1>3
<1>5. t.vfs[c] # "none" => InUse(t, c)
  BY <1>4 DEF SlotInv, InUse
<1>6. Waits(t, s, c) => Waits(u, s, c)
  BY <1>2, <1>4 DEF Waits, Debts, OwnCall
<1> QED BY <1>2, <1>3, <1>4, <1>5, <1>6 DEF Owes, Debts, OwnCall

---------------------------------------------------------------------------
(* Frames.                                                                 *)

\* Debts that do not depend on waiting are left by equal flags and fields.
LEMMA FrameOwing ==
  ASSUME NEW t, NEW u, NEW c \in Slot, Frame(t, u, c), SlotInv(t, c),
         \A s \in Slot \ {PM} :
           u.call[s] = "wait" /\ Waits(t, s, c) => Waits(u, s, c)
  PROVE  Owing(t, u, {})
<1> USE DEF InUse, Exiting, VfsCall
<1>1. /\ t \in PMState /\ u \in PMState /\ SameRest(t, u)
      /\ \A x \in Slot : QuietCall(t, u, x)
      /\ \A x \in Slot \ {c} : QuietFlags(t, u, x)
      /\ QuietFlags(t, u, c) \/ Relabeled(t, u, c) \/ Freed(t, u, c)
  BY DEF Frame
<1>2. SUFFICES ASSUME NEW s \in Slot, u.call[s] \in Blocking
               PROVE  /\ u.call[s] = t.call[s]
                      /\ s # PM => \A x \in Slot :
                           Owes(t, t.call[s], s, x) => Owes(u, t.call[s], s, x)
  BY DEF Owing
<1>3. u.call[s] = t.call[s]
  BY <1>1, <1>2 DEF QuietCall, Blocking
<1>4. SUFFICES ASSUME s # PM, NEW x \in Slot, Owes(t, t.call[s], s, x)
               PROVE  Owes(u, t.call[s], s, x)
  BY <1>3
<1>5. /\ u.parent = t.parent /\ u.tracer = t.tracer /\ u.wpid = t.wpid
      /\ u.pend = t.pend /\ u.vfs = t.vfs
  BY <1>1 DEF SameRest
<1>6. CASE t.call[s] = "wait"
  <2>1. CASE t.wpid[s] < -1
    BY <1>5, <1>6, <2>1 DEF Owes
  <2>2. CASE ~(t.wpid[s] < -1)
    <3>1. Waits(t, s, x)
      BY <1>4, <1>6, <2>2 DEF Owes
    <3>2. Waits(u, s, x)
      <4>1. CASE x = c
        BY <1>3, <1>4, <1>6, <3>1, <4>1
      <4>2. CASE x # c
        BY <1>1, <1>5, <3>1, <4>2 DEF Waits, QuietFlags, Same
      <4> QED BY <4>1, <4>2
    <3> QED BY <1>6, <3>2 DEF Owes
  <2> QED BY <2>1, <2>2
<1>7. CASE t.call[s] # "wait"
  <2>1. t.vfs[x] # "none" => /\ Same(t, u, x, "NEW_PARENT")
                             /\ Same(t, u, x, "TRACE_EXIT")
    <3>1. CASE x # c
      BY <1>1, <3>1 DEF QuietFlags
    <3>2. CASE x = c
      BY <1>1, <3>2 DEF QuietFlags, Relabeled, Freed, SlotInv
    <3> QED BY <3>1, <3>2
  <2> QED BY <1>4, <1>5, <1>7, <2>1 DEF Owes, Same
<1> QED BY <1>6, <1>7

LEMMA QuietOwing ==
  ASSUME NEW t, NEW u, \A x \in Slot : Frame(t, u, x) /\ SlotInv(t, x)
  PROVE  Owing(t, u, {})
<1>1. PICK c \in Slot, y \in Slot : y # c
  BY ConstantTypes
<1>2. QuietFlags(t, u, c) /\ SameRest(t, u)
  BY <1>1 DEF Frame
<1>3. \A s \in Slot : Waits(t, s, c) => Waits(u, s, c)
  BY <1>2 DEF Waits, QuietFlags, SameRest, Same, InUse
<1> QED BY <1>3, FrameOwing

LEMMA OwingSelf ==
  ASSUME NEW t, NEW X
  PROVE  Owing(t, t, X)
BY Zenon DEF Owing

\* check_parent ends the wait of the parent it tells; a slot is freed only
\* when nobody can wait for it any more.
LEMMA CheckParentOwing ==
  ASSUME NEW t \in PMState, NEW c \in Slot, NEW a \in [Slot -> Activation],
         NEW b \in BOOLEAN, BaseInv(t, a), "ZOMBIE" \in t.flags[c]
  PROVE  Owing(t, check_parent(t, c, b), {})
<1> DEFINE p == t.parent[c]
           u == tell_parent(t, c)
           v == cleanup(u, c)
<1>0. /\ \A x \in Slot : SlotInv(t, x)
      /\ FamilyInv(t, a, c) /\ p \in Slot
      /\ Exiting(t, c) /\ InUse(t, c)
      /\ "TRACE_ZOMBIE" \notin t.flags[c] /\ "TOLD_PARENT" \notin t.flags[c]
      /\ p # PM /\ InUse(t, p)
  <2>1. (\A x \in Slot : SlotInv(t, x)) /\ FamilyInv(t, a, c) /\ p \in Slot
    BY DEF BaseInv, PMState
  <2> QED BY <2>1 DEF SlotInv, FamilyInv, Exiting, InUse
<1>1. CASE Exiting(t, p)
  BY <1>1, OwingSelf DEF check_parent
<1>2. CASE ~Exiting(t, p) /\ ~wait_test(t, p, c)
  <2>1. check_parent(t, c, b) = sig_proc(t, p)
    BY <1>2 DEF check_parent
  <2>2. \A x \in Slot : Frame(t, sig_proc(t, p), x)
    BY <1>0, <1>2, SigProcFrame
  <2> QED BY <1>0, <2>1, <2>2, QuietOwing
<1>3. CASE ~Exiting(t, p) /\ wait_test(t, p, c)
  <2>1. Awaits(t, p) /\ p # c
    BY <1>0, <1>3 DEF wait_test, BaseInv, CallInv, Awaits
  <2>2. /\ Frame(t, u, c) /\ Relabeled(t, u, c)
        /\ u.flags[c] = (t.flags[c] \ {"ZOMBIE"}) \cup {"TOLD_PARENT"}
        /\ u.call[p] # "wait"
    BY <1>0, <2>1, TellParentFrame
  <2>3. check_parent(t, c, b) = IF b /\ ~VfsCall(u, c) THEN v ELSE u
    BY <1>3 DEF check_parent
  <2> HIDE DEF u
  <2>4. \A s \in Slot \ {PM} : u.call[s] = "wait" /\ Waits(t, s, c) => Waits(u, s, c)
    BY <2>2 DEF Waits
  <2>5. Owing(t, u, {})
    BY <1>0, <2>2, <2>4, FrameOwing
  <2>6. CASE b /\ ~VfsCall(u, c)
    <3>1. u \in PMState /\ BaseInv(u, a)
      BY <2>2, FrameKept DEF Kept
    <3>2. SlotInv(u, c) /\ Exiting(u, c)
      BY <2>2, <3>1 DEF BaseInv, Relabeled, Same, Exiting
    <3>3. Frame(u, v, c)
      BY <2>6, <3>1, <3>2, CleanupFrame DEF SlotInv, Exiting
    <3>4. \A s \in Slot : ~Waits(u, s, c)
      BY <2>2 DEF Waits
    <3> HIDE DEF v
    <3>5. Owing(u, v, {})
      BY <3>2, <3>3, <3>4, FrameOwing
    <3> QED BY <2>3, <2>5, <2>6, <3>5, OwingTrans
  <2>7. CASE ~(b /\ ~VfsCall(u, c))
    BY <2>3, <2>5, <2>7
  <2> QED BY <2>6, <2>7
<1> QED BY <1>1, <1>2, <1>3

\* zombify tells a tracer that waits; until then its parent can still wait.
LEMMA ZombifyOwing ==
  ASSUME NEW t \in PMState, NEW c \in Slot, NEW a \in [Slot -> Activation],
         BaseInv(t, a), Exiting(t, c),
         "ZOMBIE" \notin t.flags[c], "TRACE_ZOMBIE" \notin t.flags[c],
         "TOLD_PARENT" \notin t.flags[c]
  PROVE  Owing(t, zombify(t, c), {})
<1> DEFINE d == t.tracer[c]
           z == SetFlags(t, c, {"TRACE_ZOMBIE"})
           y == SetFlags(t, c, {"ZOMBIE"})
           w == tell_tracer(z, c)
<1>0. /\ SlotInv(t, c) /\ FamilyInv(t, a, c) /\ d \in Slot /\ InUse(t, c)
  <2>1. SlotInv(t, c) /\ FamilyInv(t, a, c) /\ d \in Slot
    BY DEF BaseInv, PMState
  <2> QED BY <2>1 DEF SlotInv, Exiting, InUse
<1>1. zombify(t, c) =
        IF d # NO_TRACER /\ d # t.parent[c]
        THEN IF wait_test(z, d, c) THEN check_parent(w, c, FALSE) ELSE z
        ELSE check_parent(y, c, FALSE)
  <2>1. {"ZOMBIE", "TRACE_ZOMBIE"} \cap t.flags[c] = {}
    OBVIOUS
  <2> QED BY <2>1 DEF zombify, Panic
<1>2. /\ z \in PMState /\ SameRest(t, z) /\ SameFlagsBut(t, z, c)
      /\ z.flags[c] = t.flags[c] \cup {"TRACE_ZOMBIE"}
      /\ z.call = t.call /\ z.pid = t.pid /\ z.procs_in_use = t.procs_in_use
  BY SetFields DEF Flag
<1>3. /\ y \in PMState /\ SameRest(t, y) /\ SameFlagsBut(t, y, c)
      /\ y.flags[c] = t.flags[c] \cup {"ZOMBIE"}
      /\ y.call = t.call /\ y.pid = t.pid /\ y.procs_in_use = t.procs_in_use
  BY SetFields DEF Flag
<1> HIDE DEF z, y
<1>4. Frame(t, y, c)
  <2>1. Relabeled(t, y, c)
    BY <1>3 DEF Relabeled, Same
  <2>2. \A x \in Slot \ {c} : QuietFlags(t, y, x)
    BY <1>3 DEF QuietFlags, Same, SameFlagsBut
  <2>3. \A x \in Slot : QuietCall(t, y, x)
    BY <1>3 DEF QuietCall, SameFlagsBut
  <2> QED BY <1>3, <2>1, <2>2, <2>3 DEF Frame
<1>5. ASSUME d # NO_TRACER PROVE Frame(t, z, c)
  <2>1. Relabeled(t, z, c)
    BY <1>2, <1>5 DEF Relabeled, Same
  <2>2. \A x \in Slot \ {c} : QuietFlags(t, z, x)
    BY <1>2 DEF QuietFlags, Same, SameFlagsBut
  <2>3. \A x \in Slot : QuietCall(t, z, x)
    BY <1>2 DEF QuietCall, SameFlagsBut
  <2> QED BY <1>2, <2>1, <2>2, <2>3 DEF Frame
<1>6. CASE ~(d # NO_TRACER /\ d # t.parent[c])
  <2>1. \A s \in Slot \ {PM} : Waits(t, s, c) => Waits(y, s, c)
    BY <1>3, <1>6 DEF Waits, SameRest, NO_TRACER, PM, InUse
  <2>2. Owing(t, y, {})
    BY <1>0, <1>4, <2>1, FrameOwing
  <2>3. BaseInv(y, a)
    BY <1>4, FrameKept DEF Kept
  <2>4. Owing(y, check_parent(y, c, FALSE), {})
    BY <1>3, <2>3, CheckParentOwing
  <2> QED BY <1>1, <1>6, <2>2, <2>4, OwingTrans
<1>7. CASE d # NO_TRACER /\ d # t.parent[c]
  <2>1. \A s \in Slot : Waits(t, s, c) => Waits(z, s, c)
    BY <1>2 DEF Waits, SameRest, InUse
  <2>2. Owing(t, z, {})
    BY <1>0, <1>5, <1>7, <2>1, FrameOwing
  <2>3. CASE ~wait_test(z, d, c)
    BY <1>1, <1>7, <2>2, <2>3
  <2>4. CASE wait_test(z, d, c)
    <3>1. BaseInv(z, a)
      BY <1>5, <1>7, FrameKept DEF Kept
    <3>2. Awaits(z, d) /\ d # c /\ z.tracer[c] = d /\ Exiting(z, c) /\ SlotInv(z, c)
      <4>1. "WAITING" \in z.flags[d] /\ CallInv(z, d) /\ SlotInv(z, c) /\ Exiting(z, c)
        BY <1>0, <1>2, <2>4, <3>1 DEF wait_test, BaseInv, Exiting
      <4> QED BY <1>2, <4>1 DEF Awaits, CallInv, SlotInv, SameRest, Exiting
    <3>3. /\ Frame(z, w, c)
          /\ w.flags[c] = (z.flags[c] \ {"TRACE_ZOMBIE"}) \cup {"ZOMBIE"}
          /\ w.call[d] # "wait"
      BY <1>2, <1>7, <3>2, TellTracerFrame
    <3> HIDE DEF w
    <3>4. w \in PMState /\ BaseInv(w, a) /\ SameRest(z, w) /\ w.pid[c] = z.pid[c]
      <4>1. w.flags[c] # {}
        BY <3>3
      <4> QED BY <3>1, <3>3, <4>1, FrameKept DEF Kept, Frame, QuietFlags, Relabeled, Freed
    <3>5. \A s \in Slot \ {PM} : w.call[s] = "wait" /\ Waits(z, s, c) => Waits(w, s, c)
      BY <3>2, <3>3, <3>4 DEF Waits, SameRest, InUse
    <3>6. Owing(z, w, {})
      BY <3>2, <3>3, <3>5, FrameOwing
    <3>7. Owing(w, check_parent(w, c, FALSE), {})
      BY <3>3, <3>4, CheckParentOwing
    <3>8. Owing(t, w, {})
      BY <2>2, <3>6, OwingTrans
    <3> QED BY <1>1, <1>7, <2>4, <3>7, <3>8, OwingTrans
  <2> QED BY <2>3, <2>4
<1> QED BY <1>6, <1>7

---------------------------------------------------------------------------
(* exit_proc, up to its loop.                                              *)

LEMMA MarkedOwing ==
  ASSUME NEW t, NEW w, NEW s \in Slot, NEW req \in {"exit", "dump"},
         Marked(t, w, s, req), SlotInv(t, s), ~Exiting(t, s), ~VfsCall(t, s)
  PROVE  Owing(t, w, {})
<1> USE DEF InUse, Exiting, VfsCall
<1>0. t \in PMState /\ w \in PMState
  BY DEF Marked
<1>1. /\ w.call[s] = "dead" /\ \A x \in Slot \ {s} : w.call[x] = t.call[x]
      /\ w.vfs[s] = req /\ \A x \in Slot \ {s} : w.vfs[x] = t.vfs[x]
      /\ \A x \in Slot \ {s} : w.flags[x] = t.flags[x]
      /\ w.flags[s] = ((t.flags[s] \cup {"VFS_CALL"})
                         \cap {"IN_USE", "VFS_CALL", "PRIV_PROC", "TRACE_EXIT"})
                      \cup {"EXITING"}
      /\ w.pend = t.pend \ {s}
  BY <1>0 DEF Marked, PMState
<1>2. /\ w.parent = t.parent /\ w.tracer = t.tracer /\ w.pid = t.pid
      /\ w.wpid = t.wpid
  BY DEF Marked
<1>3. t.vfs[s] = "none"
  BY DEF SlotInv
<1>4. SUFFICES ASSUME NEW x \in Slot, w.call[x] \in Blocking, NEW c \in Slot,
                      Owes(t, t.call[x], x, c)
               PROVE  Owes(w, t.call[x], x, c)
  <2>1. \A x \in Slot : w.call[x] \in Blocking => w.call[x] = t.call[x]
    BY <1>1 DEF Blocking
  <2> QED BY <2>1 DEF Owing
<1>5. x # s
  BY <1>1, <1>4 DEF Blocking
<1>6. Waits(t, x, c) => Waits(w, x, c)
  <2>1. CASE c = s
    BY <1>1, <1>2, <2>1 DEF Waits
  <2>2. CASE c # s
    BY <1>1, <1>2, <2>2 DEF Waits
  <2> QED BY <2>1, <2>2
<1>7. CASE c = s
  BY <1>1, <1>2, <1>3, <1>4, <1>5, <1>6, <1>7 DEF Owes
<1>8. CASE c # s
  BY <1>1, <1>2, <1>4, <1>5, <1>6, <1>8 DEF Owes
<1> QED BY <1>7, <1>8

\* exit_proc: whoever waits for the process can wait for it still.
LEMMA BeginExitOwing ==
  ASSUME NEW t \in PMState, NEW s \in Slot \ Boot,
         NEW b \in BOOLEAN, NEW a \in [Slot -> Activation],
         NEW n \in Activation, n.at = "tracer", n.idx = 0,
         BaseInv(t, a), InUse(t, s), ~Exiting(t, s), ~VfsCall(t, s), Ready(t, s)
  PROVE  Owing(t, begin_exit(t, s, b), {})
<1> DEFINE e == [a EXCEPT ![s] = n]
           req == IF b THEN "dump" ELSE "exit"
<1>0. e \in [Slot -> Activation] /\ req \in {"exit", "dump"}
  OBVIOUS
<1>1. PICK w : /\ Marked(t, w, s, req)
               /\ begin_exit(t, s, b) = IF b THEN w ELSE zombify(w, s)
  BY BeginExitMarked, BootSlots
<1>2. SlotInv(t, s)
  BY DEF BaseInv
<1>3. BaseInv(w, e) /\ w \in PMState
  BY <1>0, <1>1, MarkedBase DEF Marked
<1>4. Owing(t, w, {})
  BY <1>0, <1>1, <1>2, MarkedOwing
<1>5. /\ Exiting(w, s) /\ "ZOMBIE" \notin w.flags[s]
      /\ "TRACE_ZOMBIE" \notin w.flags[s] /\ "TOLD_PARENT" \notin w.flags[s]
  BY <1>1 DEF Marked, PMState, Exiting
<1> HIDE DEF e, req
<1>6. Owing(w, zombify(w, s), {})
  BY <1>0, <1>3, <1>5, ZombifyOwing
<1> QED BY <1>1, <1>4, <1>6, OwingTrans

LEMMA InitExitOwing ==
  ASSUME NEW t \in PMState, NEW b \in BOOLEAN
  PROVE  Owing(t, begin_exit(t, INIT_PROC_NR, b), {})
<1> DEFINE i == INIT_PROC_NR
           u == [t EXCEPT !.call[i] = "dead", !.pend = @ \ {i}]
<1>0. i \in Slot /\ begin_exit(t, i, b) = u
  BY ConstantTypes DEF begin_exit
<1>1. /\ u.flags = t.flags /\ u.vfs = t.vfs /\ u.pend = t.pend \ {i}
      /\ u.parent = t.parent /\ u.tracer = t.tracer /\ u.pid = t.pid
      /\ u.wpid = t.wpid
      /\ u.call[i] = "dead" /\ \A x \in Slot \ {i} : u.call[x] = t.call[x]
  BY <1>0 DEF PMState
<1> HIDE DEF u, i
<1>2. SUFFICES Owing(t, u, {})
  BY <1>0 DEF i
<1>3. \A x \in Slot : u.call[x] \in Blocking => x # i /\ u.call[x] = t.call[x]
  BY <1>1 DEF Blocking
<1>4. \A x, c \in Slot : Waits(t, x, c) => Waits(u, x, c)
  BY <1>1 DEF Waits, InUse
<1> QED BY <1>1, <1>3, <1>4 DEF Owing, Owes

LEMMA ExitProcOwing ==
  ASSUME IInv, Idle, NEW t \in PMState, NEW s \in Slot, NEW b \in BOOLEAN,
         NEW m \in Slot, exit_proc(t, s, b, m), BaseInv(t, act),
         InUse(t, s), ~Exiting(t, s), ~VfsCall(t, s), s \notin Boot \ {INIT_PROC_NR},
         Ready(t, s)
  PROVE  Owing(t, pm', {})
<1>0. pm' = begin_exit(t, s, b)
  BY DEF exit_proc
<1>1. CASE s = INIT_PROC_NR
  BY <1>0, <1>1, InitExitOwing
<1>2. CASE s # INIT_PROC_NR
  <2> DEFINE n == new_activation(t, s, m)
  <2>1. n \in Activation /\ n.at = "tracer" /\ n.idx = 0
    BY ActivationType DEF new_activation
  <2>2. act \in [Slot -> Activation] /\ s \in Slot \ Boot
    BY <1>2 DEF IInv, TypeOK
  <2> HIDE DEF n
  <2> QED BY <1>0, <2>1, <2>2, BeginExitOwing
<1> QED BY <1>1, <1>2

---------------------------------------------------------------------------
(* Exits and signals.                                                      *)

\* A remembered signal ends no call.
LEMMA PendOwing ==
  ASSUME NEW t \in PMState, NEW s \in Slot
  PROVE  Owing(t, [t EXCEPT !.pend = @ \cup {s}], {})
<1> DEFINE u == [t EXCEPT !.pend = @ \cup {s}]
<1>1. /\ u.flags = t.flags /\ u.vfs = t.vfs /\ u.pend = t.pend \cup {s}
      /\ u.parent = t.parent /\ u.tracer = t.tracer /\ u.pid = t.pid
      /\ u.wpid = t.wpid /\ u.call = t.call
  BY DEF PMState
<1> HIDE DEF u
<1>2. SUFFICES Owing(t, u, {})
  BY DEF u
<1>3. \A x, c \in Slot : Waits(t, x, c) => Waits(u, x, c)
  BY <1>1 DEF Waits, InUse
<1> QED BY <1>1, <1>3 DEF Owing, Owes

\* A process that can call PM, entering a call: all but it itself are owed
\* what they were.
LEMMA EnterOwing ==
  ASSUME NEW t \in PMState, NEW p \in Slot, NEW k \in Call
  PROVE  Owing(t, [t EXCEPT !.call[p] = k], {p})
<1> DEFINE u == [t EXCEPT !.call[p] = k]
<1>1. /\ u.flags = t.flags /\ u.vfs = t.vfs /\ u.pend = t.pend
      /\ u.parent = t.parent /\ u.tracer = t.tracer /\ u.pid = t.pid
      /\ u.wpid = t.wpid /\ \A x \in Slot \ {p} : u.call[x] = t.call[x]
  BY DEF PMState
<1> HIDE DEF u
<1>2. SUFFICES Owing(t, u, {p})
  BY DEF u
<1>3. \A x, c \in Slot : Waits(t, x, c) => Waits(u, x, c)
  BY <1>1 DEF Waits, InUse
<1> QED BY <1>1, <1>3 DEF Owing, Owes

LEMMA KeepsAll ==
  ASSUME NEW t, NEW u, WakerInv(t), Owing(t, u, {})
  PROVE  WakerInv(u)
<1>1. {} \in SUBSET (Slot \ {PM})
  OBVIOUS
<1> QED BY <1>1, OwingKeeps

LEMMA ExitWakers ==
  ASSUME IInv, WakerInv(pm), NEW p \in Slot \ {PM}, do_exit(p)
  PROVE  WakerInv(pm')
<1>0. Idle /\ Runnable(p) /\ p # RS_PROC_NR
  BY PMAssumption DEF do_exit
<1>1. pm \in PMState /\ BaseInv(pm, act)
  BY <1>0, IdleFacts
<1>2. CASE Priv(pm, p)
  <2> DEFINE t == [pm EXCEPT !.call[p] = "exit"]
  <2>1. t \in PMState /\ t.call[p] = "exit" /\ Owing(pm, t, {p})
    BY <1>1, EnterOwing DEF PMState, Call
  <2>2. pm' = [t EXCEPT !.pend = @ \cup {p}]
    BY <1>1, <1>2 DEF do_exit, PMState
  <2> HIDE DEF t
  <2>3. Owing(t, pm', {p})
    BY <2>1, <2>2, PendOwing, OwingMore
  <2>4. Owing(pm, pm', {p})
    BY <2>1, <2>3, OwingTrans
  <2>5. pm'.call[p] = "exit" /\ p \in pm'.pend
    BY <2>1, <2>2 DEF PMState
  <2>6. Owes(pm', pm'.call[p], p, p)
    BY <2>5 DEF Owes
  <2>7. {p} \in SUBSET (Slot \ {PM})
    OBVIOUS
  <2> QED BY <2>4, <2>6, <2>7, OwingKeeps
<1>3. CASE ~Priv(pm, p)
  <2>1. InUse(pm, p) /\ ~Exiting(pm, p) /\ ~VfsCall(pm, p)
    BY <1>0, <1>3, RunnableFacts
  <2>2. Ready(pm, p)
    BY <1>0, <2>1, ReadyFacts
  <2>3. p \notin Boot \ {INIT_PROC_NR}
    BY <1>0 DEF Boot
  <2>4. Owing(pm, pm', {})
    BY <1>0, <1>1, <1>3, <2>1, <2>2, <2>3, ExitProcOwing DEF do_exit
  <2> QED BY <2>4, KeepsAll
<1> QED BY <1>2, <1>3

LEMMA KillWakers ==
  ASSUME IInv, WakerInv(pm), NEW k \in Slot \ {PM}, NEW p \in Slot \ {PM}, Kill(k, p)
  PROVE  WakerInv(pm')
<1>0. Idle /\ p # RS_PROC_NR /\ InUse(pm, p) /\ ~Exiting(pm, p)
  BY PMAssumption DEF Kill
<1>1. pm \in PMState /\ BaseInv(pm, act)
  BY <1>0, IdleFacts
<1>2. CASE VfsCall(pm, p)
  BY <1>1, <1>2, PendOwing, KeepsAll DEF Kill
<1>3. CASE ~VfsCall(pm, p)
  <2>1. PICK b \in BOOLEAN : exit_proc(pm, p, b, k)
    BY <1>3 DEF Kill, DumpChoice
  <2>2. Ready(pm, p)
    BY <1>0, <1>3, ReadyFacts
  <2>3. p \notin Boot \ {INIT_PROC_NR}
    BY <1>0 DEF Boot
  <2>4. Owing(pm, pm', {})
    BY <1>0, <1>1, <1>3, <2>1, <2>2, <2>3, ExitProcOwing
  <2> QED BY <2>4, KeepsAll
<1> QED BY <1>2, <1>3

LEMMA KernelKillWakers ==
  ASSUME IInv, WakerInv(pm), NEW p \in Slot \ {PM}, KernelKill(p)
  PROVE  WakerInv(pm')
<1>0. Idle /\ p \in pm.pend /\ ~VfsCall(pm, p) /\ exit_proc(pm, p, FALSE, PM)
  BY DEF KernelKill
<1>1. pm \in PMState /\ BaseInv(pm, act) /\ BootInv(pm)
  BY <1>0, IdleFacts DEF BaseInv
<1>2. InUse(pm, p) /\ ~Exiting(pm, p) /\ p \notin Boot
  <2>1. PendInv(pm, p)
    BY <1>1 DEF BaseInv
  <2> QED BY <1>0, <1>1, <2>1 DEF PendInv, BootInv
<1>3. Ready(pm, p)
  BY <1>0, <1>2, ReadyFacts
<1>4. Owing(pm, pm', {})
  BY <1>0, <1>1, <1>2, <1>3, ExitProcOwing, ConstantTypes
<1> QED BY <1>4, KeepsAll

---------------------------------------------------------------------------
(* waitpid.                                                                *)

LEMMA WaitTracerWakers ==
  ASSUME IInv, Idle, WakerInv(pm), NEW p \in Slot \ {PM}, Runnable(p), NEW c \in Slot,
         "TRACE_ZOMBIE" \in pm.flags[c], pm.tracer[c] = p
  PROVE  WakerInv(check_parent(tell_tracer([pm EXCEPT !.call[p] = "wait"], c), c, TRUE))
<1> DEFINE t == [pm EXCEPT !.call[p] = "wait"]
           z == tell_tracer(t, c)
           u == check_parent(z, c, TRUE)
<1>0. act \in [Slot -> Activation] /\ pm \in PMState
  BY IdleFacts
<1>1. /\ t \in PMState /\ BaseInv(t, act) /\ \A x \in Slot : Announced(t, x)
      /\ t.call[p] = "wait" /\ SameRest(pm, t) /\ t.flags = pm.flags
  BY EnterCall DEF Call
<1>e. Owing(pm, t, {p})
  <2>1. "wait" \in Call
    BY DEF Call
  <2> QED BY <1>0, <2>1, EnterOwing
<1> HIDE DEF t
<1>2. /\ SlotInv(t, c) /\ t.tracer[c] = p /\ "TRACE_ZOMBIE" \in t.flags[c]
      /\ p # NO_TRACER /\ ~Exiting(t, p)
  BY <1>1 DEF BaseInv, SameRest, Runnable, Exiting, NO_TRACER, PM
<1>3. /\ Exiting(t, c) /\ "ZOMBIE" \notin t.flags[c] /\ "TOLD_PARENT" \notin t.flags[c]
      /\ t.vfs[c] # "dump" /\ p # c
  BY <1>1, <1>2 DEF SlotInv, Exiting, Announced
<1>4. /\ Frame(t, z, c) /\ z.flags[c] = (t.flags[c] \ {"TRACE_ZOMBIE"}) \cup {"ZOMBIE"}
      /\ z.call[p] # "wait"
  BY <1>1, <1>2, <1>3, TellTracerFrame DEF Awaits
<1> HIDE DEF z
<1>5. /\ z \in PMState /\ BaseInv(z, act) /\ SameRest(t, z) /\ z.vfs[c] # "dump"
      /\ z.call[p] = "run" /\ z.pid[c] = t.pid[c]
  <2>1. z.flags[c] # {}
    BY <1>4
  <2> QED BY <1>0, <1>1, <1>3, <1>4, <2>1, FrameKept
          DEF Kept, SameRest, Frame, QuietCall, QuietFlags, Relabeled, Freed
<1>6. \A s \in Slot \ {PM} : z.call[s] = "wait" /\ Waits(t, s, c) => Waits(z, s, c)
  BY <1>2, <1>4, <1>5 DEF Waits, SameRest, InUse
<1>7. Owing(t, z, {})
  BY <1>2, <1>4, <1>6, FrameOwing
<1>8. Owing(z, u, {}) /\ u.call[p] = "run"
  <2>1. "ZOMBIE" \in z.flags[c]
    BY <1>4
  <2>2. Owing(z, u, {})
    BY <1>0, <1>5, <2>1, CheckParentOwing
  <2>3. Kept(z, u, act, c)
    BY <1>0, <1>5, <2>1, CheckParentKept
  <2> HIDE DEF u
  <2> QED BY <1>5, <2>2, <2>3 DEF Kept
<1> HIDE DEF u
<1>9. Owing(pm, u, {p})
  <2>1. Owing(t, z, {p}) /\ Owing(z, u, {p})
    BY <1>7, <1>8, OwingMore
  <2> QED BY <1>e, <2>1, OwingTrans
<1>10. u.call[p] \notin Blocking
  BY <1>8 DEF Blocking
<1>11. {p} \in SUBSET (Slot \ {PM})
  OBVIOUS
<1>12. WakerInv(u)
  BY <1>9, <1>10, <1>11, OwingKeeps
<1> QED BY <1>12 DEF u, z, t

LEMMA WaitChildWakers ==
  ASSUME IInv, Idle, WakerInv(pm), NEW p \in Slot \ {PM}, Runnable(p), NEW c \in Slot,
         "ZOMBIE" \in pm.flags[c], pm.parent[c] = p
  PROVE  LET z == tell_parent([pm EXCEPT !.call[p] = "wait"], c)
         IN  WakerInv(IF VfsCall(z, c) THEN z ELSE cleanup(z, c))
<1> DEFINE t == [pm EXCEPT !.call[p] = "wait"]
           z == tell_parent(t, c)
           y == cleanup(z, c)
<1>0. act \in [Slot -> Activation] /\ pm \in PMState
  BY IdleFacts
<1>1. /\ t \in PMState /\ BaseInv(t, act)
      /\ t.call[p] = "wait" /\ SameRest(pm, t) /\ t.flags = pm.flags
  BY EnterCall DEF Call
<1>e. Owing(pm, t, {p})
  <2>1. "wait" \in Call
    BY DEF Call
  <2> QED BY <1>0, <2>1, EnterOwing
<1> HIDE DEF t
<1>2. /\ SlotInv(t, c) /\ t.parent[c] = p /\ "ZOMBIE" \in t.flags[c]
      /\ p # PM /\ ~Exiting(t, p)
  BY <1>1 DEF BaseInv, SameRest, Runnable, Exiting
<1>3. /\ Exiting(t, c) /\ "TRACE_ZOMBIE" \notin t.flags[c]
      /\ "TOLD_PARENT" \notin t.flags[c] /\ p # c
  BY <1>1, <1>2 DEF SlotInv, Exiting
<1>4. /\ Frame(t, z, c) /\ z.flags[c] = (t.flags[c] \ {"ZOMBIE"}) \cup {"TOLD_PARENT"}
      /\ z.call[p] # "wait"
  BY <1>1, <1>2, <1>3, TellParentFrame DEF Awaits
<1> HIDE DEF z
<1>5. z \in PMState /\ BaseInv(z, act) /\ z.call[p] = "run"
  BY <1>0, <1>1, <1>4, FrameKept DEF Kept, Frame, QuietCall
<1>6. \A s \in Slot \ {PM} : z.call[s] = "wait" /\ Waits(t, s, c) => Waits(z, s, c)
  BY <1>2, <1>4 DEF Waits
<1>7. Owing(pm, z, {p})
  <2>1. Owing(t, z, {})
    BY <1>2, <1>4, <1>6, FrameOwing
  <2>2. Owing(t, z, {p})
    BY <2>1, OwingMore
  <2> QED BY <1>e, <2>2, OwingTrans
<1>8. {p} \in SUBSET (Slot \ {PM})
  OBVIOUS
<1>9. CASE VfsCall(z, c)
  <2>1. z.call[p] \notin Blocking
    BY <1>5 DEF Blocking
  <2>2. WakerInv(z)
    BY <1>7, <1>8, <2>1, OwingKeeps
  <2> QED BY <1>9, <2>2 DEF z, t
<1>10. CASE ~VfsCall(z, c)
  <2>1. SlotInv(z, c) /\ Exiting(z, c)
    BY <1>3, <1>4, <1>5 DEF BaseInv, Exiting
  <2>2. z.call[c] = "dead"
    BY <2>1 DEF SlotInv, Exiting
  <2>3. Frame(z, y, c)
    BY <1>5, <1>10, <2>1, <2>2, CleanupFrame
  <2> HIDE DEF y
  <2>4. \A s \in Slot : ~Waits(z, s, c)
    BY <1>4 DEF Waits
  <2>5. Owing(z, y, {})
    BY <2>1, <2>3, <2>4, FrameOwing
  <2>6. Owing(pm, y, {p})
    BY <1>7, <2>5, OwingMore, OwingTrans
  <2>7. y.call[p] \notin Blocking
    BY <1>5, <2>3 DEF Frame, QuietCall, Blocking
  <2>8. WakerInv(y)
    BY <1>8, <2>6, <2>7, OwingKeeps
  <2> QED BY <1>10, <2>8 DEF y, z, t
<1> QED BY <1>9, <1>10

\* A process blocks in waitpid only if there is one it can wait for.
LEMMA WaitBlocksWakers ==
  ASSUME IInv, Idle, WakerInv(pm), NEW p \in Slot \ {PM}, Runnable(p), NEW arg \in Int,
         Waitable(pm, p, arg) # {},
         pm' = [SetFlags([pm EXCEPT !.call[p] = "wait"], p, {"WAITING"})
                  EXCEPT !.wpid[p] = arg]
  PROVE  WakerInv(pm')
<1> DEFINE t == [pm EXCEPT !.call[p] = "wait"]
           w == SetFlags(t, p, {"WAITING"})
           u == [w EXCEPT !.wpid[p] = arg]
<1>0. pm \in PMState /\ BaseInv(pm, act)
  BY IdleFacts
<1>1. /\ t \in PMState /\ t.call[p] = "wait"
      /\ \A x \in Slot \ {p} : t.call[x] = pm.call[x]
      /\ SameRest(pm, t) /\ t.flags = pm.flags /\ t.pid = pm.pid
  BY EnterCall DEF Call
<1> HIDE DEF t
<1>2. /\ w \in PMState /\ SameRest(t, w) /\ SameFlagsBut(t, w, p)
      /\ w.flags[p] = t.flags[p] \cup {"WAITING"}
      /\ w.call = t.call /\ w.pid = t.pid
  BY <1>1, SetFields DEF Flag
<1> HIDE DEF w
<1>3. /\ u.flags = w.flags /\ u.pid = w.pid /\ u.pend = w.pend
      /\ u.parent = w.parent /\ u.tracer = w.tracer /\ u.vfs = w.vfs
      /\ u.call = w.call
      /\ u.wpid[p] = arg /\ \A x \in Slot \ {p} : u.wpid[x] = w.wpid[x]
  BY <1>2 DEF PMState
<1>4. pm' = u
  BY DEF w, t
<1> HIDE DEF u
<1>5. /\ u.pid = pm.pid /\ u.pend = pm.pend /\ u.parent = pm.parent
      /\ u.tracer = pm.tracer /\ u.vfs = pm.vfs
      /\ u.call[p] = "wait" /\ \A x \in Slot \ {p} : u.call[x] = pm.call[x]
      /\ u.wpid[p] = arg /\ \A x \in Slot \ {p} : u.wpid[x] = pm.wpid[x]
      /\ u.flags[p] = pm.flags[p] \cup {"WAITING"}
      /\ \A x \in Slot \ {p} : u.flags[x] = pm.flags[x]
  BY <1>1, <1>2, <1>3 DEF SameRest, SameFlagsBut
<1>6. \A x \in Slot : \A f \in {"IN_USE", "TOLD_PARENT", "ZOMBIE", "NEW_PARENT",
                               "TRACE_EXIT"} : f \in u.flags[x] <=> f \in pm.flags[x]
  BY <1>5
<1>7. Owing(pm, u, {p})
  <2>1. ASSUME NEW s \in Slot \ {p}, NEW c \in Slot
        PROVE  OwnCall(pm, u, s) /\ Debts(pm, u, s, c)
    BY <1>5, <1>6 DEF OwnCall, Debts, InUse
  <2>2. \A c \in Slot : SlotInv(pm, c)
    BY <1>0 DEF BaseInv
  <2> QED BY <2>1, <2>2, FieldsOwing
<1>8. \E c \in Slot : Owes(u, u.call[p], p, c)
  <2>1. PICK c \in Slot : c \in Waitable(pm, p, arg)
    BY DEF Waitable
  <2>2. Waits(u, p, c)
    BY <1>5, <1>6, <2>1 DEF Waitable, Waits, InUse
  <2> QED BY <1>5, <2>2 DEF Owes
<1>9. {p} \in SUBSET (Slot \ {PM})
  OBVIOUS
<1> QED BY <1>4, <1>7, <1>8, <1>9, OwingKeeps

LEMMA WaitpidWakers ==
  ASSUME IInv, WakerInv(pm), NEW p \in Slot \ {PM}, NEW pidarg \in WaitArg,
         NEW nohang \in BOOLEAN, do_waitpid(p, pidarg, nohang)
  PROVE  WakerInv(pm')
<1> DEFINE arg == IF pidarg = 0 THEN -pm.procgrp[p] ELSE pidarg
           kids == Waitable(pm, p, arg)
           dec == {c \in kids : Deciding(pm, p, c)}
           c == Least(dec)
           t == [pm EXCEPT !.call[p] = "wait"]
           told == tell_parent(t, c)
<1>0. Idle /\ Runnable(p) /\ pm \in PMState /\ BaseInv(pm, act)
  BY IdleFacts DEF do_waitpid
<1>1. arg \in Int
  <2>1. pm.procgrp[p] \in Int /\ WaitArg \subseteq Int
    BY <1>0, PMAssumption DEF PMState, Pid
  <2> QED BY <2>1
<1>2. pm' = IF dec # {}
            THEN IF t.tracer[c] = p /\ "TRACE_ZOMBIE" \in t.flags[c]
                 THEN check_parent(tell_tracer(t, c), c, TRUE)
                 ELSE IF StopPending(t, p, c)
                 THEN [reply(t, p, "wait") EXCEPT !.sigtrace = @ \ {c}]
                 ELSE IF VfsCall(told, c) THEN told ELSE cleanup(told, c)
            ELSE IF kids = {} \/ nohang THEN reply(t, p, "wait")
            ELSE [SetFlags(t, p, {"WAITING"}) EXCEPT !.wpid[p] = arg]
  BY DEF do_waitpid
<1>3. t.flags = pm.flags /\ t.tracer = pm.tracer /\ t.sigtrace = pm.sigtrace
  BY <1>0 DEF PMState
<1>4. ASSUME pm' = reply(t, p, "wait") \/
             pm' = [reply(t, p, "wait") EXCEPT !.sigtrace = @ \ {c}]
      PROVE  WakerInv(pm')
  <2> DEFINE v == reply(t, p, "wait")
  <2>1. t \in PMState /\ t.call[p] = "wait" /\ Owing(pm, t, {p})
    BY <1>0, EnterCall, EnterOwing DEF Call
  <2> HIDE DEF t
  <2>2. v = [t EXCEPT !.call[p] = "run"]
    BY <2>1 DEF reply, PMState
  <2>3. Owing(t, v, {p}) /\ v \in PMState /\ v.call[p] = "run"
    <3>1. "run" \in Call
      BY DEF Call
    <3>2. Owing(t, v, {p})
      BY <2>1, <2>2, <3>1, EnterOwing
    <3> QED BY <2>1, <2>2, <3>1, <3>2 DEF PMState
  <2> HIDE DEF v
  <2>4. /\ pm'.flags = v.flags /\ pm'.vfs = v.vfs /\ pm'.pend = v.pend
        /\ pm'.parent = v.parent /\ pm'.tracer = v.tracer /\ pm'.pid = v.pid
        /\ pm'.wpid = v.wpid /\ pm'.call = v.call
    BY <1>4, <2>3 DEF PMState, v
  <2>5. \A x, y \in Slot : Waits(v, x, y) => Waits(pm', x, y)
    BY <2>4 DEF Waits, InUse
  <2>6. Owing(v, pm', {p})
    BY <2>4, <2>5 DEF Owing, Owes
  <2>7. Owing(pm, pm', {p})
    BY <2>1, <2>3, <2>6, OwingTrans
  <2>8. pm'.call[p] \notin Blocking /\ {p} \in SUBSET (Slot \ {PM})
    BY <2>3, <2>4 DEF Blocking
  <2> QED BY <2>7, <2>8, OwingKeeps
<1>5. CASE dec # {}
  <2>1. c \in Slot /\ InUse(pm, c) /\ Deciding(pm, p, c)
    BY <1>0, <1>1, <1>5, WaitDecision
  <2> HIDE DEF c, dec, arg
  <2>2. CASE pm.tracer[c] = p /\ "TRACE_ZOMBIE" \in pm.flags[c]
    BY <1>0, <1>2, <1>3, <1>5, <2>1, <2>2, WaitTracerWakers
  <2>3. CASE ~(pm.tracer[c] = p /\ "TRACE_ZOMBIE" \in pm.flags[c])
             /\ StopPending(pm, p, c)
    BY <1>2, <1>3, <1>4, <1>5, <2>3 DEF StopPending
  <2>4. CASE ~(pm.tracer[c] = p /\ "TRACE_ZOMBIE" \in pm.flags[c])
             /\ ~StopPending(pm, p, c)
    <3>1. pm.parent[c] = p /\ "ZOMBIE" \in pm.flags[c]
      BY <2>1, <2>4 DEF Deciding
    <3>2. pm' = IF VfsCall(told, c) THEN told ELSE cleanup(told, c)
      BY <1>2, <1>3, <1>5, <2>4 DEF StopPending
    <3> QED BY <1>0, <2>1, <3>1, <3>2, WaitChildWakers
  <2> QED BY <2>2, <2>3, <2>4
<1>6. CASE dec = {} /\ (kids = {} \/ nohang)
  BY <1>2, <1>4, <1>6
<1>7. CASE dec = {} /\ ~(kids = {} \/ nohang)
  <2>1. pm' = [SetFlags(t, p, {"WAITING"}) EXCEPT !.wpid[p] = arg]
    BY <1>2, <1>7
  <2> QED BY <1>0, <1>1, <1>7, <2>1, WaitBlocksWakers
<1> QED BY <1>5, <1>6, <1>7

---------------------------------------------------------------------------
(* VFS answers.                                                            *)

\* The parent of a fork child that VFS has answered for is blocked no more.
ParentFree(t, u, s) ==
  t.vfs[s] = "fork" /\ "NEW_PARENT" \notin t.flags[s] => u.call[t.parent[s]] # "fork"

\* VFS lets go of s; in X is the tracer that is waiting for that.
LEMMA ServedOwing ==
  ASSUME NEW t, NEW u, NEW s \in Slot, NEW pend, NEW X, \A c \in Slot : SlotInv(t, c),
         Served(t, u, s, pend), t.pend \ {s} \subseteq pend, ParentFree(t, u, s),
         u.call[s] \notin {"born", "setsid"}, s \in t.pend => s \in pend,
         "TRACE_EXIT" \in t.flags[s] => t.tracer[s] \in X
  PROVE  Owing(t, u, X)
<1> USE DEF InUse
<1>0. t \in PMState
  BY DEF Served
<1>1. /\ u.flags[s] = t.flags[s] \ {"VFS_CALL", "NEW_PARENT"} /\ u.vfs[s] = "none"
      /\ \A x \in Slot \ {s} : u.flags[x] = t.flags[x] /\ u.vfs[x] = t.vfs[x]
  BY <1>0 DEF Served, PMState
<1>2. /\ u.parent = t.parent /\ u.tracer = t.tracer /\ u.pid = t.pid
      /\ u.wpid = t.wpid /\ u.pend = pend
  BY DEF Served
<1>3. ASSUME NEW x \in Slot \ X, u.call[x] \in Blocking
      PROVE  OwnCall(t, u, x) /\ \A c \in Slot : Debts(t, u, x, c)
  <2>1. u.call[x] = t.call[x]
    BY <1>3 DEF Served, Blocking
  <2>2. OwnCall(t, u, x)
    <3>1. CASE x = s
      BY <1>2, <2>1, <3>1 DEF OwnCall
    <3>2. CASE x # s
      BY <1>1, <1>2, <2>1, <3>2 DEF OwnCall
    <3> QED BY <3>1, <3>2
  <2>3. ASSUME NEW c \in Slot PROVE Debts(t, u, x, c)
    <3>1. CASE c = s
      BY <1>1, <1>2, <1>3, <3>1 DEF Debts, ParentFree
    <3>2. CASE c # s
      BY <1>1, <1>2, <3>2 DEF Debts
    <3> QED BY <3>1, <3>2
  <2> QED BY <2>2, <2>3
<1> QED BY <1>3, FieldsOwing

\* A process that goes on is in no call that VFS has just answered.
LEMMA ServedStaysWakers ==
  ASSUME IInv, Idle, WakerInv(pm), NEW s \in Slot, pm.vfs[s] # "none",
         ~Exiting(pm, s), s \notin pm.pend, NEW v, Served(pm, v, s, pm.pend),
         ParentFree(pm, v, s), v.call[s] \notin {"born", "setsid"}
  PROVE  WakerInv(v)
<1>1. \A c \in Slot : SlotInv(pm, c)
  BY IdleFacts DEF BaseInv
<1>2. "TRACE_EXIT" \notin pm.flags[s]
  BY IdleFacts DEF Announced, Exiting
<1>3. Owing(pm, v, {})
  BY <1>1, <1>2, ServedOwing
<1> QED BY <1>3, KeepsAll

\* Whoever waits for a process that exits as soon as VFS has answered can
\* still wait for it; its tracer is owed the answer to T_EXIT once more.
LEMMA ServedExitWakers ==
  ASSUME IInv, Idle, WakerInv(pm), NEW s \in Slot, pm.vfs[s] # "none",
         ~Exiting(pm, s), NEW v, Served(pm, v, s, pm.pend), ParentFree(pm, v, s),
         exit_proc(v, s, FALSE, PM)
  PROVE  WakerInv(pm')
<1> USE DEF InUse
<1> DEFINE u == [v EXCEPT !.pend = @ \ {s}]
           n == new_activation(u, s, PM)
           e == [act EXCEPT ![s] = n]
<1>0. /\ pm \in PMState /\ act \in [Slot -> Activation]
      /\ \A c \in Slot : SlotInv(pm, c)
  BY IdleFacts DEF BaseInv
<1>1. /\ u \in PMState /\ Served(pm, u, s, pm.pend \ {s}) /\ s \in Slot \ Boot
      /\ BaseInv(u, act) /\ InUse(u, s) /\ ~Exiting(u, s) /\ ~VfsCall(u, s)
      /\ Ready(u, s)
  BY ServedReady
<1>2. exit_proc(u, s, FALSE, PM)
  BY ExitForgets DEF Served
<1>3. u.call = v.call
  BY DEF Served, PMState
<1>4. n \in Activation /\ n.at = "tracer" /\ n.idx = 0
  <2> HIDE DEF u
  <2> QED BY <1>1, ConstantTypes, ActivationType DEF new_activation
<1> HIDE DEF u, n
<1>5. PICK w : Marked(u, w, s, "exit") /\ begin_exit(u, s, FALSE) = zombify(w, s)
  BY <1>1, BeginExitMarked, BootSlots
<1>6. pm' = zombify(w, s)
  BY <1>2, <1>5 DEF exit_proc
<1>7. BaseInv(w, e) /\ w \in PMState /\ e \in [Slot -> Activation]
  BY <1>0, <1>1, <1>4, <1>5, MarkedBase DEF Marked
<1>8. /\ u.flags[s] = pm.flags[s] \ {"VFS_CALL", "NEW_PARENT"}
      /\ \A x \in Slot \ {s} : u.flags[x] = pm.flags[x] /\ u.vfs[x] = pm.vfs[x]
      /\ u.parent = pm.parent /\ u.tracer = pm.tracer /\ u.pid = pm.pid
      /\ u.wpid = pm.wpid /\ u.pend = pm.pend \ {s}
  BY <1>0, <1>1 DEF Served, PMState
<1>9. /\ w.call[s] = "dead" /\ \A x \in Slot \ {s} : w.call[x] = u.call[x]
      /\ w.vfs[s] = "exit" /\ \A x \in Slot \ {s} : w.vfs[x] = u.vfs[x]
      /\ \A x \in Slot \ {s} : w.flags[x] = u.flags[x]
      /\ w.flags[s] = ((u.flags[s] \cup {"VFS_CALL"})
                         \cap {"IN_USE", "VFS_CALL", "PRIV_PROC", "TRACE_EXIT"})
                      \cup {"EXITING"}
      /\ w.pend = u.pend \ {s}
      /\ w.parent = u.parent /\ w.tracer = u.tracer /\ w.pid = u.pid
      /\ w.wpid = u.wpid
  BY <1>1, <1>5 DEF Marked, PMState
<1>10. ASSUME NEW x \in Slot, w.call[x] \in Blocking
       PROVE  OwnCall(pm, w, x) /\ \A c \in Slot : Debts(pm, w, x, c)
  <2>1. x # s /\ w.call[x] = v.call[x]
    BY <1>3, <1>9, <1>10 DEF Blocking
  <2>2. w.call[x] = pm.call[x]
    BY <1>10, <2>1 DEF Served, Blocking
  <2>3. OwnCall(pm, w, x)
    BY <1>8, <1>9, <2>1, <2>2 DEF OwnCall
  <2>4. ASSUME NEW c \in Slot PROVE Debts(pm, w, x, c)
    <3>1. CASE c = s
      <4>1. w.call[x] = "fork" /\ pm.parent[s] = x =>
              ~(pm.vfs[s] = "fork" /\ "NEW_PARENT" \notin pm.flags[s])
        BY <2>1 DEF ParentFree
      <4> QED BY <1>8, <1>9, <3>1, <4>1 DEF Debts
    <3>2. CASE c # s
      BY <1>8, <1>9, <3>2 DEF Debts
    <3> QED BY <3>1, <3>2
  <2> QED BY <2>3, <2>4
<1>11. Owing(pm, w, {})
  BY <1>0, <1>10, FieldsOwing
<1>12. /\ Exiting(w, s) /\ "ZOMBIE" \notin w.flags[s]
       /\ "TRACE_ZOMBIE" \notin w.flags[s] /\ "TOLD_PARENT" \notin w.flags[s]
  BY <1>9 DEF Exiting
<1> HIDE DEF e
<1>13. Owing(w, pm', {})
  BY <1>6, <1>7, <1>12, ZombifyOwing
<1>14. Owing(pm, pm', {})
  BY <1>11, <1>13, OwingTrans
<1> QED BY <1>14, KeepsAll

LEMMA ResumedWakers ==
  ASSUME IInv, Idle, WakerInv(pm), NEW s \in Slot, pm.vfs[s] # "none",
         ~Exiting(pm, s), NEW v, Served(pm, v, s, pm.pend), ParentFree(pm, v, s),
         v.call[s] \notin {"born", "setsid"}, Resumed(v, s)
  PROVE  WakerInv(pm')
<1>1. v.pend = pm.pend
  BY DEF Served
<1>2. CASE s \in v.pend
  BY <1>2, ServedExitWakers DEF Resumed
<1>3. CASE s \notin v.pend
  <2>1. WakerInv(v)
    BY <1>1, <1>3, ServedStaysWakers
  <2> QED BY <1>3, <2>1 DEF Resumed
<1> QED BY <1>2, <1>3

\* reply() leaves nobody blocked.
LEMMA ReplyUnblocks ==
  ASSUME NEW t \in PMState, NEW p \in Slot, NEW k
  PROVE  reply(t, p, k).call[p] \notin Blocking
BY DEF reply, PMState, Blocking

LEMMA ReplyParentFree ==
  ASSUME NEW s \in Slot, NEW t \in PMState, t.parent = pm.parent
  PROVE  ParentFree(pm, ReplyParent(t, s), s)
<1> SUFFICES ASSUME "NEW_PARENT" \notin pm.flags[s]
             PROVE  ReplyParent(t, s).call[pm.parent[s]] # "fork"
  BY DEF ParentFree
<1>1. ReplyParent(t, s) = reply(t, t.parent[s], "fork") /\ t.parent[s] \in Slot
  BY DEF ReplyParent, PMState
<1> QED BY <1>1, ReplyUnblocks DEF Blocking

LEMMA VfsForkReplyWakers ==
  ASSUME IInv, WakerInv(pm), NEW s \in Slot \ {PM}, VfsForkReply(s)
  PROVE  WakerInv(pm')
<1> DEFINE t == Answered(pm, s)
           v == reply(t, s, "born")
           w == [t EXCEPT !.sched = @ \ {s}]
<1>0. /\ Idle /\ pm.vfs[s] = "fork"
      /\ \/ Resumed(ReplyParent(v, s), s)
         \/ exit_proc(ReplyParent(w, s), s, FALSE, PM)
  BY DEF VfsForkReply
<1>1. SlotInv(pm, s) /\ CallInv(pm, s)
  BY <1>0, IdleFacts DEF BaseInv
<1>2. ~Exiting(pm, s) /\ pm.call[s] = "born"
  BY <1>0, <1>1 DEF SlotInv, CallInv, Exiting
<1>3. /\ Served(pm, t, s, pm.pend) /\ t.call = pm.call /\ t \in PMState
      /\ t.sched = pm.sched
  BY <1>0, AnsweredServed
<1> HIDE DEF t
<1>4. Served(pm, v, s, pm.pend) /\ \A x \in Slot \ {s} : v.call[x] = pm.call[x]
  BY <1>0, <1>2, <1>3, WakeServed DEF Call
<1>5. v.call[s] \notin Blocking
  BY <1>3, ReplyUnblocks
<1>6. Served(pm, w, s, pm.pend) /\ \A x \in Slot \ {s} : w.call[x] = pm.call[x]
  <2>1. /\ w \in PMState /\ w.flags = t.flags /\ w.vfs = t.vfs /\ w.call = t.call
        /\ w.pend = t.pend /\ w.sched = t.sched \ {s}
        /\ w.parent = t.parent /\ w.tracer = t.tracer /\ w.pid = t.pid
        /\ w.procgrp = t.procgrp /\ w.wpid = t.wpid
        /\ w.procs_in_use = t.procs_in_use /\ w.panic = t.panic
    BY <1>3 DEF PMState
  <2> HIDE DEF w
  <2>2. w.sched \subseteq pm.sched /\ pm.sched \subseteq w.sched \cup {s}
    BY <1>3, <2>1
  <2> QED BY <1>3, <2>1, <2>2 DEF Served
<1> HIDE DEF v, w
<1>7. v \in PMState /\ v.parent = pm.parent /\ w \in PMState /\ w.parent = pm.parent
  BY <1>4, <1>6 DEF Served
<1>8. CASE Resumed(ReplyParent(v, s), s)
  <2>1. Served(pm, ReplyParent(v, s), s, pm.pend)
    BY <1>0, <1>4, ReplyParentServed
  <2>2. ParentFree(pm, ReplyParent(v, s), s)
    BY <1>7, ReplyParentFree
  <2>3. ReplyParent(v, s).call[s] \notin {"born", "setsid"}
    <3>1. v.parent[s] \in Slot
      BY <1>7 DEF PMState
    <3>2. reply(v, v.parent[s], "fork").call[s] \notin {"born", "setsid"}
      <4>1. CASE v.parent[s] = s
        BY <1>7, <4>1, ReplyUnblocks DEF Blocking
      <4>2. CASE v.parent[s] # s
        <5>1. reply(v, v.parent[s], "fork").call[s] = v.call[s]
          BY <1>7, <3>1, <4>2 DEF reply, PMState
        <5> QED BY <1>5, <5>1 DEF Blocking
      <4> QED BY <4>1, <4>2
    <3> QED BY <1>5, <3>2 DEF ReplyParent, Blocking
  <2> HIDE DEF ReplyParent
  <2> QED BY <1>0, <1>2, <1>8, <2>1, <2>2, <2>3, ResumedWakers
<1>9. CASE exit_proc(ReplyParent(w, s), s, FALSE, PM)
  <2>1. Served(pm, ReplyParent(w, s), s, pm.pend)
    BY <1>0, <1>6, ReplyParentServed
  <2>2. ParentFree(pm, ReplyParent(w, s), s)
    BY <1>7, ReplyParentFree
  <2> QED BY <1>0, <1>2, <1>9, <2>1, <2>2, ServedExitWakers
<1> QED BY <1>0, <1>8, <1>9

LEMMA VfsCallReplyWakers ==
  ASSUME IInv, WakerInv(pm), NEW s \in Slot \ {PM}, VfsCallReply(s)
  PROVE  WakerInv(pm')
<1> DEFINE t == Answered(pm, s)
<1>0. /\ Idle
      /\ \/ pm.vfs[s] = "srv_fork" /\ Resumed(t, s)
         \/ pm.vfs[s] = "setsid" /\ Resumed(reply(t, s, "setsid"), s)
  BY DEF VfsCallReply
<1>1. SlotInv(pm, s) /\ CallInv(pm, s) /\ pm.vfs[s] # "none"
  BY <1>0, IdleFacts DEF BaseInv
<1>2. ~Exiting(pm, s)
  BY <1>0, <1>1 DEF SlotInv, Exiting
<1>3. Served(pm, t, s, pm.pend) /\ t.call = pm.call /\ t \in PMState
  BY <1>0, <1>1, AnsweredServed
<1> HIDE DEF t
<1>4. CASE pm.vfs[s] = "srv_fork" /\ Resumed(t, s)
  <2>1. t.call[s] \notin {"born", "setsid"}
    <3>1. t.call[s] \in Blocking => \E c \in Slot : Owes(pm, t.call[s], s, c)
      BY <1>3 DEF WakerInv
    <3> QED BY <1>4, <3>1 DEF Owes, Blocking
  <2>2. ParentFree(pm, t, s)
    BY <1>4 DEF ParentFree
  <2> QED BY <1>0, <1>1, <1>2, <1>3, <1>4, <2>1, <2>2, ResumedWakers
<1>5. CASE pm.vfs[s] = "setsid" /\ Resumed(reply(t, s, "setsid"), s)
  <2> DEFINE v == reply(t, s, "setsid")
  <2>1. Served(pm, v, s, pm.pend)
    <3>1. pm.call[s] = "setsid"
      BY <1>1, <1>5 DEF CallInv
    <3> QED BY <1>3, <1>5, <3>1, WakeServed DEF Call
  <2>2. ParentFree(pm, v, s)
    BY <1>5 DEF ParentFree
  <2>3. v.call[s] \notin {"born", "setsid"}
    BY <1>3, ReplyUnblocks DEF Blocking
  <2> HIDE DEF v
  <2>4. Resumed(v, s)
    BY <1>5 DEF v
  <2> QED BY <1>0, <1>1, <1>2, <2>1, <2>2, <2>3, <2>4, ResumedWakers
<1> QED BY <1>0, <1>4, <1>5

\* VFS is done with an exiting process: only the tracer that made it exit
\* was waiting for that, and it is answered.
LEMMA VfsExitReplyWakers ==
  ASSUME IInv, WakerInv(pm), NEW s \in Slot \ {PM}, VfsExitReply(s)
  PROVE  WakerInv(pm')
<1> DEFINE u == [Answered(pm, s) EXCEPT !.sched = @ \ {s}]
           z == IF pm.vfs[s] = "dump" THEN zombify(u, s) ELSE u
           d == z.tracer[s]
           w == IF "TRACE_EXIT" \in z.flags[s] THEN reply(z, d, "ptrace") ELSE z
           X == {x \in {pm.tracer[s]} : "TRACE_EXIT" \in pm.flags[s]}
<1>0. Idle /\ pm.vfs[s] \in {"exit", "dump"} /\ s \in Slot
  BY DEF VfsExitReply
<1>1. Served(pm, u, s, pm.pend \ {s}) /\ u.call = pm.call /\ Exiting(pm, s)
      /\ s \in Slot \ Boot
  BY <1>0, ExitAnswered
<1>2. pm' = IF "TOLD_PARENT" \in w.flags[s] THEN cleanup(w, s) ELSE w
  BY DEF VfsExitReply, exit_restart
<1> HIDE DEF u
<1>3. Restarting(z, s) /\ Kept(u, z, act, s) /\ Same(u, z, s, "TRACE_EXIT")
  BY <1>0, <1>1, RestartZombie
<1>4. /\ pm \in PMState /\ act \in [Slot -> Activation] /\ act[s].at = "none"
      /\ BaseInv(pm, act) /\ VfsCall(pm, s) /\ InUse(pm, s)
      /\ Announced(pm, s) /\ SlotInv(pm, s) /\ FamilyInv(pm, act, s)
      /\ \A c \in Slot : SlotInv(pm, c)
  BY <1>0, IdleFacts, OwedFacts DEF BaseInv
<1>5. X \in SUBSET (Slot \ {PM})
  BY <1>4 DEF FamilyInv, PMState, NO_TRACER, PM
<1>6. Owing(pm, u, X)
  <2>1. pm.call[s] = "dead" /\ s \notin pm.pend
    BY <1>1, <1>4 DEF SlotInv, Exiting
  <2>2. "TRACE_EXIT" \in pm.flags[s] => pm.tracer[s] \in X
    OBVIOUS
  <2>3. ParentFree(pm, u, s)
    BY <1>0 DEF ParentFree
  <2> HIDE DEF X
  <2> QED BY <1>1, <1>4, <2>1, <2>2, <2>3, ServedOwing
<1>7. Owing(u, z, {})
  <2>1. CASE pm.vfs[s] # "dump"
    BY <2>1, OwingSelf
  <2>2. CASE pm.vfs[s] = "dump"
    <3>1. /\ u \in PMState /\ BaseInv(u, act)
          /\ u.flags[s] = pm.flags[s] \ {"VFS_CALL", "NEW_PARENT"}
      BY <1>1, <1>4, ServedBase
    <3>2. /\ Exiting(u, s) /\ "ZOMBIE" \notin u.flags[s]
          /\ "TRACE_ZOMBIE" \notin u.flags[s] /\ "TOLD_PARENT" \notin u.flags[s]
      BY <1>1, <1>4, <2>2, <3>1 DEF Announced, Exiting
    <3>3. Owing(u, zombify(u, s), {})
      BY <1>4, <3>1, <3>2, ZombifyOwing
    <3> QED BY <2>2, <3>3
  <2> QED BY <2>1, <2>2
<1> HIDE DEF z
<1>8. /\ "TRACE_EXIT" \in z.flags[s] <=> "TRACE_EXIT" \in pm.flags[s]
      /\ d = pm.tracer[s] /\ d \in Slot /\ z \in PMState
      /\ X = IF "TRACE_EXIT" \in z.flags[s] THEN {d} ELSE {}
  <2>1. "TRACE_EXIT" \in u.flags[s] <=> "TRACE_EXIT" \in pm.flags[s]
    BY <1>1, <1>4 DEF Served, PMState
  <2>2. u.tracer = pm.tracer /\ z.tracer = u.tracer /\ z \in PMState
    BY <1>1, <1>3 DEF Served, Kept, SameRest
  <2> QED BY <1>3, <1>4, <2>1, <2>2 DEF Same, PMState
<1> HIDE DEF d, X
<1>s. SlotInv(z, s) /\ Exiting(z, s) /\ ~VfsCall(z, s)
  BY <1>3 DEF Restarting, BaseInv
<1>t. "TRACE_EXIT" \in pm.flags[s] => d # s
  <2>1. "TRACE_EXIT" \in pm.flags[s] => pm.tracer[s] # NO_TRACER
    BY <1>4 DEF FamilyInv
  <2> QED BY <1>0, <1>1, <1>4, <1>8, <2>1, IdleFacts
<1>9. /\ Owing(z, w, X) /\ w.flags = z.flags /\ SlotInv(w, s) /\ w \in PMState
      /\ \A x \in X : w.call[x] \notin Blocking
  <2>1. CASE "TRACE_EXIT" \notin z.flags[s]
    BY <1>8, <1>s, <2>1, OwingSelf
  <2>2. CASE "TRACE_EXIT" \in z.flags[s]
    <3> DEFINE y == reply(z, d, "ptrace")
    <3>1. /\ y \in PMState /\ SameRest(z, y) /\ y.flags = z.flags
          /\ y.pid = z.pid /\ \A x \in Slot \ {d} : y.call[x] = z.call[x]
      <4>1. "ptrace" \in Call
        BY DEF Call
      <4> QED BY <1>8, <4>1, ReplyFields
    <3>2. y.call[d] \notin Blocking
      BY <1>8, ReplyUnblocks
    <3> HIDE DEF y
    <3>3. \A x, c \in Slot : Waits(z, x, c) => Waits(y, x, c)
      BY <3>1 DEF Waits, InUse, SameRest
    <3>4. Owing(z, y, {d})
      BY <3>1, <3>3 DEF Owing, Owes, SameRest
    <3>5. w = y /\ X = {d}
      BY <1>8, <2>2 DEF y
    <3>6. SlotInv(y, s)
      <4>1. y.call[s] = z.call[s]
        BY <1>8, <1>t, <2>2, <3>1
      <4> QED BY <1>s, <3>1, <4>1 DEF SlotInv, SameRest
    <3> QED BY <3>1, <3>2, <3>4, <3>5, <3>6
  <2> QED BY <2>1, <2>2
<1> HIDE DEF w
<1>10. Owing(pm, w, X)
  <2>1. Owing(u, z, X)
    BY <1>7, OwingMore
  <2>2. Owing(pm, z, X)
    BY <1>6, <2>1, OwingTrans
  <2> QED BY <1>9, <2>2, OwingTrans
<1>11. CASE "TOLD_PARENT" \notin w.flags[s]
  BY <1>2, <1>5, <1>9, <1>10, <1>11, OwingKeeps
<1>12. CASE "TOLD_PARENT" \in w.flags[s]
  <2> DEFINE y == cleanup(w, s)
  <2>1. Exiting(w, s) /\ ~VfsCall(w, s) /\ w.call[s] = "dead"
    BY <1>9, <1>s DEF SlotInv, Exiting, VfsCall
  <2>2. Frame(w, y, s)
    BY <1>9, <2>1, CleanupFrame
  <2>3. pm' = y
    BY <1>2, <1>12
  <2> HIDE DEF y
  <2>4. \A x \in Slot : ~Waits(w, x, s)
    BY <1>12 DEF Waits
  <2>5. Owing(w, y, {})
    BY <1>9, <2>2, <2>4, FrameOwing
  <2>6. Owing(pm, y, X)
    BY <1>10, <2>5, OwingMore, OwingTrans
  <2>7. \A x \in X : y.call[x] \notin Blocking
    BY <1>5, <1>9, <2>2 DEF Frame, QuietCall, Blocking
  <2> QED BY <1>5, <2>3, <2>6, <2>7, OwingKeeps
<1> QED BY <1>11, <1>12

---------------------------------------------------------------------------
(* The forks.                                                              *)

\* A forker is owed its answer by the child, and the child its own by VFS.
LEMMA ForkedWakers ==
  ASSUME IInv, Idle, WakerInv(pm), NEW p \in Slot \ {PM}, Runnable(p), NEW c \in Slot,
         ~InUse(pm, c), NEW u, NEW F, NEW req, Forked(pm, u, p, c, F, req)
  PROVE  WakerInv(u)
<1> USE DEF InUse
<1>0. /\ pm \in PMState /\ u \in PMState /\ BaseInv(pm, act) /\ BootInv(pm)
      /\ \A x \in Slot : SlotInv(pm, x)
  BY IdleFacts DEF BaseInv, Forked
<1>1. c # PM /\ p # c
  BY <1>0, BootSlots DEF BootInv, Runnable
<1>2. /\ u.parent[c] = p /\ u.vfs[c] = req
      /\ \A x \in Slot \ {c} : /\ u.parent[x] = pm.parent[x] /\ u.vfs[x] = pm.vfs[x]
                               /\ u.flags[x] = pm.flags[x]
                               /\ u.tracer[x] = pm.tracer[x] /\ u.pid[x] = pm.pid[x]
                               /\ u.wpid[x] = pm.wpid[x]
                               /\ x \in u.pend <=> x \in pm.pend
                               /\ x # p => u.call[x] = pm.call[x]
  BY <1>0 DEF Forked, PMState
<1>3. Owing(pm, u, {p, c})
  <2>1. ASSUME NEW s \in Slot \ {p, c}, NEW x \in Slot
        PROVE  OwnCall(pm, u, s) /\ Debts(pm, u, s, x)
    <3>1. OwnCall(pm, u, s)
      BY <1>2 DEF OwnCall
    <3>2. Debts(pm, u, s, x)
      BY <1>2 DEF Debts
    <3> QED BY <3>1, <3>2
  <2> QED BY <1>0, <2>1, FieldsOwing
<1>4. ASSUME NEW x \in {p, c}, u.call[x] \in Blocking
      PROVE  \E y \in Slot : Owes(u, u.call[x], x, y)
  <2>1. /\ u.call[p] = "fork" /\ u.call[c] = "born" /\ u.vfs[c] = "fork"
        /\ "NEW_PARENT" \notin u.flags[c]
    BY <1>2, <1>4 DEF Forked, Blocking
  <2>2. Owes(u, u.call[p], p, c) /\ Owes(u, u.call[c], c, c)
    BY <1>2, <2>1 DEF Owes
  <2> QED BY <1>4, <2>2
<1>5. {p, c} \in SUBSET (Slot \ {PM})
  BY <1>1
<1> QED BY <1>3, <1>4, <1>5, OwingKeeps

LEMMA ForkWakers ==
  ASSUME IInv, WakerInv(pm), NEW p \in Slot \ {PM}, do_fork(p)
  PROVE  WakerInv(pm')
<1>0. Idle /\ Runnable(p)
  BY DEF do_fork
<1>1. CASE pm' = pm
  BY <1>1
<1>2. CASE pm' # pm
  <2>1. PICK c \in Slot, v \in PMState :
          /\ ~InUse(pm, c) /\ pm' = SignalTracer(v, c)
          /\ Forked(pm, v, p, c, {"IN_USE", "VFS_CALL"}, "fork")
    BY <1>2, ForkForked
  <2>2. TableInv(v, act) /\ WakerInv(v)
    BY <1>0, <2>1, ForkedTable, ForkedWakers
  <2>3. /\ InUse(v, c) /\ ~Exiting(v, c) /\ BaseInv(v, act)
        /\ \A x \in Slot : SlotInv(v, x)
    BY <2>1, <2>2 DEF Forked, InUse, Exiting, TableInv, BaseInv
  <2>4. pm' = v \/ \A x \in Slot : Frame(v, pm', x)
    BY <2>1, <2>3, SignalTracerFrame
  <2> QED BY <2>2, <2>3, <2>4, QuietOwing, KeepsAll
<1> QED BY <1>1, <1>2

LEMMA SrvForkWakers ==
  ASSUME IInv, WakerInv(pm), NEW p \in Slot \ {PM}, NEW uid \in Uid, do_srv_fork(p, uid)
  PROVE  WakerInv(pm')
<1>0. Idle /\ Runnable(p)
  BY DEF do_srv_fork
<1>1. CASE pm' = pm
  BY <1>1
<1>2. CASE pm' # pm
  <2>1. PICK c \in Slot :
          /\ ~InUse(pm, c)
          /\ Forked(pm, pm', p, c, {"IN_USE", "PRIV_PROC", "VFS_CALL"}, "srv_fork")
    BY <1>2, SrvForkForked
  <2> QED BY <1>0, <2>1, ForkedWakers
<1> QED BY <1>1, <1>2

---------------------------------------------------------------------------
(* setsid and ptrace.                                                      *)

LEMMA SetsidWakers ==
  ASSUME IInv, WakerInv(pm), NEW p \in Slot \ {PM}, setsid(p)
  PROVE  WakerInv(pm')
<1> DEFINE t == [pm EXCEPT !.procgrp[p] = pm.pid[p], !.call[p] = "setsid"]
           u == tell_vfs(t, p, "setsid")
<1>0. Idle /\ Runnable(p) /\ ~Priv(pm, p) /\ pm' = u
  BY DEF setsid
<1>1. pm \in PMState /\ \A x \in Slot : SlotInv(pm, x)
  BY <1>0, IdleFacts DEF BaseInv
<1>2. ~VfsCall(pm, p) /\ pm.vfs[p] = "none"
  BY <1>0, RunnableFacts
<1>3. /\ t \in PMState /\ t.flags = pm.flags /\ t.vfs = pm.vfs
      /\ t.call = [pm.call EXCEPT ![p] = "setsid"] /\ t.pend = pm.pend
      /\ t.parent = pm.parent /\ t.tracer = pm.tracer /\ t.pid = pm.pid
      /\ t.wpid = pm.wpid
  BY <1>1 DEF PMState, Call
<1> HIDE DEF t
<1>4. /\ u.flags = [t.flags EXCEPT ![p] = @ \cup {"VFS_CALL"}]
      /\ u.vfs = [t.vfs EXCEPT ![p] = "setsid"]
      /\ u.call = t.call /\ u.pend = t.pend
      /\ u.parent = t.parent /\ u.tracer = t.tracer /\ u.pid = t.pid
      /\ u.wpid = t.wpid
  <2>1. "setsid" \in Request /\ ~VfsCall(t, p)
    BY <1>2, <1>3 DEF Request, VfsCall
  <2> QED BY <1>3, <2>1, TellFields
<1> HIDE DEF u
<1>5. /\ u.flags[p] = pm.flags[p] \cup {"VFS_CALL"} /\ u.vfs[p] = "setsid"
      /\ u.call[p] = "setsid"
      /\ \A x \in Slot \ {p} : /\ u.flags[x] = pm.flags[x] /\ u.vfs[x] = pm.vfs[x]
                               /\ u.call[x] = pm.call[x]
      /\ u.pend = pm.pend /\ u.parent = pm.parent
      /\ u.tracer = pm.tracer /\ u.pid = pm.pid /\ u.wpid = pm.wpid
  BY <1>1, <1>3, <1>4 DEF PMState
<1>6. Owing(pm, u, {p})
  <2>1. ASSUME NEW s \in Slot \ {p}, NEW x \in Slot
        PROVE  OwnCall(pm, u, s) /\ Debts(pm, u, s, x)
    <3>1. OwnCall(pm, u, s)
      BY <1>5 DEF OwnCall
    <3>2. CASE x = p
      BY <1>2, <1>5, <3>1, <3>2 DEF Debts, InUse
    <3>3. CASE x # p
      BY <1>5, <3>1, <3>3 DEF Debts, InUse
    <3> QED BY <3>2, <3>3
  <2> QED BY <1>1, <2>1, FieldsOwing
<1>7. Owes(u, u.call[p], p, p) /\ {p} \in SUBSET (Slot \ {PM})
  BY <1>5 DEF Owes
<1> QED BY <1>0, <1>6, <1>7, OwingKeeps

\* The old tracer of c, if any, is not blocked.
LEMMA RetracedOwing ==
  ASSUME NEW t, NEW u, NEW c \in Slot, \A x \in Slot : SlotInv(t, x),
         Retraced(t, u, c), t.tracer[c] = PM \/ t.call[t.tracer[c]] \notin Blocking
  PROVE  Owing(t, u, {})
<1> USE DEF InUse
<1>1. /\ \A x \in Slot \ {c} : u.flags[x] = t.flags[x] /\ u.tracer[x] = t.tracer[x]
      /\ \A f \in {"IN_USE", "TOLD_PARENT", "NEW_PARENT", "ZOMBIE", "TRACE_EXIT"} :
           f \in u.flags[c] <=> f \in t.flags[c]
      /\ u.call = t.call /\ u.pend = t.pend /\ u.vfs = t.vfs /\ u.parent = t.parent
      /\ u.pid = t.pid /\ u.wpid = t.wpid
  BY DEF Retraced
<1>2. ASSUME NEW s \in Slot, u.call[s] \in Blocking
      PROVE  OwnCall(t, u, s) /\ (s # PM => \A x \in Slot : Debts(t, u, s, x))
  <2>1. OwnCall(t, u, s)
    BY <1>1 DEF OwnCall
  <2>2. ASSUME NEW x \in Slot, s # PM PROVE Debts(t, u, s, x)
    <3>1. CASE x = c
      <4>1. t.tracer[c] # s
        BY <1>1, <1>2, <2>2
      <4> QED BY <1>1, <3>1, <4>1 DEF Debts
    <3>2. CASE x # c
      BY <1>1, <3>2 DEF Debts
    <3> QED BY <3>1, <3>2
  <2> QED BY <2>1, <2>2
<1> QED BY <1>2, FieldsOwing

LEMMA AttachWakers ==
  ASSUME IInv, WakerInv(pm), NEW d \in Slot \ {PM}, NEW c \in Slot \ {PM},
         NEW b \in BOOLEAN, Attach(d, c, b)
  PROVE  WakerInv(pm')
<1>1. Idle /\ pm.tracer[c] = PM
  BY DEF Attach, NO_TRACER, PM
<1>2. \A x \in Slot : SlotInv(pm, x)
  BY <1>1, IdleFacts DEF BaseInv
<1>3. PICK t \in PMState : /\ Retraced(pm, t, c) /\ TableInv(t, act)
                           /\ \A x \in Slot : Frame(t, pm', x)
  BY AttachRetraced
<1>4. Owing(pm, t, {})
  BY <1>1, <1>2, <1>3, RetracedOwing
<1>5. Owing(t, pm', {})
  BY <1>3, QuietOwing DEF TableInv, BaseInv
<1> QED BY <1>4, <1>5, OwingTrans, KeepsAll

LEMMA ResumeWakers ==
  ASSUME IInv, WakerInv(pm), NEW d \in Slot \ {PM}, NEW c \in Slot \ {PM},
         NEW b \in BOOLEAN, Resume(d, c, b)
  PROVE  WakerInv(pm')
<1>1. Idle /\ pm.tracer[c] = d /\ pm.call[d] \notin Blocking
  BY DEF Resume, Stopped, Runnable, Blocking
<1>2. \A x \in Slot : SlotInv(pm, x)
  BY <1>1, IdleFacts DEF BaseInv
<1>3. Retraced(pm, pm', c)
  BY ResumeRetraced
<1>4. Owing(pm, pm', {})
  BY <1>1, <1>2, <1>3, RetracedOwing
<1> QED BY <1>4, KeepsAll

\* ptrace(T_EXIT): the victim owes its tracer the answer until VFS is done
\* with the exit, or with the call it is in the middle of.
LEMMA TraceExitWakers ==
  ASSUME IInv, WakerInv(pm), NEW d \in Slot \ {PM}, NEW c \in Slot \ {PM},
         TraceExit(d, c)
  PROVE  WakerInv(pm')
<1> DEFINE e == [pm EXCEPT !.call[d] = "ptrace"]
           t == SetFlags(e, c, {"TRACE_EXIT"})
<1>0. /\ Idle /\ Stopped(d, c) /\ pm.tracer[c] = d
      /\ IF VfsCall(pm, c)
         THEN pm' = [t EXCEPT !.pend = @ \cup {c}] /\ UNCHANGED <<act, stack>>
         ELSE exit_proc(t, c, FALSE, d)
  BY DEF TraceExit, Stopped
<1>1. /\ t \in PMState /\ BaseInv(t, act)
      /\ InUse(t, c) /\ ~Exiting(t, c) /\ VfsCall(t, c) = VfsCall(pm, c)
      /\ c \in Slot \ Boot /\ Ready(t, c)
  BY <1>0, TraceExitMarked
<1>2. pm \in PMState /\ act \in [Slot -> Activation] /\ \A x \in Slot : SlotInv(pm, x)
  BY <1>0, IdleFacts DEF BaseInv
<1>3. /\ e \in PMState /\ SameRest(pm, e) /\ e.flags = pm.flags /\ e.pid = pm.pid
      /\ e.call[d] = "ptrace" /\ \A x \in Slot \ {d} : e.call[x] = pm.call[x]
  <2>1. "ptrace" \in Call
    BY DEF Call
  <2> QED BY <1>2, <2>1 DEF PMState, SameRest
<1> HIDE DEF e
<1>4. /\ SameRest(e, t) /\ SameFlagsBut(e, t, c) /\ t.call = e.call /\ t.pid = e.pid
      /\ t.flags[c] = e.flags[c] \cup {"TRACE_EXIT"}
  <2>1. {"TRACE_EXIT"} \in SUBSET Flag
    BY DEF Flag
  <2> QED BY <1>3, <2>1, SetFields
<1> HIDE DEF t
<1>5. /\ t.call[d] = "ptrace" /\ \A x \in Slot \ {d} : t.call[x] = pm.call[x]
      /\ t.flags[c] = pm.flags[c] \cup {"TRACE_EXIT"}
      /\ \A x \in Slot \ {c} : t.flags[x] = pm.flags[x]
      /\ t.parent = pm.parent /\ t.tracer = pm.tracer /\ t.pid = pm.pid
      /\ t.vfs = pm.vfs /\ t.pend = pm.pend /\ t.wpid = pm.wpid
  BY <1>3, <1>4 DEF SameRest, SameFlagsBut
<1>6. Owing(pm, t, {d})
  <2>1. ASSUME NEW s \in Slot \ {d}, NEW x \in Slot
        PROVE  OwnCall(pm, t, s) /\ Debts(pm, t, s, x)
    <3>1. OwnCall(pm, t, s)
      BY <1>5 DEF OwnCall
    <3>2. CASE x = c
      BY <1>5, <3>1, <3>2 DEF Debts, InUse
    <3>3. CASE x # c
      BY <1>5, <3>1, <3>3 DEF Debts, InUse
    <3> QED BY <3>2, <3>3
  <2> QED BY <1>2, <2>1, FieldsOwing
<1>7. {d} \in SUBSET (Slot \ {PM})
  OBVIOUS
<1>8. CASE VfsCall(pm, c)
  <2>1. t.vfs[c] # "none"
    BY <1>1, <1>8 DEF BaseInv, SlotInv, VfsCall
  <2>2. Owes(t, t.call[d], d, c)
    BY <1>0, <1>5, <2>1 DEF Owes
  <2>3. WakerInv(t)
    BY <1>6, <1>7, <2>2, OwingKeeps
  <2>4. Owing(t, pm', {})
    BY <1>0, <1>1, <1>8, PendOwing
  <2> QED BY <2>3, <2>4, KeepsAll
<1>9. CASE ~VfsCall(pm, c)
  <2>1. exit_proc(t, c, FALSE, d)
    BY <1>0, <1>9
  <2>2. Owing(t, pm', {})
    BY <1>0, <1>1, <1>9, <2>1, ExitProcOwing DEF Boot
  <2>3. Owing(pm, pm', {d})
    BY <1>6, <2>2, OwingMore, OwingTrans
  <2>4. pm' = begin_exit(t, c, FALSE) /\ c # INIT_PROC_NR
    BY <1>1, <2>1, BootSlots DEF exit_proc, Boot
  <2> DEFINE n == new_activation(t, c, d)
             a == [act EXCEPT ![c] = n]
  <2>5. PICK w : Marked(t, w, c, "exit") /\ pm' = zombify(w, c)
    BY <1>1, <1>9, <2>4, BeginExitMarked
  <2>6. n \in Activation /\ n.at = "tracer" /\ n.idx = 0
    BY <1>1, ActivationType DEF new_activation
  <2> HIDE DEF n
  <2>7. a \in [Slot -> Activation] /\ BaseInv(w, a) /\ w \in PMState
    BY <1>1, <1>2, <2>5, <2>6, MarkedBase DEF Marked
  <2>8. /\ Exiting(w, c) /\ "ZOMBIE" \notin w.flags[c] /\ w.vfs[c] = "exit"
        /\ "TRACE_ZOMBIE" \notin w.flags[c] /\ "TOLD_PARENT" \notin w.flags[c]
        /\ "TRACE_EXIT" \in w.flags[c] /\ w.tracer[c] = d
    BY <1>0, <1>1, <1>5, <2>5 DEF Marked, PMState, Exiting
  <2> HIDE DEF a
  <2>9. Kept(w, pm', a, c) /\ Same(w, pm', c, "TRACE_EXIT")
    BY <2>5, <2>7, <2>8, ZombifyKept
  <2>10. /\ "TRACE_EXIT" \in pm'.flags[c] /\ pm'.tracer[c] = d
         /\ pm'.vfs[c] = "exit"
    BY <2>8, <2>9 DEF Kept, SameRest, Same
  <2>11. d # c
    BY <1>0, <1>1, <2>8 DEF BaseInv, FamilyInv, Stopped, Runnable
  <2>12. w.call[d] = "ptrace"
    BY <1>1, <1>5, <2>5, <2>11 DEF Marked, PMState
  <2>13. pm'.call[d] = "ptrace"
    BY <2>9, <2>12 DEF Kept
  <2>14. Owes(pm', pm'.call[d], d, c)
    BY <2>10, <2>13 DEF Owes
  <2> QED BY <1>7, <2>3, <2>14, OwingKeeps
<1> QED BY <1>8, <1>9

---------------------------------------------------------------------------
(* exit_proc's loop.                                                       *)

\* A dead tracer waits for nothing.
LEMMA UntracedOwing ==
  ASSUME NEW t, NEW v, NEW c \in Slot, \A x \in Slot : SlotInv(t, x),
         Untraced(t, v, c), t.call[t.tracer[c]] \notin Blocking
  PROVE  Owing(t, v, {})
<1> USE DEF InUse
<1>1. /\ \A x \in Slot \ {c} : v.flags[x] = t.flags[x] /\ v.tracer[x] = t.tracer[x]
      /\ \A f \in {"IN_USE", "TOLD_PARENT", "NEW_PARENT"} :
           f \in v.flags[c] <=> f \in t.flags[c]
      /\ v.call = t.call /\ v.pend = t.pend /\ v.vfs = t.vfs /\ v.parent = t.parent
      /\ v.pid = t.pid /\ v.wpid = t.wpid
  BY DEF Untraced, PMState
<1>2. ASSUME NEW s \in Slot, v.call[s] \in Blocking, NEW x \in Slot
      PROVE  OwnCall(t, v, s) /\ Debts(t, v, s, x)
  <2>1. OwnCall(t, v, s)
    BY <1>1 DEF OwnCall
  <2>2. CASE x = c
    <3>1. t.tracer[c] # s
      BY <1>1, <1>2
    <3> QED BY <1>1, <2>1, <2>2, <3>1 DEF Debts
  <2>3. CASE x # c
    BY <1>1, <2>1, <2>3 DEF Debts
  <2> QED BY <2>2, <2>3
<1> QED BY <1>2, FieldsOwing

\* Nor does a dead parent.
LEMMA AdoptedOwing ==
  ASSUME NEW t, NEW v, NEW c \in Slot, \A x \in Slot : SlotInv(t, x),
         Adopted(t, v, c), t.call[t.parent[c]] \notin Blocking
  PROVE  Owing(t, v, {})
<1> USE DEF InUse
<1>1. /\ \A x \in Slot \ {c} : v.flags[x] = t.flags[x] /\ v.parent[x] = t.parent[x]
      /\ \A f \in {"IN_USE", "TOLD_PARENT", "ZOMBIE", "TRACE_EXIT"} :
           f \in v.flags[c] <=> f \in t.flags[c]
      /\ v.call = t.call /\ v.pend = t.pend /\ v.vfs = t.vfs /\ v.tracer = t.tracer
      /\ v.pid = t.pid /\ v.wpid = t.wpid
  BY DEF Adopted, PMState
<1>2. ASSUME NEW s \in Slot, v.call[s] \in Blocking, NEW x \in Slot
      PROVE  OwnCall(t, v, s) /\ Debts(t, v, s, x)
  <2>1. OwnCall(t, v, s)
    BY <1>1 DEF OwnCall
  <2>2. CASE x = c
    <3>1. t.parent[c] # s
      BY <1>1, <1>2
    <3> QED BY <1>1, <2>1, <2>2, <3>1 DEF Debts
  <2>3. CASE x # c
    BY <1>1, <2>1, <2>3 DEF Debts
  <2> QED BY <2>2, <2>3
<1> QED BY <1>2, FieldsOwing

LEMMA CurDead ==
  ASSUME IInv, Running
  PROVE  /\ cur \in Slot /\ pm.call[cur] \notin Blocking
         /\ pm \in PMState /\ act \in [Slot -> Activation]
         /\ TableInv(pm, act) /\ \A x \in Slot : SlotInv(pm, x)
<1>1. cur \in Slot /\ Exiting(pm, cur)
  BY CurExiting
<1> HIDE DEF cur
<1>2. /\ pm \in PMState /\ act \in [Slot -> Activation] /\ TableInv(pm, act)
      /\ \A x \in Slot : SlotInv(pm, x)
  BY DEF IInv, TypeOK, TableInv, BaseInv
<1>3. pm.call[cur] = "dead"
  BY <1>1, <1>2 DEF SlotInv, Exiting
<1> QED BY <1>1, <1>2, <1>3 DEF Blocking

LEMMA KillNestedOwing ==
  ASSUME IInv, Running, NEW t \in PMState, NEW c \in Slot, NEW n,
         kill_nested(t, c, n), TableInv(t, act),
         InUse(t, c), ~Exiting(t, c), c \notin Boot \ {INIT_PROC_NR}, Ready(t, c)
  PROVE  Owing(t, pm', {})
<1>1. CASE c = INIT_PROC_NR
  <2>1. pm' = begin_exit(t, INIT_PROC_NR, FALSE)
    BY <1>1 DEF kill_nested
  <2> QED BY <2>1, InitExitOwing
<1>2. CASE c # INIT_PROC_NR /\ VfsCall(t, c)
  <2>1. pm' = [t EXCEPT !.pend = @ \cup {c}]
    BY <1>2 DEF kill_nested
  <2> QED BY <2>1, PendOwing
<1>3. CASE c # INIT_PROC_NR /\ ~VfsCall(t, c)
  <2> DEFINE m == new_activation(t, c, PM)
  <2>1. pm' = begin_exit(t, c, FALSE)
    BY <1>3 DEF kill_nested
  <2>2. c \in Slot \ Boot /\ act \in [Slot -> Activation] /\ BaseInv(t, act)
    BY <1>3 DEF IInv, TypeOK, TableInv
  <2>3. m \in Activation /\ m.at = "tracer" /\ m.idx = 0
    BY ActivationType, ConstantTypes DEF new_activation
  <2> HIDE DEF m
  <2> QED BY <1>3, <2>1, <2>2, <2>3, BeginExitOwing
<1> QED BY <1>1, <1>2, <1>3

\* A zombie that loses its tracer is offered to its parent.
LEMMA TracerDiedOwing ==
  ASSUME IInv, Running, NEW c \in Slot, InUse(pm, c), pm.tracer[c] = cur
  PROVE  Owing(pm, tracer_died(pm, c), {})
<1>0. /\ pm.call[cur] \notin Blocking /\ pm \in PMState /\ TableInv(pm, act)
      /\ act \in [Slot -> Activation] /\ \A x \in Slot : SlotInv(pm, x)
  BY CurDead
<1> HIDE DEF cur
<1>1. PICK v : /\ Untraced(pm, v, c)
               /\ tracer_died(pm, c) =
                    IF "TRACE_ZOMBIE" \in pm.flags[c] THEN check_parent(v, c, TRUE)
                    ELSE v
  BY <1>0, TracerDiedFields
<1>2. Owing(pm, v, {})
  BY <1>0, <1>1, UntracedOwing
<1>3. CASE "TRACE_ZOMBIE" \notin pm.flags[c]
  BY <1>1, <1>2, <1>3
<1>4. CASE "TRACE_ZOMBIE" \in pm.flags[c]
  <2>1. "ZOMBIE" \in v.flags[c] /\ v \in PMState
    BY <1>1, <1>4 DEF Untraced, PMState
  <2>2. BaseInv(v, act)
    BY <1>0, <1>1, UntracedBase
  <2>3. Owing(v, check_parent(v, c, TRUE), {})
    BY <1>0, <2>1, <2>2, CheckParentOwing
  <2>4. tracer_died(pm, c) = check_parent(v, c, TRUE)
    BY <1>1, <1>4
  <2> QED BY <1>2, <2>3, <2>4, OwingTrans
<1> QED BY <1>3, <1>4

\* So is one that loses its parent, to INIT.
LEMMA DisinheritOwing ==
  ASSUME IInv, Running, NEW c \in Slot, pm.parent[c] = cur
  PROVE  Owing(pm, disinherit(pm, c), {})
<1>0. /\ pm.call[cur] \notin Blocking /\ pm \in PMState /\ TableInv(pm, act)
      /\ act \in [Slot -> Activation] /\ (\A x \in Slot : SlotInv(pm, x))
      /\ CountInv(pm)
  BY CurDead DEF IInv
<1> HIDE DEF cur
<1>1. PICK v : /\ Adopted(pm, v, c)
               /\ disinherit(pm, c) = IF "ZOMBIE" \in v.flags[c]
                                      THEN check_parent(v, c, TRUE) ELSE v
  BY DisinheritAdopted
<1>2. Owing(pm, v, {})
  BY <1>0, <1>1, AdoptedOwing
<1>3. CASE "ZOMBIE" \notin v.flags[c]
  BY <1>1, <1>2, <1>3
<1>4. CASE "ZOMBIE" \in v.flags[c]
  <2>1. v \in PMState /\ BaseInv(v, act)
    BY <1>0, <1>1, AdoptedBase DEF Adopted
  <2>2. Owing(v, check_parent(v, c, TRUE), {})
    BY <1>0, <1>4, <2>1, CheckParentOwing
  <2>3. disinherit(pm, c) = check_parent(v, c, TRUE)
    BY <1>1, <1>4
  <2> QED BY <1>2, <2>2, <2>3, OwingTrans
<1> QED BY <1>3, <1>4

LEMMA LoopTracerWakers ==
  ASSUME IInv, WakerInv(pm), LoopTracer
  PROVE  WakerInv(pm')
<1> DEFINE q == cur
           a == act[q]
           c == Least(Related(q, a.idx))
           t == tracer_died(pm, c)
           n == [a EXCEPT !.at = "parent", !.idx = c]
<1>0. /\ Running /\ Related(q, a.idx) # {} /\ pm.tracer[c] = q
      /\ IF Exiting(pm, c) THEN pm' = t ELSE kill_nested(t, c, n)
  BY DEF LoopTracer
<1>1. q \in Slot /\ q # PM /\ a \in Activation /\ TableInv(pm, act)
  BY <1>0, LoopFacts
<1>2. c \in Slot /\ InUse(pm, c)
  <2>1. TypeOK /\ a.idx \in 0 .. NR_PROCS
    BY <1>1, ActivationFields DEF IInv
  <2> HIDE DEF q, a
  <2> QED BY <1>0, <2>1, NextRelated
<1> HIDE DEF c, n
<1>3. /\ t \in PMState /\ TableInv(t, act)
      /\ ~Exiting(pm, c) => /\ InUse(t, c) /\ ~Exiting(t, c) /\ Ready(t, c)
  BY <1>0, <1>2, TracerDiedTable
<1>4. Owing(pm, t, {})
  BY <1>0, <1>2, TracerDiedOwing
<1>5. c \notin Boot
  <2>1. BootInv(pm)
    BY <1>1 DEF TableInv, BaseInv
  <2> HIDE DEF q
  <2> QED BY <1>0, <1>1, <2>1 DEF BootInv, NO_TRACER, PM
<1> HIDE DEF t
<1>6. CASE Exiting(pm, c)
  BY <1>0, <1>4, <1>6, KeepsAll
<1>7. CASE ~Exiting(pm, c)
  <2>1. Owing(t, pm', {})
    BY <1>0, <1>2, <1>3, <1>5, <1>7, KillNestedOwing
  <2> QED BY <1>4, <2>1, OwingTrans, KeepsAll
<1> QED BY <1>6, <1>7

LEMMA LoopParentWakers ==
  ASSUME IInv, WakerInv(pm), LoopParent
  PROVE  WakerInv(pm')
<1> DEFINE q == cur
           a == act[q]
           c == IF a.at = "parent" THEN a.idx ELSE Least(Related(q, a.idx))
<1>0. /\ Running
      /\ a.at = "parent" \/ Related(q, a.idx) # {}
      /\ pm' = IF pm.parent[c] = q THEN disinherit(pm, c) ELSE pm
  BY DEF LoopParent
<1>1. a \in Activation
  BY <1>0, LoopFacts
<1>2. c \in Slot
  <2>1. TypeOK /\ a.idx \in 0 .. NR_PROCS /\ (a.at = "parent" => a.idx \in Slot)
    BY <1>1, ActivationFields DEF IInv
  <2>2. CASE a.at = "parent"
    BY <2>1, <2>2
  <2>3. CASE a.at # "parent"
    <3>1. c = Least(Related(q, a.idx)) /\ Related(q, a.idx) # {}
      BY <1>0, <2>3
    <3> HIDE DEF q, a, c
    <3> QED BY <2>1, <3>1, NextRelated
  <2> QED BY <2>2, <2>3
<1> HIDE DEF c
<1>3. CASE pm.parent[c] = q
  <2>1. Owing(pm, disinherit(pm, c), {})
    BY <1>0, <1>2, <1>3, DisinheritOwing
  <2> QED BY <1>0, <1>3, <2>1, KeepsAll
<1>4. CASE pm.parent[c] # q
  <2>1. pm' = pm
    BY <1>0, <1>4
  <2> QED BY <2>1, OwingSelf, KeepsAll
<1> QED BY <1>3, <1>4

LEMMA HangupWakers ==
  ASSUME IInv, WakerInv(pm), Hangup
  PROVE  WakerInv(pm')
<1> DEFINE q == cur
           a == act[q]
           c == Least(Members(a.grp, a.idx))
           n == [a EXCEPT !.idx = c + 1]
<1>0. /\ Running /\ Members(a.grp, a.idx) # {}
      /\ \/ pm' = sig_proc(pm, c)
         \/ /\ pm.tracer[c] = NO_TRACER /\ c \notin Immortal
            /\ kill_nested(pm, c, n)
  BY DEF Hangup
<1>1. /\ pm \in PMState /\ act \in [Slot -> Activation] /\ TableInv(pm, act)
      /\ \A x \in Slot : SlotInv(pm, x)
  BY <1>0, CurDead
<1>2. c \in Slot \ {PM} /\ InUse(pm, c) /\ ~Exiting(pm, c)
  <2>1. Members(a.grp, a.idx) \in SUBSET Nat
    BY ConstantTypes DEF Members, Slot
  <2>2. c \in Members(a.grp, a.idx)
    BY <1>0, <2>1, LeastOf
  <2> QED BY <2>2 DEF Members
<1> HIDE DEF c, n
<1>3. CASE pm' = sig_proc(pm, c)
  <2>1. \A x \in Slot : Frame(pm, pm', x)
    BY <1>1, <1>2, <1>3, SigProcFrame DEF TableInv
  <2> QED BY <1>1, <2>1, QuietOwing, KeepsAll
<1>4. CASE pm.tracer[c] = NO_TRACER /\ c \notin Immortal /\ kill_nested(pm, c, n)
  <2>1. c \notin Boot \ {INIT_PROC_NR}
    BY <1>2, <1>4, PMAssumption DEF Boot
  <2>2. Ready(pm, c)
    <3>1. FamilyInv(pm, act, c)
      BY <1>1, <1>2 DEF TableInv, BaseInv
    <3> QED BY <1>2, <1>4, <3>1 DEF FamilyInv, Ready
  <2>3. Owing(pm, pm', {})
    BY <1>0, <1>1, <1>2, <1>4, <2>1, <2>2, KillNestedOwing
  <2> QED BY <2>3, KeepsAll
<1> QED BY <1>0, <1>3, <1>4

LEMMA LoopWakers ==
  ASSUME IInv, WakerInv(pm), Loop
  PROVE  WakerInv(pm')
<1>1. CASE LoopEnd \/ HangupEnd
  <2>1. pm' = pm
    BY <1>1 DEF LoopEnd, HangupEnd
  <2> QED BY <2>1, OwingSelf, KeepsAll
<1> QED BY <1>1, LoopTracerWakers, LoopParentWakers, HangupWakers DEF Loop

---------------------------------------------------------------------------
(* The theorems.                                                           *)

LEMMA InitWakers == Init => WakerInv(pm)
<1>1. SUFFICES ASSUME Init PROVE WakerInv(pm)
  OBVIOUS
<1>2. \A s \in Slot : pm.call[s] \in {"run", "dead"}
  BY <1>1 DEF Init
<1> QED BY <1>2, ConstantTypes DEF WakerInv, Blocking

LEMMA RequestWakers ==
  ASSUME IInv, WakerInv(pm), NEW p \in Caller, Request_(p)
  PROVE  WakerInv(pm')
<1>1. p \in Slot \ {PM}
  BY PMAssumption
<1>2. CASE do_fork(p)
  BY <1>1, <1>2, ForkWakers
<1>3. CASE \E uid \in Uid : do_srv_fork(p, uid)
  BY <1>1, <1>3, SrvForkWakers
<1>4. CASE do_exit(p)
  BY <1>1, <1>4, ExitWakers
<1>5. CASE \E arg \in WaitArg, nohang \in BOOLEAN : do_waitpid(p, arg, nohang)
  BY <1>1, <1>5, WaitpidWakers
<1>6. CASE setsid(p)
  BY <1>1, <1>6, SetsidWakers
<1>7. CASE \E q \in Slot \ {PM} : Kill(p, q)
  BY <1>1, <1>7, KillWakers
<1>8. CASE \E q \in Slot \ {PM}, b \in BOOLEAN : Attach(p, q, b) \/ Resume(p, q, b)
  BY <1>1, <1>8, AttachWakers, ResumeWakers
<1>9. CASE \E q \in Slot \ {PM} : TraceExit(p, q)
  BY <1>1, <1>9, TraceExitWakers
<1> QED BY <1>2, <1>3, <1>4, <1>5, <1>6, <1>7, <1>8, <1>9 DEF Request_

LEMMA NextWakers ==
  ASSUME IInv, WakerInv(pm), [Next]_vars
  PROVE  WakerInv(pm')
<1>1. CASE Loop
  BY <1>1, LoopWakers
<1>2. CASE \E s \in Slot \ {PM} : VfsReply(s) \/ KernelKill(s)
  <2>1. PICK s \in Slot \ {PM} : VfsReply(s) \/ KernelKill(s)
    BY <1>2
  <2>2. CASE VfsReply(s)
    BY <2>2, VfsForkReplyWakers, VfsCallReplyWakers, VfsExitReplyWakers DEF VfsReply
  <2>3. CASE KernelKill(s)
    BY <2>3, KernelKillWakers
  <2> QED BY <2>1, <2>2, <2>3
<1>3. CASE \E s \in Caller : Request_(s)
  BY <1>3, RequestWakers
<1>4. CASE UNCHANGED vars
  <2>1. pm' = pm
    BY <1>4 DEF vars
  <2> QED BY <2>1, OwingSelf, KeepsAll
<1> QED BY <1>1, <1>2, <1>3, <1>4 DEF Next

\* Whoever is blocked in a call to PM is owed the answer by some entry of the
\* table, in the middle of exit_proc's loop too: no exit, adoption, attach or
\* late answer of VFS takes away the last entry that would have woken him.
THEOREM WakersCorrect == Spec => []WakerInv(pm)
<1>1. IInv /\ WakerInv(pm) /\ [Next]_vars => WakerInv(pm)'
  BY NextWakers
<1> QED BY <1>1, InitWakers, TableCorrect, PTL DEF Spec

\* Between two messages every process that is blocked in wait, fork, ptrace,
\* setsid, exit or its own birth is remembered by what will wake it.
THEOREM BlockedAreWoken == Spec => []BlockedHasWaker
<1>1. IInv /\ WakerInv(pm) => BlockedHasWaker
  <2> SUFFICES ASSUME IInv, WakerInv(pm), NEW s \in Slot
               PROVE  /\ pm.call[s] = "wait" =>
                           /\ "WAITING" \in pm.flags[s]
                           /\ \/ Waitable(pm, s, pm.wpid[s]) # {}
                              \/ pm.wpid[s] < -1
                      /\ pm.call[s] = "fork" => \E c \in Slot :
                           /\ pm.vfs[c] = "fork" /\ pm.parent[c] = s
                           /\ "NEW_PARENT" \notin pm.flags[c]
                      /\ pm.call[s] = "ptrace" => \E c \in Slot :
                           /\ pm.tracer[c] = s /\ "TRACE_EXIT" \in pm.flags[c]
                           /\ pm.vfs[c] # "none"
                      /\ pm.call[s] \in {"born", "setsid"} => pm.vfs[s] # "none"
                      /\ pm.call[s] = "exit" => s \in pm.pend
    BY DEF BlockedHasWaker
  <2>1. pm.call[s] \in Blocking => \E c \in Slot : Owes(pm, pm.call[s], s, c)
    BY DEF WakerInv
  <2>2. Remembered(pm, s)
    BY DEF IInv, TableInv
  <2>3. ASSUME pm.call[s] = "wait", ~(pm.wpid[s] < -1)
        PROVE  Waitable(pm, s, pm.wpid[s]) # {}
    <3>1. PICK c \in Slot : Waits(pm, s, c)
      BY <2>1, <2>3 DEF Blocking, Owes
    <3>2. c \in Waitable(pm, s, pm.wpid[s])
      BY <2>3, <3>1 DEF Waits, Waitable
    <3> QED BY <3>2
  <2>4. CASE pm.call[s] = "wait"
    BY <2>2, <2>3, <2>4 DEF Remembered
  <2>5. CASE pm.call[s] # "wait"
    BY <2>1, <2>5 DEF Blocking, Owes
  <2> QED BY <2>4, <2>5
<1> QED BY <1>1, TableCorrect, WakersCorrect, PTL

\* All that PM promises of its table between two messages: no panic, live
\* families, no wakeup lost, nobody blocked for good, no reply unasked for.
THEOREM TableIsSafe == Spec => []TableSafe
<1>1. NoPanic /\ FamilyIsLive /\ NoLostWakeup /\ BlockedHasWaker /\ NoSpuriousReply
        => TableSafe
  BY DEF TableSafe
<1> QED BY <1>1, PanicFree, FamiliesLive, WakeupsKept, BlockedAreWoken, RepliesCorrect, PTL
---------------------------------------------------------------------------
(***************************************************************************)
(* The process table of ProcessManager implements ProcessLife, and nobody  *)
(* is collected whose parent has not waited, for every table size and      *)
(* every choice of the other constants.                                    *)
(*                                                                         *)
(* Every step of PM moves at most one entry c of the table from one stage  *)
(* of its life to another.  The routines of forkexit.c are followed from   *)
(* one table t to the next table u: Before says that they have not come    *)
(* to c yet, Ends that they have dealt with its death.                     *)
(***************************************************************************)

\* The stage and the parent of entry s, as ProcessLife sees them in table t.
Stage(t, s) ==
  IF ~InUse(t, s) THEN "free"
  ELSE IF ~Exiting(t, s) THEN "alive"
  ELSE IF "TOLD_PARENT" \in t.flags[s] THEN "collected"
  ELSE IF "ZOMBIE" \in t.flags[s] \/ "TRACE_ZOMBIE" \in t.flags[s] THEN "zombie"
  ELSE "dying"

Par(t, s) == IF InUse(t, s) THEN t.parent[s] ELSE INIT_PROC_NR

Unmoved(t, u, x) == Stage(u, x) = Stage(t, x) /\ Par(u, x) = Par(t, x)

Others(t, u, c) == \A x \in Slot \ {c} : Unmoved(t, u, x)

\* Nobody but c has moved, and whoever waits for c in u did so in t.
Before(t, u, c) ==
  /\ Others(t, u, c) /\ u.parent = t.parent
  /\ \A p \in Slot \ {c} : wait_test(u, p, c) => wait_test(t, p, c)

\* In t process p, alive, waits for c; in u its wait is over.
Told(t, u, c, p) ==
  /\ p \in Slot \ {c} /\ Stage(t, p) = "alive"
  /\ wait_test(t, p, c) /\ "WAITING" \notin u.flags[p]

\* Entry c is left as a zombie, or told to its parent and perhaps freed.
Ends(t, u, c, free) ==
  /\ Others(t, u, c) /\ u.parent = t.parent
  /\ \/ Stage(u, c) = "zombie"
     \/ /\ Told(t, u, c, t.parent[c])
        /\ Stage(u, c) = "collected" \/ (free /\ Stage(u, c) = "free")

LEMMA QuietUnmoved ==
  ASSUME NEW t, NEW u, NEW x, QuietFlags(t, u, x), u.parent = t.parent
  PROVE  Unmoved(t, u, x)
<1>1. /\ InUse(u, x) = InUse(t, x) /\ Exiting(u, x) = Exiting(t, x)
      /\ Same(t, u, x, "ZOMBIE") /\ Same(t, u, x, "TRACE_ZOMBIE")
      /\ Same(t, u, x, "TOLD_PARENT")
  BY DEF QuietFlags, Same, InUse, Exiting
<1>2. Stage(u, x) = Stage(t, x)
  BY <1>1 DEF Stage, Same
<1>3. Par(u, x) = Par(t, x)
  BY <1>1 DEF Par
<1> QED BY <1>2, <1>3 DEF Unmoved

LEMMA FrameOthers ==
  ASSUME NEW t, NEW u, NEW c \in Slot, Frame(t, u, c)
  PROVE  Others(t, u, c) /\ u.parent = t.parent
<1>1. u.parent = t.parent /\ \A x \in Slot \ {c} : QuietFlags(t, u, x)
  BY DEF Frame, SameRest
<1> QED BY <1>1, QuietUnmoved DEF Others

LEMMA FrameBefore ==
  ASSUME NEW t, NEW u, NEW c \in Slot, Frame(t, u, c), u.pid[c] = t.pid[c]
  PROVE  Before(t, u, c)
<1>1. /\ u.wpid = t.wpid /\ u.procgrp = t.procgrp
      /\ \A x \in Slot \ {c} : "WAITING" \in u.flags[x] => "WAITING" \in t.flags[x]
  BY DEF Frame, SameRest, QuietFlags
<1>2. \A p \in Slot \ {c} : wait_test(u, p, c) => wait_test(t, p, c)
  BY <1>1 DEF wait_test
<1> QED BY <1>2, FrameOthers DEF Before

LEMMA QuietAll ==
  ASSUME NEW t, NEW u, \A x \in Slot : Frame(t, u, x)
  PROVE  /\ \A x \in Slot : Unmoved(t, u, x) /\ Before(t, u, x)
         /\ u.parent = t.parent
<1>1. ASSUME NEW x \in Slot PROVE QuietFlags(t, u, x) /\ u.parent = t.parent
  <2>1. PICK y \in Slot : y # x
    BY ConstantTypes
  <2> QED BY <2>1 DEF Frame, SameRest
<1>2. u.parent = t.parent
  BY <1>1, ConstantTypes
<1>3. \A x \in Slot : u.pid[x] = t.pid[x]
  BY <1>1 DEF QuietFlags
<1>4. \A x \in Slot : Before(t, u, x)
  BY <1>3, FrameBefore
<1>5. \A x \in Slot : Unmoved(t, u, x)
  BY <1>1, QuietUnmoved
<1> QED BY <1>2, <1>4, <1>5

LEMMA OthersTrans ==
  ASSUME NEW t, NEW u, NEW v, NEW c, Others(t, u, c), Others(u, v, c)
  PROVE  Others(t, v, c)
BY DEF Others, Unmoved

LEMMA BeforeTrans ==
  ASSUME NEW t, NEW u, NEW v, NEW c, Before(t, u, c), Before(u, v, c)
  PROVE  Before(t, v, c)
BY OthersTrans DEF Before

LEMMA EndsAfter ==
  ASSUME NEW t, NEW v, NEW u, NEW c, NEW b, Before(t, v, c), Ends(v, u, c, b)
  PROVE  Ends(t, u, c, b)
<1>1. Others(t, u, c) /\ u.parent = t.parent
  BY OthersTrans DEF Before, Ends
<1>2. ASSUME NEW p, Told(v, u, c, p) PROVE Told(t, u, c, p)
  BY <1>2 DEF Told, Before, Others, Unmoved
<1> QED BY <1>1, <1>2 DEF Ends, Before

---------------------------------------------------------------------------
(* Telling the parent.                                                     *)

LEMMA TellParentClears ==
  ASSUME NEW t \in PMState, NEW c \in Slot, t.parent[c] # c
  PROVE  "WAITING" \notin tell_parent(t, c).flags[t.parent[c]]
<1> DEFINE p == t.parent[c]
           v == Panic(Panic(Panic(t, p <= 0, "tell_parent: bad mp_parent"),
                            "ZOMBIE" \notin t.flags[c], "tell_parent: not a zombie"),
                      "TOLD_PARENT" \in t.flags[c], "tell_parent: again")
           r == reply(v, p, "wait")
           x == ClearFlags(r, p, {"WAITING"})
           y == ClearFlags(x, c, {"ZOMBIE"})
<1>1. p \in Slot
  BY DEF PMState
<1>2. tell_parent(t, c) = SetFlags(y, c, {"TOLD_PARENT"})
  BY DEF tell_parent
<1>3. v \in PMState
  <2>1. /\ "tell_parent: bad mp_parent" \in Message
        /\ "tell_parent: not a zombie" \in Message
        /\ "tell_parent: again" \in Message
    BY DEF Message
  <2>2. Panic(t, p <= 0, "tell_parent: bad mp_parent") \in PMState
    BY <2>1, PanicType DEF Panic
  <2>3. Panic(Panic(t, p <= 0, "tell_parent: bad mp_parent"),
              "ZOMBIE" \notin t.flags[c], "tell_parent: not a zombie") \in PMState
    BY <2>1, <2>2, PanicType DEF Panic
  <2> QED BY <2>1, <2>3, PanicType DEF Panic
<1> HIDE DEF v
<1>4. r \in PMState
  <2>1. "wait" \in Call
    BY DEF Call
  <2> HIDE DEF p
  <2> QED BY <1>1, <1>3, <2>1, ReplyFields
<1> HIDE DEF r
<1>5. x \in PMState /\ x.flags[p] = r.flags[p] \ {"WAITING"}
  <2>1. {"WAITING"} \in SUBSET Flag
    BY DEF Flag
  <2> HIDE DEF p
  <2> QED BY <1>1, <1>4, <2>1, ClearFields
<1> HIDE DEF x
<1>6. y \in PMState /\ y.flags[p] = x.flags[p]
  <2>1. {"ZOMBIE"} \in SUBSET Flag
    BY DEF Flag
  <2>2. y \in PMState /\ SameFlagsBut(x, y, c)
    BY <1>5, <2>1, ClearFields
  <2> QED BY <1>1, <2>2 DEF SameFlagsBut
<1> HIDE DEF y
<1>7. SetFlags(y, c, {"TOLD_PARENT"}).flags[p] = y.flags[p]
  <2>1. {"TOLD_PARENT"} \in SUBSET Flag
    BY DEF Flag
  <2>2. SameFlagsBut(y, SetFlags(y, c, {"TOLD_PARENT"}), c)
    BY <1>6, <2>1, SetFields
  <2> QED BY <1>1, <2>2 DEF SameFlagsBut
<1> QED BY <1>2, <1>5, <1>6, <1>7

\* Whoever is told waits for c and is woken.
LEMMA CheckParentEnds ==
  ASSUME NEW t \in PMState, NEW c \in Slot, NEW a \in [Slot -> Activation],
         NEW b \in BOOLEAN, BaseInv(t, a), "ZOMBIE" \in t.flags[c]
  PROVE  Ends(t, check_parent(t, c, b), c, b)
<1> DEFINE p == t.parent[c]
           u == tell_parent(t, c)
           v == cleanup(u, c)
<1>0. /\ FamilyInv(t, a, c) /\ p \in Slot
      /\ Exiting(t, c) /\ InUse(t, c)
      /\ "TRACE_ZOMBIE" \notin t.flags[c] /\ "TOLD_PARENT" \notin t.flags[c]
      /\ p # PM /\ InUse(t, p)
  <2>1. SlotInv(t, c) /\ FamilyInv(t, a, c) /\ p \in Slot
    BY DEF BaseInv, PMState
  <2> QED BY <2>1 DEF SlotInv, FamilyInv, Exiting, InUse
<1>z. Stage(t, c) = "zombie"
  BY <1>0 DEF Stage
<1>1. CASE Exiting(t, p)
  <2>1. check_parent(t, c, b) = t
    BY <1>1 DEF check_parent
  <2> QED BY <1>z, <2>1 DEF Ends, Others, Unmoved
<1>2. CASE ~Exiting(t, p) /\ ~wait_test(t, p, c)
  <2> DEFINE w == sig_proc(t, p)
  <2>1. check_parent(t, c, b) = w
    BY <1>2 DEF check_parent
  <2>2. \A x \in Slot : Frame(t, w, x)
    BY <1>0, <1>2, SigProcFrame
  <2> HIDE DEF w
  <2>3. (\A x \in Slot : Unmoved(t, w, x)) /\ w.parent = t.parent
    BY <2>2, QuietAll
  <2> QED BY <1>z, <2>1, <2>3 DEF Ends, Others, Unmoved
<1>3. CASE ~Exiting(t, p) /\ wait_test(t, p, c)
  <2>1. Awaits(t, p) /\ p # c /\ Stage(t, p) = "alive"
    BY <1>0, <1>3 DEF wait_test, BaseInv, CallInv, Awaits, Stage
  <2>2. /\ Frame(t, u, c) /\ Relabeled(t, u, c)
        /\ u.flags[c] = (t.flags[c] \ {"ZOMBIE"}) \cup {"TOLD_PARENT"}
    BY <1>0, <2>1, TellParentFrame
  <2>3. "WAITING" \notin u.flags[p]
    BY <2>1, TellParentClears
  <2>4. check_parent(t, c, b) = IF b /\ ~VfsCall(u, c) THEN v ELSE u
    BY <1>3 DEF check_parent
  <2> HIDE DEF u, p
  <2>5. Others(t, u, c) /\ u.parent = t.parent /\ Told(t, u, c, p)
    BY <1>0, <1>3, <2>1, <2>2, <2>3, FrameOthers DEF Told
  <2>6. Stage(u, c) = "collected" /\ Exiting(u, c)
    BY <1>0, <2>2 DEF Stage, InUse, Exiting
  <2>7. CASE b /\ ~VfsCall(u, c)
    <3>1. u \in PMState /\ BaseInv(u, a)
      BY <2>2, FrameKept DEF Kept
    <3>2. u.call[c] = "dead"
      BY <2>6, <3>1 DEF BaseInv, SlotInv, Exiting
    <3>3. Frame(u, v, c) /\ ~InUse(v, c)
      BY <2>6, <2>7, <3>1, <3>2, CleanupFrame
    <3>4. v.flags[p] = u.flags[p]
      BY <1>0, <2>1, <3>1 DEF cleanup, PMState
    <3> HIDE DEF v
    <3>5. Others(u, v, c) /\ v.parent = u.parent
      BY <3>3, FrameOthers
    <3>6. Others(t, v, c) /\ v.parent = t.parent /\ Told(t, v, c, p)
      BY <2>5, <3>4, <3>5, OthersTrans DEF Told
    <3>7. Stage(v, c) = "free"
      BY <3>3 DEF Stage
    <3> QED BY <2>4, <2>7, <3>6, <3>7 DEF Ends, p
  <2>8. CASE ~(b /\ ~VfsCall(u, c))
    BY <2>4, <2>5, <2>6, <2>8 DEF Ends, p
  <2> QED BY <2>7, <2>8
<1> QED BY <1>1, <1>2, <1>3

LEMMA ZombifyEnds ==
  ASSUME NEW t \in PMState, NEW c \in Slot, NEW a \in [Slot -> Activation],
         BaseInv(t, a), Exiting(t, c),
         "ZOMBIE" \notin t.flags[c], "TRACE_ZOMBIE" \notin t.flags[c],
         "TOLD_PARENT" \notin t.flags[c]
  PROVE  Ends(t, zombify(t, c), c, FALSE)
<1> DEFINE d == t.tracer[c]
           z == SetFlags(t, c, {"TRACE_ZOMBIE"})
           y == SetFlags(t, c, {"ZOMBIE"})
           w == tell_tracer(z, c)
<1>0. /\ SlotInv(t, c) /\ FamilyInv(t, a, c) /\ d \in Slot /\ InUse(t, c)
      /\ t.call[c] = "dead"
  <2>1. SlotInv(t, c) /\ FamilyInv(t, a, c) /\ d \in Slot
    BY DEF BaseInv, PMState
  <2> QED BY <2>1 DEF SlotInv, Exiting, InUse
<1>1. zombify(t, c) =
        IF d # NO_TRACER /\ d # t.parent[c]
        THEN IF wait_test(z, d, c) THEN check_parent(w, c, FALSE) ELSE z
        ELSE check_parent(y, c, FALSE)
  <2>1. {"ZOMBIE", "TRACE_ZOMBIE"} \cap t.flags[c] = {}
    OBVIOUS
  <2> QED BY <2>1 DEF zombify, Panic
<1>2. /\ z \in PMState /\ SameRest(t, z) /\ SameFlagsBut(t, z, c)
      /\ z.flags[c] = t.flags[c] \cup {"TRACE_ZOMBIE"}
      /\ z.call = t.call /\ z.pid = t.pid /\ z.procs_in_use = t.procs_in_use
  BY SetFields DEF Flag
<1>3. /\ y \in PMState /\ SameRest(t, y) /\ SameFlagsBut(t, y, c)
      /\ y.flags[c] = t.flags[c] \cup {"ZOMBIE"}
      /\ y.call = t.call /\ y.pid = t.pid /\ y.procs_in_use = t.procs_in_use
  BY SetFields DEF Flag
<1> HIDE DEF z, y
<1>4. Frame(t, y, c)
  <2>1. Relabeled(t, y, c)
    BY <1>3 DEF Relabeled, Same
  <2>2. \A x \in Slot \ {c} : QuietFlags(t, y, x)
    BY <1>3 DEF QuietFlags, Same, SameFlagsBut
  <2>3. \A x \in Slot : QuietCall(t, y, x)
    BY <1>3 DEF QuietCall, SameFlagsBut
  <2> QED BY <1>3, <2>1, <2>2, <2>3 DEF Frame
<1>5. ASSUME d # NO_TRACER PROVE Frame(t, z, c)
  <2>1. Relabeled(t, z, c)
    BY <1>2, <1>5 DEF Relabeled, Same
  <2>2. \A x \in Slot \ {c} : QuietFlags(t, z, x)
    BY <1>2 DEF QuietFlags, Same, SameFlagsBut
  <2>3. \A x \in Slot : QuietCall(t, z, x)
    BY <1>2 DEF QuietCall, SameFlagsBut
  <2> QED BY <1>2, <2>1, <2>2, <2>3 DEF Frame
<1>6. CASE ~(d # NO_TRACER /\ d # t.parent[c])
  <2>1. BaseInv(y, a) /\ Before(t, y, c)
    BY <1>3, <1>4, FrameBase, FrameBefore
  <2>2. Ends(y, check_parent(y, c, FALSE), c, FALSE)
    BY <1>3, <2>1, CheckParentEnds
  <2> QED BY <1>1, <1>6, <2>1, <2>2, EndsAfter
<1>7. CASE d # NO_TRACER /\ d # t.parent[c] /\ ~wait_test(z, d, c)
  <2>1. Others(t, z, c) /\ z.parent = t.parent
    BY <1>5, <1>7, FrameOthers
  <2>2. Stage(z, c) = "zombie"
    BY <1>0, <1>2 DEF Stage, InUse, Exiting
  <2> QED BY <1>1, <1>7, <2>1, <2>2 DEF Ends
<1>8. CASE d # NO_TRACER /\ d # t.parent[c] /\ wait_test(z, d, c)
  <2>1. BaseInv(z, a) /\ Before(t, z, c)
    BY <1>2, <1>5, <1>8, FrameBase, FrameBefore
  <2>2. Awaits(z, d) /\ d # c /\ z.tracer[c] = d /\ Exiting(z, c)
    <3>1. "WAITING" \in z.flags[d] /\ CallInv(z, d) /\ SlotInv(z, c) /\ Exiting(z, c)
      BY <1>0, <1>2, <1>8, <2>1 DEF wait_test, BaseInv, Exiting
    <3> QED BY <1>2, <3>1 DEF Awaits, CallInv, SlotInv, SameRest, Exiting
  <2>3. /\ Frame(z, w, c) /\ Relabeled(z, w, c)
        /\ w.flags[c] = (z.flags[c] \ {"TRACE_ZOMBIE"}) \cup {"ZOMBIE"}
    BY <1>2, <1>8, <2>2, TellTracerFrame
  <2> HIDE DEF w
  <2>4. w \in PMState /\ BaseInv(w, a) /\ Before(t, w, c)
    <3>1. w \in PMState /\ w.pid[c] = z.pid[c]
      BY <2>3 DEF Frame, Relabeled
    <3>2. Before(z, w, c)
      BY <2>3, <3>1, FrameBefore
    <3> QED BY <2>1, <2>3, <3>1, <3>2, FrameBase, BeforeTrans
  <2>5. Ends(w, check_parent(w, c, FALSE), c, FALSE)
    BY <2>3, <2>4, CheckParentEnds
  <2> QED BY <1>1, <1>8, <2>4, <2>5, EndsAfter
<1> QED BY <1>6, <1>7, <1>8

---------------------------------------------------------------------------
(* Beginning to exit.                                                      *)

\* From live process c of t: it is dying, or its death has been dealt with.
Exits(t, u, c) ==
  /\ c # INIT_PROC_NR /\ Stage(t, c) = "alive"
  /\ \/ Others(t, u, c) /\ u.parent = t.parent /\ Stage(u, c) = "dying"
     \/ Ends(t, u, c, FALSE)

LEMMA SameFlagsUnmoved ==
  ASSUME NEW t, NEW u, NEW x, u.flags[x] = t.flags[x], u.parent[x] = t.parent[x]
  PROVE  Unmoved(t, u, x)
BY DEF Unmoved, Stage, Par, InUse, Exiting

LEMMA BeginExitMoves ==
  ASSUME NEW t \in PMState, NEW s \in Slot \ Boot, NEW b \in BOOLEAN,
         NEW a \in [Slot -> Activation],
         BaseInv(t, a), InUse(t, s), ~Exiting(t, s), ~VfsCall(t, s), Ready(t, s)
  PROVE  Exits(t, begin_exit(t, s, b), s)
<1> DEFINE req == IF b THEN "dump" ELSE "exit"
           n == [at |-> "tracer", idx |-> 0, grp |-> 0, mp |-> PM]
<1>1. s \in Slot /\ s # INIT_PROC_NR /\ Stage(t, s) = "alive"
  BY BootSlots DEF Boot, Stage
<1>2. PICK w : /\ Marked(t, w, s, req)
               /\ begin_exit(t, s, b) = IF b THEN w ELSE zombify(w, s)
  BY <1>1, BeginExitMarked
<1>3. /\ w \in PMState /\ Exiting(w, s) /\ InUse(w, s)
      /\ "ZOMBIE" \notin w.flags[s] /\ "TRACE_ZOMBIE" \notin w.flags[s]
      /\ "TOLD_PARENT" \notin w.flags[s]
      /\ \A x \in Slot \ {s} : w.flags[x] = t.flags[x]
      /\ w.parent = t.parent /\ w.wpid = t.wpid /\ w.pid = t.pid
      /\ w.procgrp = t.procgrp
  <2>1. w.flags[s] = ((t.flags[s] \cup {"VFS_CALL"})
                \cap {"IN_USE", "VFS_CALL", "PRIV_PROC", "TRACE_EXIT"})
                \cup {"EXITING"}
    BY <1>1, <1>2 DEF Marked, PMState
  <2>2. \A x \in Slot \ {s} : w.flags[x] = t.flags[x]
    BY <1>2 DEF Marked, PMState
  <2> QED BY <1>2, <2>1, <2>2 DEF Marked, InUse, Exiting
<1>4. n \in Activation /\ n.at = "tracer" /\ n.idx = 0
  BY ConstantTypes DEF Activation
<1>5. req \in {"exit", "dump"}
  OBVIOUS
<1> HIDE DEF n, req
<1>6. BaseInv(w, [a EXCEPT ![s] = n])
  BY <1>2, <1>4, <1>5, MarkedBase
<1>7. [a EXCEPT ![s] = n] \in [Slot -> Activation]
  BY <1>4
<1>8. Before(t, w, s) /\ Stage(w, s) = "dying"
  <2>1. Others(t, w, s)
    BY <1>3, SameFlagsUnmoved DEF Others
  <2>2. \A p \in Slot \ {s} : wait_test(w, p, s) => wait_test(t, p, s)
    BY <1>3 DEF wait_test
  <2>3. Stage(w, s) = "dying"
    BY <1>3 DEF Stage
  <2> QED BY <1>3, <2>1, <2>2, <2>3 DEF Before
<1>9. CASE b
  BY <1>1, <1>2, <1>3, <1>8, <1>9 DEF Exits, Before
<1>10. CASE ~b
  <2>1. Ends(w, zombify(w, s), s, FALSE)
    BY <1>1, <1>3, <1>6, <1>7, ZombifyEnds
  <2> QED BY <1>1, <1>2, <1>8, <1>10, <2>1, EndsAfter DEF Exits
<1> QED BY <1>9, <1>10

\* INIT is only stopped.
LEMMA InitExitMoves ==
  ASSUME NEW t, NEW b
  PROVE  LET u == begin_exit(t, INIT_PROC_NR, b)
         IN  u.flags = t.flags /\ u.parent = t.parent
BY DEF begin_exit

---------------------------------------------------------------------------
(* What a step of PM does to entry c of the table, and to it alone.        *)

Still(t, u) == \A x \in Slot : Unmoved(t, u, x)

\* Its core is dumped, or its tracer has waited or gone; the parent is next.
Passes(t, u, c) ==
  /\ Stage(t, c) \in {"dying", "zombie"} /\ Ends(t, u, c, TRUE)
  /\ Stage(t, c) = "dying" => Stage(u, c) # "collected"

\* Its parent p calls waitpid when it is a zombie already.
WaitTells(t, u, c) ==
  /\ Others(t, u, c) /\ u.parent = t.parent
  /\ Stage(t, c) = "zombie" /\ Stage(u, c) \in {"collected", "free"}
  /\ Stage(t, t.parent[c]) = "alive"

\* VFS lets go of it.
Releases(t, u, c) ==
  /\ Others(t, u, c) /\ u.parent = t.parent
  /\ Stage(t, c) = "collected" /\ Stage(u, c) = "free"

\* INIT becomes its parent, and collects it at once if it can.
Adopts(t, u, c) ==
  /\ Others(t, u, c) /\ u.parent[c] = INIT_PROC_NR
  /\ InUse(t, c) /\ Exiting(t, t.parent[c]) /\ Stage(t, INIT_PROC_NR) = "alive"
  /\ \/ Stage(u, c) = Stage(t, c)
     \/ /\ Stage(t, c) = "zombie" /\ Stage(u, c) \in {"collected", "free"}
        /\ Told(t, u, c, INIT_PROC_NR)

\* It is taken for a child of p.
Forks(t, u, p, c) ==
  /\ Others(t, u, c) /\ Stage(t, p) = "alive"
  /\ Stage(t, c) = "free" /\ Stage(u, c) = "alive" /\ u.parent[c] = p

Moves(c) ==
  \/ Still(pm, pm') \/ Exits(pm, pm', c) \/ Passes(pm, pm', c)
  \/ /\ WaitTells(pm, pm', c)
     /\ \E arg \in WaitArg, nohang \in BOOLEAN : do_waitpid(pm.parent[c], arg, nohang)
  \/ Releases(pm, pm', c) \/ Adopts(pm, pm', c)
  \/ \E p \in Slot : Forks(pm, pm', p, c)

LifeStep == \E c \in Slot : Moves(c)

LEMMA SameStill ==
  ASSUME NEW t, NEW u, u.flags = t.flags, u.parent = t.parent
  PROVE  Still(t, u)
BY SameFlagsUnmoved DEF Still

LEMMA StillStep ==
  ASSUME Still(pm, pm')
  PROVE  LifeStep
BY ConstantTypes DEF LifeStep, Moves

\* A change before exit_proc(c) that concerns c alone and leaves it alive.
LEMMA ExitsAfter ==
  ASSUME NEW t, NEW v, NEW u, NEW c, Before(t, v, c), Unmoved(t, v, c),
         Exits(v, u, c)
  PROVE  Exits(t, u, c)
<1>1. Others(t, v, c) /\ v.parent = t.parent /\ Stage(t, c) = Stage(v, c)
  BY DEF Before, Unmoved
<1>2. CASE Ends(v, u, c, FALSE)
  BY <1>1, <1>2, EndsAfter DEF Exits
<1>3. CASE Others(v, u, c) /\ u.parent = v.parent /\ Stage(u, c) = "dying"
  BY <1>1, <1>3, OthersTrans DEF Exits
<1> QED BY <1>2, <1>3 DEF Exits

LEMMA SelfBefore ==
  ASSUME NEW t, NEW c
  PROVE  Before(t, t, c) /\ Unmoved(t, t, c)
BY DEF Before, Unmoved, Others

LEMMA ExitProcLife ==
  ASSUME NEW t \in PMState, NEW s \in Slot, NEW b \in BOOLEAN, NEW m,
         NEW a \in [Slot -> Activation],
         exit_proc(t, s, b, m), BaseInv(t, a),
         InUse(t, s), ~Exiting(t, s), ~VfsCall(t, s), s \notin Boot \ {INIT_PROC_NR},
         Ready(t, s), Before(pm, t, s), Unmoved(pm, t, s)
  PROVE  LifeStep
<1>0. pm' = begin_exit(t, s, b)
  BY DEF exit_proc
<1>1. CASE s = INIT_PROC_NR
  <2>1. pm'.flags = t.flags /\ pm'.parent = t.parent
    BY <1>0, <1>1, InitExitMoves
  <2>2. Still(t, pm')
    BY <2>1, SameStill
  <2>3. Still(pm, pm')
    BY <2>2 DEF Still, Before, Others, Unmoved
  <2> QED BY <2>3, StillStep
<1>2. CASE s # INIT_PROC_NR
  <2>1. s \in Slot \ Boot
    BY <1>2
  <2>2. Exits(t, pm', s)
    BY <1>0, <2>1, BeginExitMoves
  <2>3. Exits(pm, pm', s)
    BY <2>2, ExitsAfter
  <2> QED BY <2>3 DEF LifeStep, Moves
<1> QED BY <1>1, <1>2

---------------------------------------------------------------------------
(* The requests that end lives.                                            *)

LEMMA ExitLife ==
  ASSUME IInv, NEW p \in Slot \ {PM}, do_exit(p)
  PROVE  LifeStep
<1>0. Idle /\ Runnable(p) /\ p # RS_PROC_NR
  BY PMAssumption DEF do_exit
<1>1. pm \in PMState /\ act \in [Slot -> Activation] /\ BaseInv(pm, act)
  BY <1>0, IdleFacts
<1>2. CASE Priv(pm, p)
  <2>1. pm' = [pm EXCEPT !.call[p] = "exit", !.pend = @ \cup {p}]
    BY <1>2 DEF do_exit
  <2>2. pm'.flags = pm.flags /\ pm'.parent = pm.parent
    BY <1>1, <2>1 DEF PMState
  <2> QED BY <2>2, SameStill, StillStep
<1>3. CASE ~Priv(pm, p)
  <2>1. InUse(pm, p) /\ ~Exiting(pm, p) /\ ~VfsCall(pm, p)
    BY <1>0, <1>3, RunnableFacts
  <2>2. Ready(pm, p)
    BY <1>0, <2>1, ReadyFacts
  <2>3. p \notin Boot \ {INIT_PROC_NR}
    BY <1>0 DEF Boot
  <2>4. exit_proc(pm, p, FALSE, p)
    BY <1>3 DEF do_exit
  <2> QED BY <1>1, <2>1, <2>2, <2>3, <2>4, SelfBefore, ExitProcLife
<1> QED BY <1>2, <1>3

LEMMA KillLife ==
  ASSUME IInv, NEW k \in Slot \ {PM}, NEW p \in Slot \ {PM}, Kill(k, p)
  PROVE  LifeStep
<1>0. Idle /\ p # RS_PROC_NR /\ InUse(pm, p) /\ ~Exiting(pm, p)
  BY PMAssumption DEF Kill
<1>1. pm \in PMState /\ act \in [Slot -> Activation] /\ BaseInv(pm, act)
  BY <1>0, IdleFacts
<1>2. CASE VfsCall(pm, p)
  <2>1. pm' = [pm EXCEPT !.pend = @ \cup {p}]
    BY <1>2 DEF Kill
  <2>2. pm'.flags = pm.flags /\ pm'.parent = pm.parent
    BY <1>1, <2>1 DEF PMState
  <2> QED BY <2>2, SameStill, StillStep
<1>3. CASE ~VfsCall(pm, p)
  <2>1. PICK b \in BOOLEAN : exit_proc(pm, p, b, k)
    BY <1>3 DEF Kill, DumpChoice
  <2>2. Ready(pm, p)
    BY <1>0, <1>3, ReadyFacts
  <2>3. p \notin Boot \ {INIT_PROC_NR}
    BY <1>0 DEF Boot
  <2> QED BY <1>0, <1>1, <1>3, <2>1, <2>2, <2>3, SelfBefore, ExitProcLife
<1> QED BY <1>2, <1>3

LEMMA KernelKillLife ==
  ASSUME IInv, NEW p \in Slot \ {PM}, KernelKill(p)
  PROVE  LifeStep
<1>0. Idle /\ p \in pm.pend /\ ~VfsCall(pm, p) /\ exit_proc(pm, p, FALSE, PM)
  BY DEF KernelKill
<1>1. /\ pm \in PMState /\ act \in [Slot -> Activation]
      /\ BaseInv(pm, act) /\ BootInv(pm) /\ PendInv(pm, p)
  BY <1>0, IdleFacts DEF BaseInv
<1>2. InUse(pm, p) /\ ~Exiting(pm, p) /\ p \notin Boot
  BY <1>0, <1>1 DEF PendInv, BootInv
<1>3. Ready(pm, p)
  BY <1>0, <1>2, ReadyFacts
<1> QED BY <1>0, <1>1, <1>2, <1>3, SelfBefore, ExitProcLife

LEMMA TraceExitLife ==
  ASSUME IInv, NEW d \in Slot \ {PM}, NEW c \in Slot \ {PM}, TraceExit(d, c)
  PROVE  LifeStep
<1> DEFINE r == [pm EXCEPT !.call[d] = "ptrace"]
           t == SetFlags(r, c, {"TRACE_EXIT"})
<1>0. /\ Stopped(d, c)
      /\ IF VfsCall(pm, c) THEN pm' = [t EXCEPT !.pend = @ \cup {c}]
         ELSE exit_proc(t, c, FALSE, d)
  BY DEF TraceExit
<1>1. /\ t \in PMState /\ BaseInv(t, act) /\ InUse(t, c) /\ ~Exiting(t, c)
      /\ VfsCall(t, c) = VfsCall(pm, c) /\ c \in Slot \ Boot /\ Ready(t, c)
  BY <1>0, TraceExitMarked
<1>2. act \in [Slot -> Activation] /\ pm \in PMState
  BY DEF IInv, TypeOK
<1>3. /\ t.flags = [pm.flags EXCEPT ![c] = @ \cup {"TRACE_EXIT"}]
      /\ t.parent = pm.parent /\ t.wpid = pm.wpid /\ t.pid = pm.pid
      /\ t.procgrp = pm.procgrp
  BY <1>2 DEF SetFlags, PMState
<1> HIDE DEF t
<1>4. Before(pm, t, c) /\ Unmoved(pm, t, c)
  <2>1. \A x \in Slot \ {c} : t.flags[x] = pm.flags[x]
    BY <1>2, <1>3 DEF PMState
  <2>2. t.flags[c] = pm.flags[c] \cup {"TRACE_EXIT"}
    BY <1>2, <1>3 DEF PMState
  <2>3. Others(pm, t, c)
    BY <1>3, <2>1, SameFlagsUnmoved DEF Others
  <2>4. \A p \in Slot \ {c} : wait_test(t, p, c) => wait_test(pm, p, c)
    BY <1>3, <2>1 DEF wait_test
  <2>5. Unmoved(pm, t, c)
    BY <1>3, <2>2 DEF Unmoved, Stage, Par, InUse, Exiting
  <2> QED BY <1>3, <2>3, <2>4, <2>5 DEF Before
<1>5. CASE VfsCall(pm, c)
  <2>1. pm'.flags = t.flags /\ pm'.parent = t.parent
    BY <1>0, <1>1, <1>5 DEF PMState
  <2>2. Still(t, pm')
    BY <2>1, SameStill
  <2>3. Still(pm, pm')
    BY <1>4, <2>2 DEF Still, Before, Others, Unmoved
  <2> QED BY <2>3, StillStep
<1>6. CASE ~VfsCall(pm, c)
  BY <1>0, <1>1, <1>2, <1>4, <1>6, ExitProcLife
<1> QED BY <1>5, <1>6

---------------------------------------------------------------------------
(* The answers of VFS.                                                     *)

LEMMA ServedBefore ==
  ASSUME NEW t, NEW u, NEW s \in Slot, NEW P, Served(t, u, s, P)
  PROVE  Before(t, u, s) /\ Unmoved(t, u, s)
<1>1. /\ t \in PMState /\ u.parent = t.parent /\ u.wpid = t.wpid /\ u.pid = t.pid
      /\ u.procgrp = t.procgrp
      /\ u.flags = [t.flags EXCEPT ![s] = @ \ {"VFS_CALL", "NEW_PARENT"}]
  BY DEF Served
<1>2. /\ \A x \in Slot \ {s} : u.flags[x] = t.flags[x]
      /\ u.flags[s] = t.flags[s] \ {"VFS_CALL", "NEW_PARENT"}
  BY <1>1 DEF PMState
<1>3. Others(t, u, s)
  BY <1>1, <1>2, SameFlagsUnmoved DEF Others
<1>4. \A p \in Slot \ {s} : wait_test(u, p, s) => wait_test(t, p, s)
  BY <1>1, <1>2 DEF wait_test
<1>5. Unmoved(t, u, s)
  BY <1>1, <1>2 DEF Unmoved, Stage, Par, InUse, Exiting
<1> QED BY <1>1, <1>3, <1>4, <1>5 DEF Before

LEMMA ServedStill ==
  ASSUME NEW s \in Slot, NEW P, Served(pm, pm', s, P)
  PROVE  LifeStep
<1>1. Still(pm, pm')
  BY ServedBefore DEF Still, Before, Others
<1> QED BY <1>1, StillStep

LEMMA ServedExitLife ==
  ASSUME IInv, Idle, NEW s \in Slot, pm.vfs[s] # "none", ~Exiting(pm, s),
         NEW v, Served(pm, v, s, pm.pend), exit_proc(v, s, FALSE, PM)
  PROVE  LifeStep
<1> DEFINE u == [v EXCEPT !.pend = @ \ {s}]
<1>1. /\ u \in PMState /\ s \in Slot \ Boot /\ BaseInv(u, act)
      /\ Served(pm, u, s, pm.pend \ {s})
      /\ InUse(u, s) /\ ~Exiting(u, s) /\ ~VfsCall(u, s) /\ Ready(u, s)
  BY ServedReady
<1>2. exit_proc(u, s, FALSE, PM)
  BY ExitForgets DEF Served
<1> HIDE DEF u
<1>3. act \in [Slot -> Activation] /\ s \notin Boot \ {INIT_PROC_NR}
  BY <1>1 DEF IInv, TypeOK
<1>4. Before(pm, u, s) /\ Unmoved(pm, u, s)
  BY <1>1, ServedBefore
<1> QED BY <1>1, <1>2, <1>3, <1>4, ExitProcLife

LEMMA ResumedLife ==
  ASSUME IInv, Idle, NEW s \in Slot, pm.vfs[s] # "none", ~Exiting(pm, s),
         NEW v, Served(pm, v, s, pm.pend), Resumed(v, s)
  PROVE  LifeStep
<1>1. CASE s \in v.pend
  BY <1>1, ServedExitLife DEF Resumed
<1>2. CASE s \notin v.pend
  <2>1. pm' = v
    BY <1>2 DEF Resumed
  <2>2. Served(pm, pm', s, pm.pend)
    BY <2>1
  <2> QED BY <2>2, ServedStill
<1> QED BY <1>1, <1>2

LEMMA VfsForkReplyLife ==
  ASSUME IInv, NEW s \in Slot \ {PM}, VfsForkReply(s)
  PROVE  LifeStep
<1> DEFINE t == Answered(pm, s)
           v == reply(t, s, "born")
           w == [t EXCEPT !.sched = @ \ {s}]
<1>0. /\ Idle /\ pm.vfs[s] = "fork"
      /\ \/ Resumed(ReplyParent(v, s), s)
         \/ exit_proc(ReplyParent(w, s), s, FALSE, PM)
  BY DEF VfsForkReply
<1>1. SlotInv(pm, s) /\ CallInv(pm, s)
  BY <1>0, IdleFacts DEF BaseInv
<1>2. ~Exiting(pm, s) /\ pm.call[s] = "born"
  BY <1>0, <1>1 DEF SlotInv, CallInv, Exiting
<1>3. /\ Served(pm, t, s, pm.pend) /\ t.call = pm.call /\ t \in PMState
      /\ t.sched = pm.sched
  BY <1>0, AnsweredServed
<1> HIDE DEF t
<1>4. Served(pm, v, s, pm.pend) /\ \A x \in Slot \ {s} : v.call[x] = pm.call[x]
  BY <1>0, <1>2, <1>3, WakeServed DEF Call
<1>5. Served(pm, w, s, pm.pend) /\ \A x \in Slot \ {s} : w.call[x] = pm.call[x]
  <2>1. /\ w \in PMState /\ w.flags = t.flags /\ w.vfs = t.vfs /\ w.call = t.call
        /\ w.pend = t.pend /\ w.sched = t.sched \ {s}
        /\ w.parent = t.parent /\ w.tracer = t.tracer /\ w.pid = t.pid
        /\ w.procgrp = t.procgrp /\ w.wpid = t.wpid
        /\ w.procs_in_use = t.procs_in_use /\ w.panic = t.panic
    BY <1>3 DEF PMState
  <2> HIDE DEF w
  <2>2. w.sched \subseteq pm.sched /\ pm.sched \subseteq w.sched \cup {s}
    BY <1>3, <2>1
  <2> QED BY <1>3, <2>1, <2>2 DEF Served
<1> HIDE DEF v, w
<1>6. CASE Resumed(ReplyParent(v, s), s)
  BY <1>0, <1>2, <1>4, <1>6, ReplyParentServed, ResumedLife
<1>7. CASE exit_proc(ReplyParent(w, s), s, FALSE, PM)
  BY <1>0, <1>2, <1>5, <1>7, ReplyParentServed, ServedExitLife
<1> QED BY <1>0, <1>6, <1>7

LEMMA VfsCallReplyLife ==
  ASSUME IInv, NEW s \in Slot \ {PM}, VfsCallReply(s)
  PROVE  LifeStep
<1> DEFINE t == Answered(pm, s)
<1>0. /\ Idle
      /\ \/ pm.vfs[s] = "srv_fork" /\ Resumed(t, s)
         \/ pm.vfs[s] = "setsid" /\ Resumed(reply(t, s, "setsid"), s)
  BY DEF VfsCallReply
<1>1. SlotInv(pm, s) /\ CallInv(pm, s) /\ pm.vfs[s] # "none"
  BY <1>0, IdleFacts DEF BaseInv
<1>2. ~Exiting(pm, s)
  BY <1>0, <1>1 DEF SlotInv, Exiting
<1>3. Served(pm, t, s, pm.pend) /\ t.call = pm.call
  BY <1>0, <1>1, AnsweredServed
<1> HIDE DEF t
<1>4. CASE pm.vfs[s] = "srv_fork" /\ Resumed(t, s)
  BY <1>0, <1>1, <1>2, <1>3, <1>4, ResumedLife
<1>5. CASE pm.vfs[s] = "setsid" /\ Resumed(reply(t, s, "setsid"), s)
  <2>1. Served(pm, reply(t, s, "setsid"), s, pm.pend)
    <3>1. pm.call[s] = "setsid"
      BY <1>1, <1>5 DEF CallInv
    <3> QED BY <1>3, <1>5, <3>1, WakeServed DEF Call
  <2> QED BY <1>0, <1>1, <1>2, <1>5, <2>1, ResumedLife
<1> QED BY <1>0, <1>4, <1>5

\* exit_restart: a dumped core makes a zombie; what is told about is freed.
LEMMA VfsExitReplyLife ==
  ASSUME IInv, NEW s \in Slot \ {PM}, VfsExitReply(s)
  PROVE  LifeStep
<1> DEFINE u == [Answered(pm, s) EXCEPT !.sched = @ \ {s}]
           z == IF pm.vfs[s] = "dump" THEN zombify(u, s) ELSE u
           w == IF "TRACE_EXIT" \in z.flags[s] THEN reply(z, z.tracer[s], "ptrace") ELSE z
           y == cleanup(w, s)
<1>0. Idle /\ pm.vfs[s] \in {"exit", "dump"} /\ s \in Slot
  BY DEF VfsExitReply
<1>1. Served(pm, u, s, pm.pend \ {s}) /\ u.call = pm.call /\ Exiting(pm, s)
  BY <1>0, ExitAnswered
<1>2. pm' = IF "TOLD_PARENT" \in w.flags[s] THEN y ELSE w
  BY DEF VfsExitReply, exit_restart
<1> HIDE DEF u
<1>3. Restarting(z, s)
  BY <1>0, <1>1, RestartZombie
<1>4. Before(pm, u, s) /\ Unmoved(pm, u, s) /\ u \in PMState
  BY <1>1, ServedBefore DEF Served
<1>5. SlotInv(pm, s) /\ Announced(pm, s) /\ InUse(pm, s)
  BY <1>0, IdleFacts, OwedFacts DEF BaseInv
<1>6. /\ w.flags = z.flags /\ w.parent = z.parent
      /\ y.flags = [w.flags EXCEPT ![s] = {}] /\ y.parent = w.parent
  <2>1. z \in PMState
    BY <1>3 DEF Restarting
  <2> HIDE DEF z
  <2> QED BY <2>1 DEF reply, cleanup, PMState
<1>7. /\ pm'.parent = z.parent
      /\ "TOLD_PARENT" \notin z.flags[s] => pm'.flags = z.flags
      /\ "TOLD_PARENT" \in z.flags[s] => pm'.flags = [z.flags EXCEPT ![s] = {}]
  <2> HIDE DEF z, w, y
  <2> QED BY <1>2, <1>6
<1> HIDE DEF w, y
<1>8. /\ Others(z, pm', s)
      /\ \A x \in Slot \ {s} : pm'.flags[x] = z.flags[x]
      /\ "TOLD_PARENT" \in z.flags[s] => Stage(pm', s) = "free"
      /\ "TOLD_PARENT" \notin z.flags[s] => Stage(pm', s) = Stage(z, s)
  <2>1. z \in PMState
    BY <1>3 DEF Restarting
  <2> HIDE DEF z
  <2>2. \A x \in Slot \ {s} : pm'.flags[x] = z.flags[x]
    BY <1>7, <2>1 DEF PMState
  <2>3. Others(z, pm', s)
    BY <1>7, <2>2, SameFlagsUnmoved DEF Others
  <2>4. "TOLD_PARENT" \in z.flags[s] => ~InUse(pm', s)
    BY <1>0, <1>7, <2>1 DEF PMState, InUse
  <2>5. "TOLD_PARENT" \notin z.flags[s] => Stage(pm', s) = Stage(z, s)
    BY <1>7 DEF Stage, InUse, Exiting
  <2> QED BY <2>2, <2>3, <2>4, <2>5 DEF Stage
<1>9. CASE pm.vfs[s] = "exit"
  <2>1. z = u
    BY <1>9
  <2>2. Others(pm, pm', s) /\ pm'.parent = pm.parent
    BY <1>4, <1>7, <1>8, <2>1, OthersTrans DEF Before
  <2>3. CASE "TOLD_PARENT" \in z.flags[s]
    <3>1. "TOLD_PARENT" \in pm.flags[s]
      BY <1>0, <1>1, <2>1, <2>3 DEF Served, PMState
    <3>2. Stage(pm, s) = "collected"
      BY <1>1, <1>5, <3>1 DEF Stage
    <3>3. Releases(pm, pm', s)
      BY <1>8, <2>2, <2>3, <3>2 DEF Releases
    <3> QED BY <1>0, <3>3 DEF LifeStep, Moves
  <2>4. CASE "TOLD_PARENT" \notin z.flags[s]
    <3>1. pm'.flags = u.flags /\ pm'.parent = u.parent
      BY <1>7, <2>1, <2>4
    <3>2. Still(u, pm')
      BY <3>1, SameStill
    <3>3. Still(pm, pm')
      BY <1>4, <3>2 DEF Still, Before, Others, Unmoved
    <3> QED BY <3>3, StillStep
  <2> QED BY <2>3, <2>4
<1>10. CASE pm.vfs[s] = "dump"
  <2>1. z = zombify(u, s)
    BY <1>10
  <2>2. /\ Exiting(u, s) /\ "ZOMBIE" \notin u.flags[s] /\ "TOLD_PARENT" \notin u.flags[s]
        /\ "TRACE_ZOMBIE" \notin u.flags[s] /\ BaseInv(u, act)
        /\ Stage(pm, s) = "dying"
    <3>1. /\ "ZOMBIE" \notin pm.flags[s] /\ "TOLD_PARENT" \notin pm.flags[s]
          /\ "TRACE_ZOMBIE" \notin pm.flags[s]
      BY <1>1, <1>5, <1>10 DEF Announced, Exiting
    <3>2. u.flags[s] = pm.flags[s] \ {"VFS_CALL", "NEW_PARENT"}
      BY <1>0, <1>1 DEF Served, PMState
    <3>3. s \in Slot \ Boot /\ VfsCall(pm, s)
      BY <1>0, OwedFacts
    <3>4. act \in [Slot -> Activation] /\ BaseInv(pm, act) /\ act[s].at = "none"
      BY <1>0, IdleFacts
    <3>5. BaseInv(u, act)
      BY <1>1, <3>3, <3>4, ServedBase
    <3> QED BY <1>1, <1>5, <3>1, <3>2, <3>5 DEF Stage, Exiting
  <2>3. act \in [Slot -> Activation]
    BY DEF IInv, TypeOK
  <2>4. Ends(u, z, s, FALSE)
    BY <1>0, <1>4, <2>1, <2>2, <2>3, ZombifyEnds
  <2>5. Ends(pm, z, s, FALSE)
    BY <1>4, <2>4, EndsAfter
  <2>6. "TOLD_PARENT" \in z.flags[s] <=> Stage(z, s) = "collected"
    <3>1. SlotInv(z, s) /\ Exiting(z, s)
      BY <1>0, <1>3 DEF Restarting, BaseInv
    <3> HIDE DEF z
    <3> QED BY <3>1 DEF Stage, SlotInv, Exiting, InUse
  <2> HIDE DEF z
  <2>7. Others(pm, pm', s) /\ pm'.parent = pm.parent
    BY <1>7, <1>8, <2>5, OthersTrans DEF Ends
  <2>8. CASE Stage(z, s) = "zombie"
    <3>1. Stage(pm', s) = "zombie"
      BY <1>8, <2>6, <2>8
    <3>2. Passes(pm, pm', s)
      BY <2>2, <2>7, <3>1 DEF Passes, Ends
    <3> QED BY <1>0, <3>2 DEF LifeStep, Moves
  <2>9. CASE Stage(z, s) = "collected"
    <3>1. Stage(pm', s) = "free"
      BY <1>8, <2>6, <2>9
    <3>2. Told(pm, z, s, pm.parent[s])
      BY <2>5, <2>9 DEF Ends
    <3>3. Told(pm, pm', s, pm.parent[s])
      BY <1>8, <3>2 DEF Told
    <3>4. Passes(pm, pm', s)
      BY <2>2, <2>7, <3>1, <3>3 DEF Passes, Ends
    <3> QED BY <1>0, <3>4 DEF LifeStep, Moves
  <2> QED BY <2>5, <2>8, <2>9 DEF Ends
<1> QED BY <1>0, <1>9, <1>10

---------------------------------------------------------------------------
(* The requests that begin lives, and those that leave them alone.         *)

LEMMA ForkedForks ==
  ASSUME NEW t, NEW u, NEW p, NEW c \in Slot, NEW F, NEW req,
         Forked(t, u, p, c, F, req), ~InUse(t, c), InUse(t, p), ~Exiting(t, p)
  PROVE  Forks(t, u, p, c)
<1>1. /\ t \in PMState /\ u.flags[c] = F /\ u.parent = [t.parent EXCEPT ![c] = p]
      /\ \A x \in Slot \ {c} : u.flags[x] = t.flags[x]
      /\ F = {"IN_USE", "VFS_CALL"} \/ F = {"IN_USE", "PRIV_PROC", "VFS_CALL"}
  BY DEF Forked
<1>2. u.parent[c] = p /\ \A x \in Slot \ {c} : u.parent[x] = t.parent[x]
  BY <1>1 DEF PMState
<1>3. Others(t, u, c)
  BY <1>1, <1>2, SameFlagsUnmoved DEF Others
<1>4. InUse(u, c) /\ ~Exiting(u, c)
  BY <1>1 DEF InUse, Exiting
<1> QED BY <1>2, <1>3, <1>4 DEF Forks, Stage

LEMMA ForkLife ==
  ASSUME IInv, NEW p \in Slot \ {PM}, do_fork(p)
  PROVE  LifeStep
<1>0. Idle /\ Runnable(p) /\ InUse(pm, p) /\ ~Exiting(pm, p)
  BY DEF do_fork, Runnable
<1>1. CASE pm' = pm
  BY <1>1, SameStill, StillStep
<1>2. CASE pm' # pm
  <2>1. PICK c \in Slot, v \in PMState :
          /\ ~InUse(pm, c) /\ pm' = SignalTracer(v, c)
          /\ Forked(pm, v, p, c, {"IN_USE", "VFS_CALL"}, "fork")
    BY <1>2, ForkForked
  <2>2. Forks(pm, v, p, c)
    BY <1>0, <2>1, ForkedForks
  <2>3. TableInv(v, act)
    BY <1>0, <2>1, ForkedTable
  <2>4. InUse(v, c) /\ ~Exiting(v, c) /\ BaseInv(v, act)
    BY <2>1, <2>3 DEF Forked, InUse, Exiting, TableInv
  <2>5. pm' = v \/ \A x \in Slot : Frame(v, pm', x)
    BY <2>1, <2>4, SignalTracerFrame
  <2>6. (\A x \in Slot : Unmoved(v, pm', x)) /\ pm'.parent = v.parent
    <3>1. CASE pm' = v
      BY <3>1 DEF Unmoved
    <3>2. CASE \A x \in Slot : Frame(v, pm', x)
      BY <3>2, QuietAll
    <3> QED BY <2>5, <3>1, <3>2
  <2>7. Forks(pm, pm', p, c)
    BY <2>2, <2>6 DEF Forks, Others, Unmoved
  <2> QED BY <2>7 DEF LifeStep, Moves
<1> QED BY <1>1, <1>2

LEMMA SrvForkLife ==
  ASSUME IInv, NEW p \in Slot \ {PM}, NEW uid \in Uid, do_srv_fork(p, uid)
  PROVE  LifeStep
<1>0. InUse(pm, p) /\ ~Exiting(pm, p)
  BY DEF do_srv_fork, Runnable
<1>1. CASE pm' = pm
  BY <1>1, SameStill, StillStep
<1>2. CASE pm' # pm
  <2>1. PICK c \in Slot :
          /\ ~InUse(pm, c)
          /\ Forked(pm, pm', p, c, {"IN_USE", "PRIV_PROC", "VFS_CALL"}, "srv_fork")
    BY <1>2, SrvForkForked
  <2>2. Forks(pm, pm', p, c)
    BY <1>0, <2>1, ForkedForks
  <2> QED BY <2>2 DEF LifeStep, Moves
<1> QED BY <1>1, <1>2

LEMMA SetsidLife ==
  ASSUME IInv, NEW p \in Slot \ {PM}, setsid(p)
  PROVE  LifeStep
<1> DEFINE t == [pm EXCEPT !.procgrp[p] = pm.pid[p], !.call[p] = "setsid"]
           u == tell_vfs(t, p, "setsid")
<1>0. Idle /\ Runnable(p) /\ ~Priv(pm, p) /\ pm' = u /\ pm \in PMState
  BY DEF setsid, IInv, TypeOK
<1>1. t \in PMState /\ t.flags = pm.flags /\ t.parent = pm.parent
  BY <1>0 DEF PMState, Call
<1>2. ~VfsCall(t, p) /\ "setsid" \in Request
  BY <1>0, <1>1, RunnableFacts DEF VfsCall, Request
<1> HIDE DEF t
<1>3. /\ u \in PMState
      /\ u.flags = [t.flags EXCEPT ![p] = @ \cup {"VFS_CALL"}]
      /\ u.vfs = [t.vfs EXCEPT ![p] = "setsid"]
      /\ u.call = t.call /\ u.pend = t.pend /\ u.sched = t.sched
      /\ u.parent = t.parent /\ u.tracer = t.tracer /\ u.pid = t.pid
      /\ u.procgrp = t.procgrp /\ u.wpid = t.wpid
      /\ u.procs_in_use = t.procs_in_use /\ u.panic = t.panic
  BY <1>1, <1>2, TellFields
<1> HIDE DEF u
<1>4. /\ pm'.flags[p] = pm.flags[p] \cup {"VFS_CALL"}
      /\ \A x \in Slot \ {p} : pm'.flags[x] = pm.flags[x]
  BY <1>0, <1>1, <1>3 DEF PMState
<1>5. Unmoved(pm, pm', p)
  BY <1>0, <1>1, <1>3, <1>4 DEF Unmoved, Stage, Par, InUse, Exiting
<1>6. \A x \in Slot \ {p} : Unmoved(pm, pm', x)
  BY <1>0, <1>1, <1>3, <1>4, SameFlagsUnmoved
<1> QED BY <1>5, <1>6, StillStep DEF Still

LEMMA RetracedStill ==
  ASSUME NEW t, NEW u, NEW c \in Slot, Retraced(t, u, c)
  PROVE  Still(t, u)
<1>1. /\ u.flags[c] \in {t.flags[c], t.flags[c] \ {"TRACE_STOPPED"}}
      /\ \A x \in Slot \ {c} : u.flags[x] = t.flags[x]
      /\ u.parent = t.parent
  BY DEF Retraced
<1>2. Unmoved(t, u, c)
  BY <1>1 DEF Unmoved, Stage, Par, InUse, Exiting
<1>3. \A x \in Slot \ {c} : Unmoved(t, u, x)
  BY <1>1, SameFlagsUnmoved
<1> QED BY <1>2, <1>3 DEF Still

LEMMA AttachLife ==
  ASSUME IInv, NEW d \in Slot \ {PM}, NEW c \in Slot \ {PM}, NEW b \in BOOLEAN,
         Attach(d, c, b)
  PROVE  LifeStep
<1>1. PICK t \in PMState : Retraced(pm, t, c) /\ \A x \in Slot : Frame(t, pm', x)
  BY AttachRetraced
<1>2. Still(pm, t)
  BY <1>1, RetracedStill
<1>3. Still(t, pm')
  BY <1>1, QuietAll DEF Still
<1>4. Still(pm, pm')
  BY <1>2, <1>3 DEF Still, Unmoved
<1> QED BY <1>4, StillStep

LEMMA ResumeLife ==
  ASSUME IInv, NEW d \in Slot \ {PM}, NEW c \in Slot \ {PM}, NEW b \in BOOLEAN,
         Resume(d, c, b)
  PROVE  LifeStep
<1>1. Retraced(pm, pm', c)
  BY ResumeRetraced
<1>2. Still(pm, pm')
  BY <1>1, RetracedStill
<1> QED BY <1>2, StillStep

---------------------------------------------------------------------------
(* waitpid.                                                                *)

\* A tracer collects its zombie, which is then the parent's.
LEMMA WaitTracerEnds ==
  ASSUME IInv, Idle, NEW p \in Slot \ {PM}, Runnable(p), NEW c \in Slot,
         "TRACE_ZOMBIE" \in pm.flags[c], pm.tracer[c] = p
  PROVE  Passes(pm, check_parent(tell_tracer([pm EXCEPT !.call[p] = "wait"], c), c, TRUE), c)
<1> DEFINE t == [pm EXCEPT !.call[p] = "wait"]
           z == tell_tracer(t, c)
           u == check_parent(z, c, TRUE)
<1>0. act \in [Slot -> Activation]
  BY IdleFacts
<1>1. /\ t \in PMState /\ BaseInv(t, act) /\ t.call[p] = "wait" /\ SameRest(pm, t)
      /\ t.flags = pm.flags /\ t.pid = pm.pid
  BY EnterCall DEF Call
<1> HIDE DEF t
<1>2. /\ SlotInv(t, c) /\ t.tracer[c] = p /\ "TRACE_ZOMBIE" \in t.flags[c]
      /\ p # NO_TRACER /\ ~Exiting(t, p)
  BY <1>1 DEF BaseInv, SameRest, Runnable, Exiting, NO_TRACER, PM
<1>3. /\ Exiting(t, c) /\ "ZOMBIE" \notin t.flags[c] /\ "TOLD_PARENT" \notin t.flags[c]
      /\ InUse(t, c) /\ p # c
  BY <1>2 DEF SlotInv, Exiting, InUse
<1>4. /\ Frame(t, z, c) /\ Relabeled(t, z, c)
      /\ z.flags[c] = (t.flags[c] \ {"TRACE_ZOMBIE"}) \cup {"ZOMBIE"}
  BY <1>1, <1>2, <1>3, TellTracerFrame DEF Awaits
<1> HIDE DEF z
<1>5. Before(pm, t, c)
  BY <1>1 DEF Before, Others, Unmoved, Stage, Par, InUse, Exiting, SameRest, wait_test
<1>6. Before(t, z, c) /\ z \in PMState /\ BaseInv(z, act)
  <2>1. z \in PMState /\ z.pid[c] = t.pid[c]
    BY <1>4 DEF Frame, Relabeled
  <2> QED BY <1>0, <1>1, <1>4, <2>1, FrameBefore, FrameBase
<1>7. Ends(z, u, c, TRUE)
  BY <1>0, <1>4, <1>6, CheckParentEnds
<1> HIDE DEF u
<1>8. Ends(pm, u, c, TRUE)
  BY <1>5, <1>6, <1>7, BeforeTrans, EndsAfter
<1>9. Stage(pm, c) = "zombie"
  BY <1>1, <1>2, <1>3 DEF Stage, InUse, Exiting
<1>10. Passes(pm, u, c)
  BY <1>8, <1>9 DEF Passes
<1> QED BY <1>10 DEF u, z, t

\* The parent collects its zombie.
LEMMA WaitChildEnds ==
  ASSUME IInv, Idle, NEW p \in Slot \ {PM}, Runnable(p), NEW c \in Slot,
         "ZOMBIE" \in pm.flags[c], pm.parent[c] = p,
         NEW u, u = LET z == tell_parent([pm EXCEPT !.call[p] = "wait"], c)
                    IN  IF VfsCall(z, c) THEN z ELSE cleanup(z, c)
  PROVE  WaitTells(pm, u, c)
<1> DEFINE t == [pm EXCEPT !.call[p] = "wait"]
           z == tell_parent(t, c)
           y == cleanup(z, c)
<1>0. act \in [Slot -> Activation]
  BY IdleFacts
<1>1. /\ t \in PMState /\ BaseInv(t, act) /\ t.call[p] = "wait" /\ SameRest(pm, t)
      /\ t.flags = pm.flags /\ t.pid = pm.pid
  BY EnterCall DEF Call
<1>2. u = IF VfsCall(z, c) THEN z ELSE y
  OBVIOUS
<1> HIDE DEF t
<1>3. /\ SlotInv(t, c) /\ t.parent[c] = p /\ "ZOMBIE" \in t.flags[c]
      /\ p # PM /\ ~Exiting(t, p) /\ InUse(t, p)
  BY <1>1 DEF BaseInv, SameRest, Runnable, Exiting, InUse
<1>4. /\ Exiting(t, c) /\ "TRACE_ZOMBIE" \notin t.flags[c]
      /\ "TOLD_PARENT" \notin t.flags[c] /\ InUse(t, c) /\ p # c
  BY <1>3 DEF SlotInv, Exiting, InUse
<1>5. /\ Frame(t, z, c) /\ z.flags[c] = (t.flags[c] \ {"ZOMBIE"}) \cup {"TOLD_PARENT"}
  BY <1>1, <1>3, <1>4, TellParentFrame DEF Awaits
<1> HIDE DEF z
<1>6. Others(pm, z, c) /\ z.parent = pm.parent /\ Stage(z, c) = "collected"
  <2>1. Others(pm, t, c) /\ t.parent = pm.parent
    BY <1>1 DEF Others, Unmoved, Stage, Par, InUse, Exiting, SameRest
  <2>2. Others(t, z, c) /\ z.parent = t.parent
    BY <1>5, FrameOthers
  <2>3. Stage(z, c) = "collected"
    BY <1>4, <1>5 DEF Stage, InUse, Exiting
  <2> QED BY <2>1, <2>2, <2>3, OthersTrans
<1>7. Stage(pm, c) = "zombie" /\ Stage(pm, pm.parent[c]) = "alive"
  BY <1>1, <1>3, <1>4 DEF Stage, InUse, Exiting
<1>8. CASE VfsCall(z, c)
  BY <1>2, <1>6, <1>7, <1>8 DEF WaitTells
<1>9. CASE ~VfsCall(z, c)
  <2>1. z \in PMState /\ Exiting(z, c) /\ z.call[c] = "dead"
    <3>1. z \in PMState /\ BaseInv(z, act) /\ Exiting(z, c)
      BY <1>0, <1>1, <1>4, <1>5, FrameBase DEF Frame, Exiting
    <3> QED BY <3>1 DEF BaseInv, SlotInv, Exiting
  <2>2. Frame(z, y, c) /\ ~InUse(y, c)
    BY <1>9, <2>1, CleanupFrame
  <2> HIDE DEF y
  <2>3. Others(pm, y, c) /\ y.parent = pm.parent
    BY <1>6, <2>2, FrameOthers, OthersTrans
  <2>4. Stage(y, c) = "free"
    BY <2>2 DEF Stage
  <2> QED BY <1>2, <1>7, <1>9, <2>3, <2>4 DEF WaitTells
<1> QED BY <1>8, <1>9

LEMMA WaitpidLife ==
  ASSUME IInv, NEW p \in Slot \ {PM}, NEW pidarg \in WaitArg, NEW nohang \in BOOLEAN,
         do_waitpid(p, pidarg, nohang)
  PROVE  LifeStep
<1> DEFINE arg == IF pidarg = 0 THEN -pm.procgrp[p] ELSE pidarg
           kids == Waitable(pm, p, arg)
           dec == {c \in kids : Deciding(pm, p, c)}
           c == Least(dec)
           t == [pm EXCEPT !.call[p] = "wait"]
           told == tell_parent(t, c)
<1>0. Idle /\ Runnable(p) /\ pm \in PMState
  BY DEF do_waitpid, IInv, TypeOK
<1>1. arg \in Int
  <2>1. pm.procgrp[p] \in Int /\ WaitArg \subseteq Int
    BY <1>0, PMAssumption DEF PMState, Pid
  <2> QED BY <2>1
<1>2. pm' = IF dec # {}
            THEN IF t.tracer[c] = p /\ "TRACE_ZOMBIE" \in t.flags[c]
                 THEN check_parent(tell_tracer(t, c), c, TRUE)
                 ELSE IF StopPending(t, p, c)
                 THEN [reply(t, p, "wait") EXCEPT !.sigtrace = @ \ {c}]
                 ELSE IF VfsCall(told, c) THEN told ELSE cleanup(told, c)
            ELSE IF kids = {} \/ nohang THEN reply(t, p, "wait")
            ELSE [SetFlags(t, p, {"WAITING"}) EXCEPT !.wpid[p] = arg]
  BY DEF do_waitpid
<1>3. /\ t \in PMState /\ t.flags = pm.flags /\ t.tracer = pm.tracer
      /\ t.sigtrace = pm.sigtrace /\ t.parent = pm.parent
  BY <1>0 DEF PMState, Call
<1>4. CASE dec # {}
  <2>1. c \in Slot /\ InUse(pm, c) /\ Deciding(pm, p, c)
    BY <1>0, <1>1, <1>4, WaitDecision
  <2> HIDE DEF c, dec, arg
  <2>2. CASE pm.tracer[c] = p /\ "TRACE_ZOMBIE" \in pm.flags[c]
    <3>1. pm' = check_parent(tell_tracer(t, c), c, TRUE)
      BY <1>2, <1>3, <1>4, <2>2
    <3>2. Passes(pm, pm', c)
      BY <1>0, <2>1, <2>2, <3>1, WaitTracerEnds
    <3> QED BY <2>1, <3>2 DEF LifeStep, Moves
  <2>3. CASE ~(pm.tracer[c] = p /\ "TRACE_ZOMBIE" \in pm.flags[c])
             /\ StopPending(pm, p, c)
    <3>1. pm' = [reply(t, p, "wait") EXCEPT !.sigtrace = @ \ {c}]
      BY <1>2, <1>3, <1>4, <2>3 DEF StopPending
    <3>2. pm'.flags = pm.flags /\ pm'.parent = pm.parent
      <4> HIDE DEF t
      <4> QED BY <1>3, <3>1 DEF reply, PMState
    <3> QED BY <3>2, SameStill, StillStep
  <2>4. CASE ~(pm.tracer[c] = p /\ "TRACE_ZOMBIE" \in pm.flags[c])
             /\ ~StopPending(pm, p, c)
    <3>1. pm.parent[c] = p /\ "ZOMBIE" \in pm.flags[c]
      BY <2>1, <2>4 DEF Deciding
    <3>2. pm' = IF VfsCall(told, c) THEN told ELSE cleanup(told, c)
      BY <1>2, <1>3, <1>4, <2>4 DEF StopPending
    <3>3. WaitTells(pm, pm', c)
      BY <1>0, <2>1, <3>1, <3>2, WaitChildEnds
    <3> QED BY <2>1, <3>1, <3>3 DEF LifeStep, Moves
  <2> QED BY <2>2, <2>3, <2>4
<1>5. CASE dec = {} /\ (kids = {} \/ nohang)
  <2>1. pm' = reply(t, p, "wait")
    BY <1>2, <1>5
  <2> HIDE DEF t
  <2>2. pm'.flags = pm.flags /\ pm'.parent = pm.parent
    BY <1>3, <2>1 DEF reply, PMState
  <2> QED BY <2>2, SameStill, StillStep
<1>6. CASE dec = {} /\ ~(kids = {} \/ nohang)
  <2>1. pm' = [SetFlags(t, p, {"WAITING"}) EXCEPT !.wpid[p] = arg]
    BY <1>2, <1>6
  <2> HIDE DEF t, arg
  <2>2. /\ pm'.flags[p] = pm.flags[p] \cup {"WAITING"} /\ pm'.parent = pm.parent
        /\ \A x \in Slot \ {p} : pm'.flags[x] = pm.flags[x]
    BY <1>3, <2>1 DEF SetFlags, PMState
  <2>3. Unmoved(pm, pm', p)
    BY <2>2 DEF Unmoved, Stage, Par, InUse, Exiting
  <2>4. \A x \in Slot \ {p} : Unmoved(pm, pm', x)
    BY <2>2, SameFlagsUnmoved
  <2> QED BY <2>3, <2>4, StillStep DEF Still
<1> QED BY <1>4, <1>5, <1>6

---------------------------------------------------------------------------
(* The loop of exit_proc.                                                  *)

LEMMA UntracedBefore ==
  ASSUME NEW t, NEW v, NEW c \in Slot, Untraced(t, v, c), SlotInv(t, c)
  PROVE  Before(t, v, c) /\ Unmoved(t, v, c)
<1>1. /\ t \in PMState /\ v.parent = t.parent /\ v.wpid = t.wpid /\ v.pid = t.pid
      /\ v.procgrp = t.procgrp
  BY DEF Untraced
<1>2. /\ \A x \in Slot \ {c} : v.flags[x] = t.flags[x]
      /\ v.flags[c] = (t.flags[c] \ {"TRACE_EXIT", "TRACE_ZOMBIE"})
                      \cup (IF "TRACE_ZOMBIE" \in t.flags[c] THEN {"ZOMBIE"} ELSE {})
  BY <1>1 DEF Untraced, PMState
<1>3. Others(t, v, c)
  BY <1>1, <1>2, SameFlagsUnmoved DEF Others
<1>4. \A p \in Slot \ {c} : wait_test(v, p, c) => wait_test(t, p, c)
  BY <1>1, <1>2 DEF wait_test
<1>5. /\ InUse(v, c) = InUse(t, c) /\ Exiting(v, c) = Exiting(t, c)
      /\ "TOLD_PARENT" \in v.flags[c] <=> "TOLD_PARENT" \in t.flags[c]
      /\ "ZOMBIE" \in v.flags[c] \/ "TRACE_ZOMBIE" \in v.flags[c]
           <=> "ZOMBIE" \in t.flags[c] \/ "TRACE_ZOMBIE" \in t.flags[c]
  BY <1>2 DEF InUse, Exiting
<1>6. Unmoved(t, v, c)
  BY <1>1, <1>5 DEF Unmoved, Stage, Par
<1> QED BY <1>1, <1>3, <1>4, <1>6 DEF Before

\* tracer_died: c lives on as it is, or is offered to its parent.
LEMMA TracerDiedMoves ==
  ASSUME IInv, NEW c \in Slot, InUse(pm, c)
  PROVE  \/ Before(pm, tracer_died(pm, c), c) /\ Unmoved(pm, tracer_died(pm, c), c)
         \/ Exiting(pm, c) /\ Passes(pm, tracer_died(pm, c), c)
<1>0. /\ act \in [Slot -> Activation] /\ TableInv(pm, act) /\ SlotInv(pm, c)
      /\ pm \in PMState
  BY DEF IInv, TypeOK, TableInv, BaseInv
<1>1. PICK v : /\ Untraced(pm, v, c)
               /\ tracer_died(pm, c) =
                    IF "TRACE_ZOMBIE" \in pm.flags[c] THEN check_parent(v, c, TRUE)
                    ELSE v
  BY <1>0, TracerDiedFields
<1>2. Before(pm, v, c) /\ Unmoved(pm, v, c) /\ BaseInv(v, act) /\ v \in PMState
  BY <1>0, <1>1, UntracedBefore, UntracedBase DEF Untraced
<1>3. CASE "TRACE_ZOMBIE" \notin pm.flags[c]
  BY <1>1, <1>2, <1>3
<1>4. CASE "TRACE_ZOMBIE" \in pm.flags[c]
  <2>1. "ZOMBIE" \in v.flags[c]
    BY <1>0, <1>1, <1>4 DEF Untraced, PMState
  <2>2. Ends(v, check_parent(v, c, TRUE), c, TRUE)
    BY <1>0, <1>2, <2>1, CheckParentEnds
  <2>3. Ends(pm, check_parent(v, c, TRUE), c, TRUE)
    BY <1>2, <2>2, EndsAfter
  <2>4. Exiting(pm, c) /\ Stage(pm, c) = "zombie"
    BY <1>0, <1>4 DEF SlotInv, Stage, Exiting
  <2> QED BY <1>1, <1>4, <2>3, <2>4 DEF Passes
<1> QED BY <1>3, <1>4

LEMMA KillNestedLife ==
  ASSUME NEW t \in PMState, NEW c \in Slot, NEW n, NEW a \in [Slot -> Activation],
         kill_nested(t, c, n), BaseInv(t, a), InUse(t, c), ~Exiting(t, c),
         c \notin Boot \ {INIT_PROC_NR}, Ready(t, c),
         Before(pm, t, c), Unmoved(pm, t, c)
  PROVE  LifeStep
<1>1. CASE VfsCall(t, c) \/ c = INIT_PROC_NR
  <2>1. pm' = IF c = INIT_PROC_NR THEN begin_exit(t, c, FALSE)
              ELSE [t EXCEPT !.pend = @ \cup {c}]
    BY <1>1 DEF kill_nested
  <2>2. pm'.flags = t.flags /\ pm'.parent = t.parent
    <3>1. CASE c = INIT_PROC_NR
      BY <2>1, <3>1, InitExitMoves
    <3>2. CASE c # INIT_PROC_NR
      BY <2>1, <3>2 DEF PMState
    <3> QED BY <3>1, <3>2
  <2>3. Still(t, pm')
    BY <2>2, SameStill
  <2>4. Still(pm, pm')
    BY <2>3 DEF Still, Before, Others, Unmoved
  <2> QED BY <2>4, StillStep
<1>2. CASE ~(VfsCall(t, c) \/ c = INIT_PROC_NR)
  <2>1. pm' = begin_exit(t, c, FALSE)
    BY <1>2 DEF kill_nested
  <2>2. c \in Slot \ Boot
    BY <1>2
  <2>3. Exits(t, pm', c)
    BY <1>2, <2>1, <2>2, BeginExitMoves
  <2>4. Exits(pm, pm', c)
    BY <2>3, ExitsAfter
  <2> QED BY <2>4 DEF LifeStep, Moves
<1> QED BY <1>1, <1>2

LEMMA LoopTracerLife ==
  ASSUME IInv, LoopTracer
  PROVE  LifeStep
<1> DEFINE q == cur
           a == act[q]
           c == Least(Related(q, a.idx))
           t == tracer_died(pm, c)
           n == [a EXCEPT !.at = "parent", !.idx = c]
<1>0. /\ Running /\ Related(q, a.idx) # {} /\ pm.tracer[c] = q
      /\ IF Exiting(pm, c) THEN pm' = t ELSE kill_nested(t, c, n)
  BY DEF LoopTracer
<1>1. /\ act \in [Slot -> Activation] /\ a \in Activation
      /\ q \in Slot /\ q # PM /\ TableInv(pm, act)
  BY <1>0, LoopFacts
<1>2. a.idx \in 0 .. NR_PROCS
  BY <1>1, ActivationFields
<1>3. c \in Slot /\ InUse(pm, c)
  <2>1. TypeOK
    BY DEF IInv
  <2> HIDE DEF q, a
  <2> QED BY <1>0, <1>2, <2>1, NextRelated
<1>4. c \notin Boot
  <2>1. BootInv(pm)
    BY <1>1 DEF TableInv, BaseInv
  <2> HIDE DEF c, q
  <2> QED BY <1>0, <1>1, <2>1 DEF BootInv, NO_TRACER, PM
<1> HIDE DEF c, n, a
<1>5. /\ t \in PMState /\ TableInv(t, act)
      /\ ~Exiting(pm, c) => InUse(t, c) /\ ~Exiting(t, c) /\ Ready(t, c)
  BY <1>0, <1>3, TracerDiedTable
<1>6. \/ Before(pm, t, c) /\ Unmoved(pm, t, c)
      \/ Exiting(pm, c) /\ Passes(pm, t, c)
  BY <1>3, TracerDiedMoves
<1> HIDE DEF t
<1>7. CASE Exiting(pm, c) /\ Before(pm, t, c) /\ Unmoved(pm, t, c)
  <2>1. pm' = t
    BY <1>0, <1>7
  <2>2. Still(pm, pm')
    BY <1>7, <2>1 DEF Still, Before, Others
  <2> QED BY <2>2, StillStep
<1>8. CASE Exiting(pm, c) /\ Passes(pm, t, c)
  <2>1. Passes(pm, pm', c)
    BY <1>0, <1>8
  <2> QED BY <1>3, <2>1 DEF LifeStep, Moves
<1>9. CASE ~Exiting(pm, c)
  <2>1. kill_nested(t, c, n)
    BY <1>0, <1>9
  <2>2. BaseInv(t, act)
    BY <1>5 DEF TableInv
  <2> QED BY <1>1, <1>3, <1>4, <1>5, <1>6, <1>9, <2>1, <2>2, KillNestedLife
<1> QED BY <1>6, <1>7, <1>8, <1>9

LEMMA HangupLife ==
  ASSUME IInv, Hangup
  PROVE  LifeStep
<1> DEFINE a == act[cur]
           c == Least(Members(a.grp, a.idx))
           n == [a EXCEPT !.idx = c + 1]
<1>0. /\ Running /\ Members(a.grp, a.idx) # {}
      /\ \/ pm' = sig_proc(pm, c)
         \/ pm.tracer[c] = NO_TRACER /\ c \notin Immortal /\ kill_nested(pm, c, n)
  BY DEF Hangup
<1>1. pm \in PMState /\ act \in [Slot -> Activation] /\ BaseInv(pm, act)
  BY <1>0, LoopFacts DEF TableInv
<1>2. c \in Slot \ {PM} /\ InUse(pm, c) /\ ~Exiting(pm, c)
  <2>1. Members(a.grp, a.idx) \in SUBSET Nat
    BY ConstantTypes DEF Members, Slot
  <2>2. c \in Members(a.grp, a.idx)
    BY <1>0, <2>1, LeastOf
  <2> QED BY <2>2 DEF Members
<1> HIDE DEF c, n
<1>3. CASE pm' = sig_proc(pm, c)
  <2>1. \A x \in Slot : Frame(pm, pm', x)
    BY <1>1, <1>2, <1>3, SigProcFrame
  <2>2. Still(pm, pm')
    BY <2>1, QuietAll DEF Still
  <2> QED BY <2>2, StillStep
<1>4. CASE pm.tracer[c] = NO_TRACER /\ c \notin Immortal /\ kill_nested(pm, c, n)
  <2>1. c \notin Boot \ {INIT_PROC_NR}
    BY <1>2, <1>4, PMAssumption DEF Boot
  <2>2. Ready(pm, c)
    <3>1. FamilyInv(pm, act, c)
      BY <1>1, <1>2 DEF BaseInv
    <3> QED BY <1>2, <1>4, <3>1 DEF FamilyInv, Ready
  <2> QED BY <1>1, <1>2, <1>4, <2>1, <2>2, SelfBefore, KillNestedLife
<1> QED BY <1>0, <1>3, <1>4

LEMMA DisinheritMoves ==
  ASSUME IInv, NEW c \in Slot, Exiting(pm, pm.parent[c])
  PROVE  LET u == disinherit(pm, c) IN Still(pm, u) \/ Adopts(pm, u, c)
<1> DEFINE u == disinherit(pm, c)
<1>0. /\ pm \in PMState /\ act \in [Slot -> Activation] /\ TableInv(pm, act)
      /\ CountInv(pm) /\ SlotInv(pm, c) /\ BootInv(pm)
  BY DEF IInv, TypeOK, TableInv, BaseInv
<1>1. PICK v : /\ Adopted(pm, v, c)
               /\ u = IF "ZOMBIE" \in v.flags[c] THEN check_parent(v, c, TRUE) ELSE v
  BY DisinheritAdopted
<1> HIDE DEF u
<1>2. /\ v \in PMState /\ v.parent[c] = INIT_PROC_NR
      /\ \A x \in Slot \ {c} : v.parent[x] = pm.parent[x] /\ v.flags[x] = pm.flags[x]
      /\ v.flags[c] = IF "VFS_CALL" \in pm.flags[c]
                      THEN pm.flags[c] \cup {"NEW_PARENT"} ELSE pm.flags[c]
      /\ v.wpid = pm.wpid /\ v.pid = pm.pid /\ v.procgrp = pm.procgrp
  BY <1>0, <1>1 DEF Adopted, PMState
<1>3. Others(pm, v, c)
  BY <1>2, SameFlagsUnmoved DEF Others
<1>4. /\ InUse(v, c) = InUse(pm, c) /\ Exiting(v, c) = Exiting(pm, c)
      /\ "TOLD_PARENT" \in v.flags[c] <=> "TOLD_PARENT" \in pm.flags[c]
      /\ "ZOMBIE" \in v.flags[c] <=> "ZOMBIE" \in pm.flags[c]
      /\ "TRACE_ZOMBIE" \in v.flags[c] <=> "TRACE_ZOMBIE" \in pm.flags[c]
  BY <1>2 DEF InUse, Exiting
<1>5. Stage(v, c) = Stage(pm, c)
  BY <1>4 DEF Stage
<1>6. Stage(pm, INIT_PROC_NR) = "alive"
  BY <1>0, BootFacts DEF Stage
<1>7. CASE ~InUse(pm, c)
  <2>1. "ZOMBIE" \notin pm.flags[c]
    BY <1>0, <1>7 DEF SlotInv, InUse
  <2>2. u = v
    BY <1>1, <1>4, <2>1
  <2>3. Unmoved(pm, u, c)
    BY <1>4, <1>5, <1>7, <2>2 DEF Unmoved, Par
  <2> QED BY <1>3, <2>2, <2>3 DEF Still, Others, u
<1>8. CASE InUse(pm, c) /\ "ZOMBIE" \notin pm.flags[c]
  <2>1. u = v
    BY <1>1, <1>4, <1>8
  <2> QED BY <1>2, <1>3, <1>5, <1>6, <1>8, <2>1 DEF Adopts, u
<1>9. CASE InUse(pm, c) /\ "ZOMBIE" \in pm.flags[c]
  <2>1. BaseInv(v, act)
    BY <1>0, <1>1, AdoptedBase
  <2>2. u = check_parent(v, c, TRUE)
    BY <1>1, <1>4, <1>9
  <2>3. Ends(v, u, c, TRUE)
    BY <1>0, <1>2, <1>4, <1>9, <2>1, <2>2, CheckParentEnds
  <2>4. Others(pm, u, c) /\ u.parent[c] = INIT_PROC_NR
    BY <1>2, <1>3, <2>3, OthersTrans DEF Ends
  <2>5. Stage(pm, c) = "zombie"
    BY <1>0, <1>9 DEF Stage, SlotInv, Exiting
  <2>6. CASE Stage(u, c) = "zombie"
    BY <1>6, <1>9, <2>4, <2>5, <2>6 DEF Adopts, u
  <2>7. CASE Stage(u, c) # "zombie"
    <3>1. Told(v, u, c, INIT_PROC_NR) /\ Stage(u, c) \in {"collected", "free"}
      BY <1>2, <2>3, <2>7 DEF Ends
    <3>2. Told(pm, u, c, INIT_PROC_NR)
      BY <1>2, <1>6, <3>1 DEF Told, wait_test
    <3> QED BY <1>6, <1>9, <2>4, <2>5, <3>1, <3>2 DEF Adopts, u
  <2> QED BY <2>6, <2>7
<1> QED BY <1>7, <1>8, <1>9

LEMMA LoopParentLife ==
  ASSUME IInv, LoopParent
  PROVE  LifeStep
<1> DEFINE q == cur
           a == act[q]
           c == IF a.at = "parent" THEN a.idx ELSE Least(Related(q, a.idx))
<1>0. /\ Running
      /\ \/ a.at = "parent"
         \/ a.at = "tracer" /\ Related(q, a.idx) # {}
      /\ pm' = IF pm.parent[c] = q THEN disinherit(pm, c) ELSE pm
  BY DEF LoopParent
<1>1. a \in Activation /\ Exiting(pm, q)
  BY <1>0, LoopFacts, CurExiting
<1>2. a.idx \in 0 .. NR_PROCS /\ (a.at = "parent" => a.idx \in Slot)
  BY <1>1, ActivationFields
<1>3. c \in Slot
  <2>1. CASE a.at = "parent"
    BY <1>2, <2>1
  <2>2. CASE a.at # "parent"
    <3>1. Related(q, a.idx) # {} /\ c = Least(Related(q, a.idx))
      BY <1>0, <2>2
    <3>2. TypeOK
      BY DEF IInv
    <3> HIDE DEF a, q, c
    <3> QED BY <1>2, <3>1, <3>2, NextRelated
  <2> QED BY <2>1, <2>2
<1> HIDE DEF c, a, q
<1>4. CASE pm.parent[c] # q
  <2>1. pm' = pm
    BY <1>0, <1>4
  <2> QED BY <2>1, SameStill, StillStep
<1>5. CASE pm.parent[c] = q
  <2>1. pm' = disinherit(pm, c)
    BY <1>0, <1>5
  <2>2. Still(pm, pm') \/ Adopts(pm, pm', c)
    BY <1>1, <1>3, <1>5, <2>1, DisinheritMoves
  <2> QED BY <1>3, <2>2, StillStep DEF LifeStep, Moves
<1> QED BY <1>4, <1>5

---------------------------------------------------------------------------
(* All steps.                                                              *)

LEMMA RequestLife ==
  ASSUME IInv, NEW p \in Caller, Request_(p)
  PROVE  LifeStep
<1>1. p \in Slot \ {PM}
  BY PMAssumption
<1>2. CASE do_fork(p)
  BY <1>1, <1>2, ForkLife
<1>3. CASE \E uid \in Uid : do_srv_fork(p, uid)
  BY <1>1, <1>3, SrvForkLife
<1>4. CASE do_exit(p)
  BY <1>1, <1>4, ExitLife
<1>5. CASE \E arg \in WaitArg, nohang \in BOOLEAN : do_waitpid(p, arg, nohang)
  BY <1>1, <1>5, WaitpidLife
<1>6. CASE setsid(p)
  BY <1>1, <1>6, SetsidLife
<1>7. CASE \E q \in Slot \ {PM} : Kill(p, q)
  BY <1>1, <1>7, KillLife
<1>8. CASE \E q \in Slot \ {PM}, b \in BOOLEAN : Attach(p, q, b) \/ Resume(p, q, b)
  BY <1>1, <1>8, AttachLife, ResumeLife
<1>9. CASE \E q \in Slot \ {PM} : TraceExit(p, q)
  BY <1>1, <1>9, TraceExitLife
<1> QED BY <1>2, <1>3, <1>4, <1>5, <1>6, <1>7, <1>8, <1>9 DEF Request_

LEMMA NextLife ==
  ASSUME IInv, [Next]_vars
  PROVE  LifeStep
<1>1. CASE Loop
  <2>1. CASE LoopEnd \/ HangupEnd
    <3>1. pm' = pm
      BY <2>1 DEF LoopEnd, HangupEnd
    <3> QED BY <3>1, SameStill, StillStep
  <2> QED BY <1>1, <2>1, LoopTracerLife, LoopParentLife, HangupLife DEF Loop
<1>2. CASE \E s \in Slot \ {PM} : VfsReply(s) \/ KernelKill(s)
  <2>1. PICK s \in Slot \ {PM} : VfsReply(s) \/ KernelKill(s)
    BY <1>2
  <2>2. CASE VfsReply(s)
    BY <2>2, VfsForkReplyLife, VfsCallReplyLife, VfsExitReplyLife DEF VfsReply
  <2>3. CASE KernelKill(s)
    BY <2>3, KernelKillLife
  <2> QED BY <2>1, <2>2, <2>3
<1>3. CASE \E s \in Caller : Request_(s)
  BY <1>3, RequestLife
<1>4. CASE UNCHANGED vars
  <2>1. pm' = pm
    BY <1>4 DEF vars
  <2> QED BY <2>1, SameStill, StillStep
<1> QED BY <1>1, <1>2, <1>3, <1>4 DEF Next

---------------------------------------------------------------------------
(* The refinement.                                                         *)

LEMMA LifeIs ==
  /\ life = [s \in Slot |-> Stage(pm, s)]
  /\ parent = [s \in Slot |-> Par(pm, s)]
<1>1. ASSUME NEW F PROVE {"ZOMBIE", "TRACE_ZOMBIE"} \cap F # {}
                          <=> "ZOMBIE" \in F \/ "TRACE_ZOMBIE" \in F
  OBVIOUS
<1>2. \A s \in Slot : life[s] = Stage(pm, s)
  BY <1>1 DEF life, Stage
<1>3. life = [s \in Slot |-> life[s]]
  BY DEF life
<1> QED BY <1>2, <1>3 DEF parent, Par

LEMMA LifeWas ==
  /\ life' = [s \in Slot |-> Stage(pm', s)]
  /\ parent' = [s \in Slot |-> Par(pm', s)]
<1>1. ASSUME NEW F PROVE {"ZOMBIE", "TRACE_ZOMBIE"} \cap F # {}
                          <=> "ZOMBIE" \in F \/ "TRACE_ZOMBIE" \in F
  OBVIOUS
<1>2. \A s \in Slot : (life')[s] = Stage(pm', s)
  BY <1>1 DEF life, Stage, InUse, Exiting
<1>3. life' = [s \in Slot |-> (life')[s]]
  BY DEF life
<1> QED BY <1>2, <1>3 DEF parent, Par, InUse

LEMMA OthersLife ==
  ASSUME NEW c \in Slot, Others(pm, pm', c)
  PROVE  /\ life' = [life EXCEPT ![c] = Stage(pm', c)]
         /\ parent' = [parent EXCEPT ![c] = Par(pm', c)]
         /\ life[c] = Stage(pm, c) /\ parent[c] = Par(pm, c)
         /\ Par(pm', c) = Par(pm, c) => UNCHANGED parent
         /\ Stage(pm', c) = Stage(pm, c) => UNCHANGED life
BY LifeIs, LifeWas DEF Others, Unmoved

\* Who is alive in the abstract table.
LEMMA LifeAlive ==
  ASSUME NEW p \in Slot
  PROVE  Life!Alive(p) <=> Stage(pm, p) = "alive"
BY LifeIs DEF Life!Alive

LEMMA MoveRefines ==
  ASSUME IInv, NEW c \in Slot, Moves(c)
  PROVE  [Life!LNext]_(Life!lvars)
<1>0. /\ pm.parent[c] \in Slot /\ INIT_PROC_NR \in Slot
      /\ Stage(pm, c) # "free" => Par(pm, c) = pm.parent[c]
      /\ Stage(pm', c) # "free" => Par(pm', c) = pm'.parent[c]
      /\ Stage(pm', c) = "free" => Par(pm', c) = INIT_PROC_NR
      /\ Stage(pm, INIT_PROC_NR) = "alive"
  <2>1. pm.parent[c] \in Slot
    BY DEF IInv, TypeOK, PMState
  <2>2. BootInv(pm)
    BY DEF IInv, TableInv, BaseInv
  <2> QED BY <2>1, <2>2, BootFacts, ConstantTypes DEF Stage, Par
<1>1. CASE Still(pm, pm')
  <2>1. Others(pm, pm', c) /\ Unmoved(pm, pm', c)
    BY <1>1 DEF Still, Others
  <2>2. UNCHANGED life /\ UNCHANGED parent
    BY <2>1, OthersLife DEF Unmoved
  <2> QED BY <2>2 DEF Life!lvars
<1>2. CASE Exits(pm, pm', c)
  <2>1. /\ Others(pm, pm', c) /\ pm'.parent = pm.parent /\ c # INIT_PROC_NR
        /\ Stage(pm, c) = "alive"
        /\ \/ Stage(pm', c) = "dying" \/ Stage(pm', c) = "zombie"
           \/ Stage(pm', c) = "collected" /\ Stage(pm, pm.parent[c]) = "alive"
    BY <1>2 DEF Exits, Ends, Told
  <2>2. Life!Exit(c)
    BY <1>0, <2>1, OthersLife, LifeAlive DEF Life!Exit
  <2> QED BY <2>2 DEF Life!LNext
<1>3. CASE Passes(pm, pm', c)
  <2>1. /\ Others(pm, pm', c) /\ pm'.parent = pm.parent
        /\ \/ Stage(pm', c) = "zombie"
           \/ /\ Stage(pm', c) = "free" \/ Stage(pm', c) = "collected"
              /\ Stage(pm, pm.parent[c]) = "alive"
        /\ \/ Stage(pm, c) = "dying" /\ Stage(pm', c) # "collected"
           \/ Stage(pm, c) = "zombie"
    BY <1>3 DEF Passes, Ends, Told
  <2>2. CASE Stage(pm, c) = "dying"
    <3>1. Life!Dumped(c)
      BY <1>0, <2>1, <2>2, OthersLife, LifeAlive DEF Life!Dumped
    <3> QED BY <3>1 DEF Life!LNext
  <2>3. CASE Stage(pm, c) = "zombie" /\ Stage(pm', c) = "zombie"
    BY <1>0, <2>1, <2>3, OthersLife DEF Life!lvars
  <2>4. CASE Stage(pm, c) = "zombie" /\ Stage(pm', c) # "zombie"
    <3>1. Life!Collect(c)
      BY <1>0, <2>1, <2>4, OthersLife, LifeAlive DEF Life!Collect
    <3> QED BY <3>1 DEF Life!LNext
  <2> QED BY <2>1, <2>2, <2>3, <2>4
<1>4. CASE WaitTells(pm, pm', c)
  <2>1. Life!Collect(c)
    BY <1>0, <1>4, OthersLife, LifeAlive DEF Life!Collect, WaitTells
  <2> QED BY <2>1 DEF Life!LNext
<1>5. CASE Releases(pm, pm', c)
  <2>1. Life!Release(c)
    BY <1>0, <1>5, OthersLife DEF Life!Release, Releases
  <2> QED BY <2>1 DEF Life!LNext
<1>6. CASE Adopts(pm, pm', c)
  <2>1. ~Life!Alive(pm.parent[c]) /\ Stage(pm, c) # "free" /\ Life!Alive(INIT_PROC_NR)
    BY <1>0, <1>6, LifeAlive DEF Adopts, Stage
  <2>2. /\ Others(pm, pm', c) /\ pm'.parent[c] = INIT_PROC_NR
        /\ \/ Stage(pm', c) = Stage(pm, c)
           \/ Stage(pm, c) = "zombie" /\ Stage(pm', c) \in {"collected", "free"}
    BY <1>6 DEF Adopts
  <2>3. CASE Stage(pm', c) = Stage(pm, c)
    <3>1. Life!Adopt(c)
      BY <1>0, <2>1, <2>2, <2>3, OthersLife DEF Life!Adopt
    <3> QED BY <3>1 DEF Life!LNext
  <2>4. CASE Stage(pm', c) # Stage(pm, c)
    <3>1. Life!Collect(c)
      BY <1>0, <2>1, <2>2, <2>4, OthersLife DEF Life!Collect
    <3> QED BY <3>1 DEF Life!LNext
  <2> QED BY <2>3, <2>4
<1>7. CASE \E p \in Slot : Forks(pm, pm', p, c)
  <2>1. PICK p \in Slot : Forks(pm, pm', p, c)
    BY <1>7
  <2>2. Life!Fork(p, c)
    BY <1>0, <2>1, OthersLife, LifeAlive DEF Life!Fork, Forks
  <2> QED BY <2>2 DEF Life!LNext
<1> QED BY <1>1, <1>2, <1>3, <1>4, <1>5, <1>6, <1>7 DEF Moves

LEMMA InitLife == Init => Life!LInit
<1> SUFFICES ASSUME Init PROVE Life!LInit
  OBVIOUS
<1>1. /\ pm.flags = [s \in Slot |-> IF s \notin Boot THEN {}
                                   ELSE IF s = INIT_PROC_NR THEN {"IN_USE"}
                                   ELSE {"IN_USE", "PRIV_PROC"}]
      /\ pm.parent = [s \in Slot |-> IF s = PM THEN RS_PROC_NR ELSE INIT_PROC_NR]
  BY DEF Init
<1>2. \A s \in Slot : /\ Stage(pm, s) = IF s \in Boot THEN "alive" ELSE "free"
                      /\ InUse(pm, s) <=> s \in Boot
  BY <1>1 DEF Stage, InUse, Exiting
<1>3. \A s \in Slot : Par(pm, s) =
        IF s \in Boot
        THEN [x \in Boot |-> IF x = PM THEN RS_PROC_NR ELSE INIT_PROC_NR][s]
        ELSE INIT_PROC_NR
  BY <1>1, <1>2 DEF Par
<1> QED BY <1>2, <1>3, LifeIs DEF Life!LInit

\* PM implements the life cycle that the header of forkexit.c describes: an
\* entry is freed only when its process has exited and a live parent, or INIT in
\* the place of a dead one, has waited for it, by whatever interleaving of VFS
\* answers, waits, traces, adoptions and nested exits.
THEOREM LifeCorrect == Spec => LifeCycle
<1>1. IInv /\ [Next]_vars => [Life!LNext]_(Life!lvars)
  <2> SUFFICES ASSUME IInv, [Next]_vars PROVE [Life!LNext]_(Life!lvars)
    OBVIOUS
  <2>1. PICK c \in Slot : Moves(c)
    BY NextLife DEF LifeStep
  <2> QED BY <2>1, MoveRefines
<1> QED BY <1>1, InitLife, TableCorrect, PTL DEF Spec, LifeCycle, Life!LSpec

---------------------------------------------------------------------------
(* Nobody is collected for whom nobody has waited.                         *)

\* The step that collects c, or frees it uncollected, answers a wait for it.
Awaited(c) ==
  /\ InUse(pm, c) /\ "TOLD_PARENT" \notin pm.flags[c]
  /\ ~InUse(pm', c) \/ "TOLD_PARENT" \in pm'.flags[c]
  => \E p \in {pm.parent[c], INIT_PROC_NR} :
       /\ p = pm.parent[c] \/ Exiting(pm, pm.parent[c])
       /\ \/ wait_test(pm, p, c) /\ "WAITING" \notin pm'.flags[p]
          \/ \E arg \in WaitArg, nohang \in BOOLEAN : do_waitpid(p, arg, nohang)

LEMMA MoveAwaited ==
  ASSUME IInv, IInv', NEW m \in Slot, Moves(m), NEW c \in Slot
  PROVE  Awaited(c)
<1> SUFFICES ASSUME InUse(pm, c), "TOLD_PARENT" \notin pm.flags[c],
                    ~InUse(pm', c) \/ "TOLD_PARENT" \in pm'.flags[c]
             PROVE  \E p \in {pm.parent[c], INIT_PROC_NR} :
                      /\ p = pm.parent[c] \/ Exiting(pm, pm.parent[c])
                      /\ \/ wait_test(pm, p, c) /\ "WAITING" \notin pm'.flags[p]
                         \/ \E arg \in WaitArg, nohang \in BOOLEAN :
                              do_waitpid(p, arg, nohang)
  BY DEF Awaited
<1>1. Stage(pm, c) \in {"alive", "dying", "zombie"}
  BY DEF Stage
<1>2. Stage(pm', c) \in {"free", "collected"}
  <2>1. SlotInv(pm', c)
    BY DEF IInv, TableInv, BaseInv
  <2> QED BY <2>1 DEF SlotInv, Stage, InUse, Exiting
<1>3. ~Unmoved(pm, pm', c)
  BY <1>1, <1>2 DEF Unmoved
<1>4. ~Still(pm, pm') /\ (Others(pm, pm', m) => m = c)
  BY <1>3 DEF Still, Others
<1>5. ASSUME Told(pm, pm', c, pm.parent[c])
      PROVE  /\ wait_test(pm, pm.parent[c], c)
             /\ "WAITING" \notin pm'.flags[pm.parent[c]]
  BY <1>5 DEF Told
<1>6. CASE Exits(pm, pm', m)
  <2>1. m = c
    BY <1>4, <1>6 DEF Exits, Ends
  <2>2. Told(pm, pm', c, pm.parent[c])
    BY <1>2, <1>6, <2>1 DEF Exits, Ends
  <2> QED BY <1>5, <2>2
<1>7. CASE Passes(pm, pm', m)
  <2>1. m = c
    BY <1>4, <1>7 DEF Passes, Ends
  <2>2. Told(pm, pm', c, pm.parent[c])
    BY <1>2, <1>7, <2>1 DEF Passes, Ends
  <2> QED BY <1>5, <2>2
<1>8. CASE /\ WaitTells(pm, pm', m)
           /\ \E arg \in WaitArg, nohang \in BOOLEAN : do_waitpid(pm.parent[m], arg, nohang)
  <2>1. m = c
    BY <1>4, <1>8 DEF WaitTells
  <2> QED BY <1>8, <2>1
<1>9. CASE Releases(pm, pm', m)
  <2>1. m = c
    BY <1>4, <1>9 DEF Releases
  <2> QED BY <1>1, <1>9, <2>1 DEF Releases
<1>10. CASE Adopts(pm, pm', m)
  <2>1. m = c
    BY <1>4, <1>10 DEF Adopts
  <2>2. Told(pm, pm', c, INIT_PROC_NR) /\ Exiting(pm, pm.parent[c])
    BY <1>1, <1>2, <1>10, <2>1 DEF Adopts
  <2> QED BY <2>2 DEF Told
<1>11. CASE \E p \in Slot : Forks(pm, pm', p, m)
  <2>1. m = c
    BY <1>4, <1>11 DEF Forks
  <2> QED BY <1>1, <1>11, <2>1 DEF Forks
<1> QED BY <1>4, <1>6, <1>7, <1>8, <1>9, <1>10, <1>11 DEF Moves

\* No exit is collected and no entry freed before the parent has waited for it:
\* the step that does so is a waitpid of the parent's, or answers one that the
\* parent, or INIT in the place of an exiting one, is blocked in.
THEOREM ParentsWaited == Spec => ParentWaited
<1>1. ASSUME IInv, IInv', [Next]_vars PROVE \A c \in Slot : Awaited(c)
  <2>1. PICK m \in Slot : Moves(m)
    BY <1>1, NextLife DEF LifeStep
  <2> QED BY <1>1, <2>1, MoveAwaited
<1>2. IInv /\ IInv' /\ [Next]_vars => [\A c \in Slot : Awaited(c)]_vars
  BY <1>1
<1>3. ParentWaited <=> [][\A c \in Slot : Awaited(c)]_vars
  BY DEF ParentWaited, Awaited
<1> QED BY <1>2, <1>3, TableCorrect, PTL DEF Spec
=============================================================================
