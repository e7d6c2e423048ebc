--------------------------- MODULE ProcessManager ---------------------------
(***************************************************************************)
(* The process life cycle of MINIX's process manager (PM):                 *)
(* Lab-02/part3/forkexit.c.                                                *)
(*                                                                         *)
(* PM is one thread that handles one message at a time.  A slot of its     *)
(* table mproc[] is taken by FORK, kept while VFS works on the process,    *)
(* turned into a zombie by EXIT and freed once the parent has collected    *)
(* it and VFS has let go of it.  What makes this hard is the orders in     *)
(* which VFS answers, parents wait, exit or are killed, and tracers        *)
(* attach and die; and that exit_proc() calls itself, through tracer_died  *)
(* and sig_proc, in the middle of its own loop over the table.             *)
(*                                                                         *)
(* pm holds the table as a record of arrays (pm.flags[s] is                *)
(* mproc[s].mp_flags), PM's counter, and the two parties at the other end  *)
(* of PM's messages: call (in which call each process is blocked) and vfs  *)
(* (the request VFS has not answered yet).  The routines of forkexit.c are *)
(* operators from such a record to the next; an action is one message      *)
(* handled.  Only exit_proc's loop is taken in steps of its own, one table *)
(* entry each: while the stack of activations is not empty no message is   *)
(* received, so they interleave with nothing but the exits they start.     *)
(***************************************************************************)
EXTENDS Integers, Sequences, FiniteSets

CONSTANTS
  NR_PROCS,      \* size of mproc[]
  LAST_FEW,      \* slots reserved for the superuser
  INIT_PROC_NR,  \* slot of INIT
  RS_PROC_NR,    \* slot of RS, parent of the system services
  MaxPid,        \* pids are 1..MaxPid
  Caller,        \* the slots whose processes call PM
  WaitArg,       \* the arguments waitpid is called with
  Uid,           \* user ids srv_fork may give a service; 0 is the superuser
  Tracing,       \* may user processes call ptrace?
  Sessions,      \* may processes call setsid?
  Immortal       \* those of INIT and RS that are never killed: RS is one

PM == 0          \* PM's own slot; as an mp_tracer value, 0 is NO_TRACER
NO_TRACER == 0
Slot == 0 .. NR_PROCS - 1
Pid  == 1 .. MaxPid
INIT_PID == 1

ASSUME PMAssumption ==
  /\ NR_PROCS \in Nat /\ LAST_FEW \in Nat /\ MaxPid \in Nat
  /\ INIT_PROC_NR \in Slot \ {PM}
  /\ RS_PROC_NR \in Slot \ {PM, INIT_PROC_NR}
  /\ 3 \in Pid
  /\ Caller \subseteq Slot \ {PM}
  /\ WaitArg \subseteq Int
  /\ Uid \subseteq Nat
  /\ Tracing \in BOOLEAN /\ Sessions \in BOOLEAN
  /\ Immortal \subseteq Slot /\ RS_PROC_NR \in Immortal

VARIABLES
  pm,          \* mproc[] and procs_in_use, blocked callers, VFS requests
  next_child,  \* the static next_child of do_fork and of do_srv_fork
  act,         \* per process: where its activation of exit_proc() is
  stack        \* the processes whose exit_proc() is active, innermost last

vars == <<pm, next_child, act, stack>>

Flag == {"IN_USE", "WAITING", "ZOMBIE", "TRACE_ZOMBIE", "TOLD_PARENT",
         "EXITING", "VFS_CALL", "NEW_PARENT", "PRIV_PROC", "TRACE_STOPPED",
         "TRACE_EXIT"}

\* What a process is blocked in.  "born": a fork child not yet woken;
\* "dead": stopped for good; "spurious": got a reply to no call of its own.
Call == {"run", "wait", "fork", "ptrace", "setsid", "exit", "born", "dead",
         "spurious"}

Request == {"none", "fork", "srv_fork", "setsid", "exit", "dump"}

\* The panics and assertions of forkexit.c, and of the routines it calls.
Message == {"tell_parent: bad mp_parent", "tell_parent: not a zombie",
            "tell_parent: again", "tell_tracer: bad mp_tracer",
            "tell_tracer: not a zombie", "zombify: already a zombie",
            "do_fork can't find child slot", "assert mp_scheduler",
            "tell_vfs: not idle", "sig_proc: exiting process",
            "unexpected VFS reply"}

PMState ==
  [flags    : [Slot -> SUBSET Flag],   \* mp_flags
   parent   : [Slot -> Slot],          \* mp_parent
   tracer   : [Slot -> Slot],          \* mp_tracer
   pid      : [Slot -> {0} \cup Pid],  \* mp_pid
   procgrp  : [Slot -> {0} \cup Pid],  \* mp_procgrp
   wpid     : [Slot -> Int],           \* mp_wpid
   effuid   : [Slot -> Nat],           \* mp_effuid
   sched    : SUBSET Slot,             \* mp_scheduler is SCHED, not NONE
   tfork    : SUBSET Slot,             \* mp_trace_flags has TO_TRACEFORK
   sigtrace : SUBSET Slot,             \* mp_sigtrace is not empty
   pend     : SUBSET Slot,             \* SIGKILL waits in mp_sigpending
   call     : [Slot -> Call],
   vfs      : [Slot -> Request],
   procs_in_use : Int,
   panic    : SUBSET Message]          \* the panics PM has run into

\* One activation of exit_proc().  at: "tracer" - the loop is about to look
\* at the first slot from idx on; "parent" - it is past tracer_died for slot
\* idx; "hup" - it is in check_sig for group grp; "none" - not active.  mp
\* is the process whose message PM is handling.
Activation == {a \in [at  : {"none", "tracer", "parent", "hup"},
                      idx : 0 .. NR_PROCS,
                      grp : {0} \cup Pid,
                      mp  : Slot] : a.at = "parent" => a.idx \in Slot}

NoActivation == [at |-> "none", idx |-> 0, grp |-> 0, mp |-> PM]

InUse(t, s)   == "IN_USE" \in t.flags[s]
Exiting(t, s) == "EXITING" \in t.flags[s]
VfsCall(t, s) == "VFS_CALL" \in t.flags[s]
Priv(t, s)    == "PRIV_PROC" \in t.flags[s]

SetFlags(t, s, on)   == [t EXCEPT !.flags[s] = @ \cup on]
ClearFlags(t, s, off) == [t EXCEPT !.flags[s] = @ \ off]

\* panic() when cond holds.
Panic(t, cond, msg) == IF cond THEN [t EXCEPT !.panic = @ \cup {msg}] ELSE t

---------------------------------------------------------------------------
(* Calls into other files and servers.                                     *)

\* reply(): wakes p, which must be blocked in that very call.  INIT keeps its
\* slot when it dies and may still be sent a reply, which it never receives.
reply(t, p, kind) ==
  [t EXCEPT !.call[p] = IF @ = kind THEN "run"
                        ELSE IF @ = "dead" /\ p = INIT_PROC_NR THEN "dead"
                        ELSE "spurious"]

\* tell_vfs(): one outstanding request per process.
tell_vfs(t, s, req) ==
  [Panic(SetFlags(t, s, {"VFS_CALL"}), VfsCall(t, s), "tell_vfs: not idle")
     EXCEPT !.vfs[s] = req]

\* wait_test(): does p, a parent or tracer, wait for child c?
wait_test(t, p, c) ==
  /\ "WAITING" \in t.flags[p]
  /\ \/ t.wpid[p] = -1
     \/ t.wpid[p] = t.pid[c]
     \/ -t.wpid[p] = t.procgrp[c]

\* trace_stop(): a signal for a traced process stops it and goes to the
\* tracer first; a tracer that waits for it is woken with the signal.
trace_stop(t, s) ==
  LET u == SetFlags(t, s, {"TRACE_STOPPED"})
      d == t.tracer[s]
  IN  IF "TRACE_STOPPED" \notin t.flags[s] /\ wait_test(t, d, s)
      THEN reply(ClearFlags(u, d, {"WAITING"}), d, "wait")
      ELSE [u EXCEPT !.sigtrace = @ \cup {s}]

\* sig_proc(s, SIGCHLD or SIGSTOP, trace): no effect on an untraced process
\* (a process catching SIGCHLD is not distinguished); exiting processes must
\* not be signalled.
sig_proc(t, s) ==
  LET u == Panic(t, ~InUse(t, s) \/ Exiting(t, s), "sig_proc: exiting process")
  IN  IF t.tracer[s] # NO_TRACER THEN trace_stop(u, s) ELSE u

---------------------------------------------------------------------------
(* The second half of an exit: telling tracer and parent, freeing slots.   *)

tell_parent(t, c) ==
  LET p == t.parent[c]
      u == Panic(Panic(Panic(t, p <= 0, "tell_parent: bad mp_parent"),
                       "ZOMBIE" \notin t.flags[c], "tell_parent: not a zombie"),
                 "TOLD_PARENT" \in t.flags[c], "tell_parent: again")
  IN  SetFlags(ClearFlags(ClearFlags(reply(u, p, "wait"), p, {"WAITING"}),
                          c, {"ZOMBIE"}),
               c, {"TOLD_PARENT"})

tell_tracer(t, c) ==
  LET d == t.tracer[c]
      u == Panic(Panic(t, d <= 0, "tell_tracer: bad mp_tracer"),
                 "TRACE_ZOMBIE" \notin t.flags[c], "tell_tracer: not a zombie")
  IN  SetFlags(ClearFlags(ClearFlags(reply(u, d, "wait"), d, {"WAITING"}),
                          c, {"TRACE_ZOMBIE"}),
               c, {"ZOMBIE"})

\* Mutant of cleanup: procs_in_use is not counted down.
cleanup_uncounted(t, s) == [t EXCEPT !.pid[s] = 0, !.flags[s] = {}]

\* mp_parent, mp_tracer and the rest of a freed slot keep their old values.
cleanup(t, s) ==
  [t EXCEPT !.pid[s] = 0, !.flags[s] = {}, !.procs_in_use = @ - 1]

check_parent(t, c, try_cleanup) ==
  LET p == t.parent[c]
      u == tell_parent(t, c)
  IN  IF Exiting(t, p) THEN t
      ELSE IF wait_test(t, p, c)
           THEN IF try_cleanup /\ ~VfsCall(u, c) THEN cleanup(u, c) ELSE u
           ELSE sig_proc(t, p)

\* Mutant of zombify: a tracer that waits already is not told.
zombify_untold(t, s) ==
  IF t.tracer[s] # NO_TRACER /\ t.tracer[s] # t.parent[s]
  THEN SetFlags(t, s, {"TRACE_ZOMBIE"})
  ELSE check_parent(SetFlags(t, s, {"ZOMBIE"}), s, FALSE)

zombify(t, s) ==
  LET u == Panic(t, {"ZOMBIE", "TRACE_ZOMBIE"} \cap t.flags[s] # {},
                 "zombify: already a zombie")
      z == SetFlags(u, s, {"TRACE_ZOMBIE"})
  IN  IF t.tracer[s] # NO_TRACER /\ t.tracer[s] # t.parent[s]
      THEN IF wait_test(z, t.tracer[s], s)
           THEN check_parent(tell_tracer(z, s), s, FALSE)
           ELSE z
      ELSE check_parent(SetFlags(u, s, {"ZOMBIE"}), s, FALSE)

\* Mutants of exit_restart: the slot is freed whether or not the parent has
\* waited; it is not freed at all.
exit_restart_eager(t, s, dump_core) == cleanup(t, s)

exit_restart_kept(t, s, dump_core) ==
  LET u == [t EXCEPT !.sched = @ \ {s}]
  IN  IF dump_core THEN zombify(u, s) ELSE u

\* exit_restart(), after handle_vfs_reply has cleared VFS_CALL.
exit_restart(t, s, dump_core) ==
  LET u == [t EXCEPT !.sched = @ \ {s}]
      z == IF dump_core THEN zombify(u, s) ELSE u
      w == IF "TRACE_EXIT" \in z.flags[s]
           THEN reply(z, z.tracer[s], "ptrace") ELSE z
  IN  IF "TOLD_PARENT" \in w.flags[s] THEN cleanup(w, s) ELSE w

---------------------------------------------------------------------------
(* exit_proc().                                                            *)

\* From its top to the loop.  The process never runs again; of its flags
\* only these survive.  INIT is stopped and nothing else.
begin_exit(t, s, dump_core) ==
  LET u == [t EXCEPT !.call[s] = "dead", !.pend = @ \ {s}]
      v == tell_vfs(u, s, IF dump_core THEN "dump" ELSE "exit")
      w == [v EXCEPT !.flags[s] =
              (@ \cap {"IN_USE", "VFS_CALL", "PRIV_PROC", "TRACE_EXIT"})
                \cup {"EXITING"}]
  IN  IF s = INIT_PROC_NR THEN u
      ELSE IF dump_core THEN w ELSE zombify(w, s)

\* Mutant of new_activation: "no leader" is a group number out of range.
new_activation_negative(t, s, mp) ==
  [at |-> "tracer", idx |-> 0, mp |-> mp,
   grp |-> IF t.pid[s] = t.procgrp[mp] THEN t.procgrp[mp] ELSE -1]

\* The activation of exit_proc(s) while PM handles a message of mp.  A session leader
\* is recognised by the process group of mp, not by its own.
new_activation(t, s, mp) ==
  [at |-> "tracer", idx |-> 0, mp |-> mp,
   grp |-> IF t.pid[s] = t.procgrp[mp] THEN t.procgrp[mp] ELSE 0]

\* System processes cannot be dumped: VFS no longer gets their state.
DumpChoice(t, s) == IF Priv(t, s) THEN {FALSE} ELSE BOOLEAN

\* exit_proc(s), in state t of the table, as a step of the main loop.
exit_proc(t, s, dump_core, mp) ==
  /\ pm' = begin_exit(t, s, dump_core)
  /\ IF s = INIT_PROC_NR
     THEN UNCHANGED <<act, stack>>
     ELSE /\ act' = [act EXCEPT ![s] = new_activation(t, s, mp)]
          /\ stack' = <<s>>
  /\ UNCHANGED next_child

\* The rest of tracer_died() for a child that is already exiting.
tracer_died(t, c) ==
  LET u == [t EXCEPT !.tracer[c] = NO_TRACER, !.flags[c] = @ \ {"TRACE_EXIT"}]
  IN  IF Exiting(u, c) /\ "TRACE_ZOMBIE" \in u.flags[c]
      THEN check_parent([u EXCEPT !.flags[c] =
                           (@ \ {"TRACE_ZOMBIE"}) \cup {"ZOMBIE"}], c, TRUE)
      ELSE u

\* Mutants of disinherit: the call in progress is not told of the new parent;
\* the grandparent adopts.
disinherit_unmarked(t, c) ==
  LET u == [t EXCEPT !.parent[c] = INIT_PROC_NR]
  IN  IF "ZOMBIE" \in u.flags[c] THEN check_parent(u, c, TRUE) ELSE u

disinherit_grandparent(t, c) ==
  LET u == [t EXCEPT !.parent[c] = t.parent[t.parent[c]]]
      v == IF VfsCall(u, c) THEN SetFlags(u, c, {"NEW_PARENT"}) ELSE u
  IN  IF "ZOMBIE" \in v.flags[c] THEN check_parent(v, c, TRUE) ELSE v

\* INIT becomes the parent of c; a VFS call in progress remembers that.
disinherit(t, c) ==
  LET u == [t EXCEPT !.parent[c] = INIT_PROC_NR]
      v == IF VfsCall(u, c) THEN SetFlags(u, c, {"NEW_PARENT"}) ELSE u
  IN  IF "ZOMBIE" \in v.flags[c] THEN check_parent(v, c, TRUE) ELSE v

\* The innermost activation, and what it does when it returns.
cur == stack[Len(stack)]
Running == stack # <<>>

Return == /\ act' = [act EXCEPT ![cur] = NoActivation]
          /\ stack' = SubSeq(stack, 1, Len(stack) - 1)

\* sig_proc of a fatal signal to c from within the activation of cur, which
\* continues as next: it waits for VFS, or exit_proc(c) starts right here.
kill_nested(t, c, next) ==
  IF VfsCall(t, c) \/ c = INIT_PROC_NR
  THEN /\ pm' = IF c = INIT_PROC_NR THEN begin_exit(t, c, FALSE)
                ELSE [t EXCEPT !.pend = @ \cup {c}]
       /\ act' = [act EXCEPT ![cur] = next]
       /\ UNCHANGED stack
  ELSE /\ pm' = begin_exit(t, c, FALSE)
       /\ act' = [act EXCEPT ![cur] = next,
                             ![c] = new_activation(t, c, act[cur].mp)]
       /\ stack' = Append(stack, c)

\* The slots exit_proc's loop still has to do something for.
Related(p, i) ==
  {c \in Slot : c >= i /\ InUse(pm, c) /\ (pm.tracer[c] = p \/ pm.parent[c] = p)}

Least(S) == CHOOSE c \in S : \A d \in S : c <= d

\* The loop reaches a process that cur traces.
LoopTracer ==
  LET a == act[cur]
      c == Least(Related(cur, a.idx))
      t == tracer_died(pm, c)
      next == [a EXCEPT !.at = "parent", !.idx = c]
  IN  /\ Running /\ a.at = "tracer" /\ Related(cur, a.idx) # {}
      /\ pm.tracer[c] = cur
      /\ IF Exiting(pm, c)
         THEN pm' = t /\ act' = [act EXCEPT ![cur] = next] /\ UNCHANGED stack
         ELSE kill_nested(t, c, next)
      /\ UNCHANGED next_child

\* The loop reaches a child, or continues with one after tracer_died.
LoopParent ==
  LET a == act[cur]
      c == IF a.at = "parent" THEN a.idx ELSE Least(Related(cur, a.idx))
  IN  /\ Running
      /\ \/ a.at = "parent"
         \/ a.at = "tracer" /\ Related(cur, a.idx) # {} /\ pm.tracer[c] # cur
      /\ pm' = IF pm.parent[c] = cur THEN disinherit(pm, c) ELSE pm
      /\ act' = [act EXCEPT ![cur].at = "tracer", ![cur].idx = c + 1]
      /\ UNCHANGED <<next_child, stack>>

\* The loop ends: return, or hang up the group of a session leader.
LoopEnd ==
  LET a == act[cur]
  IN  /\ Running /\ a.at = "tracer" /\ Related(cur, a.idx) = {}
      /\ IF a.grp = 0 THEN Return
         ELSE act' = [act EXCEPT ![cur].at = "hup", ![cur].idx = 0]
              /\ UNCHANGED stack
      /\ UNCHANGED <<pm, next_child>>

\* check_sig(-procgrp, SIGHUP): the members of the group, in some order of
\* their slots; a traced one is stopped for its tracer, another one is
\* terminated unless it catches or ignores SIGHUP.
Members(grp, i) ==
  {c \in Slot \ {PM} : /\ c >= i /\ InUse(pm, c) /\ ~Exiting(pm, c)
                       /\ pm.procgrp[c] = grp}

Hangup ==
  LET a == act[cur]
      c == Least(Members(a.grp, a.idx))
      next == [a EXCEPT !.idx = c + 1]
  IN  /\ Running /\ a.at = "hup" /\ Members(a.grp, a.idx) # {}
      /\ \/ /\ pm' = sig_proc(pm, c)
            /\ act' = [act EXCEPT ![cur] = next]
            /\ UNCHANGED stack
         \/ /\ pm.tracer[c] = NO_TRACER
            /\ c \notin Immortal
            /\ kill_nested(pm, c, next)
      /\ UNCHANGED next_child

HangupEnd ==
  /\ Running /\ act[cur].at = "hup"
  /\ Members(act[cur].grp, act[cur].idx) = {}
  /\ Return
  /\ UNCHANGED <<pm, next_child>>

---------------------------------------------------------------------------
(* The requests PM receives.                                               *)

Idle == ~Running /\ pm.panic = {}

\* A process that can send PM a message.
Runnable(p) ==
  /\ InUse(pm, p) /\ ~Exiting(pm, p)
  /\ pm.call[p] = "run" /\ "TRACE_STOPPED" \notin pm.flags[p]

\* fork refuses early when the table is (nearly) full.
TableFull(p) ==
  \/ pm.procs_in_use = NR_PROCS
  \/ pm.procs_in_use >= NR_PROCS - LAST_FEW /\ pm.effuid[p] # 0

\* The do-while loop of do_fork, from its static next_child n: the first free
\* slot after n, going round the table.
FreeSlots == {s \in Slot : ~InUse(pm, s)}
FreeSlot(n) == LET after == {s \in FreeSlots : s > n}
               IN  Least(IF after # {} THEN after ELSE FreeSlots)

\* get_free_pid(): no process and no process group has it.  The least one:
\* pids come back as soon as they can.
FreePids == Pid \ ({pm.pid[s] : s \in Slot} \cup {pm.procgrp[s] : s \in Slot})

\* The child's table entry: a copy of the parent's with keep flags.
fork_child(t, p, c, pid, keep) ==
  LET traced == p \in t.tfork
      Copy(S) == IF p \in S THEN S \cup {c} ELSE S \ {c}
  IN  [flags    |-> [t.flags EXCEPT ![c] = t.flags[p] \cap keep],
       parent   |-> [t.parent EXCEPT ![c] = p],
       tracer   |-> [t.tracer EXCEPT ![c] = IF traced THEN t.tracer[p]
                                            ELSE NO_TRACER],
       pid      |-> [t.pid EXCEPT ![c] = pid],
       procgrp  |-> [t.procgrp EXCEPT ![c] = t.procgrp[p]],
       wpid     |-> [t.wpid EXCEPT ![c] = t.wpid[p]],
       effuid   |-> [t.effuid EXCEPT ![c] = t.effuid[p]],
       sched    |-> Copy(t.sched),
       tfork    |-> Copy(t.tfork),
       sigtrace |-> IF traced THEN Copy(t.sigtrace) ELSE t.sigtrace \ {c},
       pend     |-> Copy(t.pend),
       call     |-> [t.call EXCEPT ![c] = "born"],
       vfs      |-> t.vfs,
       procs_in_use |-> t.procs_in_use + 1,
       panic    |-> t.panic]

SignalTracer(t, c) == IF t.tracer[c] # NO_TRACER THEN sig_proc(t, c) ELSE t

\* The slot search, shared by the two forks; which names the static variable.
ForkSlot(which) ==
  next_child' = IF FreeSlots = {} THEN next_child
                ELSE [next_child EXCEPT ![which] = FreeSlot(next_child[which])]

\* No slot found: panic; or vm_fork failed: only next_child has moved.
NoFork == pm' = Panic(pm, FreeSlots = {}, "do_fork can't find child slot")

do_fork(p) ==
  LET c == FreeSlot(next_child.fork)
      t == fork_child(pm, p, c, Least(FreePids), {"IN_USE"})
      u == IF Priv(pm, p)
           THEN [Panic(t, p \in pm.sched, "assert mp_scheduler")
                   EXCEPT !.sched = @ \cup {c}]
           ELSE t
      v == tell_vfs([u EXCEPT !.call[p] = "fork"], c, "fork")
  IN  /\ Idle /\ Runnable(p) /\ ~TableFull(p)
      /\ ForkSlot("fork")
      /\ \/ NoFork
         \/ FreeSlots # {} /\ FreePids # {} /\ pm' = SignalTracer(v, c)
      /\ UNCHANGED <<act, stack>>

\* Only RS; the service runs at once and gets the user id RS asks for.
do_srv_fork(p, uid) ==
  LET c == FreeSlot(next_child.srv)
      t == fork_child(pm, p, c, Least(FreePids), {"IN_USE", "PRIV_PROC"})
      v == tell_vfs([t EXCEPT !.effuid[c] = uid], c, "srv_fork")
  IN  /\ Idle /\ Runnable(p) /\ p = RS_PROC_NR /\ ~TableFull(p)
      /\ ForkSlot("srv")
      /\ \/ NoFork
         \/ /\ FreeSlots # {} /\ FreePids # {}
            /\ pm' = reply(SignalTracer(v, c), c, "born")
      /\ UNCHANGED <<act, stack>>

\* A system process that calls exit is sent SIGKILL instead.
do_exit(p) ==
  /\ Idle /\ Runnable(p)
  /\ p \notin Immortal
  /\ IF Priv(pm, p)
     THEN /\ pm' = [pm EXCEPT !.call[p] = "exit", !.pend = @ \cup {p}]
          /\ UNCHANGED <<next_child, act, stack>>
     ELSE exit_proc(pm, p, FALSE, p)

\* do_waitpid: the first entry of the table that decides the call.
Waitable(t, p, arg) ==
  {c \in Slot : /\ InUse(t, c) /\ "TOLD_PARENT" \notin t.flags[c]
                /\ t.parent[c] = p \/ t.tracer[c] = p
                /\ t.parent[c] # p => "ZOMBIE" \notin t.flags[c]
                /\ arg > 0 => arg = t.pid[c]
                /\ arg < -1 => -arg = t.procgrp[c]}

StopPending(t, p, c) ==
  t.tracer[c] = p /\ "TRACE_STOPPED" \in t.flags[c] /\ c \in t.sigtrace

Deciding(t, p, c) ==
  \/ t.tracer[c] = p /\ "TRACE_ZOMBIE" \in t.flags[c]
  \/ StopPending(t, p, c)
  \/ t.parent[c] = p /\ "ZOMBIE" \in t.flags[c]

do_waitpid(p, pidarg, nohang) ==
  LET arg == IF pidarg = 0 THEN -pm.procgrp[p] ELSE pidarg
      kids == Waitable(pm, p, arg)
      dec == {c \in kids : Deciding(pm, p, c)}
      c == Least(dec)
      t == [pm EXCEPT !.call[p] = "wait"]
      told == tell_parent(t, c)
  IN  /\ Idle /\ Runnable(p)
      /\ pm' = IF dec # {}
               THEN IF t.tracer[c] = p /\ "TRACE_ZOMBIE" \in t.flags[c]
                    THEN check_parent(tell_tracer(t, c), c, TRUE)
                    ELSE IF StopPending(t, p, c)
                    THEN [reply(t, p, "wait") EXCEPT !.sigtrace = @ \ {c}]
                    ELSE IF VfsCall(told, c) THEN told ELSE cleanup(told, c)
               ELSE IF kids = {} \/ nohang
               THEN reply(t, p, "wait")           \* ECHILD, or 0
               ELSE [SetFlags(t, p, {"WAITING"}) EXCEPT !.wpid[p] = arg]
      /\ UNCHANGED <<next_child, act, stack>>

---------------------------------------------------------------------------
(* VFS answers, and the parts of PM outside forkexit.c that start exits,   *)
(* attach tracers and make sessions.                                       *)

\* handle_vfs_reply clears the call; a signal that waited for it is acted on
\* when the process is not exiting.
Answered(t, s) ==
  [Panic(ClearFlags(t, s, {"VFS_CALL", "NEW_PARENT"}),
         ~VfsCall(t, s), "unexpected VFS reply") EXCEPT !.vfs[s] = "none"]

Resumed(t, s) ==
  IF s \in t.pend THEN exit_proc(t, s, FALSE, PM)
  ELSE pm' = t /\ UNCHANGED <<next_child, act, stack>>

\* Wakes the parent of a new process, unless that has died meanwhile.
ReplyParent(t, s) ==
  IF "NEW_PARENT" \in pm.flags[s] THEN t ELSE reply(t, t.parent[s], "fork")

VfsForkReply(s) ==
  LET t == Answered(pm, s)
  IN  /\ Idle /\ pm.vfs[s] = "fork"
      /\ \/ Resumed(ReplyParent(reply(t, s, "born"), s), s)
         \/ exit_proc(ReplyParent([t EXCEPT !.sched = @ \ {s}], s),
                      s, FALSE, PM)                    \* sched_start failed

VfsCallReply(s) ==
  LET t == Answered(pm, s)
  IN  /\ Idle
      /\ \/ pm.vfs[s] = "srv_fork" /\ Resumed(t, s)
         \/ pm.vfs[s] = "setsid" /\ Resumed(reply(t, s, "setsid"), s)

VfsExitReply(s) ==
  /\ Idle /\ pm.vfs[s] \in {"exit", "dump"}
  /\ pm' = exit_restart(Answered(pm, s), s, pm.vfs[s] = "dump")
  /\ UNCHANGED <<next_child, act, stack>>

\* do_kill with a fatal signal (some of which dump core), from k to user
\* process p.
Kill(k, p) ==
  /\ Idle /\ Runnable(k)
  /\ InUse(pm, p) /\ ~Exiting(pm, p) /\ ~Priv(pm, p) /\ pm.call[p] # "dead"
  /\ p \notin Immortal
  /\ IF VfsCall(pm, p)
     THEN /\ pm' = [pm EXCEPT !.pend = @ \cup {p}]
          /\ UNCHANGED <<next_child, act, stack>>
     ELSE \E dump \in DumpChoice(pm, p) : exit_proc(pm, p, dump, k)

\* SIGKILL for a system process comes back from the kernel.
KernelKill(p) ==
  /\ Idle /\ p \in pm.pend /\ ~VfsCall(pm, p)
  /\ exit_proc(pm, p, FALSE, PM)

setsid(p) ==
  /\ Sessions /\ Idle /\ Runnable(p) /\ ~Priv(pm, p)
  /\ pm.procgrp[p] # pm.pid[p]
  /\ pm' = tell_vfs([pm EXCEPT !.procgrp[p] = pm.pid[p], !.call[p] = "setsid"],
                    p, "setsid")
  /\ UNCHANGED <<next_child, act, stack>>

\* ptrace(T_ATTACH): stops the process; fork says if children are traced too.
Attach(d, c, fork) ==
  /\ Tracing /\ Idle /\ Runnable(d) /\ ~Priv(pm, d) /\ d # INIT_PROC_NR
  /\ c \notin {d, INIT_PROC_NR}
  /\ InUse(pm, c) /\ ~Exiting(pm, c) /\ ~Priv(pm, c)
  /\ pm.tracer[c] = NO_TRACER
  /\ pm' = sig_proc([pm EXCEPT !.tracer[c] = d,
                               !.tfork = IF fork THEN @ \cup {c} ELSE @], c)
  /\ UNCHANGED <<next_child, act, stack>>

Stopped(d, c) ==
  /\ Idle /\ Runnable(d)
  /\ InUse(pm, c) /\ ~Exiting(pm, c) /\ pm.tracer[c] = d
  /\ "TRACE_STOPPED" \in pm.flags[c]

\* ptrace(T_RESUME), or T_DETACH.
Resume(d, c, detach) ==
  /\ Tracing /\ Stopped(d, c) /\ c \notin pm.sigtrace
  /\ pm' = [ClearFlags(pm, c, {"TRACE_STOPPED"}) EXCEPT
              !.tracer[c] = IF detach THEN NO_TRACER ELSE @,
              !.tfork = IF detach THEN @ \ {c} ELSE @]
  /\ UNCHANGED <<next_child, act, stack>>

\* ptrace(T_EXIT): the tracer is answered by exit_restart().
TraceExit(d, c) ==
  LET t == SetFlags([pm EXCEPT !.call[d] = "ptrace"], c, {"TRACE_EXIT"})
  IN  /\ Tracing /\ Stopped(d, c)
      /\ IF VfsCall(pm, c)
         THEN /\ pm' = [t EXCEPT !.pend = @ \cup {c}]
              /\ UNCHANGED <<next_child, act, stack>>
         ELSE exit_proc(t, c, FALSE, d)

---------------------------------------------------------------------------
\* PM, INIT and RS are there when PM starts.
Boot == {PM, INIT_PROC_NR, RS_PROC_NR}

Init ==
  /\ pm = [flags    |-> [s \in Slot |->
                           IF s \notin Boot THEN {}
                           ELSE IF s = INIT_PROC_NR THEN {"IN_USE"}
                           ELSE {"IN_USE", "PRIV_PROC"}],
           parent   |-> [s \in Slot |-> IF s = PM THEN RS_PROC_NR
                                        ELSE INIT_PROC_NR],
           tracer   |-> [s \in Slot |-> NO_TRACER],
           pid      |-> [s \in Slot |-> IF s = INIT_PROC_NR THEN INIT_PID
                                        ELSE IF s = RS_PROC_NR THEN 2
                                        ELSE IF s = PM THEN 3 ELSE 0],
           procgrp  |-> [s \in Slot |-> IF s = INIT_PROC_NR THEN INIT_PID
                                        ELSE 0],
           wpid     |-> [s \in Slot |-> 0],
           effuid   |-> [s \in Slot |-> 0],
           sched    |-> {INIT_PROC_NR},
           tfork    |-> {},
           sigtrace |-> {},
           pend     |-> {},
           call     |-> [s \in Slot |-> IF s \in Boot \ {PM} THEN "run"
                                        ELSE "dead"],
           vfs      |-> [s \in Slot |-> "none"],
           procs_in_use |-> Cardinality(Boot),
           panic    |-> {}]
  /\ next_child = [fork |-> 0, srv |-> 0]
  /\ act = [s \in Slot |-> NoActivation]
  /\ stack = <<>>

VfsReply(s) == VfsForkReply(s) \/ VfsCallReply(s) \/ VfsExitReply(s)

Loop == LoopTracer \/ LoopParent \/ LoopEnd \/ Hangup \/ HangupEnd

Request_(p) ==
  \/ do_fork(p)
  \/ \E uid \in Uid : do_srv_fork(p, uid)
  \/ do_exit(p)
  \/ \E arg \in WaitArg, nohang \in BOOLEAN : do_waitpid(p, arg, nohang)
  \/ setsid(p)
  \/ \E q \in Slot \ {PM} : Kill(p, q)
  \/ \E q \in Slot \ {PM}, b \in BOOLEAN : Attach(p, q, b) \/ Resume(p, q, b)
  \/ \E q \in Slot \ {PM} : TraceExit(p, q)

Next ==
  \/ Loop
  \/ \E s \in Slot \ {PM} : VfsReply(s) \/ KernelKill(s)
  \/ \E s \in Caller : Request_(s)

Spec == Init /\ [][Next]_vars
---------------------------------------------------------------------------
(* Properties.                                                             *)

Live(s) == InUse(pm, s) /\ ~Exiting(pm, s)

\* Every variable holds values of its type.
TypeOK ==
  /\ pm \in PMState
  /\ next_child \in [fork : Slot, srv : Slot]
  /\ act \in [Slot -> Activation]
  /\ stack \in Seq(Slot)

\* None of PM's panics and assertions is ever reached, whatever the order of
\* exits, waits, attaches and VFS answers: no process is zombified or
\* reported twice, no exiting or free slot is signalled, no fork runs out of
\* slots after its check, VFS never answers for a slot without a request.
NoPanic == pm.panic = {}

\* Between two messages every slot in use has a live parent, and a live
\* tracer if it has one: exit_proc's loop leaves no child and no traced
\* process behind, nested exits included.
FamilyIsLive ==
  ~Running => \A s \in Slot :
    InUse(pm, s) => /\ Live(pm.parent[s])
                    /\ pm.tracer[s] # NO_TRACER => Live(pm.tracer[s])

\* Between two messages nobody waits for an exit that has already happened:
\* neither a parent for its zombie nor a tracer for a process it traces.
NoLostWakeup ==
  ~Running => \A c \in Slot :
    /\ "ZOMBIE" \in pm.flags[c] => ~wait_test(pm, pm.parent[c], c)
    /\ "TRACE_ZOMBIE" \in pm.flags[c] => ~wait_test(pm, pm.tracer[c], c)

\* PM only answers a process that is blocked in the call it answers: an
\* orphaned fork does not wake INIT, two zombies do not answer one wait.
NoSpuriousReply == \A s \in Slot : pm.call[s] # "spurious"

\* Between two messages every blocked process is remembered by what will
\* wake it: a waiter by its WAITING flag and a child or traced process it can
\* wait for, a forker by a child VFS works on, ptrace(T_EXIT) by its victim.
\* (Not a waiter for a process group: its children may leave the group.)
BlockedHasWaker ==
  ~Running => \A s \in Slot :
    /\ pm.call[s] = "wait" => /\ "WAITING" \in pm.flags[s]
                              /\ \/ Waitable(pm, s, pm.wpid[s]) # {}
                                 \/ pm.wpid[s] < -1
    /\ pm.call[s] = "fork" => \E c \in Slot :
         /\ pm.vfs[c] = "fork" /\ pm.parent[c] = s
         /\ "NEW_PARENT" \notin pm.flags[c]
    /\ pm.call[s] = "ptrace" => \E c \in Slot :
         /\ pm.tracer[c] = s /\ "TRACE_EXIT" \in pm.flags[c]
         /\ pm.vfs[c] # "none"
    /\ pm.call[s] \in {"born", "setsid"} => pm.vfs[s] # "none"
    /\ pm.call[s] = "exit" => s \in pm.pend

\* What PM keeps between two messages, and never reaches: no panic, live
\* families, nobody who waits for what has happened, nobody blocked whom
\* nothing will wake, nobody answered who did not ask.
TableSafe == /\ NoPanic /\ FamilyIsLive /\ NoLostWakeup
             /\ BlockedHasWaker /\ NoSpuriousReply

\* No exit is collected, and no entry freed, before the parent has waited for
\* it (event (2) of the header's description): the step that does so is a
\* waitpid of the parent's, or answers one that the parent is blocked in.
\* INIT stands in for a parent that is exiting.
ParentWaited ==
  [][\A c \in Slot :
       /\ InUse(pm, c) /\ "TOLD_PARENT" \notin pm.flags[c]
       /\ ~InUse(pm', c) \/ "TOLD_PARENT" \in pm'.flags[c]
       => \E p \in {pm.parent[c], INIT_PROC_NR} :
            /\ p = pm.parent[c] \/ Exiting(pm, pm.parent[c])
            /\ \/ wait_test(pm, p, c) /\ "WAITING" \notin pm'.flags[p]
               \/ \E arg \in WaitArg, nohang \in BOOLEAN : do_waitpid(p, arg, nohang)
    ]_vars
---------------------------------------------------------------------------
(* The inductive invariant from which the safety properties follow.        *)

\* What the flags of one slot say together, and with what VFS still owes.
SlotInv(t, s) ==
  LET F == t.flags[s]
  IN  /\ "IN_USE" \notin F => F = {}
      /\ ("VFS_CALL" \in F) <=> (t.vfs[s] # "none")
      /\ "NEW_PARENT" \in F => "VFS_CALL" \in F
      /\ "EXITING" \in F =>
           /\ t.vfs[s] \in {"none", "exit", "dump"}
           /\ "WAITING" \notin F /\ "TRACE_STOPPED" \notin F
           /\ t.call[s] = "dead" /\ s \notin t.pend
      /\ "EXITING" \notin F =>
           /\ t.vfs[s] \notin {"exit", "dump"}
           /\ "ZOMBIE" \notin F /\ "TRACE_ZOMBIE" \notin F
           /\ "TOLD_PARENT" \notin F
      /\ "ZOMBIE" \in F => "TRACE_ZOMBIE" \notin F /\ "TOLD_PARENT" \notin F
      /\ "TRACE_ZOMBIE" \in F => "TOLD_PARENT" \notin F
      /\ "PRIV_PROC" \in F => s \notin t.sched
      /\ t.vfs[s] = "srv_fork" => "PRIV_PROC" \in F

\* Who is blocked in what: PM will answer each call once, and only it.
CallInv(t, s) ==
  /\ t.call[s] # "spurious"
  /\ "WAITING" \in t.flags[s] =>
       t.call[s] = "wait" \/ (s = INIT_PROC_NR /\ t.call[s] = "dead")
  /\ t.vfs[s] = "fork" => t.call[s] = "born"
  /\ t.vfs[s] = "setsid" => t.call[s] = "setsid"
  /\ t.vfs[s] = "fork" /\ "NEW_PARENT" \notin t.flags[s] =>
       \/ t.call[t.parent[s]] = "fork"
       \/ t.parent[s] = INIT_PROC_NR /\ t.call[INIT_PROC_NR] = "dead"
       \/ Exiting(t, t.parent[s])
  /\ "TRACE_EXIT" \in t.flags[s] /\ t.vfs[s] # "none" =>
       t.call[t.tracer[s]] = "ptrace" \/ Exiting(t, t.tracer[s])

\* A caller blocked in fork or ptrace is owed one answer.
OneAnswer(t, s, c) ==
  /\ /\ t.vfs[s] = "fork" /\ "NEW_PARENT" \notin t.flags[s]
     /\ t.vfs[c] = "fork" /\ "NEW_PARENT" \notin t.flags[c]
     /\ t.parent[s] = t.parent[c]
     => s = c
  /\ /\ "TRACE_EXIT" \in t.flags[s] /\ t.vfs[s] # "none"
     /\ "TRACE_EXIT" \in t.flags[c] /\ t.vfs[c] # "none"
     /\ t.tracer[s] = t.tracer[c]
     => s = c

\* Parents and tracers are in use; an exiting one has its loop over the table
\* still before it at this entry.
FamilyInv(t, a, s) ==
  InUse(t, s) =>
    LET p == t.parent[s]
        d == t.tracer[s]
    IN  /\ p # PM /\ InUse(t, p)
        /\ Exiting(t, p) => a[p].at \in {"tracer", "parent"} /\ s >= a[p].idx
        /\ d # NO_TRACER => InUse(t, d) /\ d # INIT_PROC_NR
        /\ d # NO_TRACER /\ Exiting(t, d) =>
             \/ a[d].at = "tracer" /\ s >= a[d].idx
             \/ a[d].at = "parent" /\ s > a[d].idx
        /\ {"TRACE_ZOMBIE", "TRACE_EXIT"} \cap t.flags[s] # {} => d # NO_TRACER

\* A pending SIGKILL waits for VFS, or is on its way through the kernel.
PendInv(t, s) ==
  s \in t.pend => /\ InUse(t, s) /\ ~Exiting(t, s) /\ s # INIT_PROC_NR
                  /\ VfsCall(t, s) \/ t.call[s] = "exit"

\* A process in exit_proc is exiting and VFS has not answered for it.
ActiveInv(t, a, s) == a[s].at # "none" => Exiting(t, s) /\ VfsCall(t, s)

\* PM, INIT and RS stay: nobody traces them, VFS works on none of them, none
\* has a SIGKILL on its way; INIT leads its group and is no system process.
BootInv(t) ==
  /\ \A s \in Boot : /\ InUse(t, s) /\ ~Exiting(t, s) /\ t.tracer[s] = NO_TRACER
                     /\ t.vfs[s] = "none" /\ s \notin t.pend
  /\ ~Priv(t, INIT_PROC_NR) /\ Priv(t, RS_PROC_NR)
  /\ t.procgrp[INIT_PROC_NR] = t.pid[INIT_PROC_NR]

\* These hold between any two calls inside a handler.
BaseInv(t, a) ==
  /\ \A s \in Slot : /\ SlotInv(t, s) /\ CallInv(t, s) /\ FamilyInv(t, a, s)
                     /\ PendInv(t, s) /\ ActiveInv(t, a, s)
  /\ \A s, c \in Slot : OneAnswer(t, s, c)
  /\ BootInv(t)
  /\ t.panic = {}

\* These, for the process being worked on, only when its handler is done.  An
\* exit has been announced (a core dump first, though), a slot told about is
\* kept for VFS only, and nobody waits for what has happened.
Announced(t, s) ==
  LET F == t.flags[s]
  IN  /\ "EXITING" \in F =>
           \/ t.vfs[s] = "dump" /\ "ZOMBIE" \notin F
              /\ "TRACE_ZOMBIE" \notin F /\ "TOLD_PARENT" \notin F
           \/ t.vfs[s] # "dump" /\ ("ZOMBIE" \in F \/ "TRACE_ZOMBIE" \in F
                                     \/ "TOLD_PARENT" \in F)
      /\ "TOLD_PARENT" \in F => t.vfs[s] = "exit"
      /\ "ZOMBIE" \in F => ~wait_test(t, t.parent[s], s)
      /\ "TRACE_ZOMBIE" \in F => ~wait_test(t, t.tracer[s], s)
      /\ "TRACE_EXIT" \in F /\ "EXITING" \notin F =>
           "VFS_CALL" \in F /\ s \in t.pend

\* A process blocked in waitpid is marked as waiting.
Remembered(t, s) == t.call[s] = "wait" => "WAITING" \in t.flags[s]

TableInv(t, a) ==
  BaseInv(t, a) /\ \A s \in Slot : Announced(t, s) /\ Remembered(t, s)

\* procs_in_use and the table agree.
CountInv(t) == t.procs_in_use = Cardinality({s \in Slot : InUse(t, s)})

\* The stack lists the active processes, each once.
StackInv ==
  /\ \A i, j \in 1 .. Len(stack) : stack[i] = stack[j] => i = j
  /\ \A s \in Slot : act[s].at # "none" <=> \E i \in 1 .. Len(stack) : stack[i] = s

\* The inductive invariant of PM: every table entry is consistent with its
\* family, with what VFS owes it and with the activations of exit_proc.
IInv == TypeOK /\ TableInv(pm, act) /\ StackInv /\ CountInv(pm)
---------------------------------------------------------------------------
(* The process table as ProcessLife sees it.                               *)

life ==
  [s \in Slot |->
     IF ~InUse(pm, s) THEN "free"
     ELSE IF ~Exiting(pm, s) THEN "alive"
     ELSE IF "TOLD_PARENT" \in pm.flags[s] THEN "collected"
     ELSE IF {"ZOMBIE", "TRACE_ZOMBIE"} \cap pm.flags[s] # {} THEN "zombie"
     ELSE "dying"]

parent == [s \in Slot |-> IF InUse(pm, s) THEN pm.parent[s] ELSE INIT_PROC_NR]

Life == INSTANCE ProcessLife WITH
          Process <- Slot, INIT <- INIT_PROC_NR, Booted <- Boot,
          Boss <- [s \in Boot |-> IF s = PM THEN RS_PROC_NR ELSE INIT_PROC_NR]

\* PM implements the life cycle its header describes: an entry is freed only
\* when its process has exited and a live parent has collected it, by whatever
\* interleaving of VFS answers, waits, adoptions and nested exits.
LifeCycle == Life!LSpec
---------------------------------------------------------------------------
(* Liveness.                                                               *)

\* PM finishes what it began.  VFS answers every request, and the kernel
\* delivers every message in the end although PM is often not receiving: the
\* queue of senders blocked on PM is first come, first served.  INIT does
\* nothing but wait for children.
Fairness ==
  /\ WF_vars(Loop)
  /\ \A s \in Slot \ Boot : SF_vars(VfsReply(s))
  /\ SF_vars(do_waitpid(INIT_PROC_NR, -1, FALSE))

FairSpec == Spec /\ Fairness

\* A process blocked in fork gets its answer, or dies: the child's VFS call,
\* the child's own death and the death of the parent cannot lose it.
ForkReturns == \A s \in Caller : pm.call[s] = "fork" ~> pm.call[s] # "fork"

\* A parent that waits for any child and has one that exits gets an answer.
WaitReturns ==
  \A p \in Caller :
    /\ pm.call[p] = "wait" /\ pm.wpid[p] = -1
    /\ \E c \in Slot : /\ pm.parent[c] = p /\ Exiting(pm, c)
                       /\ "TOLD_PARENT" \notin pm.flags[c]
    ~> pm.call[p] # "wait"

\* The slot of an exiting child of INIT is freed, also when INIT adopted it
\* as a zombie; unless INIT is kept busy by children in lower slots, as
\* waitpid scans the table from slot 0.
OrphansReaped ==
  \A c \in Slot \ Boot :
    Exiting(pm, c) /\ pm.parent[c] = INIT_PROC_NR
    ~> \/ ~Exiting(pm, c)
       \/ \E d \in Slot \ Boot : /\ d < c /\ InUse(pm, d)
                                /\ pm.parent[d] = INIT_PROC_NR

\* Calls return and exits are finished, whatever dies meanwhile.
Progress == ForkReturns /\ WaitReturns /\ OrphansReaped
=============================================================================
