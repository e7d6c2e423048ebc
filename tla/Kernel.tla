------------------------------- MODULE Kernel -------------------------------
(***************************************************************************)
(* The kernel's system task, Lab-05/system.c: kernel calls that VM may     *)
(* suspend and that are run again, signals that reach a process through    *)
(* its signal manager, and what is left of a process in the message        *)
(* queues of others when it dies.                                          *)
(*                                                                         *)
(* k holds the process table as a record of arrays.  The functions of      *)
(* system.c are operators from such a record to the next; the kernel runs  *)
(* to completion, so every trap is one action.  Message passing (proc.c),  *)
(* the handlers behind the call vector, VM and the loop of the signal      *)
(* manager are not part of the file: they are modelled as far as           *)
(* system.c relies on them.                                                *)
(***************************************************************************)
EXTENDS Naturals, Sequences, FiniteSets

CONSTANTS
  Manager,   \* the process that manages the signals of the others: PM
  Service,   \* processes that manage their own, with Manager as backup
  User,      \* all other processes
  Diag,      \* the system processes that want SIGKMESS: s_diag_sig
  MaxSignals,\* bound: the exceptions and kills of a behaviour
  MaxAsync,  \* bound: notifications and asynchronous messages in flight
  SYSTEM,    \* the kernel as a sender of notifications
  ANY, NONE

Mortal == Service \cup User
System == Service \cup {Manager}   \* those with a privilege structure of their own
Proc == Mortal \cup {Manager}

ASSUME KernelAssumption ==
  /\ Manager \notin Mortal /\ Service \cap User = {} /\ Diag \subseteq System
  /\ MaxSignals \in Nat /\ MaxAsync \in Nat
  /\ {SYSTEM, ANY, NONE} \cap Proc = {} /\ Cardinality({SYSTEM, ANY, NONE}) = 3

VARIABLE k
vars == <<k>>

Flag == {"SLOT_FREE", "NO_ENDPOINT", "SENDING", "RECEIVING", "SIGNALED",
         "SIG_PENDING", "VMREQUEST"}
Sig  == {"SIGSEGV", "SIGUSR", "SIGSNDELAY"}
SIGS_IS_LETHAL(sig) == sig = "SIGSEGV"

State ==
  [rts     : [Proc -> SUBSET Flag],                \* p_rts_flags
   to      : [Proc -> Proc \cup {NONE}],           \* p_sendto_e
   from    : [Proc -> Proc \cup {ANY, NONE}],      \* p_getfrom_e
   q       : [Proc -> Seq(Proc)],                  \* p_caller_q
   note    : [Proc -> SUBSET (System \cup {SYSTEM})], \* s_notify_pending
   asyn    : [Proc -> SUBSET System],              \* s_asyn_pending
   pending : [Proc -> SUBSET Sig],                 \* p_pending
   ksig    : [Proc -> BOOLEAN],                    \* SIGKSIG is in s_sig_pending
   mgr     : [Proc -> Proc],                       \* s_sig_mgr, SELF resolved
   bak     : [Proc -> Proc \cup {NONE}],           \* s_bak_sig_mgr
   resume  : SUBSET Proc,                          \* MF_KCALL_RESUME
   delay   : SUBSET Proc,                          \* MF_SIG_DELAY
   saved   : [Proc -> Proc \cup {NONE}],   \* reqmsg.m_source, NONE for SYSTEM too
   job     : Proc \cup {NONE, ANY},   \* see ManagerLoop
   left    : 0..MaxSignals,
   panic   : Proc \cup {NONE, ANY}]   \* the kernel is down: see cause_sig

RTS_SET(s, p, flags)   == [s EXCEPT !.rts[p] = @ \cup flags]
RTS_UNSET(s, p, flags) == [s EXCEPT !.rts[p] = @ \ flags]

Has(s, p, flag) == flag \in s.rts[p]
isempty(s, p)   == Has(s, p, "SLOT_FREE")
Runs(p)         == k.rts[p] = {} /\ p \notin k.resume

\* P_BLOCKEDON: whom p waits for.
P_BLOCKEDON(s, p) == IF Has(s, p, "SENDING") THEN s.to[p]
                     ELSE IF Has(s, p, "RECEIVING") THEN s.from[p] ELSE NONE

Init ==
  k = [rts     |-> [p \in Proc |-> IF p \in User THEN {"SLOT_FREE"} ELSE {}],
       to      |-> [p \in Proc |-> NONE],
       from    |-> [p \in Proc |-> NONE],
       q       |-> [p \in Proc |-> <<>>],
       note    |-> [p \in Proc |-> {}],
       asyn    |-> [p \in Proc |-> {}],
       pending |-> [p \in Proc |-> {}],
       ksig    |-> [p \in Proc |-> FALSE],
       mgr     |-> [p \in Proc |-> IF p \in Service THEN p ELSE Manager],
       bak     |-> [p \in Proc |-> IF p \in Service THEN Manager ELSE NONE],
       resume  |-> {}, delay |-> {},
       saved   |-> [p \in Proc |-> NONE],
       job |-> NONE,
       left    |-> MaxSignals, panic |-> NONE]

-----------------------------------------------------------------------------
(* Message passing, as far as system.c uses it *)

\* WILLRECEIVE: t is blocked in a receive that takes a message of src.
WillReceive(s, t, src) ==
  /\ Has(s, t, "RECEIVING") /\ ~Has(s, t, "SENDING")
  /\ s.from[t] \in {ANY, src}

\* t gets what it waited for.  A message of SYSTEM carries the signals of
\* s_sig_pending, and SIGKSIG sends the manager into its loop.
Deliver(s, t, src) ==
  LET w == [RTS_UNSET(s, t, {"RECEIVING"}) EXCEPT !.from[t] = NONE]
  IN IF src = SYSTEM
     THEN [w EXCEPT !.ksig[t] = FALSE, !.note[t] = @ \ {SYSTEM},
                    !.job = IF t = Manager /\ s.ksig[t] THEN ANY ELSE @]
     ELSE w

mini_notify(s, src, t) == IF WillReceive(s, t, src) THEN Deliver(s, t, src)
                          ELSE [s EXCEPT !.note[t] = @ \cup {src}]
-----------------------------------------------------------------------------
(* Signals *)

\* send_sig: EINVAL, which the callers below make a panic, for an empty slot.
send_sig(s, t, isKsig) ==
  IF isempty(s, t) THEN [s EXCEPT !.panic = ANY]
  ELSE mini_notify([s EXCEPT !.ksig[t] = @ \/ isKsig], SYSTEM, t)

\* Mutant of Signal: tests the wrong flag, so a signal that comes while the
\* manager has fetched the earlier ones is never fetched.
Signal_pending(s, p, sig) ==
  LET w == [s EXCEPT !.pending[p] = @ \cup {sig}]
  IN IF sig \in s.pending[p] THEN s
     ELSE IF Has(s, p, "SIG_PENDING") THEN w
     ELSE send_sig(RTS_SET(w, p, {"SIGNALED", "SIG_PENDING"}), s.mgr[p], TRUE)

\* The part of cause_sig behind the lookup of the manager.
Signal(s, p, sig) ==
  LET w == [s EXCEPT !.pending[p] = @ \cup {sig}]
  IN IF sig \in s.pending[p] THEN s
     ELSE IF Has(s, p, "SIGNALED") THEN w
     ELSE send_sig(RTS_SET(w, p, {"SIGNALED", "SIG_PENDING"}), s.mgr[p], TRUE)

\* cause_sig: a lethal signal for a process that manages itself makes its
\* backup its manager, or brings the kernel down if it has none; anything else
\* such a process is told itself.
cause_sig(s, p, sig) ==
  IF s.mgr[p] # p THEN Signal(s, p, sig)
  ELSE IF ~SIGS_IS_LETHAL(sig) THEN send_sig(s, p, FALSE)
  ELSE IF s.bak[p] # NONE /\ ~isempty(s, s.bak[p])
  THEN Signal([s EXCEPT !.mgr[p] = s.bak[p], !.bak[p] = NONE], p, sig)
  ELSE [s EXCEPT !.panic = p]

\* sig_delay_done: p, whose stop had to wait for its message, is not sending.
sig_delay_done(s, p) ==
  IF p \in s.delay
  THEN cause_sig([s EXCEPT !.delay = @ \ {p}], p, "SIGSNDELAY") ELSE s

\* send_diag_sig: SIGKMESS for everyone who asked for it.
\* The signals are independent: each touches the slot of its target only, and
\* the one for the manager also its loop.
send_diag_sig(s) ==
  LET told     == {p \in Diag : ~isempty(s, p)}
      after(p) == send_sig(s, p, FALSE)
  IN [s EXCEPT
        !.rts  = [p \in Proc |-> IF p \in told THEN after(p).rts[p] ELSE @[p]],
        !.from = [p \in Proc |-> IF p \in told THEN after(p).from[p] ELSE @[p]],
        !.note = [p \in Proc |-> IF p \in told THEN after(p).note[p] ELSE @[p]],
        !.ksig = [p \in Proc |-> IF p \in told THEN after(p).ksig[p] ELSE @[p]],
        !.job  = IF Manager \in told THEN after(Manager).job ELSE @]
-----------------------------------------------------------------------------
(* What a dying process leaves in the tables of the others *)

\* The queue q without the processes of ps.
Unlink(q, ps) ==
  LET kept[i \in 0..Len(q)] == IF i = 0 THEN <<>>
                               ELSE IF q[i] \in ps THEN kept[i - 1]
                               ELSE Append(kept[i - 1], q[i])
  IN kept[Len(q)]

\* Mutant of clear_ipc: the queue of the destination keeps the link.
clear_ipc_linked(s, p) ==
  [RTS_UNSET(s, p, {"SENDING", "RECEIVING"}) EXCEPT !.from[p] = NONE, !.to[p] = NONE]

\* clear_ipc: p leaves the queue it waits in and is no longer blocked.
clear_ipc(s, p) ==
  LET w == IF Has(s, p, "SENDING")
           THEN [s EXCEPT !.q[s.to[p]] = Unlink(@, {p}), !.to[p] = NONE] ELSE s
  IN [RTS_UNSET(w, p, {"SENDING", "RECEIVING"}) EXCEPT !.from[p] = NONE]

\* The loop of clear_ipc_refs over the processes: clear_ipc for each that is
\* blocked on rc.  Each call unblocks its process and unlinks it from the queue
\* of rc if it was sending.
WakeWaiters(s, rc) ==
  LET waits    == {p \in Proc : ~isempty(s, p) /\ P_BLOCKEDON(s, p) = rc}
      after(p) == clear_ipc(s, p)
  IN [s EXCEPT
        !.rts   = [p \in Proc |-> IF p \in waits THEN after(p).rts[p] ELSE @[p]],
        !.to    = [p \in Proc |-> IF p \in waits THEN after(p).to[p] ELSE @[p]],
        !.from  = [p \in Proc |-> IF p \in waits THEN after(p).from[p] ELSE @[p]],
        !.q[rc] = Unlink(@, {p \in waits : Has(s, p, "SENDING")})]

\* Mutant of clear_ipc_refs: what rc has sent asynchronously stays.
clear_ipc_refs_kept(s, rc) == WakeWaiters([s EXCEPT !.asyn[rc] = {}], rc)

\* clear_ipc_refs: the asynchronous messages for rc are cancelled, what rc
\* has sent is forgotten, and whoever waits for rc is woken with a code.
clear_ipc_refs(s, rc) ==
  LET live == {p \in Proc : ~isempty(s, p)}
  IN WakeWaiters(
       [s EXCEPT
          !.note = [p \in Proc |-> IF p \in live THEN @[p] \ {rc} ELSE @[p]],
          !.asyn = [p \in Proc |-> IF p = rc THEN {}
                                   ELSE IF p \in live THEN @[p] \ {rc} ELSE @[p]]],
       rc)

clear_endpoint(s, rc) ==
  IF isempty(s, rc) THEN [s EXCEPT !.panic = ANY]
  ELSE clear_ipc_refs(clear_ipc(RTS_SET(s, rc, {"NO_ENDPOINT"}), rc), rc)
-----------------------------------------------------------------------------
(* Kernel calls *)

\* The bound on signals.
CanSignal == k.left > 0
Spend(s)  == [s EXCEPT !.left = @ - 1]

\* What the call vector (system_init) and the caller's call mask make of a
\* call number.
Request == {"illegal", "denied", "unused", "mapped"}
Result  == {"EBADREQUEST", "ECALLDENIED", "OK", "EDONTREPLY", "VMSUSPEND"}

\* What a handler of the call vector may return.
Handler == {"OK", "EDONTREPLY", "VMSUSPEND"}

\* kernel_call_dispatch: the result of request r, h the handler's.
kernel_call_dispatch(r, h) == CASE r = "mapped" -> h
                                [] r = "denied" -> "ECALLDENIED"
                                [] OTHER        -> "EBADREQUEST"

\* kernel_call_finish: source is the m_source of msg.  For a resumed call msg
\* is the saved message itself, and the reply puts SYSTEM into it.
kernel_call_finish(s, p, source, result, badReply) ==
  IF result = "VMSUSPEND"
  THEN [RTS_SET(s, p, {"VMREQUEST"}) EXCEPT !.saved[p] = source,
                                            !.resume = @ \cup {p}]
  ELSE LET done == [s EXCEPT !.saved[p] = NONE]
       IN IF result # "EDONTREPLY" /\ badReply
          THEN cause_sig(Spend(done), p, "SIGSEGV") ELSE done

\* kernel_call: a message that cannot be read costs the caller a SIGSEGV.  (The
\* calls of the manager that succeed are the actions of its loop.)
kernel_call(p) ==
  /\ Runs(p)
  /\ \/ CanSignal /\ k' = cause_sig(Spend(k), p, "SIGSEGV")
     \/ \E r \in Request, h \in Handler, bad \in BOOLEAN :
          /\ p # Manager /\ (bad => CanSignal)
          /\ k' = kernel_call_finish(k, p, p, kernel_call_dispatch(r, h), bad)

\* Mutant of kernel_call_resume: a process whose stop is delayed is passed over.
kernel_call_resume_delayed(p) ==
  /\ k.rts[p] = {} /\ p \in k.resume \ k.delay
  /\ \E h \in Handler :
       k' = kernel_call_finish([k EXCEPT !.resume = @ \ {p}], p, k.saved[p], h, FALSE)

\* kernel_call_resume, when p is scheduled again: the call is run once more
\* from the saved message; its asserts are the panic.
kernel_call_resume(p) ==
  /\ k.rts[p] = {} /\ p \in k.resume
  /\ \E r \in Request, h \in Handler, bad \in BOOLEAN :
       /\ bad => CanSignal
       /\ k' = IF k.saved[p] # p THEN [k EXCEPT !.panic = ANY]
               ELSE kernel_call_finish([k EXCEPT !.resume = @ \ {p}], p, k.saved[p],
                                       kernel_call_dispatch(r, h), bad)

\* VM has seen to the memory of p: the call may be run again.
VMReply(p) == Has(k, p, "VMREQUEST") /\ k' = RTS_UNSET(k, p, {"VMREQUEST"})

\* A CPU exception of p, and a signal that a process has the kernel send.
Exception(p) == /\ Runs(p) /\ CanSignal
                /\ k' = cause_sig(Spend(k), p, "SIGSEGV")
Kill(p)      == /\ ~isempty(k, p) /\ CanSignal
                /\ k' = cause_sig(Spend(k), p, "SIGUSR")
Diagnostics  == CanSignal /\ k' = send_diag_sig(Spend(k))
-----------------------------------------------------------------------------
(* Message passing (proc.c) *)

\* mini_send, for SEND and SENDREC: delivered, or p queues at t.
Send(p, t, rec) ==
  /\ Runs(p) /\ p # t /\ ~isempty(k, t) /\ p # Manager
  /\ ~Has(k, t, "SENDING") \/ k.to[t] # p                      \* ELOCKED
  /\ LET wait == IF rec THEN [RTS_SET(k, p, {"RECEIVING"}) EXCEPT !.from[p] = t] ELSE k
     IN k' = IF WillReceive(k, t, p) THEN Deliver(wait, t, p)
             ELSE [RTS_SET(wait, p, {"SENDING"}) EXCEPT !.to[p] = t,
                                                        !.q[t] = Append(@, p)]

\* The message of c, queued at p, is taken.
Take(s, p, c) ==
  [RTS_UNSET(s, c, {"SENDING"}) EXCEPT !.q[p] = Unlink(@, {c}), !.to[c] = NONE]

\* mini_receive: a notification, the kernel's first, then an asynchronous
\* message, then the first sender in the queue that qualifies; otherwise p
\* blocks.  A sender whose stop was waiting for its message is reported
\* (sig_delay_done).
Receive(p, src) ==
  LET ok(x) == src \in {ANY, x}
      notes == {x \in k.note[p] : ok(x)}
      asyns == {x \in k.asyn[p] : ok(x)}
      queue == k.q[p]
  IN /\ Runs(p) /\ p # src
     /\ src \in Proc => ~isempty(k, src)
     /\ p = Manager => src = ANY /\ k.job = NONE
     /\ \/ \E x \in notes : /\ SYSTEM \in notes => x = SYSTEM
                            /\ k' = Deliver([k EXCEPT !.note[p] = @ \ {x}], p, x)
        \/ /\ notes = {}
           /\ \E x \in asyns : k' = [k EXCEPT !.asyn[p] = @ \ {x}]
        \/ /\ notes \cup asyns = {}
           /\ \E i \in DOMAIN queue :
                /\ ok(queue[i]) /\ \A j \in 1..(i - 1) : ~ok(queue[j])
                /\ k' = sig_delay_done(Take(k, p, queue[i]), queue[i])
        \/ /\ notes \cup asyns = {} /\ \A i \in DOMAIN queue : ~ok(queue[i])
           /\ k' = [RTS_SET(k, p, {"RECEIVING"}) EXCEPT !.from[p] = src]

\* Sender, receiver and kind of what is in flight.
InFlight == {m \in System \X System \X {"note", "asyn"} :
               m[1] \in IF m[3] = "note" THEN k.note[m[2]] ELSE k.asyn[m[2]]}

\* mini_senda and mini_notify between system processes, and a reply that is
\* sent without blocking.
AsyncSend(p, t) ==
  /\ Runs(p) /\ {p, t} \subseteq System /\ p # t /\ ~isempty(k, t)
  /\ Cardinality(InFlight) < MaxAsync
  /\ \/ k' = mini_notify(k, p, t)
     \/ k' = IF WillReceive(k, t, p) THEN Deliver(k, t, p)
             ELSE [k EXCEPT !.asyn[t] = @ \cup {p}]
Reply(t) == Runs(Manager) /\ WillReceive(k, t, Manager) /\ k' = Deliver(k, t, Manager)
-----------------------------------------------------------------------------
(* The signal manager.  job is NONE outside its loop over sys_getksig, the *)
(* process it has been given in it, and ANY before the next one.           *)

\* sys_getksig: the signals of one process it manages, or the end.
Signaled(s, m) == {p \in Proc : Has(s, p, "SIGNALED") /\ s.mgr[p] = m}

GetKsig ==
  /\ Runs(Manager) /\ k.job = ANY
  /\ \/ \E p \in Signaled(k, Manager) :
          k' = [RTS_UNSET(k, p, {"SIGNALED"}) EXCEPT !.pending[p] = {}, !.job = p]
     \/ Signaled(k, Manager) = {} /\ k' = [k EXCEPT !.job = NONE]

\* sys_endksig: p may run unless another signal has come in.
EndKsig ==
  /\ Runs(Manager) /\ k.job \in Proc
  /\ LET p == k.job
     IN k' = [(IF ~isempty(k, p) /\ Has(k, p, "SIG_PENDING") /\ ~Has(k, p, "SIGNALED")
               THEN RTS_UNSET(k, p, {"SIG_PENDING"}) ELSE k) EXCEPT !.job = ANY]

\* sys_clear, when p has exited.
Clear(p) ==
  /\ Runs(Manager) /\ p # Manager /\ ~isempty(k, p)
  /\ LET w == clear_endpoint(k, p)
     IN k' = [w EXCEPT !.rts[p] = {"SLOT_FREE"}, !.pending[p] = {}, !.note[p] = {},
                       !.ksig[p] = FALSE, !.resume = @ \ {p}, !.delay = @ \ {p},
                       !.saved[p] = NONE]

\* sys_privctl(SYS_PRIV_CLEAR_IPC_REFS): p lives on under a new endpoint.
ClearRefs(p) == Runs(Manager) /\ p \in Service /\ ~isempty(k, p)
                /\ k' = clear_ipc_refs(k, p)

\* sys_runctl(RC_DELAY): the stop of a process that is sending is put off.
Delay(p) == Runs(Manager) /\ Has(k, p, "SENDING") /\ k' = [k EXCEPT !.delay = @ \cup {p}]

\* sys_fork, into a free slot.
Fork(p) ==
  /\ Runs(Manager) /\ isempty(k, p)
  /\ k' = [k EXCEPT !.rts[p] = {}, !.mgr[p] = Manager, !.bak[p] = NONE]
-----------------------------------------------------------------------------
Step(p) == \/ kernel_call(p) \/ kernel_call_resume(p) \/ VMReply(p)
           \/ Exception(p) \/ Kill(p) \/ Clear(p) \/ ClearRefs(p)
           \/ Delay(p) \/ Fork(p) \/ Reply(p)
           \/ \E t \in Proc : AsyncSend(p, t) \/ \E rec \in BOOLEAN : Send(p, t, rec)
           \/ \E src \in Proc \cup {ANY} : Receive(p, src)

Next == k.panic = NONE /\ ((\E p \in Proc : Step(p)) \/ GetKsig \/ EndKsig \/ Diagnostics)

\* VM answers, the manager's loop goes on, a runnable process is scheduled
\* again, and a call that is run again is not suspended for ever.
Finishes(p) == kernel_call_resume(p) /\ p \notin k'.resume
Fairness == /\ \A p \in Mortal : WF_vars(VMReply(p)) /\ SF_vars(Finishes(p))
            /\ WF_vars(GetKsig) /\ WF_vars(EndKsig) /\ WF_vars(Receive(Manager, ANY))
Spec == Init /\ [][Next]_vars /\ Fairness
-----------------------------------------------------------------------------
(* Properties *)

\* Type correctness, and of the panics and asserts of system.c only one can
\* happen, that of cause_sig for the manager itself: every other signal, a
\* lethal one for a service too, finds its manager, and a call that waits for
\* VM or to be run again is the saved request of a live process (cause_sig,
\* clear_endpoint, kernel_call_resume).
KernelOK ==
  /\ k \in State /\ k.panic \in {NONE, Manager}
  /\ \A p \in Proc : /\ Has(k, p, "VMREQUEST") => p \in k.resume
                     /\ p \in k.resume => ~isempty(k, p) /\ k.saved[p] = p

\* A process is in the queue of another exactly once while it is blocked
\* sending to it, and in no queue otherwise: clear_ipc relies on "can only be
\* queued once", and a stale link would hand a receiver a dead sender.
QueueExact ==
  \A p, t \in Proc :
    Cardinality({i \in DOMAIN k.q[t] : k.q[t][i] = p})
      = IF Has(k, p, "SENDING") /\ k.to[p] = t THEN 1 ELSE 0

\* No other panic, no stale request, exact queues: calls that are suspended and
\* processes that die in the middle of a send leave the tables consistent.
KernelInv == KernelOK /\ QueueExact

\* After clear_endpoint nothing refers to the dead process: nobody is blocked
\* on it, and no queue, notification or asynchronous message of it is left
\* for the next process in its slot.
DeadAreForgotten ==
  \A d \in Proc : isempty(k, d) =>
    /\ k.q[d] = <<>> /\ k.asyn[d] = {}
    /\ \A p \in Proc : ~isempty(k, p) => /\ P_BLOCKEDON(k, p) # d
                                         /\ d \notin k.note[p] \cup k.asyn[p]

\* The manager is told of the first pending signal only, and takes them one
\* process at a time: still, whoever is stopped for a signal is the process
\* it is handling, or one that its loop or its next notification will reach.
SignalNotLost ==
  \A p \in Proc :
    /\ k.pending[p] # {} => Has(k, p, "SIGNALED")
    /\ Has(k, p, "SIGNALED") =>
         /\ Has(k, p, "SIG_PENDING") /\ k.mgr[p] = Manager
         /\ k.job # NONE \/ (k.ksig[Manager] /\ SYSTEM \in k.note[Manager])
    /\ Has(k, p, "SIG_PENDING") => Has(k, p, "SIGNALED") \/ k.job = p
    /\ SYSTEM \in k.note[Manager] => ~Has(k, Manager, "RECEIVING")

\* A process stopped for a signal, or for VM in the middle of a kernel call,
\* goes on some time or is dead, unless the kernel is down.
Held(p) == p \in k.resume \/ k.rts[p] \cap {"SIGNALED", "SIG_PENDING"} # {}
HeldGoesOn == \A p \in Mortal : Held(p) ~> (~Held(p) \/ k.panic # NONE)
=============================================================================
