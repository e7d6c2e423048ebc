---------------------------- MODULE KernelProofs ----------------------------
(***************************************************************************)
(* The safety invariants of the kernel's system task, for every number of  *)
(* services and user processes and every bound on signals and messages:    *)
(* KernelInv, DeadAreForgotten and SignalNotLost are invariants of Kernel. *)
(*                                                                         *)
(* The inductive invariant is a conjunction of parts of a state s, so that *)
(* it can be stated of the intermediate records of a handler too.  Every   *)
(* part but Listens holds between the steps of a handler: cause_sig stops  *)
(* the process before it tells the manager.                                *)
(***************************************************************************)
EXTENDS Kernel, FiniteSetTheorems, WellFoundedInduction, TLAPS

\* A free slot has nothing but its flag, and the manager never has one.
Dead(s) ==
  \A p \in Proc : isempty(s, p) => /\ s.rts[p] = {"SLOT_FREE"} /\ p # Manager
                                   /\ s.pending[p] = {} /\ s.note[p] = {}
                                   /\ s.asyn[p] = {}

\* A call that waits for VM or to be run again has been saved.
Saved(s) ==
  \A p \in Proc : /\ Has(s, p, "VMREQUEST") => p \in s.resume
                  /\ p \in s.resume => /\ ~isempty(s, p) /\ s.saved[p] = p
                                       /\ p # Manager

\* Signals go to Manager, or to the process itself while it has a backup.
Managed(s) ==
  /\ s.mgr[Manager] = Manager /\ s.bak[Manager] = NONE
  /\ \A p \in Proc : /\ s.mgr[p] \in {p, Manager}
                     /\ s.mgr[p] = p /\ p # Manager => s.bak[p] = Manager

\* Whom a process is blocked on: a live process that is not itself.  SENDREC
\* waits for the answer of the process it sends to.
Blocked(s) ==
  \A p \in Proc :
    /\ Has(s, p, "SENDING") => /\ s.to[p] \in Proc /\ s.to[p] # p /\ p # Manager
                               /\ ~isempty(s, s.to[p])
    /\ Has(s, p, "RECEIVING") => /\ s.from[p] # p /\ s.from[p] # NONE
                                 /\ s.from[p] \in Proc => ~isempty(s, s.from[p])
    /\ Has(s, p, "SENDING") /\ Has(s, p, "RECEIVING") => s.from[p] = s.to[p]

\* The manager waits for anyone, outside its loop, with no signal to fetch.
Waits(s) ==
  Has(s, Manager, "RECEIVING") => /\ s.from[Manager] = ANY /\ s.job = NONE
                                  /\ SYSTEM \notin s.note[Manager]

\* No notification and no asynchronous message is of a dead process.
Forgotten(s) ==
  \A p, d \in Proc : isempty(s, d) => d \notin s.note[p] \cup s.asyn[p]

\* The queue of t holds the processes that are sending to it, each once.
Queued(s) ==
  /\ \A t \in Proc : \A i \in 1..Len(s.q[t]) :
       /\ Has(s, s.q[t][i], "SENDING") /\ s.to[s.q[t][i]] = t
       /\ \A j \in 1..Len(s.q[t]) : s.q[t][i] = s.q[t][j] => i = j
  /\ \A p \in Proc : Has(s, p, "SENDING") =>
       \E i \in 1..Len(s.q[s.to[p]]) : s.q[s.to[p]][i] = p

\* What the flags of a signal say of each other and of the manager's loop.
Stopped(s) ==
  \A p \in Proc : /\ s.pending[p] # {} => Has(s, p, "SIGNALED")
                  /\ Has(s, p, "SIGNALED") => /\ Has(s, p, "SIG_PENDING")
                                              /\ s.mgr[p] = Manager
                  /\ Has(s, p, "SIG_PENDING") => Has(s, p, "SIGNALED") \/ s.job = p

\* The only panic there can be.
Calm(s) == s.panic \in {NONE, Manager}

Parts(s) == /\ s \in State /\ Calm(s)
            /\ Dead(s) /\ Saved(s) /\ Managed(s) /\ Blocked(s) /\ Waits(s)
            /\ Forgotten(s) /\ Queued(s) /\ Stopped(s)

\* The manager is in its loop, or will be when it takes its notification.
Told(s) == s.job # NONE \/ (s.ksig[Manager] /\ SYSTEM \in s.note[Manager])

\* Whoever is stopped for a signal will be found by the manager.
Listens(s) == \A p \in Proc : Has(s, p, "SIGNALED") => Told(s)

Inv(s) == Parts(s) /\ Listens(s)

\* The inductive invariant.
KInv == Inv(k)
-----------------------------------------------------------------------------
(* Unlink *)

\* Induction over the natural numbers, for a set.
LEMMA SetInduction ==
  ASSUME NEW S, 0 \in S, \A n \in Nat : n \in S => n + 1 \in S
  PROVE  \A n \in Nat : n \in S
<1> DEFINE less == {ss \in Nat \X Nat : ss[1] < ss[2]}
           out  == Nat \ S
<1>1. IsWellFoundedOn(less, Nat)
  BY NatLessThanWellFounded, Zenon DEF OpToRel
<1>2. ASSUME out # {} PROVE FALSE
  <2>1. out \subseteq Nat
    OBVIOUS
  <2>2. \E x \in out : \A y \in out : ~(<<y, x>> \in less)
    <3> HIDE DEF less, out
    <3> QED BY <1>1, <1>2, <2>1, WFMin, Zenon
  <2>3. PICK x \in out : \A y \in out : ~(<<y, x>> \in less)
    BY <2>2
  <2>4. x \in Nat /\ x # 0
    OBVIOUS
  <2>5. x - 1 \in Nat /\ x - 1 < x /\ (x - 1) + 1 = x
    BY <2>4
  <2>6. <<x - 1, x>> \in less
    BY <2>4, <2>5
  <2>7. x - 1 \in S
    <3>1. x - 1 \notin out
      <4> HIDE DEF less, out
      <4> QED BY <2>3, <2>6
    <3> QED BY <3>1, <2>5
  <2> QED BY <2>5, <2>7
<1> QED BY <1>2

\* f is what the recursive function of Unlink has for the first n of q.
Keeps(f, q, ps, n) ==
  f = [i \in 0..n |-> IF i = 0 THEN <<>>
                      ELSE IF q[i] \in ps THEN f[i - 1]
                      ELSE Append(f[i - 1], q[i])]

LEMMA KeepsExists ==
  ASSUME NEW q, NEW ps
  PROVE  \A n \in Nat : \E f : Keeps(f, q, ps, n)
<1> DEFINE S == {n \in Nat : \E f : Keeps(f, q, ps, n)}
<1>1. 0 \in S
  <2>1. Keeps([i \in 0..0 |-> <<>>], q, ps, 0)
    BY DEF Keeps
  <2> QED BY <2>1
<1>2. ASSUME NEW n \in Nat, n \in S PROVE n + 1 \in S
  <2>1. PICK f : Keeps(f, q, ps, n)
    BY <1>2
  <2> DEFINE g == [i \in 0..(n + 1) |->
                     IF i # n + 1 THEN f[i]
                     ELSE IF q[n + 1] \in ps THEN f[n] ELSE Append(f[n], q[n + 1])]
  <2>2. ASSUME NEW i \in 0..(n + 1)
        PROVE  g[i] = IF i = 0 THEN <<>>
                      ELSE IF q[i] \in ps THEN g[i - 1] ELSE Append(g[i - 1], q[i])
    <3>1. CASE i = n + 1
      <4>1. i # 0 /\ i - 1 = n /\ n \in 0..(n + 1) /\ n # n + 1
        BY <3>1
      <4>2. g[i - 1] = f[n]
        BY <4>1
      <4> QED BY <3>1, <4>1, <4>2
    <3>2. CASE i = 0
      <4>1. f[0] = <<>>
        BY <2>1 DEF Keeps
      <4> QED BY <3>2, <4>1
    <3>3. CASE i # 0 /\ i # n + 1
      <4>1. i \in 0..n /\ i - 1 \in 0..(n + 1) /\ i - 1 # n + 1
        BY <3>3
      <4>2. f[i] = IF q[i] \in ps THEN f[i - 1] ELSE Append(f[i - 1], q[i])
        BY <2>1, <4>1, <3>3 DEF Keeps
      <4>3. g[i - 1] = f[i - 1] /\ g[i] = f[i]
        BY <4>1, <3>3
      <4> QED BY <3>3, <4>2, <4>3
    <3> QED BY <3>1, <3>2, <3>3
  <2>3. Keeps(g, q, ps, n + 1)
    BY <2>2 DEF Keeps
  <2> QED BY <2>3
<1>3. \A n \in Nat : n \in S
  <2> HIDE DEF S
  <2> QED BY <1>1, <1>2, SetInduction
<1> QED BY <1>3

\* What the function holds after n steps: the members of q up to there that
\* are not in ps, none twice if q has none twice.
KeptOf(u, S, q, ps, n) ==
  /\ u \in Seq(S)
  /\ \A i \in 1..Len(u) : u[i] \notin ps /\ \E j \in 1..n : u[i] = q[j]
  /\ \A j \in 1..n : q[j] \notin ps => \E i \in 1..Len(u) : u[i] = q[j]
  /\ (\A i, j \in 1..Len(q) : q[i] = q[j] => i = j)
       => \A i, j \in 1..Len(u) : u[i] = u[j] => i = j

LEMMA KeepsStep ==
  ASSUME NEW S, NEW q \in Seq(S), NEW ps, NEW n \in Nat, n + 1 <= Len(q), NEW u,
         KeptOf(u, S, q, ps, n)
  PROVE  KeptOf(IF q[n + 1] \in ps THEN u ELSE Append(u, q[n + 1]), S, q, ps, n + 1)
<1> DEFINE c == q[n + 1]  w == Append(u, c)
<1>0. c \in S /\ n + 1 \in 1..Len(q) /\ 1..n \subseteq 1..Len(q)
      /\ 1..(n + 1) = 1..n \cup {n + 1}
  OBVIOUS
<1>1. u \in Seq(S) /\ Len(u) \in Nat
  BY DEF KeptOf
<1>2. CASE c \in ps
  <2>1. KeptOf(u, S, q, ps, n + 1)
    BY <1>0, <1>2 DEF KeptOf
  <2> QED BY <1>2, <2>1
<1>3. CASE c \notin ps
  <2>1. /\ w \in Seq(S) /\ Len(w) = Len(u) + 1 /\ w[Len(u) + 1] = c
        /\ \A i \in 1..Len(u) : w[i] = u[i]
        /\ 1..Len(w) = 1..Len(u) \cup {Len(u) + 1}
    BY <1>0, <1>1
  <2> HIDE DEF w
  <2>2. \A i \in 1..Len(w) : w[i] \notin ps /\ \E j \in 1..(n + 1) : w[i] = q[j]
    <3> TAKE i \in 1..Len(w)
    <3>1. CASE i = Len(u) + 1
      BY <3>1, <1>0, <1>3, <2>1
    <3>2. CASE i \in 1..Len(u)
      <4>1. w[i] = u[i] /\ u[i] \notin ps /\ \E j \in 1..n : u[i] = q[j]
        BY <3>2, <2>1 DEF KeptOf
      <4>2. PICK l \in 1..n : u[i] = q[l]
        BY <4>1
      <4>3. l \in 1..(n + 1)
        BY <1>0
      <4> QED BY <4>1, <4>2, <4>3
    <3> QED BY <3>1, <3>2, <2>1
  <2>3. \A j \in 1..(n + 1) : q[j] \notin ps => \E i \in 1..Len(w) : w[i] = q[j]
    <3> TAKE j \in 1..(n + 1)
    <3>1. CASE j = n + 1
      <4>1. Len(u) + 1 \in 1..Len(w)
        BY <2>1
      <4> QED BY <3>1, <4>1, <2>1
    <3>2. CASE j \in 1..n
      BY <3>2, <2>1 DEF KeptOf
    <3> QED BY <3>1, <3>2, <1>0
  <2>4. ASSUME \A i, j \in 1..Len(q) : q[i] = q[j] => i = j,
               NEW i \in 1..Len(w), NEW j \in 1..Len(w), w[i] = w[j]
        PROVE  i = j
    <3>1. ASSUME NEW m \in 1..Len(u) PROVE u[m] # c
      <4>1. PICK l \in 1..n : u[m] = q[l]
        BY <3>1 DEF KeptOf
      <4>2. l # n + 1 /\ l \in 1..Len(q)
        BY <4>1, <1>0
      <4> QED BY <4>1, <4>2, <2>4, <1>0
    <3>2. CASE i \in 1..Len(u) /\ j \in 1..Len(u)
      BY <3>2, <2>1, <2>4 DEF KeptOf
    <3>3. CASE i \in 1..Len(u) /\ j = Len(u) + 1
      BY <3>1, <3>3, <2>1, <2>4
    <3>4. CASE i = Len(u) + 1 /\ j \in 1..Len(u)
      BY <3>1, <3>4, <2>1, <2>4
    <3>5. CASE i = Len(u) + 1 /\ j = Len(u) + 1
      BY <3>5
    <3> QED BY <3>2, <3>3, <3>4, <3>5, <2>1
  <2>5. KeptOf(w, S, q, ps, n + 1)
    BY <2>1, <2>2, <2>3, <2>4 DEF KeptOf
  <2> QED BY <2>5, <1>3 DEF w
<1> QED BY <1>2, <1>3

\* Unlink keeps exactly what is not in ps.
LEMMA UnlinkKeeps ==
  ASSUME NEW S, NEW q \in Seq(S), NEW ps
  PROVE  KeptOf(Unlink(q, ps), S, q, ps, Len(q))
<1> DEFINE f == CHOOSE g : Keeps(g, q, ps, Len(q))
<1>0. Len(q) \in Nat
  OBVIOUS
<1>1. Keeps(f, q, ps, Len(q))
  BY <1>0, KeepsExists, Zenon
<1>2. Unlink(q, ps) = f[Len(q)]
  BY Zenon DEF Unlink, Keeps
<1> HIDE DEF f
<1>3. f[0] = <<>>
  BY <1>0, <1>1 DEF Keeps
<1>4. ASSUME NEW n \in Nat, n + 1 <= Len(q)
      PROVE  f[n + 1] = IF q[n + 1] \in ps THEN f[n] ELSE Append(f[n], q[n + 1])
  <2>1. n + 1 \in 0..Len(q) /\ n + 1 # 0 /\ (n + 1) - 1 = n
    BY <1>0, <1>4
  <2> QED BY <1>1, <2>1 DEF Keeps
<1> DEFINE T == {n \in Nat : n <= Len(q) => KeptOf(f[n], S, q, ps, n)}
<1>5. 0 \in T
  <2>1. KeptOf(<<>>, S, q, ps, 0)
    BY DEF KeptOf
  <2> QED BY <1>3, <2>1
<1>6. ASSUME NEW n \in Nat, n \in T PROVE n + 1 \in T
  <2>1. ASSUME n + 1 <= Len(q) PROVE KeptOf(f[n + 1], S, q, ps, n + 1)
    <3>1. KeptOf(f[n], S, q, ps, n)
      BY <1>0, <1>6, <2>1
    <3> QED BY <3>1, <2>1, <1>4, KeepsStep
  <2> QED BY <2>1
<1>7. \A n \in Nat : n \in T
  <2> HIDE DEF T
  <2> QED BY <1>5, <1>6, SetInduction
<1> QED BY <1>0, <1>2, <1>7
-----------------------------------------------------------------------------
(* Message passing *)

\* The processes and the values that are none.
LEMMA Names ==
  /\ Manager \in Proc /\ Manager \in System /\ System \subseteq Proc
  /\ SYSTEM \notin Proc /\ ANY \notin Proc /\ NONE \notin Proc
  /\ SYSTEM # ANY /\ SYSTEM # NONE /\ ANY # NONE
<1>1. SYSTEM # ANY /\ SYSTEM # NONE /\ ANY # NONE
  <2>1. \A x, y : Cardinality({x, y}) # 3
    <3> TAKE x, y
    <3>1. Cardinality({x}) = 1 /\ IsFiniteSet({x})
      BY FS_Singleton
    <3>2. {x, y} = {x} \cup {y}
      OBVIOUS
    <3>3. Cardinality({x} \cup {y}) = IF y \in {x} THEN 1 ELSE 2
      BY <3>1, FS_AddElement
    <3> QED BY <3>2, <3>3
  <2>2. /\ SYSTEM = ANY => {SYSTEM, ANY, NONE} = {ANY, NONE}
        /\ SYSTEM = NONE => {SYSTEM, ANY, NONE} = {ANY, NONE}
        /\ ANY = NONE => {SYSTEM, ANY, NONE} = {SYSTEM, NONE}
    OBVIOUS
  <2>3. Cardinality({SYSTEM, ANY, NONE}) = 3
    BY KernelAssumption
  <2> QED BY <2>1, <2>2, <2>3
<1> QED BY <1>1, KernelAssumption DEF Proc, Mortal, System

\* What a step within a handler may do to the part that is left out of Parts.
Keeps3(s, w) ==
  /\ Parts(w)
  /\ Told(s) => Told(w)
  /\ \A p \in Proc : Has(w, p, "SIGNALED") => Has(s, p, "SIGNALED")

LEMMA DeliverFields ==
  ASSUME NEW s \in State, NEW t \in Proc, NEW src, NEW w, w = Deliver(s, t, src)
  PROVE  /\ w \in State
         /\ w.rts = [s.rts EXCEPT ![t] = @ \ {"RECEIVING"}]
         /\ w.from = [s.from EXCEPT ![t] = NONE]
         /\ w.to = s.to /\ w.q = s.q /\ w.asyn = s.asyn /\ w.pending = s.pending
         /\ w.mgr = s.mgr /\ w.bak = s.bak /\ w.resume = s.resume
         /\ w.saved = s.saved /\ w.panic = s.panic
         /\ src # SYSTEM => /\ w.ksig = s.ksig /\ w.note = s.note /\ w.job = s.job
         /\ src = SYSTEM => /\ w.ksig = [s.ksig EXCEPT ![t] = FALSE]
                            /\ w.note = [s.note EXCEPT ![t] = @ \ {SYSTEM}]
                            /\ w.job = IF t = Manager /\ s.ksig[t] THEN ANY ELSE s.job
<1>1. CASE src = SYSTEM
  BY <1>1, Names DEF Deliver, RTS_UNSET, State
<1>2. CASE src # SYSTEM
  BY <1>2 DEF Deliver, RTS_UNSET, State
<1> QED BY <1>1, <1>2

\* A message for t leaves the tables consistent; the manager must be outside
\* its loop to be sent into it.
LEMMA DeliverKeeps ==
  ASSUME NEW s, Parts(s), NEW t \in Proc, NEW src, t = Manager => s.job = NONE
  PROVE  /\ Keeps3(s, Deliver(s, t, src))
         /\ src = SYSTEM /\ t = Manager /\ s.ksig[t] => Told(Deliver(s, t, src))
<1> DEFINE w == Deliver(s, t, src)
<1>0. s \in State /\ Calm(s)
  BY DEF Parts
<1>1. /\ w \in State
      /\ w.rts = [s.rts EXCEPT ![t] = @ \ {"RECEIVING"}]
      /\ w.from = [s.from EXCEPT ![t] = NONE]
      /\ w.to = s.to /\ w.q = s.q /\ w.asyn = s.asyn /\ w.pending = s.pending
      /\ w.mgr = s.mgr /\ w.bak = s.bak /\ w.resume = s.resume
      /\ w.saved = s.saved /\ w.panic = s.panic
      /\ src # SYSTEM => /\ w.ksig = s.ksig /\ w.note = s.note /\ w.job = s.job
      /\ src = SYSTEM => /\ w.ksig = [s.ksig EXCEPT ![t] = FALSE]
                         /\ w.note = [s.note EXCEPT ![t] = @ \ {SYSTEM}]
                         /\ w.job = IF t = Manager /\ s.ksig[t] THEN ANY ELSE s.job
  BY <1>0, DeliverFields
<1> HIDE DEF w
<1>2. \A p \in Proc : /\ w.rts[p] = IF p = t THEN s.rts[p] \ {"RECEIVING"} ELSE s.rts[p]
                      /\ w.from[p] = IF p = t THEN NONE ELSE s.from[p]
                      /\ w.note[p] \subseteq s.note[p]
                      /\ w.note[p] = s.note[p] \/ (p = t /\ w.note[p] = s.note[p] \ {SYSTEM})
  <2> TAKE p \in Proc
  <2>1. CASE src = SYSTEM
    <3>1. s.note \in [Proc -> SUBSET (System \cup {SYSTEM})]
      BY <1>0 DEF State
    <3>2. w.note[p] = IF p = t THEN s.note[p] \ {SYSTEM} ELSE s.note[p]
      BY <2>1, <3>1, <1>1
    <3>3. /\ w.rts[p] = IF p = t THEN s.rts[p] \ {"RECEIVING"} ELSE s.rts[p]
          /\ w.from[p] = IF p = t THEN NONE ELSE s.from[p]
      <4>1. /\ s.rts \in [Proc -> SUBSET Flag]
            /\ s.from \in [Proc -> Proc \cup {ANY, NONE}]
        BY <1>0 DEF State
      <4> QED BY <4>1, <1>1
    <3> QED BY <3>2, <3>3
  <2>2. CASE src # SYSTEM
    BY <2>2, <1>0, <1>1 DEF State
  <2> QED BY <2>1, <2>2
<1>3. \A p \in Proc : \A x : x # "RECEIVING" => (Has(w, p, x) <=> Has(s, p, x))
  BY <1>2 DEF Has
<1>4. \A p \in Proc : Has(w, p, "RECEIVING") <=> p # t /\ Has(s, p, "RECEIVING")
  BY <1>2 DEF Has
<1>5. Dead(w)
  <2> SUFFICES ASSUME NEW p \in Proc, isempty(w, p)
               PROVE  /\ w.rts[p] = {"SLOT_FREE"} /\ p # Manager
                      /\ w.pending[p] = {} /\ w.note[p] = {} /\ w.asyn[p] = {}
    BY DEF Dead
  <2>1. isempty(s, p)
    BY <1>3 DEF isempty
  <2>2. /\ s.rts[p] = {"SLOT_FREE"} /\ p # Manager
        /\ s.pending[p] = {} /\ s.note[p] = {} /\ s.asyn[p] = {}
    BY <2>1 DEF Parts, Dead
  <2> QED BY <1>1, <1>2, <2>2
<1>6. Saved(w)
  BY <1>1, <1>3 DEF Parts, Saved, isempty
<1>7. Managed(w)
  BY <1>1 DEF Parts, Managed
<1>8. Blocked(w)
  BY <1>0, <1>1, <1>2, <1>3, <1>4 DEF Parts, Blocked, isempty
<1>9. Waits(w)
  BY <1>1, <1>2, <1>4, Names DEF Parts, Waits
<1>10. Forgotten(w)
  BY <1>1, <1>2, <1>3 DEF Parts, Forgotten, isempty
<1>11. Queued(w)
  <2>1. \A u \in Proc : \A i \in 1..Len(s.q[u]) : s.q[u][i] \in Proc
    BY <1>0 DEF State
  <2> QED BY <1>1, <1>3, <2>1 DEF Parts, Queued
<1>12. w.job = s.job \/ (s.job = NONE /\ w.job = ANY)
  <2>1. CASE src = SYSTEM /\ t = Manager /\ s.ksig[t]
    BY <2>1, <1>1
  <2>2. CASE src = SYSTEM /\ ~(t = Manager /\ s.ksig[t])
    BY <2>2, <1>1
  <2>3. CASE src # SYSTEM
    BY <2>3, <1>1
  <2> QED BY <2>1, <2>2, <2>3
<1>13. Stopped(w)
  BY <1>0, <1>1, <1>3, <1>12, Names DEF Parts, Stopped
<1>14. Told(s) => Told(w)
  BY <1>0, <1>1, Names DEF Told, State
<1>15. src = SYSTEM /\ t = Manager /\ s.ksig[t] => Told(w)
  BY <1>1, Names DEF Told
<1> QED BY <1>0, <1>1, <1>3, <1>5, <1>6, <1>7, <1>8, <1>9, <1>10, <1>11, <1>13, <1>14, <1>15
        DEF Calm, Keeps3, Parts, w

\* A notification of a live process or of the kernel, for a live process.
LEMMA NotifyKeeps ==
  ASSUME NEW s, Parts(s), NEW t \in Proc, ~isempty(s, t),
         NEW src \in System \cup {SYSTEM}, src \in Proc => ~isempty(s, src)
  PROVE  /\ Keeps3(s, mini_notify(s, src, t))
         /\ src = SYSTEM /\ t = Manager /\ s.ksig[t] => Told(mini_notify(s, src, t))
<1>0. s \in State /\ Calm(s)
  BY DEF Parts
<1>1. CASE WillReceive(s, t, src)
  <2>1. mini_notify(s, src, t) = Deliver(s, t, src)
    BY <1>1 DEF mini_notify
  <2>2. t = Manager => s.job = NONE
    BY <1>1 DEF WillReceive, Parts, Waits
  <2> QED BY <2>1, <2>2, DeliverKeeps
<1>2. CASE ~WillReceive(s, t, src)
  <2> DEFINE w == mini_notify(s, src, t)
  <2>1. w = [s EXCEPT !.note[t] = @ \cup {src}]
    BY <1>2 DEF mini_notify
  <2>2. /\ w \in State /\ w.note = [s.note EXCEPT ![t] = @ \cup {src}]
        /\ w.rts = s.rts /\ w.from = s.from /\ w.to = s.to /\ w.q = s.q
        /\ w.asyn = s.asyn /\ w.pending = s.pending /\ w.mgr = s.mgr /\ w.bak = s.bak
        /\ w.resume = s.resume /\ w.saved = s.saved /\ w.panic = s.panic
        /\ w.ksig = s.ksig /\ w.job = s.job
    <3>1. s.note \in [Proc -> SUBSET (System \cup {SYSTEM})]
      BY <1>0 DEF State
    <3>2. s.note[t] \cup {src} \in SUBSET (System \cup {SYSTEM})
      BY <3>1
    <3>3. [s.note EXCEPT ![t] = s.note[t] \cup {src}]
            \in [Proc -> SUBSET (System \cup {SYSTEM})]
      BY <3>1, <3>2
    <3>4. w = [s EXCEPT !.note = [s.note EXCEPT ![t] = s.note[t] \cup {src}]]
      BY <1>0, <2>1 DEF State
    <3> HIDE DEF w
    <3> QED BY <1>0, <3>3, <3>4 DEF State
  <2> HIDE DEF w
  <2>3. \A p \in Proc : w.note[p] = IF p = t THEN s.note[p] \cup {src} ELSE s.note[p]
    BY <1>0, <2>2 DEF State
  <2>4. Dead(w)
    BY <2>2, <2>3 DEF Parts, Dead, isempty, Has
  <2>5. Saved(w) /\ Managed(w) /\ Blocked(w) /\ Queued(w) /\ Stopped(w)
    BY <2>2 DEF Parts, Saved, Managed, Blocked, Queued, Stopped, isempty, Has
  <2>6. Forgotten(w)
    BY <2>2, <2>3 DEF Parts, Forgotten, isempty, Has
  <2>7. Waits(w)
    <3> SUFFICES ASSUME Has(w, Manager, "RECEIVING"), t = Manager, src = SYSTEM
                 PROVE  FALSE
      BY <2>2, <2>3, Names DEF Parts, Waits, Has
    <3>1. Has(s, Manager, "RECEIVING") /\ ~Has(s, Manager, "SENDING")
      BY <2>2, Names DEF Has, Parts, Blocked
    <3> QED BY <3>1, <1>2 DEF Parts, Waits, WillReceive
  <2>8. Told(s) => Told(w)
    BY <2>2, <2>3, Names DEF Told
  <2>9. src = SYSTEM /\ t = Manager /\ s.ksig[t] => Told(w)
    BY <2>2, <2>3 DEF Told
  <2> QED BY <1>0, <2>2, <2>4, <2>5, <2>6, <2>7, <2>8, <2>9 DEF Calm, Keeps3, Parts, Has, w
<1> QED BY <1>1, <1>2

\* send_sig finds its target, and SIGKSIG tells the manager.
LEMMA SendSigKeeps ==
  ASSUME NEW s, Parts(s), NEW t \in Proc, ~isempty(s, t), NEW ks \in BOOLEAN,
         ks => t = Manager
  PROVE  Keeps3(s, send_sig(s, t, ks)) /\ (ks => Told(send_sig(s, t, ks)))
<1> DEFINE w == [s EXCEPT !.ksig[t] = @ \/ ks]
<1>0. s \in State /\ Calm(s)
  BY DEF Parts
<1>1. send_sig(s, t, ks) = mini_notify(w, SYSTEM, t)
  BY DEF send_sig
<1>2. /\ w \in State /\ w.ksig = [s.ksig EXCEPT ![t] = s.ksig[t] \/ ks] /\ w.note = s.note
      /\ w.rts = s.rts /\ w.from = s.from /\ w.to = s.to /\ w.q = s.q
      /\ w.asyn = s.asyn /\ w.pending = s.pending /\ w.mgr = s.mgr /\ w.bak = s.bak
      /\ w.resume = s.resume /\ w.saved = s.saved /\ w.panic = s.panic
      /\ w.job = s.job
  BY <1>0 DEF State
<1> HIDE DEF w
<1>3. s.ksig[t] => w.ksig[t]
  BY <1>0, <1>2 DEF State
<1>4. ks => w.ksig[t]
  BY <1>0, <1>2 DEF State
<1>5. \A p \in Proc : p # t => w.ksig[p] = s.ksig[p]
  BY <1>0, <1>2 DEF State
<1>6. Parts(w)
  BY <1>2 DEF Calm, Parts, Dead, Saved, Managed, Blocked, Waits, Forgotten, Queued, Stopped,
              isempty, Has
<1>7. Told(s) => Told(w)
  BY <1>2, <1>3, <1>5, Names, Zenon DEF Told
<1>8. ~isempty(w, t)
  BY <1>2 DEF isempty, Has
<1>9. /\ Keeps3(w, mini_notify(w, SYSTEM, t))
      /\ t = Manager /\ w.ksig[t] => Told(mini_notify(w, SYSTEM, t))
  BY <1>6, <1>8, Names, NotifyKeeps
<1>10. \A p \in Proc : Has(w, p, "SIGNALED") => Has(s, p, "SIGNALED")
  BY <1>2 DEF Has
<1> QED BY <1>1, <1>4, <1>7, <1>9, <1>10 DEF Keeps3
-----------------------------------------------------------------------------
(* Signals *)

LEMMA KeepsListens ==
  ASSUME NEW s, NEW w, Listens(s), Keeps3(s, w)
  PROVE  Inv(w)
BY DEF Listens, Keeps3, Inv

\* The queues and who is sending are the same.
LEMMA QueuedSame ==
  ASSUME NEW s \in State, NEW w, Queued(s), w.q = s.q, w.to = s.to,
         \A p \in Proc : Has(w, p, "SENDING") <=> Has(s, p, "SENDING")
  PROVE  Queued(w)
<1>1. \A u \in Proc : \A i \in 1..Len(s.q[u]) : s.q[u][i] \in Proc
  BY DEF State
<1> QED BY <1>1 DEF Queued

\* A process whose signals the manager takes is stopped for one and the manager
\* told, or was stopped already.
LEMMA SignalKeeps ==
  ASSUME NEW s, Inv(s), NEW p \in Proc, ~isempty(s, p), s.mgr[p] = Manager,
         NEW sig \in Sig
  PROVE  Inv(Signal(s, p, sig))
<1> DEFINE w == [s EXCEPT !.pending[p] = @ \cup {sig}]
           u == RTS_SET(w, p, {"SIGNALED", "SIG_PENDING"})
<1>0. s \in State /\ Calm(s) /\ Parts(s) /\ Listens(s)
  BY DEF Inv, Parts
<1>1. /\ w \in State /\ w.pending = [s.pending EXCEPT ![p] = @ \cup {sig}]
      /\ w.rts = s.rts /\ w.from = s.from /\ w.to = s.to /\ w.q = s.q
      /\ w.note = s.note /\ w.asyn = s.asyn /\ w.mgr = s.mgr /\ w.bak = s.bak
      /\ w.resume = s.resume /\ w.saved = s.saved /\ w.panic = s.panic
      /\ w.ksig = s.ksig /\ w.job = s.job
  BY <1>0 DEF State
<1>2. \A x \in Proc : w.pending[x] = IF x = p THEN s.pending[x] \cup {sig} ELSE s.pending[x]
  BY <1>0, <1>1 DEF State
<1>3. /\ u \in State /\ u.rts = [w.rts EXCEPT ![p] = @ \cup {"SIGNALED", "SIG_PENDING"}]
      /\ u.pending = w.pending /\ u.from = w.from /\ u.to = w.to /\ u.q = w.q
      /\ u.note = w.note /\ u.asyn = w.asyn /\ u.mgr = w.mgr /\ u.bak = w.bak
      /\ u.resume = w.resume /\ u.saved = w.saved /\ u.panic = w.panic
      /\ u.ksig = w.ksig /\ u.job = w.job
  <2> HIDE DEF w
  <2> QED BY <1>1 DEF State, RTS_SET, Flag
<1>4. Signal(s, p, sig) = IF sig \in s.pending[p] THEN s
                          ELSE IF Has(s, p, "SIGNALED") THEN w
                          ELSE send_sig(u, Manager, TRUE)
  BY DEF Signal
<1> HIDE DEF w, u
<1>5. CASE sig \notin s.pending[p] /\ Has(s, p, "SIGNALED")
  <2>1. Dead(w)
    BY <1>0, <1>1, <1>2 DEF Parts, Dead, isempty, Has
  <2>2. Stopped(w)
    BY <1>0, <1>1, <1>2, <1>5 DEF Parts, Stopped, Has
  <2>3. /\ Saved(w) /\ Managed(w) /\ Blocked(w) /\ Waits(w) /\ Forgotten(w)
        /\ Queued(w) /\ Listens(w)
    BY <1>0, <1>1 DEF Parts, Saved, Managed, Blocked, Waits, Forgotten, Queued, Listens,
                     Told, isempty, Has
  <2> QED BY <1>0, <1>1, <1>4, <1>5, <2>1, <2>2, <2>3 DEF Calm, Inv, Parts
<1>6. CASE sig \notin s.pending[p] /\ ~Has(s, p, "SIGNALED")
  <2>0. w.rts \in [Proc -> SUBSET Flag]
    BY <1>1 DEF State
  <2>1. \A x \in Proc :
          u.rts[x] = IF x = p THEN s.rts[x] \cup {"SIGNALED", "SIG_PENDING"} ELSE s.rts[x]
    BY <1>1, <1>3, <2>0
  <2>2. \A x \in Proc : \A f : f \notin {"SIGNALED", "SIG_PENDING"} =>
          (Has(u, x, f) <=> Has(s, x, f))
    BY <2>1 DEF Has
  <2>3. \A x \in Proc : x # p => u.rts[x] = s.rts[x] /\ u.pending[x] = s.pending[x]
    BY <1>2, <1>3, <2>1
  <2>4. \A x \in Proc : isempty(u, x) <=> isempty(s, x)
    BY <2>2 DEF isempty
  <2>5. Dead(u)
    BY <1>0, <1>1, <1>3, <2>3, <2>4 DEF Parts, Dead
  <2>6. Saved(u) /\ Managed(u)
    BY <1>0, <1>1, <1>3, <2>2, <2>4 DEF Parts, Saved, Managed
  <2>7. Blocked(u)
    BY <1>0, <1>1, <1>3, <2>2, <2>4 DEF Parts, Blocked
  <2>8. Waits(u) /\ Forgotten(u)
    BY <1>0, <1>1, <1>3, <2>2, <2>4, Names DEF Parts, Waits, Forgotten
  <2>9. Queued(u)
    BY <1>0, <1>1, <1>3, <2>2, QueuedSame DEF Parts
  <2>10. Stopped(u)
    <3>1. Has(u, p, "SIGNALED") /\ Has(u, p, "SIG_PENDING")
      BY <2>1 DEF Has
    <3> QED BY <1>0, <1>1, <1>3, <2>3, <3>1 DEF Parts, Stopped, Has
  <2>11. Parts(u) /\ ~isempty(u, Manager)
    BY <1>0, <1>1, <1>3, <2>4, <2>5, <2>6, <2>7, <2>8, <2>9, <2>10, Names DEF Calm, Parts, Dead
  <2>12. Keeps3(u, send_sig(u, Manager, TRUE)) /\ Told(send_sig(u, Manager, TRUE))
    BY <2>11, Names, SendSigKeeps
  <2>13. Inv(send_sig(u, Manager, TRUE))
    BY <2>12 DEF Inv, Keeps3, Listens
  <2> QED BY <1>4, <1>6, <2>13
<1>7. CASE sig \in s.pending[p]
  BY <1>4, <1>7
<1> QED BY <1>5, <1>6, <1>7

\* cause_sig panics for the manager only: any other process that manages itself
\* has the manager as backup.
LEMMA CauseSigKeeps ==
  ASSUME NEW s, Inv(s), NEW p \in Proc, ~isempty(s, p), NEW sig \in Sig
  PROVE  Inv(cause_sig(s, p, sig))
<1>0. s \in State /\ Calm(s) /\ Parts(s) /\ Listens(s) /\ Managed(s)
  BY DEF Inv, Parts
<1>1. CASE s.mgr[p] # p
  <2>1. s.mgr[p] = Manager
    BY <1>0, <1>1 DEF Managed
  <2> QED BY <1>1, <2>1, SignalKeeps DEF cause_sig
<1>2. CASE s.mgr[p] = p /\ ~SIGS_IS_LETHAL(sig)
  <2>1. Keeps3(s, send_sig(s, p, FALSE))
    BY <1>0, SendSigKeeps
  <2> QED BY <1>0, <1>2, <2>1, KeepsListens DEF cause_sig
<1>3. CASE s.mgr[p] = p /\ SIGS_IS_LETHAL(sig) /\ p # Manager
  <2> DEFINE w == [s EXCEPT !.mgr[p] = Manager, !.bak[p] = NONE]
  <2>1. p # Manager /\ s.bak[p] = Manager /\ ~isempty(s, Manager)
    BY <1>0, <1>3, Names DEF Managed, Parts, Dead
  <2>2. cause_sig(s, p, sig) = Signal(w, p, sig)
    BY <1>3, <2>1, Names DEF cause_sig
  <2>3. /\ w \in State /\ w.mgr = [s.mgr EXCEPT ![p] = Manager]
        /\ w.bak = [s.bak EXCEPT ![p] = NONE]
        /\ w.rts = s.rts /\ w.from = s.from /\ w.to = s.to /\ w.q = s.q
        /\ w.note = s.note /\ w.asyn = s.asyn /\ w.pending = s.pending
        /\ w.resume = s.resume /\ w.saved = s.saved /\ w.panic = s.panic
        /\ w.ksig = s.ksig /\ w.job = s.job
    BY <1>0, Names DEF State
  <2> HIDE DEF w
  <2>4. \A x \in Proc : /\ w.mgr[x] = IF x = p THEN Manager ELSE s.mgr[x]
                        /\ w.bak[x] = IF x = p THEN NONE ELSE s.bak[x]
    BY <1>0, <2>3 DEF State
  <2>5. Managed(w)
    BY <1>0, <2>1, <2>4, Names DEF Managed
  <2>6. Stopped(w)
    BY <1>0, <2>3, <2>4 DEF Parts, Stopped, Has
  <2>7. /\ Dead(w) /\ Saved(w) /\ Blocked(w) /\ Waits(w) /\ Forgotten(w)
        /\ Queued(w) /\ Listens(w)
    BY <1>0, <2>3 DEF Parts, Dead, Saved, Blocked, Waits, Forgotten, Queued, Listens,
                     Told, isempty, Has
  <2>8. Inv(w) /\ ~isempty(w, p) /\ w.mgr[p] = Manager
    BY <1>0, <2>3, <2>4, <2>5, <2>6, <2>7 DEF Calm, Inv, Parts, isempty, Has
  <2> QED BY <2>2, <2>8, SignalKeeps
<1>4. CASE s.mgr[p] = p /\ SIGS_IS_LETHAL(sig) /\ p = Manager
  <2> DEFINE w == [s EXCEPT !.panic = Manager]
  <2>1. cause_sig(s, p, sig) = w
    BY <1>0, <1>4 DEF cause_sig, Managed
  <2>2. /\ w \in State /\ w.mgr = s.mgr /\ w.bak = s.bak
        /\ w.rts = s.rts /\ w.from = s.from /\ w.to = s.to /\ w.q = s.q
        /\ w.note = s.note /\ w.asyn = s.asyn /\ w.pending = s.pending
        /\ w.resume = s.resume /\ w.saved = s.saved /\ w.panic = Manager
        /\ w.ksig = s.ksig /\ w.job = s.job
    BY <1>0, Names DEF State
  <2> HIDE DEF w
  <2>3. Calm(w) /\ Managed(w) /\ Stopped(w)
    BY <1>0, <2>2 DEF Parts, Calm, Managed, Stopped, Has
  <2>4. /\ Dead(w) /\ Saved(w) /\ Blocked(w) /\ Waits(w) /\ Forgotten(w)
        /\ Queued(w) /\ Listens(w)
    BY <1>0, <2>2 DEF Parts, Dead, Saved, Blocked, Waits, Forgotten, Queued, Listens,
                     Told, isempty, Has
  <2> QED BY <2>1, <2>2, <2>3, <2>4 DEF Inv, Parts
<1> QED BY <1>1, <1>2, <1>3, <1>4

\* The fields that no part of the invariant but the type is about.
LEMMA SpareFields ==
  ASSUME NEW s, Inv(s), NEW w, w \in State, w.panic = s.panic,
         w.rts = s.rts, w.from = s.from, w.to = s.to, w.q = s.q, w.note = s.note,
         w.asyn = s.asyn, w.pending = s.pending, w.mgr = s.mgr, w.bak = s.bak,
         w.resume = s.resume, w.saved = s.saved, w.ksig = s.ksig, w.job = s.job
  PROVE  Inv(w)
BY DEF Calm, Inv, Parts, Dead, Saved, Managed, Blocked, Waits, Forgotten, Queued, Stopped,
       Listens, Told, isempty, Has

LEMMA SpendKeeps ==
  ASSUME NEW s, Inv(s), s.left > 0
  PROVE  Inv(Spend(s)) /\ Spend(s).rts = s.rts
<1>0. s \in State
  BY DEF Inv, Parts
<1> DEFINE w == Spend(s)
<1>1. s.left \in 0..MaxSignals /\ s.left - 1 \in 0..MaxSignals
  BY <1>0, KernelAssumption DEF State
<1>2. w \in State /\ w.panic = s.panic /\
         w.rts = s.rts /\ w.from = s.from /\ w.to = s.to /\ w.q = s.q /\ w.note = s.note /\
         w.asyn = s.asyn /\ w.pending = s.pending /\ w.mgr = s.mgr /\ w.bak = s.bak /\
         w.resume = s.resume /\ w.saved = s.saved /\ w.ksig = s.ksig /\ w.job = s.job
  BY <1>0, <1>1 DEF State, Spend
<1> HIDE DEF w
<1>3. Inv(w) /\ w.rts = s.rts
  BY <1>2, SpareFields
<1> QED BY <1>3 DEF w

LEMMA DelayDoneKeeps ==
  ASSUME NEW s, Inv(s), NEW p \in Proc, ~isempty(s, p)
  PROVE  Inv(sig_delay_done(s, p))
<1> DEFINE w == [s EXCEPT !.delay = @ \ {p}]
<1>0. s \in State
  BY DEF Inv, Parts
<1>1. w \in State /\ w.panic = s.panic /\
         w.rts = s.rts /\ w.from = s.from /\ w.to = s.to /\ w.q = s.q /\ w.note = s.note /\
         w.asyn = s.asyn /\ w.pending = s.pending /\ w.mgr = s.mgr /\ w.bak = s.bak /\
         w.resume = s.resume /\ w.saved = s.saved /\ w.ksig = s.ksig /\ w.job = s.job
  BY <1>0 DEF State
<1>2. sig_delay_done(s, p) = IF p \in s.delay THEN cause_sig(w, p, "SIGSNDELAY") ELSE s
  BY DEF sig_delay_done
<1> HIDE DEF w
<1>3. Inv(w) /\ ~isempty(w, p)
  BY <1>1, SpareFields DEF isempty, Has
<1>4. Inv(cause_sig(w, p, "SIGSNDELAY"))
  <2>1. "SIGSNDELAY" \in Sig /\ ~SIGS_IS_LETHAL("SIGSNDELAY")
    BY DEF Sig, SIGS_IS_LETHAL
  <2> QED BY <1>3, <2>1, CauseSigKeeps
<1> QED BY <1>2, <1>4
-----------------------------------------------------------------------------
(* The queues, and what a dying process leaves *)

\* ps, who were all sending to t, leave its queue.
LEMMA QueuedUnlink ==
  ASSUME NEW s \in State, Queued(s), Blocked(s), NEW w \in State, NEW t \in Proc, NEW ps,
         \A p \in ps : p \in Proc /\ Has(s, p, "SENDING") /\ s.to[p] = t,
         w.q = [s.q EXCEPT ![t] = Unlink(s.q[t], ps)],
         \A p \in Proc : Has(w, p, "SENDING") <=> Has(s, p, "SENDING") /\ p \notin ps,
         \A p \in Proc : Has(w, p, "SENDING") => w.to[p] = s.to[p]
  PROVE  Queued(w)
<1> DEFINE a == s.q[t]  b == Unlink(a, ps)
<1>0. s.q \in [Proc -> Seq(Proc)] /\ a \in Seq(Proc)
  BY DEF State
<1>1. KeptOf(b, Proc, a, ps, Len(a))
  <2> HIDE DEF a, b
  <2> QED BY <1>0, UnlinkKeeps DEF b
<1>2. w.q[t] = b /\ \A u \in Proc : u # t => w.q[u] = s.q[u]
  BY <1>0
<1>3. \A i, j \in 1..Len(a) : a[i] = a[j] => i = j
  BY DEF Queued
<1> HIDE DEF b
<1>4. /\ b \in Seq(Proc) /\ Len(b) \in Nat
      /\ \A i \in 1..Len(b) : b[i] \in Proc /\ b[i] \notin ps /\ \E j \in 1..Len(a) : b[i] = a[j]
      /\ \A j \in 1..Len(a) : a[j] \notin ps => \E i \in 1..Len(b) : b[i] = a[j]
      /\ \A i, j \in 1..Len(b) : b[i] = b[j] => i = j
  <2> HIDE DEF a
  <2>1. b \in Seq(Proc)
    BY <1>1 DEF KeptOf
  <2> QED BY <1>1, <1>3, <2>1 DEF KeptOf
<1>5. ASSUME NEW u \in Proc, NEW i \in 1..Len(w.q[u])
      PROVE  /\ Has(w, w.q[u][i], "SENDING") /\ w.to[w.q[u][i]] = u
             /\ \A j \in 1..Len(w.q[u]) : w.q[u][i] = w.q[u][j] => i = j
  <2>1. CASE u = t
    <3>1. PICK j \in 1..Len(a) : b[i] = a[j]
      BY <1>2, <1>4, <1>5, <2>1
    <3>2. Has(s, b[i], "SENDING") /\ s.to[b[i]] = t
      BY <3>1 DEF Queued
    <3>3. b[i] \in Proc /\ b[i] \notin ps
      BY <1>2, <1>4, <1>5, <2>1
    <3> QED BY <1>2, <1>4, <1>5, <2>1, <3>2, <3>3
  <2>2. CASE u # t
    <3>1. s.q[u][i] \in Proc
      BY <1>0, <1>2, <1>5, <2>2
    <3>2. /\ Has(s, s.q[u][i], "SENDING") /\ s.to[s.q[u][i]] = u
          /\ \A j \in 1..Len(s.q[u]) : s.q[u][i] = s.q[u][j] => i = j
      BY <1>2, <1>5, <2>2 DEF Queued
    <3>3. s.q[u][i] \notin ps
      BY <2>2, <3>2
    <3> QED BY <1>2, <2>2, <3>1, <3>2, <3>3
  <2> QED BY <2>1, <2>2
<1>6. ASSUME NEW p \in Proc, Has(w, p, "SENDING")
      PROVE  \E i \in 1..Len(w.q[w.to[p]]) : w.q[w.to[p]][i] = p
  <2>1. Has(s, p, "SENDING") /\ p \notin ps /\ w.to[p] = s.to[p]
    BY <1>6
  <2>2. PICK j \in 1..Len(s.q[s.to[p]]) : s.q[s.to[p]][j] = p
    BY <2>1 DEF Queued
  <2>3. CASE s.to[p] = t
    <3>1. \E i \in 1..Len(b) : b[i] = a[j]
      BY <1>4, <2>1, <2>2, <2>3
    <3> QED BY <1>2, <2>1, <2>2, <2>3, <3>1
  <2>4. CASE s.to[p] # t
    <3>1. s.to[p] \in Proc
      BY <2>1 DEF Blocked
    <3> QED BY <1>2, <2>1, <2>2, <2>4, <3>1
  <2> QED BY <2>3, <2>4
<1> QED BY <1>5, <1>6 DEF Queued

\* All that is not about blocking is the same in w.
SameElse(s, w) ==
  /\ w.note = s.note /\ w.asyn = s.asyn /\ w.pending = s.pending
  /\ w.mgr = s.mgr /\ w.bak = s.bak /\ w.resume = s.resume
  /\ w.saved = s.saved /\ w.ksig = s.ksig /\ w.job = s.job /\ w.panic = s.panic

\* The processes of ps are no longer blocked, and the queues are right.
LEMMA UnblockKeeps ==
  ASSUME NEW s, Inv(s), NEW w \in State, NEW ps, Queued(w),
         \A p \in Proc :
           /\ w.rts[p] = IF p \in ps THEN s.rts[p] \ {"SENDING", "RECEIVING"} ELSE s.rts[p]
           /\ p \notin ps => w.from[p] = s.from[p] /\ w.to[p] = s.to[p],
         SameElse(s, w)
  PROVE  Inv(w)
<1>0. /\ s \in State /\ Calm(s) /\ Parts(s) /\ Listens(s)
      /\ w.note = s.note /\ w.asyn = s.asyn /\ w.pending = s.pending /\ w.mgr = s.mgr
      /\ w.bak = s.bak /\ w.resume = s.resume /\ w.saved = s.saved /\ w.ksig = s.ksig
      /\ w.job = s.job /\ w.panic = s.panic
  BY DEF Inv, Parts, SameElse
<1>1. \A p \in Proc : \A f : f \notin {"SENDING", "RECEIVING"} =>
        (Has(w, p, f) <=> Has(s, p, f))
  BY DEF Has
<1>2. \A p \in Proc : \A f \in {"SENDING", "RECEIVING"} :
        Has(w, p, f) <=> Has(s, p, f) /\ p \notin ps
  BY DEF Has
<1>3. \A p \in Proc : isempty(w, p) <=> isempty(s, p)
  BY <1>1 DEF isempty
<1>4. Dead(w)
  <2> SUFFICES ASSUME NEW p \in Proc, isempty(w, p)
               PROVE  /\ w.rts[p] = {"SLOT_FREE"} /\ p # Manager
                      /\ w.pending[p] = {} /\ w.note[p] = {} /\ w.asyn[p] = {}
    BY DEF Dead
  <2>1. /\ s.rts[p] = {"SLOT_FREE"} /\ p # Manager
        /\ s.pending[p] = {} /\ s.note[p] = {} /\ s.asyn[p] = {}
    BY <1>0, <1>3 DEF Parts, Dead
  <2> QED BY <1>0, <2>1
<1>5. Saved(w)
  BY <1>0, <1>1, <1>3 DEF Parts, Saved
<1>6. Managed(w) /\ Forgotten(w)
  BY <1>0, <1>3 DEF Parts, Managed, Forgotten
<1>7. Blocked(w)
  <2> SUFFICES ASSUME NEW p \in Proc, p \notin ps
               PROVE  /\ Has(w, p, "SENDING") => /\ w.to[p] \in Proc /\ w.to[p] # p
                                                 /\ p # Manager /\ ~isempty(w, w.to[p])
                      /\ Has(w, p, "RECEIVING") =>
                           /\ w.from[p] # p /\ w.from[p] # NONE
                           /\ w.from[p] \in Proc => ~isempty(w, w.from[p])
                      /\ Has(w, p, "SENDING") /\ Has(w, p, "RECEIVING") => w.from[p] = w.to[p]
    BY <1>2 DEF Blocked
  <2>1. /\ Has(w, p, "SENDING") <=> Has(s, p, "SENDING")
        /\ Has(w, p, "RECEIVING") <=> Has(s, p, "RECEIVING")
        /\ w.from[p] = s.from[p] /\ w.to[p] = s.to[p]
    BY <1>2
  <2>2. /\ Has(s, p, "SENDING") => /\ s.to[p] \in Proc /\ s.to[p] # p
                                   /\ p # Manager /\ ~isempty(s, s.to[p])
        /\ Has(s, p, "RECEIVING") => /\ s.from[p] # p /\ s.from[p] # NONE
                                     /\ s.from[p] \in Proc => ~isempty(s, s.from[p])
        /\ Has(s, p, "SENDING") /\ Has(s, p, "RECEIVING") => s.from[p] = s.to[p]
    BY <1>0 DEF Parts, Blocked
  <2> QED BY <1>3, <2>1, <2>2
<1>8. Waits(w)
  BY <1>0, <1>2, Names DEF Parts, Waits
<1>9. Stopped(w)
  BY <1>0, <1>1 DEF Parts, Stopped
<1>10. Listens(w)
  BY <1>0, <1>1 DEF Listens, Told
<1> QED BY <1>0, <1>4, <1>5, <1>6, <1>7, <1>8, <1>9, <1>10 DEF Calm, Inv, Parts

\* w is s after clear_ipc for p.
Cleared(s, p, w) ==
  /\ w \in State /\ SameElse(s, w)
  /\ w.rts = [s.rts EXCEPT ![p] = @ \ {"SENDING", "RECEIVING"}]
  /\ w.from = [s.from EXCEPT ![p] = NONE]
  /\ ~Has(s, p, "SENDING") => w.q = s.q /\ w.to = s.to
  /\ Has(s, p, "SENDING") =>
       /\ w.q = [s.q EXCEPT ![s.to[p]] = Unlink(s.q[s.to[p]], {p})]
       /\ w.to = [s.to EXCEPT ![p] = NONE]

LEMMA ClearIpcFields ==
  ASSUME NEW s \in State, Blocked(s), NEW p \in Proc
  PROVE  Cleared(s, p, clear_ipc(s, p))
<1> DEFINE w == clear_ipc(s, p)
<1>1. CASE ~Has(s, p, "SENDING")
  BY <1>1 DEF clear_ipc, RTS_UNSET, State, Cleared, SameElse
<1>2. CASE Has(s, p, "SENDING")
  <2>1. s.to[p] \in Proc
    BY <1>2 DEF Blocked
  <2>2. s.q \in [Proc -> Seq(Proc)] /\ s.q[s.to[p]] \in Seq(Proc)
    BY <2>1 DEF State
  <2> DEFINE b == Unlink(s.q[s.to[p]], {p})
  <2>3. b \in Seq(Proc)
    BY <2>2, UnlinkKeeps DEF KeptOf
  <2> DEFINE u == [s EXCEPT !.q[s.to[p]] = b, !.to[p] = NONE]
  <2>4. w = [RTS_UNSET(u, p, {"SENDING", "RECEIVING"}) EXCEPT !.from[p] = NONE]
    BY <1>2 DEF clear_ipc
  <2> HIDE DEF b
  <2>5. /\ u \in State /\ SameElse(s, u) /\ u.rts = s.rts /\ u.from = s.from
        /\ u.q = [s.q EXCEPT ![s.to[p]] = b] /\ u.to = [s.to EXCEPT ![p] = NONE]
    BY <2>1, <2>3 DEF State, SameElse
  <2> HIDE DEF u, w
  <2>6. /\ w \in State /\ SameElse(u, w) /\ w.q = u.q /\ w.to = u.to
        /\ w.rts = [u.rts EXCEPT ![p] = @ \ {"SENDING", "RECEIVING"}]
        /\ w.from = [u.from EXCEPT ![p] = NONE]
    <3> DEFINE r == [u.rts EXCEPT ![p] = u.rts[p] \ {"SENDING", "RECEIVING"}]
               g == [u.from EXCEPT ![p] = NONE]
    <3>1. w = [u EXCEPT !.rts = r, !.from = g]
      BY <2>4, <2>5 DEF RTS_UNSET, State
    <3>2. r \in [Proc -> SUBSET Flag] /\ g \in [Proc -> Proc \cup {ANY, NONE}]
      BY <2>5 DEF State
    <3> HIDE DEF r, g
    <3>3. w \in State /\ SameElse(u, w) /\ w.q = u.q /\ w.to = u.to /\ w.rts = r /\ w.from = g
      BY <2>5, <3>1, <3>2 DEF State, SameElse
    <3> QED BY <3>3 DEF r, g
  <2> QED BY <1>2, <2>5, <2>6 DEF b, w, Cleared, SameElse
<1> QED BY <1>1, <1>2

LEMMA ClearIpcKeeps ==
  ASSUME NEW s, Inv(s), NEW p \in Proc
  PROVE  Inv(clear_ipc(s, p))
<1> DEFINE w == clear_ipc(s, p)
<1>0. s \in State /\ Queued(s) /\ Blocked(s)
  BY DEF Inv, Parts
<1>1. Cleared(s, p, w)
  BY <1>0, ClearIpcFields
<1> HIDE DEF w
<1>2. \A x \in Proc :
        w.rts[x] = IF x = p THEN s.rts[x] \ {"SENDING", "RECEIVING"} ELSE s.rts[x]
  <2>1. s.rts \in [Proc -> SUBSET Flag]
    BY <1>0 DEF State
  <2> QED BY <1>1, <2>1 DEF Cleared
<1>3. \A x \in Proc : x # p => w.from[x] = s.from[x] /\ w.to[x] = s.to[x]
  <2>1. s.from \in [Proc -> Proc \cup {ANY, NONE}] /\ s.to \in [Proc -> Proc \cup {NONE}]
    BY <1>0 DEF State
  <2> QED BY <1>1, <2>1 DEF Cleared
<1>4. \A x \in Proc : Has(w, x, "SENDING") <=> Has(s, x, "SENDING") /\ x # p
  BY <1>2 DEF Has
<1>5. Queued(w)
  <2>1. CASE Has(s, p, "SENDING")
    <3>1. s.to[p] \in Proc
      BY <1>0, <2>1 DEF Blocked
    <3>2. \A x \in {p} : x \in Proc /\ Has(s, x, "SENDING") /\ s.to[x] = s.to[p]
      BY <2>1
    <3>3. \A x \in Proc : Has(w, x, "SENDING") <=> Has(s, x, "SENDING") /\ x \notin {p}
      BY <1>4
    <3>4. \A x \in Proc : Has(w, x, "SENDING") => w.to[x] = s.to[x]
      BY <1>3, <1>4
    <3>5. w \in State /\ w.q = [s.q EXCEPT ![s.to[p]] = Unlink(s.q[s.to[p]], {p})]
      BY <1>1, <2>1 DEF Cleared
    <3> QED BY <1>0, <3>1, <3>2, <3>3, <3>4, <3>5, QueuedUnlink
  <2>2. CASE ~Has(s, p, "SENDING")
    <3>1. \A x \in Proc : Has(w, x, "SENDING") <=> Has(s, x, "SENDING")
      BY <1>4, <2>2
    <3> QED BY <1>0, <1>1, <2>2, <3>1, QueuedSame DEF Cleared
  <2> QED BY <2>1, <2>2
<1>6. \A x \in Proc :
        /\ w.rts[x] = IF x \in {p} THEN s.rts[x] \ {"SENDING", "RECEIVING"} ELSE s.rts[x]
        /\ x \notin {p} => w.from[x] = s.from[x] /\ w.to[x] = s.to[x]
  BY <1>2, <1>3
<1>7. Inv(w)
  BY <1>1, <1>5, <1>6, UnblockKeeps DEF Cleared
<1> QED BY <1>7 DEF w

\* After WakeWaiters nobody is blocked on rc.
LEMMA WakeKeeps ==
  ASSUME NEW s, Inv(s), NEW rc \in Proc
  PROVE  LET w == WakeWaiters(s, rc)
         IN /\ Inv(w) /\ w.note = s.note /\ w.asyn = s.asyn
            /\ \A p \in Proc : P_BLOCKEDON(w, p) # rc /\ w.rts[p] \subseteq s.rts[p]
            /\ \A p \in Proc : P_BLOCKEDON(s, p) # rc => w.rts[p] = s.rts[p]
<1> DEFINE w == WakeWaiters(s, rc)
           ps == {p \in Proc : ~isempty(s, p) /\ P_BLOCKEDON(s, p) = rc}
           from == {p \in ps : Has(s, p, "SENDING")}
           b == Unlink(s.q[rc], from)
<1>0. s \in State /\ Parts(s) /\ Queued(s) /\ Blocked(s) /\ Dead(s)
  BY DEF Inv, Parts
<1>1. ASSUME NEW p \in Proc
      PROVE  /\ clear_ipc(s, p).rts[p] = s.rts[p] \ {"SENDING", "RECEIVING"}
             /\ clear_ipc(s, p).from[p] = NONE
             /\ clear_ipc(s, p).to[p] \in Proc \cup {NONE}
             /\ s.rts[p] \ {"SENDING", "RECEIVING"} \in SUBSET Flag
  <2> DEFINE c == clear_ipc(s, p)
  <2>1. Cleared(s, p, c)
    BY <1>0, ClearIpcFields
  <2> HIDE DEF c
  <2>2. s.rts \in [Proc -> SUBSET Flag] /\ s.from \in [Proc -> Proc \cup {ANY, NONE}]
    BY <1>0 DEF State
  <2>3. c.rts[p] = s.rts[p] \ {"SENDING", "RECEIVING"} /\ c.from[p] = NONE
    BY <2>1, <2>2 DEF Cleared
  <2>4. c.to[p] \in Proc \cup {NONE} /\ c.rts[p] \in SUBSET Flag
    BY <2>1 DEF Cleared, State
  <2> QED BY <2>3, <2>4 DEF c
<1>2. w = [s EXCEPT
        !.rts   = [p \in Proc |-> IF p \in ps THEN clear_ipc(s, p).rts[p] ELSE s.rts[p]],
        !.to    = [p \in Proc |-> IF p \in ps THEN clear_ipc(s, p).to[p] ELSE s.to[p]],
        !.from  = [p \in Proc |-> IF p \in ps THEN clear_ipc(s, p).from[p] ELSE s.from[p]],
        !.q[rc] = b]
  BY <1>0 DEF WakeWaiters, State
<1> DEFINE newrts == [p \in Proc |-> IF p \in ps THEN clear_ipc(s, p).rts[p] ELSE s.rts[p]]
           newto == [p \in Proc |-> IF p \in ps THEN clear_ipc(s, p).to[p] ELSE s.to[p]]
           newfrom == [p \in Proc |-> IF p \in ps THEN clear_ipc(s, p).from[p] ELSE s.from[p]]
<1>3. s.q \in [Proc -> Seq(Proc)] /\ b \in Seq(Proc)
  <2>1. s.q \in [Proc -> Seq(Proc)]
    BY <1>0 DEF State
  <2>2. s.q[rc] \in Seq(Proc)
    BY <2>1
  <2> QED BY <2>1, <2>2, UnlinkKeeps DEF KeptOf
<1>4. /\ newrts \in [Proc -> SUBSET Flag] /\ newto \in [Proc -> Proc \cup {NONE}]
      /\ newfrom \in [Proc -> Proc \cup {ANY, NONE}]
  <2>1. /\ s.rts \in [Proc -> SUBSET Flag] /\ s.to \in [Proc -> Proc \cup {NONE}]
        /\ s.from \in [Proc -> Proc \cup {ANY, NONE}]
    BY <1>0 DEF State
  <2> HIDE DEF ps
  <2> QED BY <1>1, <2>1
<1> HIDE DEF ps, from, b, newrts, newto, newfrom
<1>5. /\ w \in State /\ w.q = [s.q EXCEPT ![rc] = b]
      /\ w.rts = newrts /\ w.to = newto /\ w.from = newfrom
      /\ SameElse(s, w)
  <2>1. w = [s EXCEPT !.rts = newrts, !.to = newto, !.from = newfrom, !.q[rc] = b]
    BY <1>2 DEF newrts, newto, newfrom
  <2> HIDE DEF w
  <2> QED BY <1>0, <1>3, <1>4, <2>1 DEF State, SameElse
<1> HIDE DEF w
<1>6. \A p \in Proc :
        /\ w.rts[p] = IF p \in ps THEN s.rts[p] \ {"SENDING", "RECEIVING"} ELSE s.rts[p]
        /\ p \notin ps => w.from[p] = s.from[p] /\ w.to[p] = s.to[p]
  BY <1>1, <1>5 DEF newrts, newto, newfrom
<1>7. \A p \in Proc : \A f \in {"SENDING", "RECEIVING"} :
        Has(w, p, f) <=> Has(s, p, f) /\ p \notin ps
  BY <1>6 DEF Has
<1>8. ASSUME NEW p \in Proc, Has(s, p, "SENDING"), p \in ps
      PROVE  p \in from /\ s.to[p] = rc
  BY <1>8 DEF ps, from, P_BLOCKEDON
<1>9. Queued(w)
  <2>1. \A p \in from : p \in Proc /\ Has(s, p, "SENDING") /\ s.to[p] = rc /\ p \in ps
    BY <1>8 DEF from, ps
  <2>2. \A p \in Proc : Has(w, p, "SENDING") <=> Has(s, p, "SENDING") /\ p \notin from
    BY <1>7, <1>8, <2>1
  <2>3. \A p \in Proc : Has(w, p, "SENDING") => w.to[p] = s.to[p]
    BY <1>6, <1>7
  <2> QED BY <1>0, <1>5, <2>1, <2>2, <2>3, QueuedUnlink DEF b
<1>10. Inv(w)
  BY <1>5, <1>6, <1>9, UnblockKeeps
<1>11. ASSUME NEW p \in Proc PROVE P_BLOCKEDON(w, p) # rc /\ w.rts[p] \subseteq s.rts[p]
  <2>1. CASE p \in ps
    <3>1. P_BLOCKEDON(w, p) = NONE
      BY <1>7, <2>1 DEF P_BLOCKEDON
    <3> QED BY <1>6, <2>1, <3>1, Names
  <2>2. CASE p \notin ps
    <3>1. P_BLOCKEDON(w, p) = P_BLOCKEDON(s, p) /\ w.rts[p] = s.rts[p]
      BY <1>6, <1>7, <2>2 DEF P_BLOCKEDON
    <3>2. isempty(s, p) => P_BLOCKEDON(s, p) = NONE
      BY <1>0 DEF Dead, P_BLOCKEDON, Has
    <3> QED BY <2>2, <3>1, <3>2, Names DEF ps
  <2> QED BY <2>1, <2>2
<1>12. ASSUME NEW p \in Proc, P_BLOCKEDON(s, p) # rc PROVE w.rts[p] = s.rts[p]
  BY <1>6, <1>12 DEF ps
<1> QED BY <1>5, <1>10, <1>11, <1>12 DEF w, SameElse

\* What holds of rc after clear_ipc_refs: nobody waits for it and it has no
\* message under way, in either direction.
Unreferenced(w, rc) ==
  /\ w.asyn[rc] = {}
  /\ \A p \in Proc : P_BLOCKEDON(w, p) # rc /\ rc \notin w.note[p] \cup w.asyn[p]

LEMMA RefsKeeps ==
  ASSUME NEW s, Inv(s), NEW rc \in Proc
  PROVE  /\ Inv(clear_ipc_refs(s, rc)) /\ Unreferenced(clear_ipc_refs(s, rc), rc)
         /\ \A p \in Proc : clear_ipc_refs(s, rc).rts[p] \subseteq s.rts[p]
<1> DEFINE live == {p \in Proc : ~isempty(s, p)}
           note == [p \in Proc |-> IF p \in live THEN s.note[p] \ {rc} ELSE s.note[p]]
           asyn == [p \in Proc |-> IF p = rc THEN {}
                                   ELSE IF p \in live THEN s.asyn[p] \ {rc} ELSE s.asyn[p]]
           u == [s EXCEPT !.note = note, !.asyn = asyn]
           w == WakeWaiters(u, rc)
<1>0. s \in State /\ Calm(s) /\ Parts(s) /\ Listens(s) /\ Dead(s)
  BY DEF Inv, Parts
<1>1. clear_ipc_refs(s, rc) = w
  BY <1>0 DEF clear_ipc_refs, State
<1>2. note \in [Proc -> SUBSET (System \cup {SYSTEM})] /\ asyn \in [Proc -> SUBSET System]
  <2>1. /\ s.note \in [Proc -> SUBSET (System \cup {SYSTEM})]
        /\ s.asyn \in [Proc -> SUBSET System]
    BY <1>0 DEF State
  <2> HIDE DEF live
  <2> QED BY <2>1
<1>3. \A p \in Proc : /\ note[p] = s.note[p] \ {rc} /\ asyn[p] \subseteq s.asyn[p]
                      /\ rc \notin note[p] \cup asyn[p] /\ asyn[rc] = {}
  BY <1>0 DEF Dead
<1> HIDE DEF live, note, asyn
<1>4. /\ u \in State /\ u.note = note /\ u.asyn = asyn
      /\ u.rts = s.rts /\ u.from = s.from /\ u.to = s.to /\ u.q = s.q
      /\ u.pending = s.pending /\ u.mgr = s.mgr /\ u.bak = s.bak
      /\ u.resume = s.resume /\ u.saved = s.saved /\ u.panic = s.panic
      /\ u.ksig = s.ksig /\ u.job = s.job
  BY <1>0, <1>2 DEF State
<1> HIDE DEF u
<1>5. Inv(u)
  <2>1. /\ Saved(u) /\ Managed(u) /\ Blocked(u) /\ Queued(u) /\ Stopped(u)
    BY <1>0, <1>4 DEF Parts, Saved, Managed, Blocked, Queued, Stopped, isempty, Has
  <2>2. Dead(u)
    BY <1>0, <1>3, <1>4 DEF Dead, isempty, Has
  <2>3. Forgotten(u)
    BY <1>0, <1>3, <1>4 DEF Parts, Forgotten, isempty, Has
  <2>4. Waits(u)
    BY <1>0, <1>3, <1>4, Names DEF Parts, Waits, Has
  <2>5. Listens(u)
    BY <1>0, <1>3, <1>4, Names DEF Listens, Told, Has
  <2> QED BY <1>0, <1>4, <2>1, <2>2, <2>3, <2>4, <2>5 DEF Calm, Inv, Parts
<1>6. /\ Inv(w) /\ w.note = u.note /\ w.asyn = u.asyn
      /\ \A p \in Proc : P_BLOCKEDON(w, p) # rc /\ w.rts[p] \subseteq u.rts[p]
  BY <1>5, WakeKeeps
<1> HIDE DEF w
<1>7. Unreferenced(w, rc)
  BY <1>3, <1>4, <1>6 DEF Unreferenced
<1>8. \A p \in Proc : w.rts[p] \subseteq s.rts[p]
  BY <1>4, <1>6
<1> QED BY <1>1, <1>6, <1>7, <1>8

\* clear_endpoint: rc is in no queue and nothing refers to it.
LEMMA EndpointKeeps ==
  ASSUME NEW s, Inv(s), NEW rc \in Proc, ~isempty(s, rc)
  PROVE  LET w == clear_endpoint(s, rc)
         IN Inv(w) /\ Unreferenced(w, rc) /\ ~Has(w, rc, "SENDING")
<1> DEFINE u == RTS_SET(s, rc, {"NO_ENDPOINT"})
           c == clear_ipc(u, rc)
           w == clear_ipc_refs(c, rc)
<1>0. s \in State /\ Calm(s) /\ Parts(s) /\ Listens(s)
  BY DEF Inv, Parts
<1>1. clear_endpoint(s, rc) = w
  BY DEF clear_endpoint
<1>2. /\ u \in State /\ u.rts = [s.rts EXCEPT ![rc] = @ \cup {"NO_ENDPOINT"}]
      /\ SameElse(s, u) /\ u.from = s.from /\ u.to = s.to /\ u.q = s.q
  <2>1. "NO_ENDPOINT" \in Flag
    BY DEF Flag
  <2> QED BY <1>0, <2>1 DEF State, RTS_SET, SameElse
<1> HIDE DEF u
<1>3. \A p \in Proc : u.rts[p] = IF p = rc THEN s.rts[p] \cup {"NO_ENDPOINT"} ELSE s.rts[p]
  <2>1. s.rts \in [Proc -> SUBSET Flag]
    BY <1>0 DEF State
  <2> QED BY <1>2, <2>1
<1>4. ASSUME NEW p \in Proc, NEW f, f # "NO_ENDPOINT" PROVE Has(u, p, f) <=> Has(s, p, f)
  <2>1. CASE p = rc
    <3>1. u.rts[p] = s.rts[p] \cup {"NO_ENDPOINT"}
      BY <1>3, <2>1
    <3> QED BY <1>4, <3>1, Zenon DEF Has
  <2>2. CASE p # rc
    BY <1>3, <2>2 DEF Has
  <2> QED BY <2>1, <2>2
<1>5. \A p \in Proc : isempty(u, p) <=> isempty(s, p)
  BY <1>4 DEF isempty
<1>6. Inv(u)
  <2>0. /\ u.note = s.note /\ u.asyn = s.asyn /\ u.pending = s.pending /\ u.mgr = s.mgr
        /\ u.bak = s.bak /\ u.resume = s.resume /\ u.saved = s.saved /\ u.ksig = s.ksig
        /\ u.job = s.job /\ u.panic = s.panic
    BY <1>2 DEF SameElse
  <2>1. Dead(u)
    BY <1>0, <1>3, <1>5, <2>0 DEF Parts, Dead
  <2>2. Saved(u) /\ Managed(u) /\ Forgotten(u)
    BY <1>0, <1>4, <1>5, <2>0 DEF Parts, Saved, Managed, Forgotten
  <2>3. Blocked(u)
    BY <1>0, <1>2, <1>4, <1>5 DEF Parts, Blocked
  <2>4. Waits(u)
    BY <1>0, <1>2, <1>4, <2>0, Names DEF Parts, Waits
  <2>5. Queued(u)
    BY <1>0, <1>2, <1>4, QueuedSame DEF Parts
  <2>6. Stopped(u) /\ Listens(u)
    BY <1>0, <1>4, <2>0 DEF Parts, Stopped, Listens, Told
  <2> QED BY <1>0, <1>2, <2>0, <2>1, <2>2, <2>3, <2>4, <2>5, <2>6 DEF Calm, Inv, Parts
<1>7. Inv(c) /\ ~Has(c, rc, "SENDING")
  <2>1. Cleared(u, rc, c)
    BY <1>2, <1>6, ClearIpcFields DEF Inv, Parts
  <2>2. Inv(c)
    BY <1>6, ClearIpcKeeps
  <2> HIDE DEF c
  <2>3. u.rts \in [Proc -> SUBSET Flag]
    BY <1>2 DEF State
  <2> QED BY <2>1, <2>2, <2>3 DEF Cleared, Has
<1> HIDE DEF c
<1>8. Inv(w) /\ Unreferenced(w, rc) /\ w.rts[rc] \subseteq c.rts[rc]
  BY <1>7, RefsKeeps
<1> HIDE DEF w
<1> QED BY <1>1, <1>7, <1>8 DEF Has
-----------------------------------------------------------------------------
(* The actions *)

LEMMA ClearKeeps ==
  ASSUME Inv(k), NEW p \in Proc, Clear(p)
  PROVE  Inv(k')
<1> DEFINE w == clear_endpoint(k, p)
<1>1. Inv(w) /\ Unreferenced(w, p) /\ ~Has(w, p, "SENDING") /\ p # Manager
  BY EndpointKeeps DEF Clear
<1>2. k' = [w EXCEPT !.rts[p] = {"SLOT_FREE"}, !.pending[p] = {}, !.note[p] = {},
                     !.ksig[p] = FALSE, !.resume = @ \ {p}, !.delay = @ \ {p},
                     !.saved[p] = NONE]
  BY DEF Clear
<1> HIDE DEF w
<1>3. w \in State /\ Calm(w) /\ Parts(w) /\ Listens(w)
  BY <1>1 DEF Inv, Parts
<1>4. /\ k' \in State /\ k'.rts = [w.rts EXCEPT ![p] = {"SLOT_FREE"}]
      /\ k'.pending = [w.pending EXCEPT ![p] = {}] /\ k'.note = [w.note EXCEPT ![p] = {}]
      /\ k'.ksig = [w.ksig EXCEPT ![p] = FALSE] /\ k'.resume = w.resume \ {p}
      /\ k'.saved = [w.saved EXCEPT ![p] = NONE]
      /\ k'.from = w.from /\ k'.to = w.to /\ k'.q = w.q /\ k'.asyn = w.asyn
      /\ k'.mgr = w.mgr /\ k'.bak = w.bak /\ k'.job = w.job /\ k'.panic = w.panic
  BY <1>2, <1>3 DEF State, Flag
<1>5. \A x \in Proc : /\ x # p => k'.rts[x] = w.rts[x] /\ k'.pending[x] = w.pending[x]
                      /\ x # p => k'.note[x] = w.note[x] /\ k'.ksig[x] = w.ksig[x]
                      /\ x # p => k'.saved[x] = w.saved[x]
                      /\ k'.rts[p] = {"SLOT_FREE"} /\ k'.pending[p] = {} /\ k'.note[p] = {}
  <2>1. /\ DOMAIN w.rts = Proc /\ DOMAIN w.pending = Proc /\ DOMAIN w.note = Proc
        /\ DOMAIN w.ksig = Proc /\ DOMAIN w.saved = Proc
    BY <1>3 DEF State
  <2> QED BY <1>4, <2>1
<1>6. \A x \in Proc : x # p => \A f : Has(k', x, f) <=> Has(w, x, f)
  BY <1>5 DEF Has
<1>7. \A f : Has(k', p, f) <=> f = "SLOT_FREE"
  BY <1>5 DEF Has
<1>8. \A x \in Proc : isempty(k', x) <=> x = p \/ isempty(w, x)
  BY <1>6, <1>7 DEF isempty
<1>9. Dead(k')
  BY <1>1, <1>3, <1>4, <1>5, <1>8 DEF Parts, Dead, Unreferenced
<1>10. Saved(k')
  BY <1>3, <1>4, <1>5, <1>6, <1>7, <1>8 DEF Parts, Saved
<1>11. Managed(k')
  BY <1>3, <1>4 DEF Parts, Managed
<1>12. Blocked(k')
  <2> SUFFICES ASSUME NEW x \in Proc, x # p
               PROVE  /\ Has(k', x, "SENDING") => /\ k'.to[x] \in Proc /\ k'.to[x] # x
                                                  /\ x # Manager /\ ~isempty(k', k'.to[x])
                      /\ Has(k', x, "RECEIVING") =>
                           /\ k'.from[x] # x /\ k'.from[x] # NONE
                           /\ k'.from[x] \in Proc => ~isempty(k', k'.from[x])
                      /\ Has(k', x, "SENDING") /\ Has(k', x, "RECEIVING")
                           => k'.from[x] = k'.to[x]
    BY <1>7 DEF Blocked
  <2>1. /\ Has(w, x, "SENDING") => /\ w.to[x] \in Proc /\ w.to[x] # x
                                   /\ x # Manager /\ ~isempty(w, w.to[x])
        /\ Has(w, x, "RECEIVING") => /\ w.from[x] # x /\ w.from[x] # NONE
                                     /\ w.from[x] \in Proc => ~isempty(w, w.from[x])
        /\ Has(w, x, "SENDING") /\ Has(w, x, "RECEIVING") => w.from[x] = w.to[x]
    BY <1>3 DEF Parts, Blocked
  <2>2. /\ Has(w, x, "SENDING") => w.to[x] # p
        /\ Has(w, x, "RECEIVING") /\ ~Has(w, x, "SENDING") => w.from[x] # p
    BY <1>1 DEF Unreferenced, P_BLOCKEDON
  <2> QED BY <1>4, <1>6, <1>8, <2>1, <2>2
<1>13. Waits(k')
  BY <1>1, <1>3, <1>4, <1>5, <1>6, Names DEF Parts, Waits
<1>14. Forgotten(k')
  BY <1>1, <1>3, <1>4, <1>5, <1>8 DEF Parts, Forgotten, Unreferenced
<1>15. Queued(k')
  <2>1. \A x \in Proc : Has(k', x, "SENDING") <=> Has(w, x, "SENDING")
    BY <1>1, <1>6, <1>7
  <2> QED BY <1>3, <1>4, <2>1, QueuedSame DEF Parts
<1>16. Stopped(k')
  <2> SUFFICES ASSUME NEW x \in Proc
               PROVE  /\ k'.pending[x] # {} => Has(k', x, "SIGNALED")
                      /\ Has(k', x, "SIGNALED") => /\ Has(k', x, "SIG_PENDING")
                                                   /\ k'.mgr[x] = Manager
                      /\ Has(k', x, "SIG_PENDING") => Has(k', x, "SIGNALED") \/ k'.job = x
    BY DEF Stopped
  <2>1. CASE x = p
    BY <1>5, <1>7, <2>1
  <2>2. CASE x # p
    BY <1>3, <1>4, <1>5, <1>6, <2>2 DEF Parts, Stopped
  <2> QED BY <2>1, <2>2
<1>17. Listens(k')
  BY <1>1, <1>3, <1>4, <1>5, <1>6, <1>7, Names DEF Listens, Told
<1> QED BY <1>3, <1>4, <1>9, <1>10, <1>11, <1>12, <1>13, <1>14, <1>15, <1>16, <1>17
        DEF Calm, Inv, Parts

\* kernel_call_finish saves the request of the caller itself.
LEMMA FinishKeeps ==
  ASSUME NEW s, Inv(s), NEW p \in Proc, p # Manager, s.rts[p] = {}, p \notin s.resume,
         NEW result, NEW bad, bad => s.left > 0
  PROVE  Inv(kernel_call_finish(s, p, p, result, bad))
<1>0. s \in State /\ Calm(s) /\ Parts(s) /\ Listens(s)
  BY DEF Inv, Parts
<1>1. CASE result = "VMSUSPEND"
  <2> DEFINE w == kernel_call_finish(s, p, p, result, bad)
  <2>1. w = [RTS_SET(s, p, {"VMREQUEST"}) EXCEPT !.saved[p] = p, !.resume = @ \cup {p}]
    BY <1>1 DEF kernel_call_finish
  <2> HIDE DEF w
  <2>2. /\ w \in State /\ w.rts = [s.rts EXCEPT ![p] = @ \cup {"VMREQUEST"}]
        /\ w.saved = [s.saved EXCEPT ![p] = p] /\ w.resume = s.resume \cup {p}
        /\ w.from = s.from /\ w.to = s.to /\ w.q = s.q /\ w.note = s.note
        /\ w.asyn = s.asyn /\ w.pending = s.pending /\ w.mgr = s.mgr
        /\ w.bak = s.bak /\ w.ksig = s.ksig /\ w.job = s.job /\ w.panic = s.panic
    BY <1>0, <2>1 DEF State, RTS_SET, Flag
  <2>3. \A x \in Proc : /\ w.rts[x] = IF x = p THEN {"VMREQUEST"} ELSE s.rts[x]
                        /\ w.saved[x] = IF x = p THEN p ELSE s.saved[x]
    <3>1. DOMAIN s.rts = Proc /\ DOMAIN s.saved = Proc
      BY <1>0 DEF State
    <3> QED BY <2>2, <3>1
  <2>4. \A x \in Proc : \A f : f # "VMREQUEST" => (Has(w, x, f) <=> Has(s, x, f))
    BY <2>3 DEF Has
  <2>5. \A x \in Proc : Has(w, x, "VMREQUEST") <=> x = p \/ Has(s, x, "VMREQUEST")
    BY <2>3 DEF Has
  <2>6. \A x \in Proc : isempty(w, x) <=> isempty(s, x)
    BY <2>4 DEF isempty
  <2>7. ~isempty(s, p)
    BY DEF isempty, Has
  <2>8. Dead(w)
    BY <1>0, <2>2, <2>3, <2>6, <2>7 DEF Parts, Dead
  <2>9. Saved(w)
    BY <1>0, <2>2, <2>3, <2>5, <2>6, <2>7 DEF Parts, Saved
  <2>10. Managed(w) /\ Forgotten(w)
    BY <1>0, <2>2, <2>6 DEF Parts, Managed, Forgotten
  <2>11. Blocked(w)
    BY <1>0, <2>2, <2>4, <2>6 DEF Parts, Blocked
  <2>12. Waits(w)
    BY <1>0, <2>2, <2>4, Names DEF Parts, Waits
  <2>13. Queued(w)
    BY <1>0, <2>2, <2>4, QueuedSame DEF Parts
  <2>14. Stopped(w) /\ Listens(w)
    BY <1>0, <2>2, <2>4 DEF Parts, Stopped, Listens, Told
  <2> QED BY <1>0, <2>2, <2>8, <2>9, <2>10, <2>11, <2>12, <2>13, <2>14 DEF Calm, Inv, Parts, w
<1>2. CASE result # "VMSUSPEND"
  <2> DEFINE w == [s EXCEPT !.saved[p] = NONE]
  <2>1. /\ w \in State /\ w.saved = [s.saved EXCEPT ![p] = NONE]
        /\ w.rts = s.rts /\ w.resume = s.resume /\ w.left = s.left
        /\ w.from = s.from /\ w.to = s.to /\ w.q = s.q /\ w.note = s.note
        /\ w.asyn = s.asyn /\ w.pending = s.pending /\ w.mgr = s.mgr
        /\ w.bak = s.bak /\ w.ksig = s.ksig /\ w.job = s.job /\ w.panic = s.panic
    BY <1>0 DEF State, SameElse
  <2>2. kernel_call_finish(s, p, p, result, bad)
          = IF result # "EDONTREPLY" /\ bad THEN cause_sig(Spend(w), p, "SIGSEGV") ELSE w
    BY <1>2 DEF kernel_call_finish
  <2> HIDE DEF w
  <2>3. \A x \in Proc : x # p => w.saved[x] = s.saved[x]
    <3>1. DOMAIN s.saved = Proc
      BY <1>0 DEF State
    <3> QED BY <2>1, <3>1
  <2>4. Saved(w)
    BY <1>0, <2>1, <2>3 DEF Parts, Saved, isempty, Has
  <2>5. /\ Dead(w) /\ Managed(w) /\ Blocked(w) /\ Waits(w) /\ Forgotten(w)
        /\ Queued(w) /\ Stopped(w) /\ Listens(w)
    BY <1>0, <2>1 DEF Parts, Dead, Managed, Blocked, Waits, Forgotten, Queued, Stopped,
                     Listens, Told, isempty, Has
  <2>6. Inv(w)
    BY <1>0, <2>1, <2>4, <2>5 DEF Calm, Inv, Parts
  <2>7. ASSUME bad PROVE Inv(cause_sig(Spend(w), p, "SIGSEGV"))
    <3>1. Inv(Spend(w)) /\ Spend(w).rts = w.rts
      BY <2>1, <2>6, <2>7, SpendKeeps
    <3>2. ~isempty(Spend(w), p) /\ "SIGSEGV" \in Sig
      BY <2>1, <3>1 DEF isempty, Has, Sig
    <3> QED BY <3>1, <3>2, CauseSigKeeps
  <2> QED BY <2>2, <2>6, <2>7
<1> QED BY <1>1, <1>2

\* A runnable process has a slot.
LEMMA RunsLive ==
  ASSUME NEW p, k.rts[p] = {}
  PROVE  ~isempty(k, p)
BY DEF isempty, Has

\* A lethal signal for a process other than the manager.
LEMMA SegvKeeps ==
  ASSUME Inv(k), NEW p \in Proc, ~isempty(k, p), CanSignal
  PROVE  Inv(cause_sig(Spend(k), p, "SIGSEGV"))
<1>1. Inv(Spend(k)) /\ Spend(k).rts = k.rts
  BY SpendKeeps DEF CanSignal
<1>2. ~isempty(Spend(k), p) /\ "SIGSEGV" \in Sig
  BY <1>1 DEF isempty, Has, Sig
<1> QED BY <1>1, <1>2, CauseSigKeeps

LEMMA KernelCallKeeps ==
  ASSUME Inv(k), NEW p \in Proc, kernel_call(p)
  PROVE  Inv(k')
<1>1. k.rts[p] = {} /\ p \notin k.resume /\ ~isempty(k, p)
  BY RunsLive DEF kernel_call, Runs
<1>2. CASE CanSignal /\ k' = cause_sig(Spend(k), p, "SIGSEGV")
  BY <1>1, <1>2, SegvKeeps
<1>3. CASE \E r \in Request, h \in Handler, bad \in BOOLEAN :
             /\ p # Manager /\ (bad => CanSignal)
             /\ k' = kernel_call_finish(k, p, p, kernel_call_dispatch(r, h), bad)
  <2>1. PICK r \in Request, h \in Handler, bad \in BOOLEAN :
             /\ p # Manager /\ (bad => CanSignal)
             /\ k' = kernel_call_finish(k, p, p, kernel_call_dispatch(r, h), bad)
    BY <1>3
  <2>2. bad => k.left > 0
    BY <2>1 DEF CanSignal
  <2> QED BY <1>1, <2>1, <2>2, FinishKeeps
<1> QED BY <1>2, <1>3 DEF kernel_call

LEMMA ResumeKeeps ==
  ASSUME Inv(k), NEW p \in Proc, kernel_call_resume(p)
  PROVE  Inv(k')
<1> DEFINE s == [k EXCEPT !.resume = @ \ {p}]
<1>0. k \in State /\ Calm(k) /\ Parts(k) /\ Listens(k)
  BY DEF Inv, Parts
<1>1. k.rts[p] = {} /\ p \in k.resume /\ k.saved[p] = p /\ p # Manager
  BY <1>0 DEF kernel_call_resume, Parts, Saved
<1>2. PICK r \in Request, h \in Handler, bad \in BOOLEAN :
        /\ bad => CanSignal
        /\ k' = kernel_call_finish(s, p, p, kernel_call_dispatch(r, h), bad)
  BY <1>1 DEF kernel_call_resume
<1>3. /\ s \in State /\ s.resume = k.resume \ {p} /\ s.left = k.left
      /\ s.rts = k.rts /\ s.saved = k.saved
      /\ s.from = k.from /\ s.to = k.to /\ s.q = k.q /\ s.note = k.note
      /\ s.asyn = k.asyn /\ s.pending = k.pending /\ s.mgr = k.mgr
      /\ s.bak = k.bak /\ s.ksig = k.ksig /\ s.job = k.job /\ s.panic = k.panic
  BY <1>0 DEF State
<1> HIDE DEF s
<1>4. Saved(s)
  BY <1>0, <1>1, <1>3 DEF Parts, Saved, isempty, Has
<1>5. /\ Dead(s) /\ Managed(s) /\ Blocked(s) /\ Waits(s) /\ Forgotten(s)
      /\ Queued(s) /\ Stopped(s) /\ Listens(s)
  BY <1>0, <1>3 DEF Parts, Dead, Managed, Blocked, Waits, Forgotten, Queued, Stopped,
                   Listens, Told, isempty, Has
<1>6. Inv(s)
  BY <1>0, <1>3, <1>4, <1>5 DEF Calm, Inv, Parts
<1>7. bad => s.left > 0
  BY <1>2, <1>3 DEF CanSignal
<1>8. s.rts[p] = {} /\ p \notin s.resume
  BY <1>1, <1>3
<1> QED BY <1>1, <1>2, <1>6, <1>7, <1>8, FinishKeeps

LEMMA VMReplyKeeps ==
  ASSUME Inv(k), NEW p \in Proc, VMReply(p)
  PROVE  Inv(k')
<1>0. k \in State /\ Calm(k) /\ Parts(k) /\ Listens(k)
  BY DEF Inv, Parts
<1>1. /\ k' \in State /\ k'.rts = [k.rts EXCEPT ![p] = @ \ {"VMREQUEST"}]
      /\ k'.saved = k.saved /\ k'.resume = k.resume
      /\ k'.from = k.from /\ k'.to = k.to /\ k'.q = k.q /\ k'.note = k.note
      /\ k'.asyn = k.asyn /\ k'.pending = k.pending /\ k'.mgr = k.mgr
      /\ k'.bak = k.bak /\ k'.ksig = k.ksig /\ k'.job = k.job /\ k'.panic = k.panic
  BY <1>0 DEF State, VMReply, RTS_UNSET
<1>2. \A x \in Proc : k'.rts[x] = IF x = p THEN k.rts[x] \ {"VMREQUEST"} ELSE k.rts[x]
  <2>1. DOMAIN k.rts = Proc
    BY <1>0 DEF State
  <2> QED BY <1>1, <2>1
<1>3. \A x \in Proc : \A f : f # "VMREQUEST" => (Has(k', x, f) <=> Has(k, x, f))
  BY <1>2 DEF Has
<1>4. \A x \in Proc : Has(k', x, "VMREQUEST") => Has(k, x, "VMREQUEST")
  BY <1>2 DEF Has
<1>5. \A x \in Proc : isempty(k', x) <=> isempty(k, x)
  BY <1>3 DEF isempty
<1>6. Dead(k')
  <2> SUFFICES ASSUME NEW x \in Proc, isempty(k', x)
               PROVE  /\ k'.rts[x] = {"SLOT_FREE"} /\ x # Manager
                      /\ k'.pending[x] = {} /\ k'.note[x] = {} /\ k'.asyn[x] = {}
    BY DEF Dead
  <2>1. /\ k.rts[x] = {"SLOT_FREE"} /\ x # Manager
        /\ k.pending[x] = {} /\ k.note[x] = {} /\ k.asyn[x] = {}
    BY <1>0, <1>5 DEF Parts, Dead
  <2> QED BY <1>1, <1>2, <2>1
<1>7. Saved(k') /\ Managed(k') /\ Forgotten(k')
  BY <1>0, <1>1, <1>4, <1>5 DEF Parts, Saved, Managed, Forgotten
<1>8. Blocked(k')
  BY <1>0, <1>1, <1>3, <1>5 DEF Parts, Blocked
<1>9. Waits(k')
  BY <1>0, <1>1, <1>3, Names DEF Parts, Waits
<1>10. Queued(k')
  BY <1>0, <1>1, <1>3, QueuedSame DEF Parts
<1>11. Stopped(k') /\ Listens(k')
  BY <1>0, <1>1, <1>3 DEF Parts, Stopped, Listens, Told
<1> QED BY <1>0, <1>1, <1>6, <1>7, <1>8, <1>9, <1>10, <1>11 DEF Calm, Inv, Parts

LEMMA SignalActionsKeep ==
  ASSUME Inv(k), NEW p \in Proc, Exception(p) \/ Kill(p)
  PROVE  Inv(k')
<1>1. CASE Exception(p)
  <2>1. k.rts[p] = {} /\ CanSignal
    BY <1>1 DEF Exception, Runs
  <2> QED BY <1>1, <2>1, RunsLive, SegvKeeps DEF Exception
<1>2. CASE Kill(p)
  <2>1. Inv(Spend(k)) /\ Spend(k).rts = k.rts
    BY <1>2, SpendKeeps DEF CanSignal, Kill
  <2>2. ~isempty(Spend(k), p) /\ "SIGUSR" \in Sig /\ ~SIGS_IS_LETHAL("SIGUSR")
    BY <1>2, <2>1 DEF isempty, Has, Sig, SIGS_IS_LETHAL, Kill
  <2> QED BY <1>2, <2>1, <2>2, CauseSigKeeps DEF Kill
<1> QED BY <1>1, <1>2

\* A step that only blocks or unblocks live processes.
LEMMA BlockKeeps ==
  ASSUME NEW s, Inv(s), NEW w \in State, SameElse(s, w), Blocked(w), Waits(w), Queued(w),
         \A p \in Proc : \A f : f \notin {"SENDING", "RECEIVING"} =>
           (Has(w, p, f) <=> Has(s, p, f)),
         \A p \in Proc : isempty(s, p) => w.rts[p] = s.rts[p]
  PROVE  Inv(w)
<1>0. /\ s \in State /\ Calm(s) /\ Parts(s) /\ Listens(s)
      /\ w.note = s.note /\ w.asyn = s.asyn /\ w.pending = s.pending /\ w.mgr = s.mgr
      /\ w.bak = s.bak /\ w.resume = s.resume /\ w.saved = s.saved /\ w.ksig = s.ksig
      /\ w.job = s.job /\ w.panic = s.panic
  BY DEF Inv, Parts, SameElse
<1>1. \A p \in Proc : isempty(w, p) <=> isempty(s, p)
  BY DEF isempty
<1>2. Dead(w) /\ Managed(w) /\ Forgotten(w)
  BY <1>0, <1>1 DEF Parts, Dead, Managed, Forgotten
<1>3. Saved(w)
  BY <1>0, <1>1 DEF Parts, Saved
<1>4. Stopped(w) /\ Listens(w)
  BY <1>0 DEF Parts, Stopped, Listens, Told
<1> QED BY <1>0, <1>2, <1>3, <1>4 DEF Calm, Inv, Parts

LEMMA DelayKeeps ==
  ASSUME Inv(k), NEW p \in Proc, Delay(p) \/ ClearRefs(p)
  PROVE  Inv(k')
<1>1. CASE Delay(p)
  <2>0. k \in State
    BY DEF Inv, Parts
  <2>1. /\ k' \in State /\ k'.panic = k.panic
        /\ k'.rts = k.rts /\ k'.saved = k.saved /\ k'.resume = k.resume
        /\ k'.from = k.from /\ k'.to = k.to /\ k'.q = k.q /\ k'.note = k.note
        /\ k'.asyn = k.asyn /\ k'.pending = k.pending /\ k'.mgr = k.mgr
        /\ k'.bak = k.bak /\ k'.ksig = k.ksig /\ k'.job = k.job
    BY <1>1, <2>0 DEF Delay, State
  <2> QED BY <2>1, SpareFields
<1>2. CASE ClearRefs(p)
  BY <1>2, RefsKeeps DEF ClearRefs
<1> QED BY <1>1, <1>2

LEMMA ForkKeeps ==
  ASSUME Inv(k), NEW p \in Proc, Fork(p)
  PROVE  Inv(k')
<1>0. k \in State /\ Calm(k) /\ Parts(k) /\ Listens(k) /\ isempty(k, p)
  BY DEF Inv, Parts, Fork
<1>1. /\ k' \in State /\ k'.rts = [k.rts EXCEPT ![p] = {}]
      /\ k'.mgr = [k.mgr EXCEPT ![p] = Manager] /\ k'.bak = [k.bak EXCEPT ![p] = NONE]
      /\ k'.saved = k.saved /\ k'.resume = k.resume
      /\ k'.from = k.from /\ k'.to = k.to /\ k'.q = k.q /\ k'.note = k.note
      /\ k'.asyn = k.asyn /\ k'.pending = k.pending
      /\ k'.ksig = k.ksig /\ k'.job = k.job /\ k'.panic = k.panic
  BY <1>0, Names DEF State, Fork
<1>2. \A x \in Proc : /\ k'.rts[x] = IF x = p THEN {} ELSE k.rts[x]
                      /\ k'.mgr[x] = IF x = p THEN Manager ELSE k.mgr[x]
                      /\ x # p => k'.bak[x] = k.bak[x]
  <2>1. DOMAIN k.rts = Proc /\ DOMAIN k.mgr = Proc /\ DOMAIN k.bak = Proc
    BY <1>0 DEF State
  <2> QED BY <1>1, <2>1
<1>3. k.rts[p] = {"SLOT_FREE"} /\ p # Manager /\ k.pending[p] = {}
  BY <1>0 DEF Parts, Dead
<1>4. \A x \in Proc : \A f : f # "SLOT_FREE" => (Has(k', x, f) <=> Has(k, x, f))
  BY <1>2, <1>3 DEF Has
<1>5. \A x \in Proc : isempty(k', x) <=> x # p /\ isempty(k, x)
  BY <1>2 DEF isempty, Has
<1>6. Dead(k')
  BY <1>0, <1>1, <1>2, <1>5 DEF Parts, Dead
<1>7. Saved(k') /\ Forgotten(k')
  BY <1>0, <1>1, <1>4, <1>5 DEF Parts, Saved, Forgotten
<1>8. Managed(k')
  BY <1>0, <1>2, <1>3, Names DEF Parts, Managed
<1>9. Blocked(k')
  BY <1>0, <1>1, <1>4, <1>5 DEF Parts, Blocked
<1>10. Waits(k')
  BY <1>0, <1>1, <1>4, Names DEF Parts, Waits
<1>11. Queued(k')
  BY <1>0, <1>1, <1>4, QueuedSame DEF Parts
<1>12. Stopped(k')
  <2> SUFFICES ASSUME NEW x \in Proc
               PROVE  /\ k'.pending[x] # {} => Has(k', x, "SIGNALED")
                      /\ Has(k', x, "SIGNALED") => /\ Has(k', x, "SIG_PENDING")
                                                   /\ k'.mgr[x] = Manager
                      /\ Has(k', x, "SIG_PENDING") => Has(k', x, "SIGNALED") \/ k'.job = x
    BY DEF Stopped
  <2>1. CASE x = p
    BY <1>1, <1>2, <1>3, <2>1 DEF Has
  <2>2. CASE x # p
    BY <1>0, <1>1, <1>2, <1>4, <2>2 DEF Parts, Stopped
  <2> QED BY <2>1, <2>2
<1>13. Listens(k')
  BY <1>0, <1>1, <1>4 DEF Listens, Told
<1> QED BY <1>0, <1>1, <1>6, <1>7, <1>8, <1>9, <1>10, <1>11, <1>12, <1>13 DEF Calm, Inv, Parts

\* Who waits for a message can be sent one.
LEMMA ReceiverKeeps ==
  ASSUME NEW s, Inv(s), NEW t \in Proc, NEW src, Has(s, t, "RECEIVING")
  PROVE  Inv(Deliver(s, t, src))
<1>1. Parts(s) /\ Listens(s)
  BY DEF Inv
<1>2. t = Manager => s.job = NONE
  BY <1>1 DEF Parts, Waits
<1>3. Keeps3(s, Deliver(s, t, src))
  BY <1>1, <1>2, DeliverKeeps
<1> QED BY <1>1, <1>3, KeepsListens

LEMMA AsyncKeeps ==
  ASSUME Inv(k), NEW p \in Proc, NEW t \in Proc, AsyncSend(p, t) \/ Reply(t)
  PROVE  Inv(k')
<1>0. k \in State /\ Calm(k) /\ Parts(k) /\ Listens(k)
  BY DEF Inv, Parts
<1>1. CASE Reply(t)
  BY <1>1, ReceiverKeeps DEF Reply, WillReceive
<1>2. CASE AsyncSend(p, t)
  <2>1. p \in System /\ t \in System /\ ~isempty(k, t) /\ ~isempty(k, p)
    BY <1>2, RunsLive DEF AsyncSend, Runs
  <2>2. CASE k' = mini_notify(k, p, t)
    <3>1. Keeps3(k, mini_notify(k, p, t))
      BY <1>0, <2>1, NotifyKeeps
    <3> QED BY <1>0, <2>2, <3>1, KeepsListens
  <2>3. CASE WillReceive(k, t, p) /\ k' = Deliver(k, t, p)
    BY <2>3, ReceiverKeeps DEF WillReceive
  <2>4. CASE k' = [k EXCEPT !.asyn[t] = @ \cup {p}]
    <3>1. k.asyn \in [Proc -> SUBSET System]
      BY <1>0 DEF State
    <3> DEFINE a == [k.asyn EXCEPT ![t] = k.asyn[t] \cup {p}]
    <3>2. k' = [k EXCEPT !.asyn = a]
      BY <1>0, <2>4 DEF State
    <3>3. /\ a \in [Proc -> SUBSET System]
          /\ \A x \in Proc : a[x] = IF x = t THEN k.asyn[x] \cup {p} ELSE k.asyn[x]
      BY <2>1, <3>1
    <3> HIDE DEF a
    <3>4. /\ k' \in State /\ k'.asyn = a
          /\ k'.rts = k.rts /\ k'.saved = k.saved /\ k'.resume = k.resume
          /\ k'.from = k.from /\ k'.to = k.to /\ k'.q = k.q /\ k'.note = k.note
          /\ k'.pending = k.pending /\ k'.mgr = k.mgr /\ k'.bak = k.bak
          /\ k'.ksig = k.ksig /\ k'.job = k.job /\ k'.panic = k.panic
      BY <1>0, <3>2, <3>3 DEF State
    <3>5. Dead(k') /\ Forgotten(k')
      BY <1>0, <2>1, <3>3, <3>4 DEF Parts, Dead, Forgotten, isempty, Has
    <3>6. /\ Saved(k') /\ Managed(k') /\ Blocked(k') /\ Waits(k') /\ Queued(k')
          /\ Stopped(k') /\ Listens(k')
      BY <1>0, <3>4 DEF Parts, Saved, Managed, Blocked, Waits, Queued, Stopped, Listens,
                       Told, isempty, Has
    <3> QED BY <1>0, <3>4, <3>5, <3>6 DEF Calm, Inv, Parts
  <2> QED BY <1>2, <2>2, <2>3, <2>4 DEF AsyncSend
<1> QED BY <1>1, <1>2

\* p blocks for a message of src.
LEMMA RecvBlock ==
  ASSUME NEW s, Inv(s), NEW p \in Proc, s.rts[p] = {}, NEW src \in Proc \cup {ANY},
         p # src, src \in Proc => ~isempty(s, src),
         p = Manager => src = ANY /\ s.job = NONE /\ SYSTEM \notin s.note[p]
  PROVE  Inv([RTS_SET(s, p, {"RECEIVING"}) EXCEPT !.from[p] = src])
<1> DEFINE w == [RTS_SET(s, p, {"RECEIVING"}) EXCEPT !.from[p] = src]
<1>0. s \in State /\ Blocked(s) /\ Waits(s) /\ Queued(s)
  BY DEF Inv, Parts
<1>1. /\ w \in State /\ SameElse(s, w) /\ w.q = s.q /\ w.to = s.to
      /\ w.rts = [s.rts EXCEPT ![p] = @ \cup {"RECEIVING"}]
      /\ w.from = [s.from EXCEPT ![p] = src]
  <2> DEFINE r == [s.rts EXCEPT ![p] = s.rts[p] \cup {"RECEIVING"}]
             g == [s.from EXCEPT ![p] = src]
  <2>1. w = [s EXCEPT !.rts = r, !.from = g]
    BY <1>0 DEF RTS_SET, State
  <2>2. r \in [Proc -> SUBSET Flag] /\ g \in [Proc -> Proc \cup {ANY, NONE}]
    <3>1. s.rts \in [Proc -> SUBSET Flag] /\ s.from \in [Proc -> Proc \cup {ANY, NONE}]
      BY <1>0 DEF State
    <3>2. "RECEIVING" \in Flag
      BY DEF Flag
    <3> QED BY <3>1, <3>2
  <2> HIDE DEF r, g, w
  <2>3. /\ w \in State /\ SameElse(s, w) /\ w.q = s.q /\ w.to = s.to /\ w.rts = r
        /\ w.from = g
    BY <1>0, <2>1, <2>2 DEF State, SameElse
  <2> QED BY <2>3 DEF r, g
<1> HIDE DEF w
<1>2. \A x \in Proc : /\ w.rts[x] = IF x = p THEN {"RECEIVING"} ELSE s.rts[x]
                      /\ w.from[x] = IF x = p THEN src ELSE s.from[x]
  <2>1. DOMAIN s.rts = Proc /\ DOMAIN s.from = Proc
    BY <1>0 DEF State
  <2> QED BY <1>1, <2>1
<1>3. \A x \in Proc : \A f : f # "RECEIVING" => (Has(w, x, f) <=> Has(s, x, f))
  BY <1>2 DEF Has
<1>4. \A x \in Proc : x # p => (Has(w, x, "RECEIVING") <=> Has(s, x, "RECEIVING"))
  BY <1>2 DEF Has
<1>5. ~Has(s, p, "SENDING") /\ ~isempty(s, p)
  BY DEF Has, isempty
<1>6. \A x \in Proc : isempty(w, x) <=> isempty(s, x)
  BY <1>3 DEF isempty
<1>7. Blocked(w)
  <2> SUFFICES ASSUME NEW x \in Proc
               PROVE  /\ Has(w, x, "SENDING") => /\ w.to[x] \in Proc /\ w.to[x] # x
                                                 /\ x # Manager /\ ~isempty(w, w.to[x])
                      /\ Has(w, x, "RECEIVING") =>
                           /\ w.from[x] # x /\ w.from[x] # NONE
                           /\ w.from[x] \in Proc => ~isempty(w, w.from[x])
                      /\ Has(w, x, "SENDING") /\ Has(w, x, "RECEIVING") => w.from[x] = w.to[x]
    BY DEF Blocked
  <2>1. CASE x = p
    BY <1>2, <1>3, <1>5, <1>6, <2>1, Names
  <2>2. CASE x # p
    BY <1>0, <1>1, <1>2, <1>3, <1>4, <1>6, <2>2 DEF Blocked
  <2> QED BY <2>1, <2>2
<1>8. Waits(w)
  <2>1. CASE p = Manager
    BY <1>1, <1>2, <2>1 DEF Waits, SameElse
  <2>2. CASE p # Manager
    BY <1>0, <1>1, <1>2, <1>4, <2>2, Names DEF Waits, SameElse
  <2> QED BY <2>1, <2>2
<1>9. Queued(w)
  BY <1>0, <1>1, <1>3, QueuedSame
<1>10. \A x \in Proc : isempty(s, x) => w.rts[x] = s.rts[x]
  BY <1>2, <1>5
<1>11. Inv(w)
  BY <1>1, <1>3, <1>7, <1>8, <1>9, <1>10, BlockKeeps
<1> QED BY <1>11 DEF w

\* p queues at t.
LEMMA SendBlock ==
  ASSUME NEW s, Inv(s), NEW p \in Proc, NEW t \in Proc, ~isempty(s, p), ~isempty(s, t),
         p # Manager, p # t, ~Has(s, p, "SENDING"),
         Has(s, p, "RECEIVING") => s.from[p] = t
  PROVE  Inv([RTS_SET(s, p, {"SENDING"}) EXCEPT !.to[p] = t, !.q[t] = Append(@, p)])
<1> DEFINE w == [RTS_SET(s, p, {"SENDING"}) EXCEPT !.to[p] = t, !.q[t] = Append(@, p)]
           a == s.q[t]
           b == Append(a, p)
<1>0. s \in State /\ Blocked(s) /\ Waits(s) /\ Queued(s)
  BY DEF Inv, Parts
<1>1. s.q \in [Proc -> Seq(Proc)] /\ a \in Seq(Proc)
  BY <1>0 DEF State
<1>2. /\ b \in Seq(Proc) /\ Len(a) \in Nat /\ Len(b) = Len(a) + 1 /\ b[Len(a) + 1] = p
      /\ \A i \in 1..Len(a) : b[i] = a[i] /\ a[i] \in Proc
      /\ 1..Len(b) = 1..Len(a) \cup {Len(a) + 1}
  <2> HIDE DEF a
  <2> QED BY <1>1
<1>3. /\ w \in State /\ SameElse(s, w) /\ w.from = s.from
      /\ w.rts = [s.rts EXCEPT ![p] = @ \cup {"SENDING"}]
      /\ w.to = [s.to EXCEPT ![p] = t] /\ w.q = [s.q EXCEPT ![t] = b]
  <2> DEFINE r == [s.rts EXCEPT ![p] = s.rts[p] \cup {"SENDING"}]
             g == [s.to EXCEPT ![p] = t]
             h == [s.q EXCEPT ![t] = b]
  <2>1. w = [s EXCEPT !.rts = r, !.to = g, !.q = h]
    BY <1>0 DEF RTS_SET, State
  <2>2. r \in [Proc -> SUBSET Flag] /\ g \in [Proc -> Proc \cup {NONE}]
    <3>1. s.rts \in [Proc -> SUBSET Flag] /\ s.to \in [Proc -> Proc \cup {NONE}]
      BY <1>0 DEF State
    <3>2. "SENDING" \in Flag
      BY DEF Flag
    <3> QED BY <3>1, <3>2
  <2>3. h \in [Proc -> Seq(Proc)]
    <3> HIDE DEF b
    <3> QED BY <1>1, <1>2
  <2> HIDE DEF r, g, h, w
  <2>4. /\ w \in State /\ SameElse(s, w) /\ w.from = s.from /\ w.rts = r
        /\ w.to = g /\ w.q = h
    BY <1>0, <2>1, <2>2, <2>3 DEF State, SameElse
  <2> QED BY <2>4 DEF r, g, h
<1> HIDE DEF w, b
<1>4. \A x \in Proc : /\ w.rts[x] = IF x = p THEN s.rts[x] \cup {"SENDING"} ELSE s.rts[x]
                      /\ w.to[x] = IF x = p THEN t ELSE s.to[x]
                      /\ w.q[x] = IF x = t THEN b ELSE s.q[x]
  <2>1. DOMAIN s.rts = Proc /\ DOMAIN s.to = Proc /\ DOMAIN s.q = Proc
    BY <1>0 DEF State
  <2> QED BY <1>3, <2>1
<1>5. \A x \in Proc : \A f : f # "SENDING" => (Has(w, x, f) <=> Has(s, x, f))
  <2> TAKE x \in Proc
  <2>1. CASE x = p
    <3>1. w.rts[x] = s.rts[x] \cup {"SENDING"}
      BY <1>4, <2>1
    <3> QED BY <3>1, Zenon DEF Has
  <2>2. CASE x # p
    BY <1>4, <2>2 DEF Has
  <2> QED BY <2>1, <2>2
<1>6. \A x \in Proc : Has(w, x, "SENDING") <=> x = p \/ Has(s, x, "SENDING")
  BY <1>4 DEF Has
<1>7. \A x \in Proc : isempty(w, x) <=> isempty(s, x)
  BY <1>5 DEF isempty
<1>8. Blocked(w)
  <2> SUFFICES ASSUME NEW x \in Proc
               PROVE  /\ Has(w, x, "SENDING") => /\ w.to[x] \in Proc /\ w.to[x] # x
                                                 /\ x # Manager /\ ~isempty(w, w.to[x])
                      /\ Has(w, x, "RECEIVING") =>
                           /\ w.from[x] # x /\ w.from[x] # NONE
                           /\ w.from[x] \in Proc => ~isempty(w, w.from[x])
                      /\ Has(w, x, "SENDING") /\ Has(w, x, "RECEIVING") => w.from[x] = w.to[x]
    BY DEF Blocked
  <2>1. CASE x = p
    BY <1>0, <1>3, <1>4, <1>5, <1>7, <2>1 DEF Blocked
  <2>2. CASE x # p
    BY <1>0, <1>3, <1>4, <1>5, <1>6, <1>7, <2>2 DEF Blocked
  <2> QED BY <2>1, <2>2
<1>9. Waits(w)
  BY <1>0, <1>3, <1>5, Names DEF Waits, SameElse
<1>10. \A i \in 1..Len(a) : a[i] # p /\ Has(s, a[i], "SENDING") /\ s.to[a[i]] = t
  BY <1>0 DEF Queued
<1>11. ASSUME NEW u \in Proc, NEW i \in 1..Len(w.q[u])
       PROVE  /\ Has(w, w.q[u][i], "SENDING") /\ w.to[w.q[u][i]] = u
              /\ \A j \in 1..Len(w.q[u]) : w.q[u][i] = w.q[u][j] => i = j
  <2>1. CASE u = t
    <3>1. w.q[u] = b
      BY <1>4, <2>1
    <3>2. CASE i \in 1..Len(a)
      <4>1. b[i] = a[i] /\ b[i] \in Proc /\ b[i] # p
        BY <1>2, <1>10, <3>2
      <4>2. Has(w, b[i], "SENDING") /\ w.to[b[i]] = t
        BY <1>4, <1>6, <1>10, <3>2, <4>1
      <4>3. \A j \in 1..Len(a) : a[i] = a[j] => i = j
        BY <1>0, <3>2 DEF Queued
      <4>4. \A j \in 1..Len(b) : b[i] = b[j] => i = j
        BY <1>2, <4>1, <4>3
      <4> QED BY <2>1, <3>1, <4>2, <4>4
    <3>3. CASE i = Len(a) + 1
      <4>1. b[i] = p
        BY <1>2, <3>3
      <4>2. \A j \in 1..Len(b) : b[i] = b[j] => i = j
        BY <1>2, <1>10, <3>3, <4>1
      <4>3. Has(w, b[i], "SENDING") /\ w.to[b[i]] = t
        BY <1>4, <1>6, <4>1
      <4> QED BY <2>1, <3>1, <4>2, <4>3
    <3> QED BY <1>2, <1>11, <3>1, <3>2, <3>3
  <2>2. CASE u # t
    <3>1. w.q[u] = s.q[u]
      BY <1>4, <2>2
    <3>2. s.q[u][i] \in Proc
      BY <1>1, <1>11, <3>1
    <3>3. /\ Has(s, s.q[u][i], "SENDING") /\ s.to[s.q[u][i]] = u
          /\ \A j \in 1..Len(s.q[u]) : s.q[u][i] = s.q[u][j] => i = j
      BY <1>0, <1>11, <3>1 DEF Queued
    <3>4. s.q[u][i] # p
      BY <3>3
    <3> QED BY <1>4, <1>6, <3>1, <3>2, <3>3, <3>4
  <2> QED BY <2>1, <2>2
<1>12. ASSUME NEW x \in Proc, Has(w, x, "SENDING")
       PROVE  \E i \in 1..Len(w.q[w.to[x]]) : w.q[w.to[x]][i] = x
  <2>1. CASE x = p
    <3>1. w.to[x] = t /\ w.q[t] = b
      BY <1>4, <2>1
    <3>2. Len(a) + 1 \in 1..Len(b)
      BY <1>2
    <3> QED BY <1>2, <2>1, <3>1, <3>2
  <2>2. CASE x # p
    <3>1. Has(s, x, "SENDING") /\ w.to[x] = s.to[x]
      BY <1>4, <1>6, <1>12, <2>2
    <3>2. PICK i \in 1..Len(s.q[s.to[x]]) : s.q[s.to[x]][i] = x
      BY <1>0, <3>1 DEF Queued
    <3>3. s.to[x] \in Proc
      BY <1>0, <3>1 DEF Blocked
    <3>4. CASE s.to[x] = t
      <4>1. w.q[w.to[x]] = b /\ i \in 1..Len(a) /\ a[i] = x
        BY <1>4, <3>1, <3>2, <3>4
      <4>2. i \in 1..Len(b) /\ b[i] = x
        BY <1>2, <4>1
      <4> QED BY <4>1, <4>2
    <3>5. CASE s.to[x] # t
      BY <1>4, <3>1, <3>2, <3>3, <3>5
    <3> QED BY <3>4, <3>5
  <2> QED BY <2>1, <2>2
<1>13. Queued(w)
  BY <1>11, <1>12 DEF Queued
<1>14. \A x \in Proc : isempty(s, x) => w.rts[x] = s.rts[x]
  BY <1>4
<1>15. Inv(w)
  BY <1>3, <1>5, <1>8, <1>9, <1>13, <1>14, BlockKeeps
<1> QED BY <1>15 DEF w

LEMMA SendKeeps ==
  ASSUME Inv(k), NEW p \in Proc, NEW t \in Proc, NEW rec \in BOOLEAN, Send(p, t, rec)
  PROVE  Inv(k')
<1> DEFINE u == IF rec THEN [RTS_SET(k, p, {"RECEIVING"}) EXCEPT !.from[p] = t] ELSE k
<1>0. k \in State
  BY DEF Inv, Parts
<1>1. k.rts[p] = {} /\ p # t /\ ~isempty(k, t) /\ p # Manager /\ ~isempty(k, p)
  BY RunsLive DEF Send, Runs
<1>2. k' = IF WillReceive(k, t, p) THEN Deliver(u, t, p)
           ELSE [RTS_SET(u, p, {"SENDING"}) EXCEPT !.to[p] = t, !.q[t] = Append(@, p)]
  BY DEF Send
<1>3. /\ Inv(u) /\ ~isempty(u, p) /\ ~isempty(u, t) /\ ~Has(u, p, "SENDING")
      /\ Has(u, p, "RECEIVING") => u.from[p] = t
      /\ Has(k, t, "RECEIVING") => Has(u, t, "RECEIVING")
  <2>0. k.rts \in [Proc -> SUBSET Flag] /\ DOMAIN k.from = Proc
    BY <1>0 DEF State
  <2>1. CASE rec
    <3>1. u = [RTS_SET(k, p, {"RECEIVING"}) EXCEPT !.from[p] = t]
      BY <2>1
    <3>2. Inv(u)
      BY <1>1, <3>1, RecvBlock
    <3>3. u.rts = [k.rts EXCEPT ![p] = @ \cup {"RECEIVING"}] /\ u.from[p] = t
      <4>1. u.from = [k.from EXCEPT ![p] = t]
        BY <1>0, <3>1 DEF RTS_SET, State
      <4>2. u.rts = [k.rts EXCEPT ![p] = @ \cup {"RECEIVING"}]
        BY <1>0, <3>1 DEF RTS_SET, State
      <4> QED BY <2>0, <4>1, <4>2
    <3> HIDE DEF u
    <3> QED BY <1>1, <2>0, <3>2, <3>3 DEF Has, isempty
  <2>2. CASE ~rec
    <3>1. u = k
      BY <2>2
    <3> HIDE DEF u
    <3> QED BY <1>1, <3>1 DEF Has
  <2> QED BY <2>1, <2>2
<1> HIDE DEF u
<1>4. CASE WillReceive(k, t, p)
  BY <1>2, <1>3, <1>4, ReceiverKeeps DEF WillReceive
<1>5. CASE ~WillReceive(k, t, p)
  BY <1>1, <1>2, <1>3, <1>5, SendBlock
<1> QED BY <1>4, <1>5

\* The message of c is taken from the queue of p.
LEMMA TakeKeeps ==
  ASSUME NEW s, Inv(s), NEW p \in Proc, NEW c \in Proc, Has(s, c, "SENDING"),
         s.to[c] = p
  PROVE  Inv(Take(s, p, c)) /\ ~isempty(Take(s, p, c), c)
<1> DEFINE w == Take(s, p, c)
           b == Unlink(s.q[p], {c})
<1>0. s \in State /\ Blocked(s) /\ Waits(s) /\ Queued(s) /\ Dead(s)
  BY DEF Inv, Parts
<1>1. s.q \in [Proc -> Seq(Proc)] /\ b \in Seq(Proc)
  <2>1. s.q \in [Proc -> Seq(Proc)]
    BY <1>0 DEF State
  <2>2. s.q[p] \in Seq(Proc)
    BY <2>1
  <2> QED BY <2>1, <2>2, UnlinkKeeps DEF KeptOf
<1>2. /\ w \in State /\ SameElse(s, w) /\ w.from = s.from
      /\ w.rts = [s.rts EXCEPT ![c] = @ \ {"SENDING"}]
      /\ w.to = [s.to EXCEPT ![c] = NONE] /\ w.q = [s.q EXCEPT ![p] = b]
  <2> DEFINE r == [s.rts EXCEPT ![c] = s.rts[c] \ {"SENDING"}]
             g == [s.to EXCEPT ![c] = NONE]
             h == [s.q EXCEPT ![p] = b]
  <2>1. w = [s EXCEPT !.rts = r, !.to = g, !.q = h]
    BY <1>0 DEF RTS_UNSET, State, Take
  <2>2. r \in [Proc -> SUBSET Flag] /\ g \in [Proc -> Proc \cup {NONE}]
    <3>1. s.rts \in [Proc -> SUBSET Flag] /\ s.to \in [Proc -> Proc \cup {NONE}]
      BY <1>0 DEF State
    <3> QED BY <3>1
  <2>3. h \in [Proc -> Seq(Proc)]
    <3> HIDE DEF b
    <3> QED BY <1>1
  <2> HIDE DEF r, g, h, w
  <2>4. /\ w \in State /\ SameElse(s, w) /\ w.from = s.from /\ w.rts = r
        /\ w.to = g /\ w.q = h
    BY <1>0, <2>1, <2>2, <2>3 DEF State, SameElse
  <2> QED BY <2>4 DEF r, g, h
<1> HIDE DEF w
<1>3. \A x \in Proc : /\ w.rts[x] = IF x = c THEN s.rts[x] \ {"SENDING"} ELSE s.rts[x]
                      /\ x # c => w.to[x] = s.to[x]
  <2>1. DOMAIN s.rts = Proc /\ DOMAIN s.to = Proc
    BY <1>0 DEF State
  <2> QED BY <1>2, <2>1
<1>4. \A x \in Proc : \A f : f # "SENDING" => (Has(w, x, f) <=> Has(s, x, f))
  BY <1>3 DEF Has
<1>5. \A x \in Proc : Has(w, x, "SENDING") <=> Has(s, x, "SENDING") /\ x \notin {c}
  BY <1>3 DEF Has
<1>6. \A x \in Proc : isempty(w, x) <=> isempty(s, x)
  BY <1>4 DEF isempty
<1>7. ~isempty(s, c)
  BY <1>0 DEF Dead, Has
<1>8. Blocked(w)
  BY <1>0, <1>2, <1>3, <1>4, <1>5, <1>6 DEF Blocked
<1>9. Waits(w)
  BY <1>0, <1>2, <1>4, Names DEF Waits, SameElse
<1>10. Queued(w)
  <2>1. \A x \in {c} : x \in Proc /\ Has(s, x, "SENDING") /\ s.to[x] = p
    OBVIOUS
  <2>2. \A x \in Proc : Has(w, x, "SENDING") => w.to[x] = s.to[x]
    BY <1>3, <1>5
  <2>3. w \in State /\ w.q = [s.q EXCEPT ![p] = Unlink(s.q[p], {c})]
    BY <1>2
  <2> QED BY <1>0, <1>5, <2>1, <2>2, <2>3, QueuedUnlink
<1>11. \A x \in Proc : isempty(s, x) => w.rts[x] = s.rts[x]
  BY <1>3, <1>7
<1>12. Inv(w)
  BY <1>2, <1>4, <1>8, <1>9, <1>10, <1>11, BlockKeeps
<1>13. ~isempty(w, c)
  BY <1>6, <1>7
<1> QED BY <1>12, <1>13 DEF w

\* A notification is taken; the kernel's sends the manager into its loop.
LEMMA TakeNoteKeeps ==
  ASSUME NEW s, Inv(s), NEW p \in Proc, p = Manager => s.job = NONE, NEW x
  PROVE  Inv(Deliver([s EXCEPT !.note[p] = @ \ {x}], p, x))
<1> DEFINE u == [s EXCEPT !.note[p] = @ \ {x}]
<1>0. s \in State /\ Calm(s) /\ Parts(s) /\ Listens(s)
  BY DEF Inv, Parts
<1>1. /\ u \in State /\ u.note = [s.note EXCEPT ![p] = @ \ {x}]
      /\ u.rts = s.rts /\ u.saved = s.saved /\ u.resume = s.resume
      /\ u.from = s.from /\ u.to = s.to /\ u.q = s.q /\ u.asyn = s.asyn
      /\ u.pending = s.pending /\ u.mgr = s.mgr /\ u.bak = s.bak
      /\ u.ksig = s.ksig /\ u.job = s.job /\ u.panic = s.panic
  BY <1>0 DEF State
<1> HIDE DEF u
<1>2. \A y \in Proc : u.note[y] = IF y = p THEN s.note[y] \ {x} ELSE s.note[y]
  <2>1. DOMAIN s.note = Proc
    BY <1>0 DEF State
  <2> QED BY <1>1, <2>1
<1>3. Dead(u) /\ Forgotten(u) /\ Waits(u)
  BY <1>0, <1>1, <1>2, Names DEF Parts, Dead, Forgotten, Waits, isempty, Has
<1>4. Saved(u) /\ Managed(u) /\ Blocked(u) /\ Queued(u) /\ Stopped(u)
  BY <1>0, <1>1 DEF Parts, Saved, Managed, Blocked, Queued, Stopped, isempty, Has
<1>5. Parts(u)
  BY <1>0, <1>1, <1>3, <1>4 DEF Calm, Parts
<1>6. p = Manager => u.job = NONE
  BY <1>1
<1>7. /\ Keeps3(u, Deliver(u, p, x))
      /\ x = SYSTEM /\ p = Manager /\ u.ksig[p] => Told(Deliver(u, p, x))
  BY <1>5, <1>6, DeliverKeeps
<1>8. Told(s) => Told(Deliver(u, p, x))
  <2>1. CASE x = SYSTEM /\ p = Manager
    <3>1. Told(s) => u.ksig[p]
      BY <1>1, <2>1 DEF Told
    <3> QED BY <1>7, <2>1, <3>1
  <2>2. CASE ~(x = SYSTEM /\ p = Manager)
    <3>1. Told(s) => Told(u)
      BY <1>1, <1>2, <2>2, Names DEF Told
    <3> QED BY <1>7, <3>1 DEF Keeps3
  <2> QED BY <2>1, <2>2
<1>9. Inv(Deliver(u, p, x))
  BY <1>0, <1>1, <1>7, <1>8 DEF Inv, Keeps3, Listens, Has
<1> QED BY <1>9 DEF u

LEMMA ReceiveKeeps ==
  ASSUME Inv(k), NEW p \in Proc, NEW src \in Proc \cup {ANY}, Receive(p, src)
  PROVE  Inv(k')
<1> DEFINE ok(x) == src \in {ANY, x}
           notes == {x \in k.note[p] : ok(x)}
           asyns == {x \in k.asyn[p] : ok(x)}
<1>0. k \in State /\ Calm(k) /\ Parts(k) /\ Listens(k)
  BY DEF Inv, Parts
<1>1. /\ k.rts[p] = {} /\ p # src
      /\ src \in Proc => ~isempty(k, src)
      /\ p = Manager => src = ANY /\ k.job = NONE
  BY DEF Receive, Runs
<1>2. CASE \E x \in notes : k' = Deliver([k EXCEPT !.note[p] = @ \ {x}], p, x)
  BY <1>1, <1>2, TakeNoteKeeps
<1>3. CASE \E x \in asyns : k' = [k EXCEPT !.asyn[p] = @ \ {x}]
  <2>1. PICK x : k' = [k EXCEPT !.asyn[p] = @ \ {x}]
    BY <1>3
  <2>2. /\ k' \in State /\ k'.asyn = [k.asyn EXCEPT ![p] = @ \ {x}]
        /\ k'.rts = k.rts /\ k'.saved = k.saved /\ k'.resume = k.resume
        /\ k'.from = k.from /\ k'.to = k.to /\ k'.q = k.q /\ k'.note = k.note
        /\ k'.pending = k.pending /\ k'.mgr = k.mgr /\ k'.bak = k.bak
        /\ k'.ksig = k.ksig /\ k'.job = k.job /\ k'.panic = k.panic
    BY <1>0, <2>1 DEF State
  <2>3. \A y \in Proc : k'.asyn[y] \subseteq k.asyn[y]
    <3>1. DOMAIN k.asyn = Proc
      BY <1>0 DEF State
    <3> QED BY <2>2, <3>1
  <2>4. Dead(k') /\ Forgotten(k')
    BY <1>0, <2>2, <2>3 DEF Parts, Dead, Forgotten, isempty, Has
  <2>5. /\ Saved(k') /\ Managed(k') /\ Blocked(k') /\ Waits(k') /\ Queued(k')
        /\ Stopped(k') /\ Listens(k')
    BY <1>0, <2>2 DEF Parts, Saved, Managed, Blocked, Waits, Queued, Stopped, Listens,
                     Told, isempty, Has
  <2> QED BY <1>0, <2>2, <2>4, <2>5 DEF Calm, Inv, Parts
<1>4. CASE \E i \in DOMAIN k.q[p] : k' = sig_delay_done(Take(k, p, k.q[p][i]), k.q[p][i])
  <2>1. PICK i \in DOMAIN k.q[p] : k' = sig_delay_done(Take(k, p, k.q[p][i]), k.q[p][i])
    BY <1>4
  <2>2. k.q[p] \in Seq(Proc)
    BY <1>0 DEF State
  <2>3. i \in 1..Len(k.q[p]) /\ k.q[p][i] \in Proc
    BY <2>1, <2>2
  <2>4. Has(k, k.q[p][i], "SENDING") /\ k.to[k.q[p][i]] = p
    BY <1>0, <2>3 DEF Parts, Queued
  <2> QED BY <2>1, <2>3, <2>4, TakeKeeps, DelayDoneKeeps
<1>5. CASE /\ notes \cup asyns = {}
           /\ k' = [RTS_SET(k, p, {"RECEIVING"}) EXCEPT !.from[p] = src]
  <2>1. p = Manager => src = ANY /\ k.job = NONE /\ SYSTEM \notin k.note[p]
    BY <1>1, <1>5
  <2> QED BY <1>1, <1>5, <2>1, RecvBlock
<1> QED BY <1>2, <1>3, <1>4, <1>5 DEF Receive

\* sys_getksig: the signals of one process are taken, or the loop ends with
\* none left.
LEMMA GetKsigKeeps ==
  ASSUME Inv(k), GetKsig
  PROVE  Inv(k')
<1>0. k \in State /\ Calm(k) /\ Parts(k) /\ Listens(k)
  BY DEF Inv, Parts
<1>1. k.rts[Manager] = {} /\ k.job = ANY
  BY DEF GetKsig, Runs
<1>2. CASE \E p \in Signaled(k, Manager) :
             k' = [RTS_UNSET(k, p, {"SIGNALED"}) EXCEPT !.pending[p] = {}, !.job = p]
  <2>1. PICK p \in Signaled(k, Manager) :
             k' = [RTS_UNSET(k, p, {"SIGNALED"}) EXCEPT !.pending[p] = {}, !.job = p]
    BY <1>2
  <2>2. p \in Proc
    BY <2>1 DEF Signaled
  <2>3. /\ k' \in State /\ k'.rts = [k.rts EXCEPT ![p] = @ \ {"SIGNALED"}]
        /\ k'.pending = [k.pending EXCEPT ![p] = {}] /\ k'.job = p
        /\ k'.saved = k.saved /\ k'.resume = k.resume
        /\ k'.from = k.from /\ k'.to = k.to /\ k'.q = k.q /\ k'.note = k.note
        /\ k'.asyn = k.asyn /\ k'.mgr = k.mgr /\ k'.bak = k.bak
        /\ k'.ksig = k.ksig /\ k'.panic = k.panic
    BY <1>0, <2>1, <2>2 DEF State, RTS_UNSET
  <2>4. \A x \in Proc : /\ k'.rts[x] = IF x = p THEN k.rts[x] \ {"SIGNALED"} ELSE k.rts[x]
                        /\ k'.pending[x] = IF x = p THEN {} ELSE k.pending[x]
    <3>1. DOMAIN k.rts = Proc /\ DOMAIN k.pending = Proc
      BY <1>0 DEF State
    <3> QED BY <2>3, <3>1
  <2>5. \A x \in Proc : \A f : f # "SIGNALED" => (Has(k', x, f) <=> Has(k, x, f))
    BY <2>4 DEF Has
  <2>6. \A x \in Proc : Has(k', x, "SIGNALED") <=> x # p /\ Has(k, x, "SIGNALED")
    BY <2>4 DEF Has
  <2>7. \A x \in Proc : isempty(k', x) <=> isempty(k, x)
    BY <2>5 DEF isempty
  <2>8. Dead(k')
    <3> SUFFICES ASSUME NEW x \in Proc, isempty(k', x)
                 PROVE  /\ k'.rts[x] = {"SLOT_FREE"} /\ x # Manager
                        /\ k'.pending[x] = {} /\ k'.note[x] = {} /\ k'.asyn[x] = {}
      BY DEF Dead
    <3>1. /\ k.rts[x] = {"SLOT_FREE"} /\ x # Manager
          /\ k.pending[x] = {} /\ k.note[x] = {} /\ k.asyn[x] = {}
      BY <1>0, <2>7 DEF Parts, Dead
    <3> QED BY <2>3, <2>4, <3>1
  <2>9. Saved(k') /\ Managed(k') /\ Forgotten(k')
    BY <1>0, <2>3, <2>5, <2>7 DEF Parts, Saved, Managed, Forgotten
  <2>10. Blocked(k')
    BY <1>0, <2>3, <2>5, <2>7 DEF Parts, Blocked
  <2>11. Waits(k')
    BY <1>1, <2>5, Names DEF Waits, Has
  <2>12. Queued(k')
    BY <1>0, <2>3, <2>5, QueuedSame DEF Parts
  <2>13. Stopped(k')
    <3> SUFFICES ASSUME NEW x \in Proc
                 PROVE  /\ k'.pending[x] # {} => Has(k', x, "SIGNALED")
                        /\ Has(k', x, "SIGNALED") => /\ Has(k', x, "SIG_PENDING")
                                                     /\ k'.mgr[x] = Manager
                        /\ Has(k', x, "SIG_PENDING") => Has(k', x, "SIGNALED") \/ k'.job = x
      BY DEF Stopped
    <3>1. CASE x = p
      BY <2>3, <2>4, <2>6, <3>1
    <3>2. CASE x # p
      <4>1. k.job # x
        BY <1>1, Names
      <4> QED BY <1>0, <2>3, <2>4, <2>5, <2>6, <3>2, <4>1 DEF Parts, Stopped
    <3> QED BY <3>1, <3>2
  <2>14. Listens(k')
    BY <2>2, <2>3, Names DEF Listens, Told
  <2> QED BY <1>0, <2>3, <2>8, <2>9, <2>10, <2>11, <2>12, <2>13, <2>14 DEF Calm, Inv, Parts
<1>3. CASE Signaled(k, Manager) = {} /\ k' = [k EXCEPT !.job = NONE]
  <2>1. /\ k' \in State /\ k'.job = NONE /\ k'.rts = k.rts
        /\ k'.saved = k.saved /\ k'.resume = k.resume
        /\ k'.from = k.from /\ k'.to = k.to /\ k'.q = k.q /\ k'.note = k.note
        /\ k'.asyn = k.asyn /\ k'.pending = k.pending /\ k'.mgr = k.mgr /\ k'.bak = k.bak
        /\ k'.ksig = k.ksig /\ k'.panic = k.panic
    BY <1>0, <1>3 DEF State
  <2>2. \A p \in Proc : ~Has(k, p, "SIGNALED")
    BY <1>0, <1>3 DEF Signaled, Parts, Stopped
  <2>3. Listens(k')
    BY <2>1, <2>2 DEF Listens, Has
  <2>4. Stopped(k')
    BY <1>0, <1>1, <2>1, <2>2, Names DEF Parts, Stopped, Has
  <2>5. Waits(k')
    BY <1>1, <2>1 DEF Waits, Has
  <2>6. /\ Dead(k') /\ Saved(k') /\ Managed(k') /\ Blocked(k') /\ Forgotten(k')
        /\ Queued(k')
    BY <1>0, <2>1 DEF Parts, Dead, Saved, Managed, Blocked, Forgotten, Queued, isempty, Has
  <2> QED BY <1>0, <2>1, <2>3, <2>4, <2>5, <2>6 DEF Calm, Inv, Parts
<1> QED BY <1>2, <1>3 DEF GetKsig

\* sys_endksig: the process the manager has finished with runs again.
LEMMA EndKsigKeeps ==
  ASSUME Inv(k), EndKsig
  PROVE  Inv(k')
<1> DEFINE p == k.job
           again == ~isempty(k, p) /\ Has(k, p, "SIG_PENDING") /\ ~Has(k, p, "SIGNALED")
           u == IF again THEN RTS_UNSET(k, p, {"SIG_PENDING"}) ELSE k
<1>0. k \in State /\ Calm(k) /\ Parts(k) /\ Listens(k)
  BY DEF Inv, Parts
<1>1. k.rts[Manager] = {} /\ p \in Proc /\ k' = [u EXCEPT !.job = ANY]
  BY DEF EndKsig, Runs
<1> HIDE DEF p
<1>2. /\ u \in State /\ SameElse(k, u) /\ u.from = k.from /\ u.to = k.to /\ u.q = k.q
      /\ u.rts = IF again THEN [k.rts EXCEPT ![p] = @ \ {"SIG_PENDING"}] ELSE k.rts
  <2>1. CASE again
    <3> HIDE DEF again
    <3> QED BY <1>0, <1>1, <2>1 DEF State, RTS_UNSET, SameElse
  <2>2. CASE ~again
    <3> HIDE DEF again
    <3> QED BY <1>0, <2>2 DEF SameElse
  <2> QED BY <2>1, <2>2
<1> HIDE DEF u
<1>3. /\ k' \in State /\ k'.job = ANY /\ k'.rts = u.rts
      /\ k'.saved = k.saved /\ k'.resume = k.resume
      /\ k'.from = k.from /\ k'.to = k.to /\ k'.q = k.q /\ k'.note = k.note
      /\ k'.asyn = k.asyn /\ k'.pending = k.pending /\ k'.mgr = k.mgr /\ k'.bak = k.bak
      /\ k'.ksig = k.ksig /\ k'.panic = k.panic
  BY <1>1, <1>2 DEF State, SameElse
<1>4. \A x \in Proc :
        k'.rts[x] = IF x = p /\ again THEN k.rts[x] \ {"SIG_PENDING"} ELSE k.rts[x]
  <2>1. DOMAIN k.rts = Proc
    BY <1>0 DEF State
  <2> HIDE DEF again
  <2> QED BY <1>2, <1>3, <2>1
<1>5. \A x \in Proc : \A f : f # "SIG_PENDING" => (Has(k', x, f) <=> Has(k, x, f))
  <2> HIDE DEF again
  <2> QED BY <1>4 DEF Has
<1>6. \A x \in Proc : x # p => (Has(k', x, "SIG_PENDING") <=> Has(k, x, "SIG_PENDING"))
  <2> HIDE DEF again
  <2> QED BY <1>4 DEF Has
<1>7. again => ~Has(k', p, "SIG_PENDING")
  <2> HIDE DEF again
  <2>1. again => k'.rts[p] = k.rts[p] \ {"SIG_PENDING"}
    BY <1>1, <1>4
  <2> QED BY <2>1 DEF Has
<1>8. ~again => k'.rts[p] = k.rts[p]
  <2> HIDE DEF again
  <2> QED BY <1>1, <1>4
<1>9. \A x \in Proc : isempty(k', x) <=> isempty(k, x)
  BY <1>5 DEF isempty
<1>10. Dead(k')
  <2> SUFFICES ASSUME NEW x \in Proc, isempty(k', x)
               PROVE  /\ k'.rts[x] = {"SLOT_FREE"} /\ x # Manager
                      /\ k'.pending[x] = {} /\ k'.note[x] = {} /\ k'.asyn[x] = {}
    BY DEF Dead
  <2>1. /\ k.rts[x] = {"SLOT_FREE"} /\ x # Manager
        /\ k.pending[x] = {} /\ k.note[x] = {} /\ k.asyn[x] = {}
    BY <1>0, <1>9 DEF Parts, Dead
  <2> HIDE DEF again
  <2> QED BY <1>3, <1>4, <2>1
<1>11. Saved(k') /\ Managed(k') /\ Forgotten(k')
  BY <1>0, <1>3, <1>5, <1>9 DEF Parts, Saved, Managed, Forgotten
<1>12. Blocked(k')
  BY <1>0, <1>3, <1>5, <1>9 DEF Parts, Blocked
<1>13. Waits(k')
  BY <1>1, <1>5, Names DEF Waits, Has
<1>14. Queued(k')
  BY <1>0, <1>3, <1>5, QueuedSame DEF Parts
<1>15. Stopped(k')
  <2> SUFFICES ASSUME NEW x \in Proc
               PROVE  /\ k'.pending[x] # {} => Has(k', x, "SIGNALED")
                      /\ Has(k', x, "SIGNALED") => /\ Has(k', x, "SIG_PENDING")
                                                   /\ k'.mgr[x] = Manager
                      /\ Has(k', x, "SIG_PENDING") => Has(k', x, "SIGNALED") \/ k'.job = x
    BY DEF Stopped
  <2>0. /\ k.pending[x] # {} => Has(k, x, "SIGNALED")
        /\ Has(k, x, "SIGNALED") => Has(k, x, "SIG_PENDING") /\ k.mgr[x] = Manager
        /\ Has(k, x, "SIG_PENDING") => Has(k, x, "SIGNALED") \/ p = x
    BY <1>0 DEF Parts, Stopped, p
  <2>1. CASE x # p
    BY <1>3, <1>5, <1>6, <2>0, <2>1
  <2>2. CASE x = p /\ again
    <3>1. ~Has(k, x, "SIGNALED") /\ ~Has(k', x, "SIG_PENDING")
      BY <1>7, <2>2
    <3> HIDE DEF again
    <3> QED BY <1>3, <1>5, <2>0, <3>1
  <2>3. CASE x = p /\ ~again
    <3>1. \A f : Has(k', x, f) <=> Has(k, x, f)
      BY <1>8, <2>3 DEF Has
    <3>2. Has(k, x, "SIG_PENDING") => Has(k, x, "SIGNALED")
      <4>1. Has(k, x, "SIG_PENDING") => ~isempty(k, x)
        BY <1>0 DEF Parts, Dead, Has
      <4> QED BY <2>3, <4>1
    <3> HIDE DEF again
    <3> QED BY <1>3, <2>0, <3>1, <3>2
  <2> HIDE DEF again
  <2> QED BY <2>1, <2>2, <2>3
<1>16. Listens(k')
  BY <1>3, Names DEF Listens, Told
<1> QED BY <1>0, <1>3, <1>10, <1>11, <1>12, <1>13, <1>14, <1>15, <1>16 DEF Calm, Inv, Parts

\* What one diagnostics signal does to the slot of its target.
LEMMA DiagOne ==
  ASSUME NEW s \in State, NEW p \in Proc, ~isempty(s, p)
  PROVE  LET w == send_sig(s, p, FALSE)
         IN /\ WillReceive(s, p, SYSTEM) =>
                 /\ w.rts[p] = s.rts[p] \ {"RECEIVING"} /\ w.from[p] = NONE
                 /\ w.note[p] = s.note[p] \ {SYSTEM} /\ w.ksig[p] = FALSE
                 /\ w.job = IF p = Manager /\ s.ksig[p] THEN ANY ELSE s.job
            /\ ~WillReceive(s, p, SYSTEM) =>
                 /\ w.rts[p] = s.rts[p] /\ w.from[p] = s.from[p]
                 /\ w.note[p] = s.note[p] \cup {SYSTEM} /\ w.ksig[p] = s.ksig[p]
                 /\ w.job = s.job
<1> DEFINE u == [s EXCEPT !.ksig[p] = @ \/ FALSE]
           w == send_sig(s, p, FALSE)
<1>0. /\ DOMAIN s.rts = Proc /\ DOMAIN s.from = Proc /\ DOMAIN s.note = Proc
      /\ s.ksig \in [Proc -> BOOLEAN]
  BY DEF State
<1>1. w = mini_notify(u, SYSTEM, p)
  BY DEF send_sig
<1>2. /\ u \in State /\ u.rts = s.rts /\ u.from = s.from /\ u.note = s.note
      /\ u.job = s.job
  BY DEF State
<1>3. u.ksig[p] = s.ksig[p]
  <2>1. u.ksig = [s.ksig EXCEPT ![p] = s.ksig[p] \/ FALSE]
    BY DEF State
  <2>2. (s.ksig[p] \/ FALSE) = s.ksig[p]
    BY <1>0
  <2> QED BY <1>0, <2>1, <2>2
<1> HIDE DEF u, w
<1>4. WillReceive(u, p, SYSTEM) <=> WillReceive(s, p, SYSTEM)
  BY <1>2 DEF WillReceive, Has
<1>5. CASE WillReceive(s, p, SYSTEM)
  <2>1. w = Deliver(u, p, SYSTEM)
    BY <1>1, <1>4, <1>5 DEF mini_notify
  <2>2. /\ w.rts = [u.rts EXCEPT ![p] = @ \ {"RECEIVING"}]
        /\ w.from = [u.from EXCEPT ![p] = NONE]
        /\ w.ksig = [u.ksig EXCEPT ![p] = FALSE]
        /\ w.note = [u.note EXCEPT ![p] = @ \ {SYSTEM}]
        /\ w.job = IF p = Manager /\ u.ksig[p] THEN ANY ELSE u.job
    BY <1>2, <2>1 DEF Deliver, RTS_UNSET, State
  <2>3. DOMAIN u.ksig = Proc
    BY <1>2 DEF State
  <2> QED BY <1>0, <1>2, <1>3, <1>5, <2>2, <2>3 DEF w
<1>6. CASE ~WillReceive(s, p, SYSTEM)
  <2>1. w = [u EXCEPT !.note[p] = @ \cup {SYSTEM}]
    BY <1>1, <1>4, <1>6 DEF mini_notify
  <2>2. /\ w.rts = u.rts /\ w.from = u.from /\ w.ksig = u.ksig /\ w.job = u.job
        /\ w.note = [u.note EXCEPT ![p] = @ \cup {SYSTEM}]
    BY <1>2, <2>1 DEF State
  <2> QED BY <1>0, <1>2, <1>3, <1>6, <2>2 DEF w
<1> QED BY <1>5, <1>6

LEMMA DiagnosticsKeeps ==
  ASSUME Inv(k), Diagnostics
  PROVE  Inv(k')
<1> DEFINE s == Spend(k)
           told == {p \in Diag : ~isempty(s, p)}
           taken == {p \in told : WillReceive(s, p, SYSTEM)}
<1>0. Inv(s)
  BY SpendKeeps DEF Diagnostics, CanSignal
<1>1. k' = send_diag_sig(s)
  BY DEF Diagnostics
<1> HIDE DEF s
<1>2. s \in State /\ Calm(s) /\ Parts(s) /\ Listens(s)
  BY <1>0 DEF Inv, Parts
<1>3. told \subseteq Proc
  BY KernelAssumption, Names
<1> DEFINE rts  == [p \in Proc |-> IF p \in told THEN send_sig(s, p, FALSE).rts[p] ELSE s.rts[p]]
           from == [p \in Proc |-> IF p \in told THEN send_sig(s, p, FALSE).from[p] ELSE s.from[p]]
           note == [p \in Proc |-> IF p \in told THEN send_sig(s, p, FALSE).note[p] ELSE s.note[p]]
           ksig == [p \in Proc |-> IF p \in told THEN send_sig(s, p, FALSE).ksig[p] ELSE s.ksig[p]]
           job  == IF Manager \in told THEN send_sig(s, Manager, FALSE).job ELSE s.job
<1>4. k' = [s EXCEPT !.rts = rts, !.from = from, !.note = note, !.ksig = ksig, !.job = job]
  BY <1>1, <1>2 DEF send_diag_sig, State
<1>5. ASSUME NEW p \in Proc
      PROVE  /\ rts[p] = IF p \in taken THEN s.rts[p] \ {"RECEIVING"} ELSE s.rts[p]
             /\ from[p] = IF p \in taken THEN NONE ELSE s.from[p]
             /\ note[p] = IF p \in taken THEN s.note[p] \ {SYSTEM}
                          ELSE IF p \in told THEN s.note[p] \cup {SYSTEM} ELSE s.note[p]
             /\ ksig[p] = IF p \in taken THEN FALSE ELSE s.ksig[p]
  <2>1. CASE p \in told
    <3>1. ~isempty(s, p)
      BY <2>1
    <3>2. p \in taken <=> WillReceive(s, p, SYSTEM)
      BY <2>1
    <3> HIDE DEF told, taken
    <3> QED BY <1>2, <2>1, <3>1, <3>2, DiagOne
  <2>2. CASE p \notin told
    <3>1. p \notin taken
      BY <2>2
    <3> HIDE DEF told, taken
    <3> QED BY <2>2, <3>1
  <2> QED BY <2>1, <2>2
<1>6. job = IF Manager \in taken /\ s.ksig[Manager] THEN ANY ELSE s.job
  <2>1. CASE Manager \in told
    <3>1. ~isempty(s, Manager)
      BY <2>1
    <3>2. Manager \in taken <=> WillReceive(s, Manager, SYSTEM)
      BY <2>1
    <3> HIDE DEF told, taken
    <3> QED BY <1>2, <2>1, <3>1, <3>2, DiagOne, Names
  <2>2. CASE Manager \notin told
    <3>1. Manager \notin taken
      BY <2>2
    <3> HIDE DEF told, taken
    <3> QED BY <2>2, <3>1
  <2> QED BY <2>1, <2>2
<1>7. /\ rts \in [Proc -> SUBSET Flag] /\ from \in [Proc -> Proc \cup {ANY, NONE}]
      /\ note \in [Proc -> SUBSET (System \cup {SYSTEM})] /\ ksig \in [Proc -> BOOLEAN]
      /\ job \in Proc \cup {NONE, ANY}
  <2>1. /\ s.rts \in [Proc -> SUBSET Flag] /\ s.from \in [Proc -> Proc \cup {ANY, NONE}]
        /\ s.note \in [Proc -> SUBSET (System \cup {SYSTEM})] /\ s.ksig \in [Proc -> BOOLEAN]
        /\ s.job \in Proc \cup {NONE, ANY}
    BY <1>2 DEF State
  <2>2. ASSUME NEW p \in Proc
        PROVE  /\ rts[p] \in SUBSET Flag /\ from[p] \in Proc \cup {ANY, NONE}
               /\ note[p] \in SUBSET (System \cup {SYSTEM}) /\ ksig[p] \in BOOLEAN
    <3> HIDE DEF told, taken, rts, from, note, ksig
    <3> QED BY <1>5, <2>1
  <2>3. job \in Proc \cup {NONE, ANY}
    <3> HIDE DEF told, taken, job
    <3> QED BY <1>6, <2>1
  <2> HIDE DEF told, job
  <2> QED BY <2>2, <2>3
<1> HIDE DEF rts, from, note, ksig, job
<1>8. /\ k' \in State /\ k'.rts = rts /\ k'.from = from /\ k'.note = note
      /\ k'.ksig = ksig /\ k'.job = job
      /\ k'.saved = s.saved /\ k'.resume = s.resume /\ k'.to = s.to /\ k'.q = s.q
      /\ k'.asyn = s.asyn /\ k'.pending = s.pending /\ k'.mgr = s.mgr /\ k'.bak = s.bak
      /\ k'.panic = s.panic
  BY <1>2, <1>4, <1>7 DEF State
<1>9. /\ \A p \in taken : Has(s, p, "RECEIVING") /\ p \in told
      /\ \A p \in told : ~isempty(s, p)
      /\ \A p \in told : WillReceive(s, p, SYSTEM) => p \in taken
  BY DEF WillReceive
<1> HIDE DEF told, taken
<1>10. \A x \in Proc : \A f : f # "RECEIVING" => (Has(k', x, f) <=> Has(s, x, f))
  BY <1>5, <1>8 DEF Has
<1>11. \A x \in Proc : Has(k', x, "RECEIVING") <=> x \notin taken /\ Has(s, x, "RECEIVING")
  BY <1>5, <1>8 DEF Has
<1>12. \A x \in Proc : isempty(k', x) <=> isempty(s, x)
  BY <1>10 DEF isempty
<1>13. Dead(k')
  <2> SUFFICES ASSUME NEW x \in Proc, isempty(k', x)
               PROVE  /\ k'.rts[x] = {"SLOT_FREE"} /\ x # Manager
                      /\ k'.pending[x] = {} /\ k'.note[x] = {} /\ k'.asyn[x] = {}
    BY DEF Dead
  <2>1. /\ s.rts[x] = {"SLOT_FREE"} /\ x # Manager
        /\ s.pending[x] = {} /\ s.note[x] = {} /\ s.asyn[x] = {}
    BY <1>2, <1>12 DEF Parts, Dead
  <2>2. x \notin told /\ x \notin taken
    BY <1>9, <1>12
  <2> QED BY <1>5, <1>8, <2>1, <2>2
<1>14. Saved(k') /\ Managed(k')
  BY <1>2, <1>8, <1>10, <1>12 DEF Parts, Saved, Managed
<1>15. Forgotten(k')
  <2>1. \A x, d \in Proc : d \in note[x] => d \in s.note[x]
    BY <1>5, Names
  <2> QED BY <1>2, <1>8, <1>12, <2>1 DEF Parts, Forgotten
<1>16. Blocked(k')
  <2> SUFFICES ASSUME NEW x \in Proc
               PROVE  /\ Has(k', x, "SENDING") => /\ k'.to[x] \in Proc /\ k'.to[x] # x
                                                  /\ x # Manager /\ ~isempty(k', k'.to[x])
                      /\ Has(k', x, "RECEIVING") =>
                           /\ k'.from[x] # x /\ k'.from[x] # NONE
                           /\ k'.from[x] \in Proc => ~isempty(k', k'.from[x])
                      /\ Has(k', x, "SENDING") /\ Has(k', x, "RECEIVING")
                           => k'.from[x] = k'.to[x]
    BY DEF Blocked
  <2>1. /\ Has(s, x, "SENDING") => /\ s.to[x] \in Proc /\ s.to[x] # x
                                   /\ x # Manager /\ ~isempty(s, s.to[x])
        /\ Has(s, x, "RECEIVING") => /\ s.from[x] # x /\ s.from[x] # NONE
                                     /\ s.from[x] \in Proc => ~isempty(s, s.from[x])
        /\ Has(s, x, "SENDING") /\ Has(s, x, "RECEIVING") => s.from[x] = s.to[x]
    BY <1>2 DEF Parts, Blocked
  <2>2. Has(k', x, "SENDING") <=> Has(s, x, "SENDING")
    BY <1>10
  <2>3. Has(k', x, "RECEIVING") => Has(s, x, "RECEIVING") /\ k'.from[x] = s.from[x]
    BY <1>5, <1>8, <1>11
  <2> QED BY <1>8, <1>12, <2>1, <2>2, <2>3
<1>17. Waits(k')
  <2> SUFFICES ASSUME Has(k', Manager, "RECEIVING")
               PROVE  /\ k'.from[Manager] = ANY /\ k'.job = NONE
                      /\ SYSTEM \notin k'.note[Manager]
    BY DEF Waits
  <2>1. Manager \notin taken /\ Has(s, Manager, "RECEIVING") /\ ~Has(s, Manager, "SENDING")
    BY <1>2, <1>11, Names DEF Parts, Blocked
  <2>2. s.from[Manager] = ANY /\ s.job = NONE /\ SYSTEM \notin s.note[Manager]
    BY <1>2, <2>1 DEF Parts, Waits
  <2>3. Manager \notin told
    BY <1>9, <2>1, <2>2 DEF WillReceive
  <2> QED BY <1>5, <1>6, <1>8, <2>1, <2>2, <2>3, Names
<1>18. Queued(k')
  BY <1>2, <1>8, <1>10, QueuedSame DEF Parts
<1>19. Manager \in taken => s.job = NONE /\ SYSTEM \notin s.note[Manager]
  BY <1>2, <1>9 DEF Parts, Waits
<1>20. k'.job = s.job \/ s.job = NONE
  BY <1>6, <1>8, <1>19
<1>21. Stopped(k')
  BY <1>2, <1>8, <1>10, <1>20, Names DEF Parts, Stopped
<1>22. Told(s) => Told(k')
  <2>1. CASE Manager \in taken
    BY <1>19, <2>1 DEF Told
  <2>2. CASE Manager \notin taken
    <3>1. k'.job = s.job /\ k'.ksig[Manager] = s.ksig[Manager]
      BY <1>5, <1>6, <1>8, <2>2, Names
    <3>2. SYSTEM \in s.note[Manager] => SYSTEM \in k'.note[Manager]
      BY <1>5, <1>8, <2>2, Names
    <3> QED BY <3>1, <3>2 DEF Told
  <2> QED BY <2>1, <2>2
<1>23. Listens(k')
  BY <1>2, <1>10, <1>22 DEF Listens
<1> QED BY <1>2, <1>8, <1>13, <1>14, <1>15, <1>16, <1>17, <1>18, <1>21, <1>23 DEF Calm, Inv, Parts
-----------------------------------------------------------------------------
(* The theorems *)

LEMMA InitInv == Init => KInv
<1> SUFFICES ASSUME Init PROVE Inv(k)
  BY DEF KInv
<1>1. /\ k.rts = [p \in Proc |-> IF p \in User THEN {"SLOT_FREE"} ELSE {}]
      /\ k.to = [p \in Proc |-> NONE] /\ k.from = [p \in Proc |-> NONE]
      /\ k.q = [p \in Proc |-> <<>>] /\ k.note = [p \in Proc |-> {}]
      /\ k.asyn = [p \in Proc |-> {}] /\ k.pending = [p \in Proc |-> {}]
      /\ k.mgr = [p \in Proc |-> IF p \in Service THEN p ELSE Manager]
      /\ k.bak = [p \in Proc |-> IF p \in Service THEN Manager ELSE NONE]
      /\ k.resume = {} /\ k.job = NONE /\ k.panic = NONE
  BY DEF Init
<1>2. Manager \notin User /\ Manager \notin Service
  BY KernelAssumption DEF Mortal
<1>3. k \in State
  BY KernelAssumption, Names DEF Init, State, Flag
<1>4. Dead(k) /\ Saved(k) /\ Forgotten(k)
  BY <1>1, <1>2 DEF Dead, Saved, Forgotten, isempty, Has
<1>5. Managed(k)
  BY <1>1, <1>2, Names DEF Managed, Proc, Mortal
<1>8. Calm(k)
  BY <1>1 DEF Calm
<1>6. Blocked(k) /\ Waits(k) /\ Stopped(k) /\ Listens(k)
  BY <1>1, <1>2, Names DEF Blocked, Waits, Stopped, Listens, Has
<1>7. Queued(k)
  BY <1>1 DEF Queued, Has
<1> QED BY <1>3, <1>4, <1>5, <1>6, <1>7, <1>8 DEF Inv, Parts

LEMMA NextInv == KInv /\ [Next]_vars => KInv'
<1> SUFFICES ASSUME Inv(k), [Next]_vars PROVE Inv(k')
  BY DEF KInv
<1>1. ASSUME NEW p \in Proc, Step(p) PROVE Inv(k')
  <2>1. CASE kernel_call(p)
    BY <2>1, KernelCallKeeps
  <2>2. CASE kernel_call_resume(p)
    BY <2>2, ResumeKeeps
  <2>3. CASE VMReply(p)
    BY <2>3, VMReplyKeeps
  <2>4. CASE Exception(p) \/ Kill(p)
    BY <2>4, SignalActionsKeep
  <2>5. CASE Clear(p)
    BY <2>5, ClearKeeps
  <2>6. CASE Delay(p) \/ ClearRefs(p)
    BY <2>6, DelayKeeps
  <2>7. CASE Fork(p)
    BY <2>7, ForkKeeps
  <2>8. CASE Reply(p) \/ \E t \in Proc : AsyncSend(p, t)
    BY <2>8, AsyncKeeps
  <2>9. CASE \E t \in Proc : \E rec \in BOOLEAN : Send(p, t, rec)
    BY <2>9, SendKeeps
  <2>10. CASE \E src \in Proc \cup {ANY} : Receive(p, src)
    BY <2>10, ReceiveKeeps
  <2> QED BY <1>1, <2>1, <2>2, <2>3, <2>4, <2>5, <2>6, <2>7, <2>8, <2>9, <2>10 DEF Step
<1>2. CASE UNCHANGED vars
  BY <1>2 DEF vars
<1> QED BY <1>1, <1>2, GetKsigKeeps, EndKsigKeeps, DiagnosticsKeeps DEF Next

\* Each process is queued exactly as often as it is sending there.
LEMMA InvQueueExact == Inv(k) => QueueExact
<1> SUFFICES ASSUME Inv(k), NEW p \in Proc, NEW t \in Proc
             PROVE  Cardinality({i \in DOMAIN k.q[t] : k.q[t][i] = p})
                      = IF Has(k, p, "SENDING") /\ k.to[p] = t THEN 1 ELSE 0
  BY DEF QueueExact
<1> DEFINE at == {i \in DOMAIN k.q[t] : k.q[t][i] = p}
<1>0. k \in State /\ Queued(k)
  BY DEF Inv, Parts
<1>1. DOMAIN k.q[t] = 1..Len(k.q[t])
  <2>1. k.q[t] \in Seq(Proc)
    BY <1>0 DEF State
  <2> QED BY <2>1
<1>2. CASE Has(k, p, "SENDING") /\ k.to[p] = t
  <2>1. PICK i \in 1..Len(k.q[t]) : k.q[t][i] = p
    BY <1>0, <1>2 DEF Queued
  <2>2. at = {i}
    BY <1>0, <1>1, <2>1 DEF Queued
  <2>3. Cardinality(at) = 1
    BY <2>2, FS_Singleton
  <2> QED BY <1>2, <2>3
<1>3. CASE ~(Has(k, p, "SENDING") /\ k.to[p] = t)
  <2>1. at = {}
    BY <1>0, <1>1, <1>3 DEF Queued
  <2>2. Cardinality(at) = 0
    BY <2>1, FS_EmptySet
  <2> QED BY <1>3, <2>2
<1> QED BY <1>2, <1>3

LEMMA InvForgotten == Inv(k) => DeadAreForgotten
<1> SUFFICES ASSUME Inv(k), NEW d \in Proc, isempty(k, d)
             PROVE  /\ k.q[d] = <<>> /\ k.asyn[d] = {}
                    /\ \A p \in Proc : ~isempty(k, p) =>
                         /\ P_BLOCKEDON(k, p) # d
                         /\ d \notin k.note[p] \cup k.asyn[p]
  BY DEF DeadAreForgotten
<1>0. k \in State /\ Queued(k) /\ Blocked(k) /\ Dead(k) /\ Forgotten(k)
  BY DEF Inv, Parts
<1>1. k.q[d] = <<>>
  <2>1. k.q[d] \in Seq(Proc)
    BY <1>0 DEF State
  <2>2. ASSUME NEW i \in 1..Len(k.q[d]) PROVE FALSE
    <3>1. k.q[d][i] \in Proc
      BY <2>1
    <3>2. Has(k, k.q[d][i], "SENDING") /\ k.to[k.q[d][i]] = d
      BY <1>0, <2>2 DEF Queued
    <3> QED BY <1>0, <3>1, <3>2 DEF Blocked
  <2>3. Len(k.q[d]) \in Nat
    BY <2>1
  <2>4. Len(k.q[d]) = 0
    BY <2>2, <2>3
  <2> QED BY <2>1, <2>4
<1>2. ASSUME NEW p \in Proc PROVE P_BLOCKEDON(k, p) # d
  BY <1>0, Names DEF P_BLOCKEDON, Blocked
<1> QED BY <1>0, <1>1, <1>2 DEF Dead, Forgotten

LEMMA InvNotLost == Inv(k) => SignalNotLost
BY Names DEF Inv, Parts, SignalNotLost, Stopped, Listens, Told, Waits

\* No panic and no failed assertion in system.c, a suspended call is the saved
\* request of a live process, and the caller queues hold exactly the processes
\* that are blocked sending, for any number of processes.
THEOREM KernelInvHolds == Spec => []KernelInv
<1>1. KInv => KernelInv
  BY InvQueueExact DEF KInv, Inv, Parts, Calm, Saved, KernelInv, KernelOK
<1> QED BY <1>1, InitInv, NextInv, PTL DEF Spec

\* Nothing refers to a dead process: clear_endpoint and clear_ipc_refs leave no
\* waiter, no link and no message behind, whatever the others were doing.
THEOREM DeadAreForgottenHolds == Spec => []DeadAreForgotten
<1>1. KInv => DeadAreForgotten
  BY InvForgotten DEF KInv
<1> QED BY <1>1, InitInv, NextInv, PTL DEF Spec

\* Whoever is stopped for a signal is one the manager's loop or its next
\* notification will reach, although it is told of the first signal only.
THEOREM SignalNotLostHolds == Spec => []SignalNotLost
<1>1. KInv => SignalNotLost
  BY InvNotLost DEF KInv
<1> QED BY <1>1, InitInv, NextInv, PTL DEF Spec
=============================================================================
