----------------------------- MODULE MemoryPool -----------------------------
(***************************************************************************)
(* What the buddy allocator of CS304-Assignment/200010004.cpp promises its *)
(* clients: a process that asks for memory gets at least as much as it     *)
(* asked for, in one piece, none of it anybody else's, and keeps it until  *)
(* it gives it back.                                                       *)
(***************************************************************************)
EXTENDS Integers

CONSTANTS Process, Address, Amount

VARIABLES
  want,   \* what each process has asked for and will get
  owned   \* the addresses each process holds

pvars == <<want, owned>>

PInit == want = [p \in Process |-> 0] /\ owned = [p \in Process |-> {}]

Held == UNION {owned[p] : p \in Process}

\* A process may ask again; what it holds is then as good as given back, but
\* the pool need not use it again.
Ask(p, n) ==
  /\ want[p] = 0
  /\ want' = [want EXCEPT ![p] = n]
  /\ UNCHANGED owned

\* p gets S, addresses in a row, of which nobody holds any.
Obtain(p, S) ==
  /\ want[p] # 0
  /\ \E first, last \in Address : S = first .. last /\ last - first + 1 >= want[p]
  /\ S \cap Held = {}
  /\ owned' = [owned EXCEPT ![p] = S]
  /\ want' = [want EXCEPT ![p] = 0]

GiveBack(p) == owned' = [owned EXCEPT ![p] = {}] /\ UNCHANGED want

PNext == \E p \in Process :
           \/ GiveBack(p)
           \/ Obtain(p, owned'[p])
           \/ \E n \in Amount : Ask(p, n)

PSpec == PInit /\ [][PNext]_pvars
=============================================================================
