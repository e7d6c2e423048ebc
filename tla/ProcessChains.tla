---------------------------- MODULE ProcessChains ----------------------------
(***************************************************************************)
(* Lab-02, parts 1 and 2.  Part 1 prints a string letter by letter, each   *)
(* letter from a new process, the child of the one before, after a random  *)
(* sleep.  Part 2 is three programs, half, square and twice: each changes  *)
(* the number at the end of its arguments and executes the next program.   *)
(***************************************************************************)
EXTENDS Integers, Sequences, FiniteSets

CONSTANTS StrLen,    \* length of the string
          IntBits,   \* width of an int
          Arg,       \* the numbers that part 2 is started with
          MaxArgs    \* bound on the number of programs

ASSUME ChainAssumption == StrLen \in Nat \ {0} /\ IntBits \in Nat \ {0} /\ MaxArgs \in Nat

VARIABLE chain       \* the processes of the program that runs

Program == {"half", "square", "twice"}
Lines == UNION {[1..n -> Program] : n \in 1..MaxArgs}

\* proc: one record per process, in the order of their creation.  i is the
\* index in the string, p_id what the last fork returned, buf what printf has
\* not written yet, which happens only if stdout is not a terminal.
ForkInit(tty) ==
  [program |-> "fork", tty |-> tty, out |-> <<>>,
   proc |-> << [i |-> 0, p_id |-> "none", buf |-> <<>>, alive |-> TRUE] >>]
ExecInit(argv, n, given) ==
  [program |-> "exec", line |-> argv, argv |-> argv, given |-> given, number |-> n, first |-> n,
   over |-> FALSE]

ChainInit == \/ \E tty \in BOOLEAN : chain = ForkInit(tty)
             \/ \E argv \in Lines, n \in Arg : chain = ExecInit(argv, n, TRUE)
             \/ \E p \in Program : chain = ExecInit(<<p>>, 0, FALSE)
-----------------------------------------------------------------------------
(* part_1.c *)

Newest == Len(chain.proc)
ChildAlive(k) == k < Newest /\ chain.proc[k + 1].alive

\* fork: the child has a copy of everything, or there is none.
Fork(c, k, i) ==
  {[c EXCEPT !.proc = Append([@ EXCEPT ![k].p_id = "child of mine", ![k].i = i],
                             [c.proc[k] EXCEPT !.p_id = "zero", !.i = i])],
   [c EXCEPT !.proc[k].p_id = "failed", !.proc[k].i = i]}

Start == /\ chain.proc[1].p_id = "none" /\ chain' \in Fork(chain, 1, 0)

\* Mutant of Letter: the fork comes before the printf, and both print.
Letter_late(k) ==
  LET p == chain.proc[k]
      put(c, n) == IF chain.tty THEN [c EXCEPT !.out = Append(@, p.i)]
                   ELSE [c EXCEPT !.proc[n].buf = Append(@, p.i)]
  IN /\ p.p_id = "zero" /\ p.i < StrLen /\ p.alive
     /\ \E c \in Fork(chain, k, p.i + 1) :
          chain' = IF Len(c.proc) > Newest THEN put(put(c, k), Newest + 1) ELSE put(c, k)

\* The child of the last fork sleeps, prints its letter and forks.
Letter(k) ==
  LET p == chain.proc[k]
  IN /\ p.p_id = "zero" /\ p.i < StrLen /\ p.alive
     /\ chain' \in Fork(IF chain.tty THEN [chain EXCEPT !.out = Append(@, p.i)]
                        ELSE [chain EXCEPT !.proc[k].buf = Append(@, p.i)], k, p.i + 1)

\* wait(NULL): returns when the child has exited, or at once without one.
Wait(k) ==
  LET p == chain.proc[k]
  IN /\ p.p_id = "child of mine" /\ p.i < StrLen /\ p.alive /\ ~ChildAlive(k)
     /\ chain' = [chain EXCEPT !.proc[k].i = @ + 1]

\* "child not created"
NoChild(k) ==
  LET p == chain.proc[k]
  IN /\ p.p_id = "failed" /\ p.i < StrLen /\ p.alive
     /\ chain' = [chain EXCEPT !.proc[k].i = @ + 1]

Exit(k) ==
  LET p == chain.proc[k]
  IN /\ p.p_id # "none" /\ p.i = StrLen /\ p.alive
     /\ chain' = [chain EXCEPT !.proc[k].alive = FALSE, !.proc[k].buf = <<>>,
                               !.out = @ \o p.buf]
-----------------------------------------------------------------------------
(* half.c, square.c, twice.c *)

\* A value of type int, as the build wraps it.
Int32(n) == LET m == n % (2 ^ IntBits)
            IN IF m >= 2 ^ (IntBits - 1) THEN m - 2 ^ IntBits ELSE m
half(n)   == IF n >= 0 THEN n \div 2 ELSE -((-n) \div 2)
square(n) == Int32(n * n)
twice(n)  == Int32(2 * n)
Compute(p, n) == CASE p = "half" -> half(n) [] p = "square" -> square(n) [] p = "twice" -> twice(n)

\* The program at the head of argv runs and executes the next; behind the
\* last one comes the number, which is no program: execvp returns.  Without a
\* number there is only a message.
Execute ==
  /\ chain.program = "exec" /\ ~chain.over
  /\ chain' = IF chain.argv = <<>> \/ ~chain.given THEN [chain EXCEPT !.over = TRUE]
              ELSE [chain EXCEPT !.number = Compute(Head(chain.argv), @), !.argv = Tail(@)]

ChainNext ==
  \/ /\ chain.program = "fork"
     /\ Start \/ \E k \in 1..Newest : Letter(k) \/ Wait(k) \/ NoChild(k) \/ Exit(k)
  \/ Execute

ChainSpec == ChainInit /\ [][ChainNext]_chain
-----------------------------------------------------------------------------
Upto(n) == [i \in 1..n |-> i - 1]
Failed == \E k \in 1..Newest : chain.proc[k].p_id = "failed"
AllGone == \A k \in 1..Newest : ~chain.proc[k].alive

\* What the programs of line make of n, one after the other.
Result(line, n) ==
  LET made[k \in 0..Len(line)] == IF k = 0 THEN n ELSE Compute(line[k], made[k - 1])
  IN made[Len(line)]

\* Part 1: on a terminal the letters come in order, each once, however long
\* anybody sleeps, and all of them unless a fork fails; a process outlives its
\* child, but for the last child, which has nothing left to print.  Into a
\* file, every process writes the letters of its ancestors again.  Part 2:
\* the result is that of the programs, in the order of the command line.
ChainInOrder ==
  /\ chain.program = "fork" =>
       /\ chain.tty => chain.out = Upto(Len(chain.out))
       /\ chain.tty /\ AllGone /\ ~Failed => Len(chain.out) = StrLen
       /\ \A k \in 1..Newest - 1 :
            chain.proc[k + 1].alive /\ ~chain.proc[k].alive => chain.proc[k + 1].i = StrLen
       /\ ~chain.tty /\ AllGone /\ ~Failed =>
            \A j \in 0..StrLen - 1 :
              Cardinality({n \in DOMAIN chain.out : chain.out[n] = j}) = StrLen - j + 1
  /\ chain.program = "exec" /\ chain.over =>
       chain.number = IF chain.given THEN Result(chain.line, chain.first) ELSE chain.first
=============================================================================
