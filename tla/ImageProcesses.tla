--------------------------- MODULE ImageProcesses ---------------------------
(***************************************************************************)
(* Lab-06/part2_2.cpp: T2 and T1 in forked processes on a shared-memory    *)
(* segment, with a named semaphore.  Neither function ends its process, so *)
(* the child that blurs goes on in main: it forks a T1 of its own, waits,  *)
(* writes the output file and removes the segment, as every process does.  *)
(*                                                                         *)
(*   P (main)  forks B and G, waits twice, writes, removes, exits          *)
(*   B         blurs, forks H, waits, writes, removes, exits               *)
(*   G, H      convert to grayscale, write, remove, exit                   *)
(*                                                                         *)
(* A process finds the segment by its key when it starts to work: once a   *)
(* process has removed it, the key gives a new segment, filled with zeros. *)
(***************************************************************************)
EXTENDS Image

VARIABLES
  pc,        \* per process: what it does next
  seg,       \* the contents of the two segments that can exist
  key,       \* the segment shmget finds, 0 when it would create one
  at,        \* per process: the segment its function works on
  sem,       \* the value of the named semaphore
  pos,       \* per process: the pixel its loop is at
  colour,    \* per process: the colour T1 has read
  tmatrix,   \* B's own copy of the blurred image
  file       \* the output file: "none", "torn" or the image P wrote

shmVars == <<pc, seg, key, at, sem, pos, colour, tmatrix, file>>

Process == {"P", "B", "G", "H"}
Worker  == {"B", "G", "H"}
Origin  == <<0, 0>>
NoPixel == <<Height, 0>>

\* The pixel after x along the rows.
After(x) == IF x[2] < Width - 1 THEN <<x[1], x[2] + 1>> ELSE <<x[1] + 1, 0>>
\* The copy back goes through the rows from the last to the first.
AfterBack(x) == IF x[2] < Width - 1 THEN <<x[1], x[2] + 1>>
                ELSE IF x[1] > 0 THEN <<x[1] - 1, 0>> ELSE NoPixel

\* main has read the input into segment 1 and opened the semaphore.
ShmInit ==
  /\ pc = [p \in Process |-> IF p = "P" THEN "fork B" ELSE "unborn"]
  /\ seg = <<input, [x \in Pixel |-> Zero]>>
  /\ key = 1 /\ at = [p \in Process |-> 0]
  /\ sem = 1
  /\ pos = [p \in Process |-> Origin]
  /\ colour = [p \in Process |-> Zero]
  /\ tmatrix = [x \in Pixel |-> Zero]
  /\ file = "none"

Go(p, next) == pc' = [pc EXCEPT ![p] = next]

\* fork(): the child starts in its function, the parent returns from it.
fork(p, here, child, next) ==
  /\ pc[p] = here
  /\ pc' = [pc EXCEPT ![p] = next, ![child] = "attach"]
  /\ UNCHANGED <<seg, key, at, sem, pos, colour, tmatrix, file>>

forks == \/ fork("P", "fork B", "B", "fork G")
         \/ fork("P", "fork G", "G", "wait")
         \/ fork("B", "fork H", "H", "wait")

\* shmget with IPC_CREAT and shmat.
attach(p) ==
  /\ pc[p] = "attach"
  /\ key' = IF key = 0 THEN 2 ELSE key
  /\ at' = [at EXCEPT ![p] = key']
  /\ Go(p, "sem_wait")
  /\ UNCHANGED <<seg, sem, pos, colour, tmatrix, file>>

sem_wait(p) ==
  /\ pc[p] = "sem_wait"
  /\ sem > 0 /\ sem' = sem - 1
  /\ Go(p, IF p = "B" THEN "blur" ELSE "read")
  /\ UNCHANGED <<seg, key, at, pos, colour, tmatrix, file>>

\* The end of a row, or the next pixel of it.
Advance(p, next) ==
  /\ pos' = [pos EXCEPT ![p] = After(@)]
  /\ Go(p, IF pos[p][2] = Width - 1 THEN "sem_post" ELSE next)

sem_post(p) ==
  /\ pc[p] = "sem_post"
  /\ sem' = sem + 1
  /\ IF pos[p][1] < Height
     THEN Go(p, "sem_wait") /\ UNCHANGED pos
     ELSE IF p = "B"
     THEN Go(p, "copy") /\ pos' = [pos EXCEPT ![p] = <<Height - 1, 0>>]
     ELSE Go(p, "open") /\ UNCHANGED pos
  /\ UNCHANGED <<seg, key, at, colour, tmatrix, file>>

\* ConvertGrayscale: matrix is read into t and written back from it.
GrayRead(p) ==
  /\ pc[p] = "read"
  /\ colour' = [colour EXCEPT ![p] = seg[at[p]][pos[p]]]
  /\ Go(p, "write")
  /\ UNCHANGED <<seg, key, at, sem, pos, tmatrix, file>>

GrayWrite(p) ==
  /\ pc[p] = "write"
  /\ seg' = [seg EXCEPT ![at[p]][pos[p]] = grey_value(colour[p])]
  /\ colour' = [colour EXCEPT ![p] = Zero]
  /\ Advance(p, "read")
  /\ UNCHANGED <<key, at, sem, tmatrix, file>>

\* heightorizontalBlur: a pixel of the private matrix.
BlurPixel ==
  /\ pc["B"] = "blur"
  /\ tmatrix' = [tmatrix EXCEPT ![pos["B"]] =
                   blur_value(Colours(seg[at["B"]], pos["B"][1], pos["B"][2]))]
  /\ Advance("B", "blur")
  /\ UNCHANGED <<seg, key, at, sem, colour, file>>

\* The private matrix is copied back pixel by pixel, without the semaphore.
CopyBack ==
  /\ pc["B"] = "copy"
  /\ seg' = [seg EXCEPT ![at["B"]][pos["B"]] = tmatrix[pos["B"]]]
  /\ pos' = [pos EXCEPT !["B"] = AfterBack(@)]
  /\ Go("B", IF pos'["B"] = NoPixel THEN "fork H" ELSE "copy")
  /\ UNCHANGED <<key, at, sem, colour, tmatrix, file>>

\* wait(NULL) twice: it returns at once when there is no child.
Children(p) == CASE p = "P" -> {"B", "G"} [] p = "B" -> {"H"} [] OTHER -> {}

wait_for(p, children) ==
  /\ pc[p] = "wait"
  /\ \A c \in children : pc[c] = "exited"
  /\ Go(p, "open")
  /\ UNCHANGED <<seg, key, at, sem, pos, colour, tmatrix, file>>

\* Mutant of wait: the second call is missing.
wait_once(p) == \E c \in Children(p) : wait_for(p, {c})
wait(p) == wait_for(p, Children(p))

\* fopen truncates the output file; everything in it is of the writer only if
\* no other process opens it before the writer has closed it.
open(p) ==
  /\ pc[p] = "open"
  /\ file' = "torn"
  /\ Go(p, "close")
  /\ UNCHANGED <<seg, key, at, sem, pos, colour, tmatrix>>

Alone(p) == \A o \in Process \ {p} : pc[o] \in {"unborn", "exited"}

close(p) ==
  /\ pc[p] = "close"
  /\ file' = IF Alone(p) THEN "whole" ELSE "torn"
  /\ Go(p, "remove")
  /\ UNCHANGED <<seg, key, at, sem, pos, colour, tmatrix>>

\* shmdt and shmctl(IPC_RMID) on the segment main made: the key is free again,
\* the segment lives on in the processes that have it.
remove(p) ==
  /\ pc[p] = "remove"
  /\ key' = IF key = 1 THEN 0 ELSE key
  /\ Go(p, "exited")
  /\ UNCHANGED <<seg, at, sem, pos, colour, tmatrix, file>>

ShmStep(p) == attach(p) \/ sem_wait(p) \/ sem_post(p) \/ GrayRead(p)
             \/ GrayWrite(p) \/ wait(p) \/ open(p) \/ close(p) \/ remove(p)

BStep == BlurPixel \/ CopyBack

ShmNext == (\E p \in Process : ShmStep(p)) \/ BStep \/ forks

\* Each process is run by the kernel.
ShmFairness == (\A p \in Process : WF_shmVars(ShmStep(p))) /\ WF_shmVars(BStep)
              /\ WF_shmVars(forks)

ShmSpec == ShmInit /\ [][ShmNext]_shmVars /\ ShmFairness
-----------------------------------------------------------------------------
\* Processes inside a row, with the semaphore.
Holders == {p \in Worker : pc[p] \in {"blur", "read", "write", "sem_post"}}

Label == {"fork B", "fork G", "fork H", "unborn", "attach", "sem_wait", "blur",
          "read", "write", "sem_post", "copy", "wait", "open", "close",
          "remove", "exited"}

\* Positions stay in the image, and a process works on a segment once attached.
ShmTypeOK ==
  /\ pc \in [Process -> Label]
  /\ key \in 0 .. 2 /\ at \in [Process -> 0 .. 2] /\ sem \in 0 .. 1
  /\ \A p \in Process : pos[p] \in Pixel \cup {NoPixel}
  /\ \A p \in Holders : at[p] # 0

\* One process at a time is inside a row, and the semaphore counts it; when the
\* program has ended the semaphore, which nobody unlinks, is free for the next.
SemaphoreExact == IF Holders = {} THEN sem = 1
                  ELSE sem = 0 /\ \A p, o \in Holders : p = o

Zeros == [x \in Pixel |-> Zero]

\* The semaphore's purpose: T2 reads a row that T1 has converted as a whole or
\* has not touched, never one that is half converted.
RowsSeenWhole ==
  pc["B"] \in {"copy", "fork H"} =>
    \A p \in Rows : \E img \in {<<input>>, <<Gray(input)>>, <<Zeros>>} :
      \A q \in Cols : tmatrix[<<p, q>>] = blur_value(Colours(img[1], p, q))

\* What the semaphore guarantees together, through all four processes.
SemaphoreInv == ShmTypeOK /\ SemaphoreExact /\ RowsSeenWhole

\* All four processes write the output file; the last to open it is main, when
\* no other process is left, so the file that remains is whole.
OutputIsFinal ==
  pc["P"] = "exited" => file = "whole" /\ \A p \in Worker : pc[p] = "exited"

Outcome(x) == seg[1][x]

\* Whatever the schedule, and whichever process removes the segment first, every
\* pixel main writes has been through T1 or T2: the first segment is found by G
\* or by B before anyone removes it.
NoPixelUntouched ==
  pc["P"] = "exited" => \A x \in Pixel : IsGray(Outcome(x)) \/ IsBlurred(Outcome(x))

\* At most one process is in a row, a row is seen whole, the file that remains
\* is whole and main's, and every pixel in it has been through T1 or T2,
\* whichever process finds or removes the segment first.
SharedMemoryInv == SemaphoreInv /\ OutputIsFinal /\ NoPixelUntouched

\* Nobody waits for ever: the program ends.
Ends == <>(pc["P"] = "exited")
=============================================================================
