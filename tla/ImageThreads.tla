---------------------------- MODULE ImageThreads ----------------------------
(***************************************************************************)
(* Lab-06/part2_1a.cpp and part2_1b.cpp: T1 and T2 run in two threads on   *)
(* one matrix, behind a spin lock (atomic_flag, 1a) or a semaphore (1b).   *)
(* T1 holds the lock for a row, T2 for a pixel.  Every read and every      *)
(* write of a pixel is a step.                                             *)
(***************************************************************************)
EXTENDS Image

CONSTANT Semaphore  \* TRUE: part2_1b, FALSE: part2_1a

ASSUME SemaphoreAssumption == Semaphore \in BOOLEAN

VARIABLES
  val_matrix,  \* the shared image
  lock,        \* the flag (1 = set) or the value of the semaphore
  pc,          \* per thread: "lock", "work", "unlock", "end"
  row, col,    \* per thread: the pixel it is at
  read,        \* per thread: the colours it has read for that pixel
  out          \* the image main writes, <<>> before

vars == <<val_matrix, lock, pc, row, col, read, out>>

Thread == {"T1", "T2"}

Init ==
  /\ val_matrix = input
  /\ lock = IF Semaphore THEN 1 ELSE 0
  /\ pc = [t \in Thread |-> "lock"]
  /\ row = [t \in Thread |-> 0] /\ col = [t \in Thread |-> 0]
  /\ read = [t \in Thread |-> <<>>]
  /\ out = <<>>

\* atomic_flag_test_and_set leaves the loop only when the flag was clear.
test_and_set == lock = 0 /\ lock' = 1
atomic_flag_clear == lock' = 0

sem_wait == lock > 0 /\ lock' = lock - 1
sem_post == lock' = lock + 1

\* T2 without the lock.
Lock_gray_only(t) ==
  /\ pc[t] = "lock"
  /\ IF t = "T1" THEN (IF Semaphore THEN sem_wait ELSE test_and_set)
                 ELSE lock' = lock
  /\ pc' = [pc EXCEPT ![t] = "work"]
  /\ UNCHANGED <<val_matrix, row, col, read, out>>

Lock(t) ==
  /\ pc[t] = "lock"
  /\ IF Semaphore THEN sem_wait ELSE test_and_set
  /\ pc' = [pc EXCEPT ![t] = "work"]
  /\ UNCHANGED <<val_matrix, row, col, read, out>>

Need(t) == IF t = "T1" THEN 1 ELSE Window(col[t])

ReadPixel(t) ==
  /\ pc[t] = "work" /\ Len(read[t]) < Need(t)
  /\ read' = [read EXCEPT ![t] =
                Append(@, val_matrix[<<row[t], col[t] + Len(@)>>])]
  /\ UNCHANGED <<val_matrix, lock, pc, row, col, out>>

\* What the thread computes from what it has read.
Result(t) == IF t = "T1" THEN grey_value(read[t][1]) ELSE blur_value(read[t])

\* T1 goes on with the row, T2 gives the lock back after every pixel.
WritePixel_upto(t, last) ==
  /\ pc[t] = "work" /\ Len(read[t]) = Need(t)
  /\ val_matrix' = [val_matrix EXCEPT ![<<row[t], col[t]>>] = Result(t)]
  /\ read' = [read EXCEPT ![t] = <<>>]
  /\ IF t = "T1" /\ col[t] < last
     THEN col' = [col EXCEPT ![t] = @ + 1] /\ UNCHANGED pc
     ELSE pc' = [pc EXCEPT ![t] = "unlock"] /\ UNCHANGED col
  /\ UNCHANGED <<lock, row, out>>

WritePixel_short(t) == WritePixel_upto(t, Width - 2)
WritePixel(t) == WritePixel_upto(t, Width - 1)

\* Release, and on to the next pixel of T2 or the next row.
Unlock_by(t, release) ==
  /\ pc[t] = "unlock"
  /\ release
  /\ IF t = "T2" /\ col[t] < Width - 1
     THEN col' = [col EXCEPT ![t] = @ + 1] /\ UNCHANGED row
     ELSE col' = [col EXCEPT ![t] = 0] /\ row' = [row EXCEPT ![t] = @ + 1]
  /\ pc' = [pc EXCEPT ![t] = IF row'[t] < Height THEN "lock" ELSE "end"]
  /\ UNCHANGED <<val_matrix, read, out>>

\* The unlock before the "continue" of T2's short window is missing.
Unlock_missing(t) ==
  Unlock_by(t, IF t = "T2" /\ Width - col[t] < BlurAmount THEN lock' = lock
               ELSE IF Semaphore THEN sem_post ELSE atomic_flag_clear)
\* T1 posts twice.
Unlock_twice(t) ==
  Unlock_by(t, IF t = "T1" THEN lock' = lock + 2 ELSE sem_post)
Unlock(t) == Unlock_by(t, IF Semaphore THEN sem_post ELSE atomic_flag_clear)

\* main joins both threads and writes the image.
Join == /\ \A t \in Thread : pc[t] = "end"
        /\ out = <<>>
        /\ out' = val_matrix
        /\ UNCHANGED <<val_matrix, lock, pc, row, col, read>>

Step(t) == Lock(t) \/ ReadPixel(t) \/ WritePixel(t) \/ Unlock(t)

Next == (\E t \in Thread : Step(t)) \/ Join

\* Both threads run on their own; a thread at a free lock gets on.
Fairness == (\A t \in Thread : WF_vars(Step(t))) /\ WF_vars(Join)

Spec == Init /\ [][Next]_vars /\ Fairness
-----------------------------------------------------------------------------
Inside(t) == pc[t] \in {"work", "unlock"}

\* The lock is taken exactly while one thread, and one only, is inside.
LockHeld ==
  /\ \A t, u \in Thread : Inside(t) /\ Inside(u) => t = u
  /\ (\E t \in Thread : Inside(t)) <=> lock = (IF Semaphore THEN 0 ELSE 1)

\* What the thread inside has read is still what is in the matrix: nothing
\* changes between the reads and the write they are for.
ReadsStayTrue ==
  \A t \in Thread : \A k \in 1 .. Len(read[t]) :
    read[t][k] = val_matrix[<<row[t], col[t] + k - 1>>]

\* A row of the output is what T1 makes of the row in one step, after T2 has
\* blurred the first k of its pixels, and T2 of the rest.
Serialized(p, k) ==
  LET before == [x \in Pixel |-> IF x[1] = p /\ x[2] < k
                                 THEN Blurred(input)[x] ELSE input[x]]
      gray   == Gray(before)
  IN \A q \in Cols :
       out[<<p, q>>] = IF q < k THEN gray[<<p, q>>] ELSE Blurred(gray)[<<p, q>>]

\* Rows are converted whole: no schedule gives a row in which T1 seems to have
\* run in the middle of a pixel of T2, or in pieces.
RowsSerializable ==
  out # <<>> => \A p \in Rows : \E k \in 0 .. Width : Serialized(p, k)

\* The effect of the rest of the section a thread is inside of.
Completed ==
  [x \in Pixel |->
     IF /\ pc["T1"] = "work" /\ x[1] = row["T1"] /\ x[2] >= col["T1"]
     THEN grey_value(val_matrix[x])
     ELSE IF /\ pc["T2"] = "work" /\ x = <<row["T2"], col["T2"]>>
     THEN blur_value(Colours(val_matrix, x[1], x[2]))
     ELSE val_matrix[x]]

Rows1   == row["T1"] + (IF Inside("T1") THEN 1 ELSE 0)
Pixels2 == row["T2"] * Width + col["T2"] + (IF Inside("T2") THEN 1 ELSE 0)

Atomic == INSTANCE ImageAtomic WITH pic <- Completed, done1 <- Rows1,
                                    done2 <- Pixels2

\* The locked sections appear to happen in one step, at the moment the lock is
\* taken: the threads implement ImageAtomic.
SectionsAtomic == Atomic!ASpec

\* Both threads get the lock as often as they need it, and main writes an image
\* whose rows were converted whole.
Finishes == <>(out # <<>> /\ RowsSerializable)
=============================================================================
