-------------------------- MODULE ImageThreadsProofs --------------------------
(***************************************************************************)
(* For images and blur windows of every size, and for both locks: the lock *)
(* of the threaded image programs is held by one thread at most, what that *)
(* thread has read stays true until it writes, and its section appears to  *)
(* happen in one step.                                                     *)
(***************************************************************************)
EXTENDS ImageThreads, TLAPS

-----------------------------------------------------------------------------
(* Sequences that are windows of the matrix *)

\* A function on 1 .. n is a sequence of length n.
LEMMA WindowSeq ==
  ASSUME NEW n \in Nat, NEW s, s = [k \in 1 .. n |-> s[k]]
  PROVE  s \in Seq({s[k] : k \in 1 .. n}) /\ Len(s) = n
<1> DEFINE R == {s[k] : k \in 1 .. n}
<1>1. s \in [1 .. n -> R]  BY Zenon
<1>2. QED  BY <1>1, SMT

\* Append adds the next value.
LEMMA WindowAppend ==
  ASSUME NEW n \in Nat, NEW s, s = [k \in 1 .. n |-> s[k]], NEW e
  PROVE  Append(s, e) = [k \in 1 .. n + 1 |-> IF k = n + 1 THEN e ELSE s[k]]
<1> DEFINE R == {s[k] : k \in 1 .. n} \cup {e}
<1>1. s \in Seq({s[k] : k \in 1 .. n}) /\ Len(s) = n  BY WindowSeq
<1>2. s \in Seq(R)  BY <1>1, SMT
<1>3. QED  BY <1>1, <1>2, SMT

\* The numbers of the pixels, along the rows.
LEMMA PixelNumber ==
  ASSUME NEW w \in Nat \ {0}, NEW r \in Nat, NEW c \in 0 .. w - 1
  PROVE  (r * w + c) \div w = r /\ (r * w + c) % w = c
BY SMT

\* The end of a row is not beyond the end of the image.
LEMMA PixelBound ==
  ASSUME NEW w \in Nat \ {0}, NEW h \in Nat, NEW r \in 0 .. h - 1,
         NEW c \in 0 .. w - 1
  PROVE  r * w + c < h * w
<1>1. r * w + c < (r + 1) * w  BY SMT
<1>2. (r + 1) * w <= h * w
  <2>1. h - (r + 1) \in Nat  BY SMT
  <2>2. (h - (r + 1)) * w \in Nat  BY <2>1, SMT
  <2>3. h * w = (r + 1) * w + (h - (r + 1)) * w  BY SMT
  <2>4. h * w \in Nat /\ (r + 1) * w \in Nat  BY SMT
  <2>5. QED  BY <2>2, <2>3, <2>4, SMT
<1>3. r * w + c \in Nat /\ (r + 1) * w \in Nat /\ h * w \in Nat  BY SMT
<1>4. QED  BY <1>1, <1>2, <1>3, SMT

-----------------------------------------------------------------------------
(* The inductive invariant *)

\* Where the threads are: T1 is at the start of a row when it is outside and at
\* its end when it gives the lock back.
Places ==
  /\ lock \in {0, 1}
  /\ pc \in [Thread -> {"lock", "work", "unlock", "end"}]
  /\ row \in [Thread -> 0 .. Height] /\ col \in [Thread -> Cols]
  /\ \A t \in Thread : (pc[t] = "end") <=> (row[t] = Height)
  /\ pc["T1"] \in {"lock", "end"} => col["T1"] = 0
  /\ pc["T1"] = "unlock" => col["T1"] = Width - 1
  /\ pc["T2"] = "end" => col["T2"] = 0

Matrix == val_matrix = [x \in Pixel |-> val_matrix[x]]

\* A thread that is working has read the first pixels of its window, and the
\* matrix still holds what it has read; the others have read nothing.
ReadsExact(t) ==
  /\ read[t] = [k \in 1 .. Len(read[t]) |-> val_matrix[<<row[t], col[t] + k - 1>>]]
  /\ Len(read[t]) \in 0 .. Need(t)
  /\ pc[t] # "work" => Len(read[t]) = 0

Reads == read = [t \in Thread |-> read[t]] /\ \A t \in Thread : ReadsExact(t)

TInv == Places /\ Matrix /\ LockHeld /\ Reads

\* The window of a pixel lies within its row.
LEMMA WindowRange ==
  ASSUME NEW q \in Cols
  PROVE  Window(q) \in Nat \ {0} /\ q + Window(q) <= Width
BY ImageAssumption, SMT DEF Window, Cols

\* A thread reads at least one pixel and none outside its row.
LEMMA NeedRange ==
  ASSUME Places, NEW t \in Thread
  PROVE  Need(t) \in Nat \ {0} /\ col[t] + Need(t) <= Width
<1>1. col[t] \in Cols  BY DEF Places
<1>2. CASE t = "T1"  BY <1>1, <1>2, ImageAssumption, SMT DEF Need, Cols
<1>3. CASE t # "T1"  BY <1>1, <1>3, WindowRange, SMT DEF Need
<1>4. QED  BY <1>2, <1>3

\* Before the first lock.
LEMMA InitTInv == Init => TInv
<1> SUFFICES ASSUME Init PROVE TInv  OBVIOUS
<1>1. Places
  BY ImageAssumption, SemaphoreAssumption, SMT DEF Init, Places, Thread, Cols
<1>2. Matrix
  BY Zenon DEF Init, Matrix, input
<1>3. LockHeld
  BY SemaphoreAssumption, SMT DEF Init, LockHeld, Inside, Thread
<1>4. Reads
  <2>1. read = [t \in Thread |-> read[t]] /\ \A t \in Thread : read[t] = <<>>
    BY Zenon DEF Init
  <2>2. ASSUME NEW t \in Thread PROVE ReadsExact(t)
    <3>1. read[t] = <<>>  BY <2>1
    <3>2. Need(t) \in Nat  BY <1>1, NeedRange
    <3>3. QED  BY <3>1, <3>2, SMT DEF ReadsExact
  <2>3. QED  BY <2>1, <2>2 DEF Reads
<1>5. QED  BY <1>1, <1>2, <1>3, <1>4 DEF TInv

-----------------------------------------------------------------------------
(* Every step keeps the invariant *)

\* A step that leaves the matrix alone, and a thread at its place with what it
\* has read, keeps what was said about that thread.
LEMMA ReadsKept ==
  ASSUME NEW t \in Thread, ReadsExact(t), val_matrix' = val_matrix,
         row'[t] = row[t], col'[t] = col[t], read'[t] = read[t],
         pc'[t] # "work" => pc[t] # "work"
  PROVE  ReadsExact(t)'
<1>1. Need(t)' = Need(t)  BY DEF Need
<1>2. read'[t] = [k \in 1 .. Len(read'[t]) |->
                    val_matrix'[<<row'[t], col'[t] + k - 1>>]]
  BY DEF ReadsExact
<1>3. QED  BY <1>1, <1>2 DEF ReadsExact

\* A thread that has read nothing can be anywhere.
LEMMA ReadsNothing ==
  ASSUME NEW t \in Thread, read'[t] = <<>>, Places'
  PROVE  ReadsExact(t)'
<1>1. Need(t)' \in Nat
  <2>1. col'[t] \in Cols  BY DEF Places
  <2>2. CASE t = "T1"  BY <2>2, SMT DEF Need
  <2>3. CASE t # "T1"  BY <2>1, <2>3, WindowRange, SMT DEF Need
  <2>4. QED  BY <2>2, <2>3
<1>2. QED  BY <1>1, SMT DEF ReadsExact

\* Taking the lock.
LEMMA LockStep ==
  ASSUME TInv, NEW t \in Thread, Lock(t)
  PROVE  TInv'
<1> USE DEF TInv
<1>1. pc[t] = "lock" /\ pc' = [pc EXCEPT ![t] = "work"]
  BY Zenon DEF Lock
<1>2. UNCHANGED <<val_matrix, row, col, read, out>>
  BY Zenon DEF Lock
<1>3. lock = (IF Semaphore THEN 1 ELSE 0) /\ lock' = (IF Semaphore THEN 0 ELSE 1)
  BY SemaphoreAssumption, SMT DEF Lock, sem_wait, test_and_set, Places
<1>4. \A u \in Thread : ~Inside(u)
  BY <1>3, SemaphoreAssumption, SMT DEF LockHeld
<1>5. Places'
  BY <1>1, <1>2, <1>3, SemaphoreAssumption, SMT DEF Places, Thread
<1>6. Matrix'
  BY <1>2 DEF Matrix
<1>7. LockHeld'
  BY <1>1, <1>3, <1>4, SemaphoreAssumption, SMT DEF LockHeld, Inside, Thread, Places
<1>8. Reads'
  <2>1. ASSUME NEW u \in Thread PROVE ReadsExact(u)'
    <3>1. pc'[u] # "work" => pc[u] # "work"  BY <1>1, SMT DEF Places
    <3>2. QED  BY <1>2, <3>1, ReadsKept, Zenon DEF Reads
  <2>2. QED  BY <1>2, <2>1 DEF Reads
<1>9. QED  BY <1>5, <1>6, <1>7, <1>8

\* Reading a pixel: what has been read grows by the next pixel of the window.
LEMMA ReadStep ==
  ASSUME TInv, NEW t \in Thread, ReadPixel(t)
  PROVE  TInv'
<1> USE DEF TInv
<1>1. /\ pc[t] = "work" /\ Len(read[t]) < Need(t)
      /\ UNCHANGED <<val_matrix, lock, pc, row, col, out>>
  BY Zenon DEF ReadPixel
<1>2. Places' /\ Matrix' /\ LockHeld'
  BY <1>1 DEF Places, Matrix, LockHeld, Inside
<1>3. /\ read'[t] = Append(read[t], val_matrix[<<row[t], col[t] + Len(read[t])>>])
      /\ read' = [u \in Thread |-> read'[u]]
      /\ \A u \in Thread : u # t => read'[u] = read[u]
  BY Zenon DEF ReadPixel, Reads
<1>4. ReadsExact(t)'
  <2> DEFINE n == Len(read[t])
             e == val_matrix[<<row[t], col[t] + n>>]
  <2>1. n \in Nat /\ Need(t) \in Nat /\ n < Need(t) /\ col[t] \in Int
    BY <1>1, NeedRange, SMT DEF Reads, ReadsExact, Places, Cols
  <2>2. read[t] = [k \in 1 .. n |-> val_matrix[<<row[t], col[t] + k - 1>>]]
    BY Zenon DEF Reads, ReadsExact
  <2>3. read[t] = [k \in 1 .. n |-> read[t][k]]
        /\ \A k \in 1 .. n : read[t][k] = val_matrix[<<row[t], col[t] + k - 1>>]
    BY <2>2, Zenon
  <2> HIDE DEF n
  <2>4. read'[t] = [k \in 1 .. n + 1 |-> IF k = n + 1 THEN e ELSE read[t][k]]
    BY <1>3, <2>1, <2>3, WindowAppend DEF n
  <2>5. \A k \in 1 .. n + 1 : (IF k = n + 1 THEN e ELSE read[t][k])
                              = val_matrix[<<row[t], col[t] + k - 1>>]
    <3> TAKE k \in 1 .. n + 1
    <3>1. CASE k = n + 1
      <4>1. col[t] + k - 1 = col[t] + n  BY <3>1, <2>1, SMT
      <4>2. QED  BY <3>1, <4>1
    <3>2. CASE k # n + 1
      <4>1. k \in 1 .. n  BY <3>2, <2>1, SMT
      <4>2. QED  BY <3>2, <4>1, <2>3
    <3>3. QED  BY <3>1, <3>2
  <2>6. read'[t] = [k \in 1 .. n + 1 |-> val_matrix[<<row[t], col[t] + k - 1>>]]
    BY <2>4, <2>5, Zenon
  <2>7. Len(read'[t]) = n + 1
    <3>1. read'[t] = [k \in 1 .. n + 1 |-> read'[t][k]]  BY <2>6, Zenon
    <3>2. QED  BY <2>1, <3>1, WindowSeq
  <2>8. Need(t)' = Need(t)  BY <1>1 DEF Need
  <2>9. read'[t] = [k \in 1 .. Len(read'[t]) |->
                      val_matrix'[<<row'[t], col'[t] + k - 1>>]]
    BY <1>1, <2>6, <2>7
  <2>10. Len(read'[t]) \in 0 .. Need(t)'
    BY <2>1, <2>7, <2>8, SMT
  <2>11. pc'[t] = "work"  BY <1>1
  <2>12. QED  BY <2>9, <2>10, <2>11 DEF ReadsExact
<1>5. Reads'
  <2>1. ASSUME NEW u \in Thread PROVE ReadsExact(u)'
    <3>1. CASE u = t  BY <3>1, <1>4
    <3>2. CASE u # t  BY <3>2, <1>1, <1>3, ReadsKept, Zenon DEF Reads
    <3>3. QED  BY <3>1, <3>2
  <2>2. QED  BY <1>3, <2>1 DEF Reads
<1>6. QED  BY <1>2, <1>5

\* While a thread is inside, the other has read nothing.
LEMMA OthersRestart ==
  ASSUME TInv, NEW t \in Thread, Inside(t), NEW u \in Thread, u # t
  PROVE  pc[u] \in {"lock", "end"} /\ read[u] = <<>>
<1> USE DEF TInv
<1>1. ~Inside(u)  BY Zenon DEF LockHeld
<1>2. pc[u] \in {"lock", "end"}  BY <1>1, SMT DEF Inside, Places
<1>3. Len(read[u]) = 0  BY <1>2, SMT DEF Reads, ReadsExact
<1>4. read[u] = [k \in 1 .. 0 |-> val_matrix[<<row[u], col[u] + k - 1>>]]
  BY <1>3, Zenon DEF Reads, ReadsExact
<1>5. read[u] = <<>>  BY <1>4, SMT
<1>6. QED  BY <1>2, <1>5

\* Writing a pixel: the writer forgets what it has read.
LEMMA WriteStep ==
  ASSUME TInv, NEW t \in Thread, WritePixel(t)
  PROVE  TInv'
<1> USE DEF TInv
<1>1. /\ pc[t] = "work" /\ Len(read[t]) = Need(t)
      /\ val_matrix' = [val_matrix EXCEPT ![<<row[t], col[t]>>] = Result(t)]
      /\ read' = [read EXCEPT ![t] = <<>>]
      /\ UNCHANGED <<lock, row, out>>
  BY Zenon DEF WritePixel, WritePixel_upto
<1>2. \/ /\ t = "T1" /\ col[t] < Width - 1
         /\ col' = [col EXCEPT ![t] = col[t] + 1] /\ pc' = pc
      \/ /\ t # "T1" \/ ~(col[t] < Width - 1)
         /\ pc' = [pc EXCEPT ![t] = "unlock"] /\ col' = col
  BY Zenon DEF WritePixel, WritePixel_upto
<1>3. Places'
  <2>1. CASE t = "T1" /\ col[t] < Width - 1
    BY <1>1, <1>2, <2>1, ImageAssumption, SMT DEF Places, Thread, Cols
  <2>2. CASE t # "T1" \/ ~(col[t] < Width - 1)
    BY <1>1, <1>2, <2>2, ImageAssumption, SMT DEF Places, Thread, Cols
  <2>3. QED  BY <2>1, <2>2
<1>4. Matrix'
  BY <1>1, Zenon DEF Matrix
<1>5. LockHeld'
  <2>1. \A u \in Thread : Inside(u)' <=> Inside(u)
    BY <1>1, <1>2, SMT DEF Inside, Places
  <2>2. QED  BY <1>1, <2>1, Zenon DEF LockHeld
<1>6. Reads'
  <2>1. Inside(t)  BY <1>1 DEF Inside
  <2>2. \A u \in Thread : read'[u] = <<>>
    BY <1>1, <2>1, OthersRestart, Zenon DEF Reads
  <2>3. \A u \in Thread : ReadsExact(u)'
    BY <1>3, <2>2, ReadsNothing
  <2>4. QED  BY <1>1, <2>3, Zenon DEF Reads
<1>7. QED  BY <1>3, <1>4, <1>5, <1>6

\* Giving the lock back.
LEMMA UnlockStep ==
  ASSUME TInv, NEW t \in Thread, Unlock(t)
  PROVE  TInv'
<1> USE DEF TInv
<1>1. /\ pc[t] = "unlock"
      /\ pc' = [pc EXCEPT ![t] = IF row'[t] < Height THEN "lock" ELSE "end"]
      /\ UNCHANGED <<val_matrix, read, out>>
  BY Zenon DEF Unlock, Unlock_by
<1>2. \/ /\ t = "T2" /\ col[t] < Width - 1
         /\ col' = [col EXCEPT ![t] = col[t] + 1] /\ row' = row
      \/ /\ t # "T2" \/ ~(col[t] < Width - 1)
         /\ col' = [col EXCEPT ![t] = 0] /\ row' = [row EXCEPT ![t] = row[t] + 1]
  BY Zenon DEF Unlock, Unlock_by
<1>3. Inside(t)  BY <1>1 DEF Inside
<1>4. lock = (IF Semaphore THEN 0 ELSE 1)
  BY <1>3, Zenon DEF LockHeld
<1>5. lock' = (IF Semaphore THEN 1 ELSE 0)
  BY <1>4, SemaphoreAssumption, SMT
  DEF Unlock, Unlock_by, sem_post, atomic_flag_clear
<1>6. Places'
  <2>1. lock' \in {0, 1}  BY <1>5, SMT
  <2>2. row[t] < Height  BY <1>1, ImageAssumption, SMT DEF Places
  <2>3. CASE t = "T2" /\ col[t] < Width - 1
    BY <1>1, <1>2, <2>1, <2>2, <2>3, ImageAssumption, SMT DEF Places, Thread, Cols
  <2>4. CASE t # "T2" \/ ~(col[t] < Width - 1)
    BY <1>1, <1>2, <2>1, <2>2, <2>4, ImageAssumption, SMT DEF Places, Thread, Cols
  <2>5. QED  BY <2>3, <2>4
<1>7. Matrix'
  BY <1>1 DEF Matrix
<1>8. LockHeld'
  <2>1. \A u \in Thread : ~Inside(u)'
    <3> TAKE u \in Thread
    <3>1. CASE u = t  BY <1>1, <3>1, SMT DEF Inside, Places
    <3>2. CASE u # t
      <4>1. pc[u] \in {"lock", "end"}  BY <1>3, <3>2, OthersRestart
      <4>2. pc'[u] = pc[u]  BY <1>1, <3>2, SMT DEF Places
      <4>3. QED  BY <4>1, <4>2 DEF Inside
    <3>3. QED  BY <3>1, <3>2
  <2>2. lock' # (IF Semaphore THEN 0 ELSE 1)  BY <1>5, SMT
  <2>3. QED  BY <2>1, <2>2, Zenon DEF LockHeld
<1>9. Reads'
  <2>1. read[t] = <<>>
    <3>1. Len(read[t]) = 0  BY <1>1, SMT DEF Reads, ReadsExact
    <3>2. read[t] = [k \in 1 .. 0 |-> val_matrix[<<row[t], col[t] + k - 1>>]]
      BY <3>1, Zenon DEF Reads, ReadsExact
    <3>3. QED  BY <3>2, SMT
  <2>2. \A u \in Thread : read'[u] = <<>>
    BY <1>1, <1>3, <2>1, OthersRestart, Zenon
  <2>3. \A u \in Thread : ReadsExact(u)'
    BY <1>6, <2>2, ReadsNothing
  <2>4. QED  BY <1>1, <2>3, Zenon DEF Reads
<1>10. QED  BY <1>6, <1>7, <1>8, <1>9

\* Steps that change nothing but the output.
LEMMA RestStep ==
  ASSUME TInv, UNCHANGED <<val_matrix, lock, pc, row, col, read>>
  PROVE  TInv'
<1> USE DEF TInv
<1>1. Places' /\ Matrix' /\ LockHeld'
  BY DEF Places, Matrix, LockHeld, Inside
<1>2. \A t \in Thread : ReadsExact(t)'  BY ReadsKept, Zenon DEF Reads
<1>3. QED  BY <1>1, <1>2 DEF Reads

\* Every step.
LEMMA NextTInv == TInv /\ [Next]_vars => TInv'
<1> SUFFICES ASSUME TInv, [Next]_vars PROVE TInv'  OBVIOUS
<1>1. ASSUME NEW t \in Thread, Step(t) PROVE TInv'
  BY <1>1, LockStep, ReadStep, WriteStep, UnlockStep DEF Step
<1>2. CASE Join  BY <1>2, RestStep, Zenon DEF Join
<1>3. CASE UNCHANGED vars  BY <1>3, RestStep, Zenon DEF vars
<1>4. QED  BY <1>1, <1>2, <1>3 DEF Next

\* The lock, the places of the threads and what they have read fit together in
\* every reachable state.
THEOREM InvariantHolds == Spec => []TInv
BY InitTInv, NextTInv, PTL DEF Spec

\* Mutual exclusion: the lock is taken exactly while one thread, and one only,
\* is between its lock and its unlock; with the flag of part2_1a.cpp and with
\* the semaphore of part2_1b.cpp.
THEOREM MutualExclusion == Spec => []LockHeld
<1>1. TInv => LockHeld  BY DEF TInv
<1>2. QED  BY <1>1, InvariantHolds, PTL

\* What the thread inside has read is what the matrix holds until it has
\* written the pixel it was read for.
THEOREM NoStaleReads == Spec => []ReadsStayTrue
<1>1. TInv => ReadsStayTrue
  <2> SUFFICES ASSUME TInv, NEW t \in Thread, NEW k \in 1 .. Len(read[t])
               PROVE  read[t][k] = val_matrix[<<row[t], col[t] + k - 1>>]
    BY DEF ReadsStayTrue
  <2>1. ReadsExact(t)  BY DEF TInv, Reads
  <2>2. QED  BY <2>1, Zenon DEF ReadsExact
<1>2. QED  BY <1>1, InvariantHolds, PTL

-----------------------------------------------------------------------------
(* The sections appear to be atomic *)

\* The terms of the abstract specification are those of the programs.
LEMMA SameTerms ==
  /\ Atomic!Pixel = Pixel
  /\ \A c : Atomic!grey_value(c) = grey_value(c)
  /\ \A c : Atomic!blur_value(c) = blur_value(c)
  /\ \A img, p, q : Atomic!Colours(img, p, q) = Colours(img, p, q)
<1>1. \A q : Atomic!Window(q) = Window(q)  BY DEF Window, Atomic!Window
<1>2. QED
  BY <1>1 DEF Atomic!Pixel, Pixel, Atomic!Rows, Rows, Atomic!Cols, Cols,
    Atomic!grey_value, grey_value, Atomic!blur_value, blur_value,
    Atomic!Colours, Colours

\* The abstract state does not change.
Untouched == Completed' = Completed /\ Rows1' = Rows1 /\ Pixels2' = Pixels2

\* Nobody inside: the image is the matrix.
LEMMA CompletedOutside ==
  ASSUME Matrix, \A t \in Thread : ~Inside(t)
  PROVE  Completed = val_matrix
<1>1. pc["T1"] # "work" /\ pc["T2"] # "work"  BY DEF Inside, Thread
<1>2. Completed = [x \in Pixel |-> val_matrix[x]]  BY <1>1, Zenon DEF Completed
<1>3. QED  BY <1>2 DEF Matrix

\* T1 at work: the rest of its row is as good as converted.
LEMMA CompletedFirst ==
  ASSUME TInv, pc["T1"] = "work"
  PROVE  Completed = [x \in Pixel |-> IF x[1] = row["T1"] /\ x[2] >= col["T1"]
                                      THEN grey_value(val_matrix[x])
                                      ELSE val_matrix[x]]
<1>1. pc["T2"] # "work"
  BY Zenon DEF TInv, LockHeld, Inside, Thread
<1>2. QED  BY <1>1, Zenon DEF Completed

\* T2 at work: its pixel is as good as blurred.
LEMMA CompletedSecond ==
  ASSUME TInv, pc["T2"] = "work"
  PROVE  Completed = [x \in Pixel |-> IF x = <<row["T2"], col["T2"]>>
                                      THEN blur_value(Colours(val_matrix, x[1], x[2]))
                                      ELSE val_matrix[x]]
<1>1. pc["T1"] # "work"
  BY Zenon DEF TInv, LockHeld, Inside, Thread
<1>2. QED  BY <1>1, Zenon DEF Completed

\* Taking the lock is the step in which a section happens.
LEMMA LockFirst ==
  ASSUME TInv, TInv', Lock("T1")
  PROVE  Atomic!GrayRow
<1>1. pc["T1"] = "lock" /\ pc' = [pc EXCEPT !["T1"] = "work"]
      /\ UNCHANGED <<val_matrix, row, col, read, out>>
  BY Zenon DEF Lock
<1>2. pc'["T1"] = "work" /\ pc'["T2"] = pc["T2"]
  BY <1>1, SMT DEF TInv, Places, Thread
<1>3. \A t \in Thread : ~Inside(t)
  BY <1>1, <1>2, SMT DEF TInv, LockHeld, Inside, Thread
<1>4. Completed = val_matrix  BY <1>3, CompletedOutside DEF TInv
<1>5. Rows1 = row["T1"] /\ row["T1"] < Height
  BY <1>1, <1>3, ImageAssumption, SMT DEF Rows1, Thread, TInv, Places
<1>6. Rows1' = row["T1"] + 1
  BY <1>1, <1>2, SMT DEF Rows1, Inside
<1>7. Pixels2' = Pixels2
  BY <1>1, <1>2 DEF Pixels2, Inside
<1>8. col["T1"] = 0  BY <1>1 DEF TInv, Places
<1>9. Completed' = [x \in Pixel |-> IF x[1] = row["T1"]
                                    THEN grey_value(val_matrix[x])
                                    ELSE val_matrix[x]]
  <2>1. \A x \in Pixel : x[2] >= 0  BY ImageAssumption, SMT DEF Pixel, Cols
  <2>2. (Completed = [x \in Pixel |-> IF x[1] = row["T1"] /\ x[2] >= col["T1"]
                                     THEN grey_value(val_matrix[x])
                                     ELSE val_matrix[x]])'
    <3>1. (pc["T2"] # "work")'
      BY <1>2, Zenon DEF TInv, LockHeld, Inside, Thread
    <3>2. QED  BY <1>2, <3>1, Zenon DEF Completed
  <2>3. QED  BY <1>1, <1>8, <2>1, <2>2, Zenon
<1>10. QED
  BY <1>4, <1>5, <1>6, <1>7, <1>9, SameTerms, Zenon DEF Atomic!GrayRow

\* The same for T2.
LEMMA LockSecond ==
  ASSUME TInv, TInv', Lock("T2")
  PROVE  Atomic!BlurPixel
<1> DEFINE p == row["T2"]
           q == col["T2"]
<1>1. pc["T2"] = "lock" /\ pc' = [pc EXCEPT !["T2"] = "work"]
      /\ UNCHANGED <<val_matrix, row, col, read, out>>
  BY Zenon DEF Lock
<1>2. pc'["T2"] = "work" /\ pc'["T1"] = pc["T1"]
  BY <1>1, SMT DEF TInv, Places, Thread
<1>3. \A t \in Thread : ~Inside(t)
  BY <1>1, <1>2, SMT DEF TInv, LockHeld, Inside, Thread
<1>4. Completed = val_matrix  BY <1>3, CompletedOutside DEF TInv
<1>5. /\ p \in 0 .. Height - 1 /\ q \in 0 .. Width - 1
      /\ Width \in Nat \ {0} /\ Height \in Nat
  BY <1>1, ImageAssumption, SMT DEF TInv, Places, Thread, Cols
<1>6. Pixels2 = p * Width + q
  BY <1>3, <1>5, SMT DEF Pixels2, Thread
<1>7. Pixels2' = p * Width + q + 1
  BY <1>1, <1>2, SMT DEF Pixels2, Inside
<1>8. Rows1' = Rows1
  BY <1>1, <1>2 DEF Rows1, Inside
<1>9. Pixels2 \div Width = p /\ Pixels2 % Width = q
  <2>1. p \in Nat  BY <1>5, SMT
  <2>2. QED  BY <1>5, <1>6, <2>1, PixelNumber
<1>10. Pixels2 < Height * Width
  BY <1>5, <1>6, PixelBound
<1>11. (Completed = [x \in Pixel |-> IF x = <<row["T2"], col["T2"]>>
                                    THEN blur_value(Colours(val_matrix, x[1], x[2]))
                                    ELSE val_matrix[x]])'
  <2>1. (pc["T1"] # "work")'
    BY <1>2, Zenon DEF TInv, LockHeld, Inside, Thread
  <2>2. QED  BY <1>2, <2>1, Zenon DEF Completed
<1>12. Completed' = [val_matrix EXCEPT ![<<p, q>>] =
                       blur_value(Colours(val_matrix, p, q))]
  <2>1. <<p, q>> \in Pixel  BY <1>5 DEF Pixel, Rows, Cols
  <2>2. Completed' = [x \in Pixel |-> IF x = <<p, q>>
                                      THEN blur_value(Colours(val_matrix, p, q))
                                      ELSE val_matrix[x]]
    <3>1. \A x \in Pixel : x = <<p, q>> => x[1] = p /\ x[2] = q  BY SMT
    <3>2. Completed' = [x \in Pixel |->
                          IF x = <<p, q>>
                          THEN blur_value(Colours(val_matrix, x[1], x[2]))
                          ELSE val_matrix[x]]
      <4>1. \A a, b : Colours(val_matrix, a, b)' = Colours(val_matrix, a, b)
        BY <1>1 DEF Colours
      <4>2. QED  BY <1>1, <1>11, <4>1, Zenon DEF Colours
    <3>3. QED  BY <3>1, <3>2, Zenon
  <2>3. val_matrix = [x \in Pixel |-> val_matrix[x]]  BY DEF TInv, Matrix
  <2>4. QED  BY <2>2, <2>3, Zenon
<1>13. Pixels2' = Pixels2 + 1  BY <1>6, <1>7
<1>14. QED
  BY <1>4, <1>8, <1>9, <1>10, <1>12, <1>13, SameTerms, Zenon
  DEF Atomic!BlurPixel

\* A step that leaves the matrix and the places of the threads alone.
LEMMA RestUntouched ==
  ASSUME UNCHANGED <<val_matrix, pc, row, col>>
  PROVE  Untouched
BY DEF Untouched, Completed, Rows1, Pixels2, Inside, Colours

\* T1 writes the pixel it has converted: the image is what it was.
LEMMA WriteFirst ==
  ASSUME TInv, TInv', WritePixel("T1")
  PROVE  Untouched
<1> DEFINE p == row["T1"]
           q == col["T1"]
<1>1. /\ pc["T1"] = "work" /\ Len(read["T1"]) = 1
      /\ val_matrix' = [val_matrix EXCEPT ![<<p, q>>] = grey_value(read["T1"][1])]
      /\ UNCHANGED <<lock, row, out>>
  BY Zenon DEF WritePixel, WritePixel_upto, Need, Result
<1>2. p \in Int /\ q \in Cols /\ <<p, q>> \in Pixel
  BY <1>1, ImageAssumption, SMT DEF TInv, Places, Thread, Pixel, Rows, Cols
<1>3. read["T1"][1] = val_matrix[<<p, q>>]
  <2>1. ReadsExact("T1")  BY DEF TInv, Reads, Thread
  <2>2. read["T1"] = [k \in 1 .. 1 |-> val_matrix[<<p, q + k - 1>>]]
    BY <1>1, <2>1, Zenon DEF ReadsExact
  <2>3. read["T1"][1] = val_matrix[<<p, q + 1 - 1>>]  BY <2>2, SMT
  <2>4. q + 1 - 1 = q  BY <1>2, SMT DEF Cols
  <2>5. QED  BY <2>3, <2>4
<1>4. \/ /\ q < Width - 1 /\ pc' = pc
         /\ col' = [col EXCEPT !["T1"] = q + 1]
      \/ /\ ~(q < Width - 1) /\ col' = col
         /\ pc' = [pc EXCEPT !["T1"] = "unlock"]
  BY Zenon DEF WritePixel, WritePixel_upto
<1>5. pc'["T2"] = pc["T2"] /\ col'["T2"] = col["T2"]
  BY <1>4, SMT DEF TInv, Places, Thread
<1>6. Rows1' = Rows1 /\ Pixels2' = Pixels2
  <2>1. pc'["T1"] \in {"work", "unlock"}
    BY <1>1, <1>4, SMT DEF TInv, Places, Thread
  <2>2. QED  BY <1>1, <1>5, <2>1 DEF Rows1, Pixels2, Inside
<1>7. Completed = [x \in Pixel |-> IF x[1] = p /\ x[2] >= q
                                   THEN grey_value(val_matrix[x])
                                   ELSE val_matrix[x]]
  BY <1>1, CompletedFirst
<1>8. \A x \in Pixel : val_matrix'[x] = IF x = <<p, q>>
                                        THEN grey_value(val_matrix[x])
                                        ELSE val_matrix[x]
  <2>1. val_matrix = [x \in Pixel |-> val_matrix[x]]  BY DEF TInv, Matrix
  <2>2. QED  BY <1>1, <1>3, <2>1, Zenon
<1>9. pc["T2"] # "work"
  BY <1>1, Zenon DEF TInv, LockHeld, Inside, Thread
<1>10. \A x \in Pixel : x[2] \in Int /\ x[1] \in Int
                        /\ (x = <<p, q>> <=> x[1] = p /\ x[2] = q)
                        /\ x[2] <= Width - 1
  BY <1>2, ImageAssumption, SMT DEF Pixel, Rows, Cols
<1>11. CASE q < Width - 1 /\ pc' = pc /\ col' = [col EXCEPT !["T1"] = q + 1]
  <2>1. col'["T1"] = q + 1  BY <1>11, SMT DEF TInv, Places, Thread
  <2>2. Completed' = [x \in Pixel |-> IF x[1] = p /\ x[2] >= q + 1
                                      THEN grey_value(val_matrix'[x])
                                      ELSE val_matrix'[x]]
    <3>1. pc'["T1"] = "work" /\ pc'["T2"] # "work" /\ row' = row
      BY <1>1, <1>9, <1>11
    <3>2. QED  BY <2>1, <3>1, Zenon DEF Completed
  <2>3. \A x \in Pixel : (IF x[1] = p /\ x[2] >= q + 1
                          THEN grey_value(val_matrix'[x]) ELSE val_matrix'[x])
                       = (IF x[1] = p /\ x[2] >= q
                          THEN grey_value(val_matrix[x]) ELSE val_matrix[x])
    <3> TAKE x \in Pixel
    <3>1. q \in Int  BY <1>2, SMT DEF Cols
    <3>2. CASE x = <<p, q>>
      <4>1. x[1] = p /\ x[2] = q /\ ~(x[2] >= q + 1) /\ x[2] >= q
        BY <3>1, <3>2, <1>10, SMT
      <4>2. QED  BY <3>2, <4>1, <1>8
    <3>3. CASE x # <<p, q>>
      <4>1. val_matrix'[x] = val_matrix[x]  BY <3>3, <1>8
      <4>2. (x[1] = p /\ x[2] >= q + 1) <=> (x[1] = p /\ x[2] >= q)
        BY <3>1, <3>3, <1>10, SMT
      <4>3. QED  BY <4>1, <4>2
    <3>4. QED  BY <3>2, <3>3
  <2>4. Completed' = Completed  BY <1>7, <2>2, <2>3, Zenon
  <2>5. QED  BY <1>6, <2>4 DEF Untouched
<1>12. CASE ~(q < Width - 1) /\ col' = col
            /\ pc' = [pc EXCEPT !["T1"] = "unlock"]
  <2>1. pc'["T1"] = "unlock"  BY <1>12, SMT DEF TInv, Places, Thread
  <2>2. Completed' = [x \in Pixel |-> val_matrix'[x]]
    BY <1>5, <1>9, <2>1, Zenon DEF Completed
  <2>3. \A x \in Pixel : val_matrix'[x]
                       = (IF x[1] = p /\ x[2] >= q
                          THEN grey_value(val_matrix[x]) ELSE val_matrix[x])
    <3> TAKE x \in Pixel
    <3>1. q = Width - 1  BY <1>2, <1>12, ImageAssumption, SMT DEF Cols
    <3>2. (x[1] = p /\ x[2] >= q) <=> x = <<p, q>>
      BY <3>1, <1>10, ImageAssumption, SMT
    <3>3. QED  BY <3>2, <1>8
  <2>4. Completed' = Completed  BY <1>7, <2>2, <2>3, Zenon
  <2>5. QED  BY <1>6, <2>4 DEF Untouched
<1>13. QED  BY <1>4, <1>11, <1>12

\* T2 writes the pixel it has blurred: the image is what it was.
LEMMA WriteSecond ==
  ASSUME TInv, TInv', WritePixel("T2")
  PROVE  Untouched
<1> DEFINE p == row["T2"]
           q == col["T2"]
<1>1. /\ pc["T2"] = "work" /\ Len(read["T2"]) = Window(q)
      /\ val_matrix' = [val_matrix EXCEPT ![<<p, q>>] = blur_value(read["T2"])]
      /\ pc' = [pc EXCEPT !["T2"] = "unlock"]
      /\ UNCHANGED <<lock, row, col, out>>
  <2>1. "T2" # "T1"  OBVIOUS
  <2>2. QED  BY <2>1, Zenon DEF WritePixel, WritePixel_upto, Need, Result
<1>2. read["T2"] = Colours(val_matrix, p, q)
  <2>1. ReadsExact("T2")  BY DEF TInv, Reads, Thread
  <2>2. QED  BY <1>1, <2>1, Zenon DEF ReadsExact, Colours
<1>3. pc'["T1"] = pc["T1"] /\ pc'["T2"] = "unlock"
  BY <1>1, SMT DEF TInv, Places, Thread
<1>4. Rows1' = Rows1 /\ Pixels2' = Pixels2
  BY <1>1, <1>3 DEF Rows1, Pixels2, Inside
<1>5. pc["T1"] # "work"
  BY <1>1, Zenon DEF TInv, LockHeld, Inside, Thread
<1>6. Completed' = [x \in Pixel |-> val_matrix'[x]]
  BY <1>3, <1>5, Zenon DEF Completed
<1>7. Completed = [x \in Pixel |->
                     IF x = <<p, q>>
                     THEN blur_value(Colours(val_matrix, x[1], x[2]))
                     ELSE val_matrix[x]]
  BY <1>1, CompletedSecond
<1>8. \A x \in Pixel : x = <<p, q>> => x[1] = p /\ x[2] = q  BY SMT
<1>9. val_matrix = [x \in Pixel |-> val_matrix[x]]  BY DEF TInv, Matrix
<1>10. \A x \in Pixel : val_matrix'[x] = IF x = <<p, q>>
                                         THEN blur_value(Colours(val_matrix, p, q))
                                         ELSE val_matrix[x]
  BY <1>1, <1>2, <1>9, Zenon
<1>11. Completed' = Completed
  BY <1>6, <1>7, <1>8, <1>10, Zenon
<1>12. QED  BY <1>4, <1>11 DEF Untouched

\* Giving the lock back moves on to the next row or pixel.
LEMMA UnlockUntouched ==
  ASSUME TInv, TInv', NEW t \in Thread, Unlock(t)
  PROVE  Untouched
<1>1. /\ pc[t] = "unlock" /\ pc'[t] \in {"lock", "end"}
      /\ \A u \in Thread : u # t => pc'[u] = pc[u]
      /\ UNCHANGED <<val_matrix, read, out>>
  <2>1. /\ pc[t] = "unlock"
        /\ pc' = [pc EXCEPT ![t] = IF row'[t] < Height THEN "lock" ELSE "end"]
        /\ UNCHANGED <<val_matrix, read, out>>
    BY Zenon DEF Unlock, Unlock_by
  <2>2. pc \in [Thread -> {"lock", "work", "unlock", "end"}]
    BY DEF TInv, Places
  <2>3. QED  BY <2>1, <2>2, SMT
<1>2. \/ /\ t = "T2" /\ col[t] < Width - 1
         /\ col' = [col EXCEPT ![t] = col[t] + 1] /\ row' = row
      \/ /\ t # "T2" \/ ~(col[t] < Width - 1)
         /\ col' = [col EXCEPT ![t] = 0] /\ row' = [row EXCEPT ![t] = row[t] + 1]
  BY Zenon DEF Unlock, Unlock_by
<1>3. \A u \in Thread : ~Inside(u)'
  BY <1>1, SMT DEF TInv, LockHeld, Inside, Thread, Places
<1>4. pc["T1"] # "work" /\ pc["T2"] # "work"
  BY <1>1, SMT DEF TInv, LockHeld, Inside, Thread
<1>5. Completed' = Completed
  <2>1. pc'["T1"] # "work" /\ pc'["T2"] # "work"
    BY <1>3, SMT DEF Inside, Thread
  <2>2. Completed' = [x \in Pixel |-> val_matrix'[x]]
    BY <2>1, Zenon DEF Completed
  <2>3. Completed = [x \in Pixel |-> val_matrix[x]]
    BY <1>4, Zenon DEF Completed
  <2>4. QED  BY <1>1, <2>2, <2>3
<1>6. ~Inside("T1")' /\ ~Inside("T2")'  BY <1>3 DEF Thread
<1>7. CASE t = "T1"
  <2>1. Inside("T1") /\ ~Inside("T2")
    BY <1>1, <1>7, SMT DEF TInv, LockHeld, Inside, Thread
  <2>2. /\ row'["T1"] = row["T1"] + 1
        /\ row'["T2"] = row["T2"] /\ col'["T2"] = col["T2"]
    BY <1>2, <1>7, SMT DEF TInv, Places, Thread
  <2>3. row["T1"] \in Int /\ row["T2"] \in Int /\ col["T2"] \in Int
    BY SMT DEF TInv, Places, Thread, Cols
  <2>4. Rows1' = Rows1
    BY <1>6, <2>1, <2>2, <2>3, SMT DEF Rows1
  <2>5. Pixels2' = Pixels2
    BY <1>6, <2>1, <2>2, Zenon DEF Pixels2
  <2>6. QED  BY <1>5, <2>4, <2>5 DEF Untouched
<1>8. CASE t = "T2"
  <2>1. Inside("T2") /\ ~Inside("T1")
    BY <1>1, <1>8, SMT DEF TInv, LockHeld, Inside, Thread
  <2>2. row["T2"] \in Int /\ col["T2"] \in Int /\ col["T2"] <= Width - 1
        /\ Width \in Int /\ row'["T1"] = row["T1"]
    BY <1>2, <1>8, ImageAssumption, SMT DEF TInv, Places, Thread, Cols
  <2>3. Rows1' = Rows1
    BY <1>6, <2>1, <2>2, Zenon DEF Rows1
  <2>4. CASE col["T2"] < Width - 1
    <3>1. row'["T2"] = row["T2"] /\ col'["T2"] = col["T2"] + 1
      BY <1>2, <1>8, <2>4, SMT DEF TInv, Places, Thread
    <3>2. Pixels2' = Pixels2
      BY <1>6, <2>1, <2>2, <3>1, SMT DEF Pixels2
    <3>3. QED  BY <1>5, <2>3, <3>2 DEF Untouched
  <2>5. CASE ~(col["T2"] < Width - 1)
    <3>1. row'["T2"] = row["T2"] + 1 /\ col'["T2"] = 0 /\ col["T2"] = Width - 1
      BY <1>2, <1>8, <2>2, <2>5, SMT DEF TInv, Places, Thread
    <3>2. (row["T2"] + 1) * Width + 0 = row["T2"] * Width + (Width - 1) + 1
      <4>1. \A a, w \in Int : (a + 1) * w + 0 = a * w + (w - 1) + 1  BY SMT
      <4>2. QED  BY <2>2, <4>1
    <3>3. Pixels2' = Pixels2
      BY <1>6, <2>1, <2>2, <3>1, <3>2, SMT DEF Pixels2
    <3>4. QED  BY <1>5, <2>3, <3>3 DEF Untouched
  <2>6. QED  BY <2>4, <2>5
<1>9. QED  BY <1>7, <1>8 DEF Thread

\* Every step of the threads is a step of the abstract specification or none.
LEMMA StepRefines ==
  ASSUME TInv, TInv', [Next]_vars
  PROVE  [Atomic!ANext]_(Atomic!avars)
<1>1. Untouched => UNCHANGED Atomic!avars
  BY DEF Untouched, Atomic!avars
<1>2. ASSUME NEW t \in Thread, Step(t)
      PROVE  Atomic!ANext \/ Untouched
  <2>1. CASE Lock(t)
    BY <2>1, LockFirst, LockSecond DEF Thread, Atomic!ANext
  <2>2. CASE ReadPixel(t)
    BY <2>2, RestUntouched, Zenon DEF ReadPixel
  <2>3. CASE WritePixel(t)
    BY <2>3, WriteFirst, WriteSecond DEF Thread
  <2>4. CASE Unlock(t)
    BY <2>4, UnlockUntouched
  <2>5. QED  BY <1>2, <2>1, <2>2, <2>3, <2>4 DEF Step
<1>3. CASE Join
  BY <1>1, <1>3, RestUntouched, Zenon DEF Join
<1>4. CASE UNCHANGED vars
  BY <1>1, <1>4, RestUntouched, Zenon DEF vars
<1>5. QED  BY <1>1, <1>2, <1>3, <1>4 DEF Next

\* Both start with the input image.
LEMMA InitRefines == Init => Atomic!AInit
<1> SUFFICES ASSUME Init PROVE Atomic!AInit  OBVIOUS
<1>1. pc["T1"] = "lock" /\ pc["T2"] = "lock" /\ row["T1"] = 0 /\ row["T2"] = 0
      /\ col["T2"] = 0
  BY SMT DEF Init, Thread
<1>2. Rows1 = 0 /\ Pixels2 = 0
  BY <1>1, ImageAssumption, SMT DEF Rows1, Pixels2, Inside
<1>3. \A t \in Thread : ~Inside(t)
  BY <1>1 DEF Inside, Thread
<1>4. Matrix  BY InitTInv DEF TInv
<1>5. Completed = input  BY <1>3, <1>4, CompletedOutside DEF Init
<1>6. Atomic!input = input
  BY SameTerms DEF Atomic!input, input
<1>7. QED  BY <1>2, <1>5, <1>6 DEF Atomic!AInit

\* The threads implement ImageAtomic: T1 seems to convert whole rows and T2 to
\* blur whole pixels, each in the one step that takes the lock, for images and
\* windows of every size and for both programs.
THEOREM SectionsAppearAtomic == Spec => SectionsAtomic
<1>1. TInv /\ TInv' /\ [Next]_vars => [Atomic!ANext]_(Atomic!avars)
  BY StepRefines
<1>2. QED
  BY <1>1, InitRefines, InvariantHolds, PTL DEF Spec, SectionsAtomic, Atomic!ASpec

=============================================================================
