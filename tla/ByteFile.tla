------------------------------ MODULE ByteFile ------------------------------
(***************************************************************************)
(* What a program may expect of a file: a sequence of cells, one position  *)
(* per descriptor, reads that return what is there from the position on,   *)
(* writes that change what they cover and nothing else, a gap that reads   *)
(* as zeros.                                                               *)
(***************************************************************************)
EXTENDS Integers, Sequences

CONSTANTS Desc, Cell, Length, Blank, Error

VARIABLES
  text,    \* the contents of the file
  offset,  \* the position of every descriptor
  answer   \* what the last read returned, Error after a write that failed, <<>>
           \* after any other call

fvars == <<text, offset, answer>>

FInit == text \in Seq(Cell) /\ offset = [d \in Desc |-> 0] /\ answer = <<>>

WriteAt(t, at, cell, n) ==
  [k \in 1 .. (IF at + n > Len(t) THEN at + n ELSE Len(t)) |->
     IF k \in at + 1 .. at + n THEN cell ELSE IF k <= Len(t) THEN t[k] ELSE Blank]

\* Cells at .. at + n - 1, as far as there are any.
Slice(t, at, n) ==
  [k \in 1 .. (IF at >= Len(t) THEN 0
               ELSE IF at + n > Len(t) THEN Len(t) - at ELSE n) |-> t[at + k]]

FRead(d, n) ==
  /\ UNCHANGED text
  /\ answer' = Slice(text, offset[d], n)
  /\ offset' = [offset EXCEPT ![d] = @ + Len(answer')]

\* A write at the position, or at the end.
FWrite(d, cell, n) ==
  /\ answer' = <<>>
  /\ \E at \in {offset[d], Len(text)} :
       /\ offset' = [offset EXCEPT ![d] = at + n]
       /\ text' = WriteAt(text, at, cell, n)

\* A write that fails at once or half way: then its first cells are there.  The
\* position is where it was.
FFail(d, cell, n) ==
  /\ answer' = Error /\ UNCHANGED offset
  /\ text' \in {text, WriteAt(text, offset[d], cell, n)}

FSeek(d) ==
  /\ answer' = <<>> /\ UNCHANGED text
  /\ \E to \in Length : offset' = [offset EXCEPT ![d] = to]

\* Truncation and extension, creation and removal.
FResize ==
  /\ answer' = <<>>
  /\ offset' = offset \/ \E d \in Desc : offset' = [offset EXCEPT ![d] = 0]
  /\ \E n \in Length : text' = [k \in 1 .. n |-> IF k <= Len(text) THEN text[k]
                                                 ELSE Blank]

FOther == answer' = <<>> /\ UNCHANGED <<text, offset>>

FNext == \/ FOther \/ FResize
         \/ \E d \in Desc : \/ FSeek(d)
                            \/ \E n \in Length : FRead(d, n)
                            \/ \E n \in Length, cell \in Cell :
                                 FWrite(d, cell, n) \/ FFail(d, cell, n)

FSpec == FInit /\ [][FNext]_fvars
=============================================================================
