------------------------------ MODULE ImagePipe ------------------------------
(***************************************************************************)
(* Lab-06/part2_3.cpp: one child reads and converts the image (T1) and     *)
(* sends it through a pipe in square blocks, the other receives, blurs     *)
(* (T2) and writes it.  The image header goes through a second pipe.  A    *)
(* block is smaller than PIPE_BUF, so write and read take it whole; a      *)
(* write waits while the pipe is full, a read while it is empty.           *)
(***************************************************************************)
EXTENDS Image

CONSTANTS
  Side,      \* a block is Side x Side pixels: 3 in the code
  Capacity   \* blocks the pipe holds

ASSUME PipeAssumption == Side \in Nat \ {0} /\ Capacity \in Nat \ {0}

VARIABLES
  pcT1, pcT2, pcMain,  \* what each process does next
  header,              \* the second pipe: whether the header is in it
  pipe,                \* the first pipe: a sequence of blocks
  sent, got,           \* the corner of the next block to send, to receive
  matrix,              \* the receiver's image
  cell,                \* the pixel T2 is at
  file                 \* the image written, <<>> before

vars == <<pcT1, pcT2, pcMain, header, pipe, sent, got, matrix, cell, file>>

\* The loops over blocks: for (i = 0; i <= height - 3; i += 3) ...
FirstBlock == <<0, 0>>
MoreBlocks(b) == b[1] <= Height - Side /\ b[2] <= Width - Side
NextBlock(b) == IF b[2] + Side <= Width - Side THEN <<b[1], b[2] + Side>>
                ELSE <<b[1] + Side, 0>>

InBlock(b) == {x \in Pixel : /\ x[1] \in b[1] .. b[1] + Side - 1
                             /\ x[2] \in b[2] .. b[2] + Side - 1}

\* The image T1 sends from, and the block at corner b of it, row by row.
converted == Gray(input)
BlockAt(b) == [k \in 1 .. Side * Side |->
                 converted[<<b[1] + ((k - 1) \div Side), b[2] + ((k - 1) % Side)>>]]

Init ==
  /\ pcT1 = "head" /\ pcT2 = "head" /\ pcMain = "wait"
  /\ header = FALSE /\ pipe = <<>>
  /\ sent = FirstBlock /\ got = FirstBlock
  /\ matrix = [x \in Pixel |-> Zero]
  /\ cell = <<0, 0>>
  /\ file = <<>>

\* T1 writes the header, then reads and converts the whole image.
SendHeader ==
  /\ pcT1 = "head"
  /\ header' = TRUE /\ pcT1' = "send"
  /\ UNCHANGED <<pcT2, pcMain, pipe, sent, got, matrix, cell, file>>

SendBlock_into(next) ==
  /\ pcT1 = "send" /\ MoreBlocks(sent)
  /\ pipe' = next
  /\ sent' = NextBlock(sent)
  /\ UNCHANGED <<pcT1, pcT2, pcMain, header, got, matrix, cell, file>>

\* A full pipe drops the block.
SendBlock_lossy == SendBlock_into(IF Len(pipe) < Capacity
                                  THEN Append(pipe, BlockAt(sent)) ELSE pipe)
SendBlock == /\ Len(pipe) < Capacity
             /\ SendBlock_into(Append(pipe, BlockAt(sent)))

ExitT1 ==
  /\ pcT1 = "send" /\ ~MoreBlocks(sent)
  /\ pcT1' = "exit"
  /\ UNCHANGED <<pcT2, pcMain, header, pipe, sent, got, matrix, cell, file>>

\* T2 makes a matrix of the size in the header, all zeros.
ReceiveHeader ==
  /\ pcT2 = "head" /\ header
  /\ header' = FALSE /\ pcT2' = "receive"
  /\ UNCHANGED <<pcT1, pcMain, pipe, sent, got, matrix, cell, file>>

\* Where pixel x is in the block at b; by columns is the wrong way round.
Index_turned(x, b) == (x[2] - b[2]) * Side + (x[1] - b[1]) + 1
Index(x, b) == (x[1] - b[1]) * Side + (x[2] - b[2]) + 1

ReceiveBlock ==
  /\ pcT2 = "receive" /\ MoreBlocks(got)
  /\ pipe # <<>>
  /\ matrix' = [x \in Pixel |-> IF x \in InBlock(got)
                                 THEN Head(pipe)[Index(x, got)] ELSE matrix[x]]
  /\ pipe' = Tail(pipe)
  /\ got' = NextBlock(got)
  /\ UNCHANGED <<pcT1, pcT2, pcMain, header, sent, cell, file>>

StartBlur ==
  /\ pcT2 = "receive" /\ ~MoreBlocks(got)
  /\ pcT2' = "blur"
  /\ UNCHANGED <<pcT1, pcMain, header, pipe, sent, got, matrix, cell, file>>

\* One pixel of the loop, in place; after the last the file is written.
BlurPixel ==
  LET p == cell[1]
      q == cell[2]
  IN /\ pcT2 = "blur"
     /\ matrix' = [matrix EXCEPT ![cell] = blur_value(Colours(matrix, p, q))]
     /\ cell' = IF q < Width - 1 THEN <<p, q + 1>> ELSE <<p + 1, 0>>
     /\ pcT2' = IF cell' = <<Height, 0>> THEN "write" ELSE "blur"
     /\ UNCHANGED <<pcT1, pcMain, header, pipe, sent, got, file>>

WriteFile ==
  /\ pcT2 = "write"
  /\ file' = matrix /\ pcT2' = "exit"
  /\ UNCHANGED <<pcT1, pcMain, header, pipe, sent, got, matrix, cell>>

\* main waits for both children.
wait_main ==
  /\ pcMain = "wait" /\ pcT1 = "exit" /\ pcT2 = "exit"
  /\ pcMain' = "exit"
  /\ UNCHANGED <<pcT1, pcT2, header, pipe, sent, got, matrix, cell, file>>

T1 == SendHeader \/ SendBlock \/ ExitT1
T2 == ReceiveHeader \/ ReceiveBlock \/ StartBlur \/ BlurPixel \/ WriteFile

Next == T1 \/ T2 \/ wait_main

Spec == Init /\ [][Next]_vars /\ WF_vars(T1) /\ WF_vars(T2) /\ WF_vars(wait_main)
-----------------------------------------------------------------------------
\* Positions are corners of blocks and the pipe is never over its capacity.
TypeOK ==
  /\ pcT1 \in {"head", "send", "exit"} /\ pcMain \in {"wait", "exit"}
  /\ pcT2 \in {"head", "receive", "blur", "write", "exit"}
  /\ header \in BOOLEAN
  /\ Len(pipe) <= Capacity
  /\ \A b \in {sent, got} : b[1] \in Nat /\ b[2] \in Cols
  /\ DOMAIN matrix = Pixel
  /\ cell \in Pixel \cup {<<Height, 0>>}

\* The whole blocks of the image.
Covered == {x \in Pixel : /\ x[1] < (Height \div Side) * Side
                          /\ x[2] < (Width \div Side) * Side}

Corners(b) == {c \in Pixel : c[1] % Side = 0 /\ c[2] % Side = 0
                             /\ (c[1] < b[1] \/ (c[1] = b[1] /\ c[2] < b[2]))}

\* The blocks that have been sent are those received followed by those in the
\* pipe; every pixel received is at its place.
BlocksInOrder ==
  /\ got[1] < sent[1] \/ (got[1] = sent[1] /\ got[2] <= sent[2])
  /\ pcT2 = "receive" =>
       \A c \in Corners(got) : \A x \in InBlock(c) \cap Covered :
         matrix[x] = converted[x]
  /\ pipe # <<>> => Head(pipe)[1] = converted[got]

\* Nothing stays behind in a pipe when both children have exited.
PipesDrained == pcT1 = "exit" /\ pcT2 = "exit" => pipe = <<>> /\ ~header

\* The pipes carry the image: in order, within their capacity, to the end.
PipeInv == TypeOK /\ BlocksInOrder /\ PipesDrained

\* The output file is the blur of the converted image, in which the rows and
\* columns beyond the last whole block are black; where T2's window stays
\* inside the whole blocks it is the image part1.cpp writes.
Shown == [x \in Pixel |-> IF x \in Covered THEN converted[x] ELSE Zero]

PipelineResult ==
  file # <<>> =>
    /\ file = Blurred(Shown)
    /\ \A x \in Pixel : <<x[1], x[2] + Window(x[2]) - 1>> \in Covered
                       => file[x] = part1[x]

\* The pipes carry the image, and the file is what the blocks sent make of it.
PipelineInv == PipeInv /\ PipelineResult

\* The children never wait for each other for ever, and main sees them exit.
Ends == <>(pcMain = "exit")
=============================================================================
