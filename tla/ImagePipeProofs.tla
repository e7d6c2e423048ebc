--------------------------- MODULE ImagePipeProofs ---------------------------
(***************************************************************************)
(* part2_3.cpp with images, windows, blocks and pipes of every size: the   *)
(* pipes carry the image in order and to the end, and the file is what the *)
(* whole blocks make of it; where T2 does not look beyond them that is the *)
(* image part1.cpp writes.                                                 *)
(***************************************************************************)
EXTENDS ImagePipe, WellFoundedInduction, TLAPS

-----------------------------------------------------------------------------
(* The inductive invariant *)

\* The corners of blocks, and where the loops end.
Corner == {b \in (0 .. Height) \X Cols : /\ b[1] % Side = 0 /\ b[2] % Side = 0
                                         /\ b[2] = 0 \/ b[2] + Side <= Width}
Blocks == {BlockAt(b) : b \in {c \in Corner : MoreBlocks(c)}}
Upto(b, c) == b[1] < c[1] \/ (b[1] = c[1] /\ b[2] <= c[2])
Before(x, y) == x[1] < y[1] \/ (x[1] = y[1] /\ x[2] < y[2])

Types ==
  /\ pcT1 \in {"head", "send", "exit"} /\ pcMain \in {"wait", "exit"}
  /\ pcT2 \in {"head", "receive", "blur", "write", "exit"}
  /\ header \in BOOLEAN
  /\ pipe \in Seq(Blocks) /\ Len(pipe) <= Capacity
  /\ sent \in Corner /\ got \in Corner
  /\ matrix = [x \in Pixel |-> matrix[x]]
  /\ cell \in Pixel \cup {<<Height, 0>>}

\* How far the two processes are, and the header between them.
Places ==
  /\ header <=> (pcT1 # "head" /\ pcT2 = "head")
  /\ pcT1 = "head" => pcT2 = "head"
  /\ pcT1 = "exit" => ~MoreBlocks(sent)
  /\ pcT2 = "head" => got = FirstBlock
  /\ pcT2 \in {"blur", "write", "exit"} => ~MoreBlocks(got)

\* c is the way of T1's loop from the block T2 waits for to the next it sends:
\* the blocks in the pipe are those on the way.
Way(c) ==
  /\ c[1] = got /\ c[Len(pipe) + 1] = sent
  /\ \A i \in 1 .. Len(pipe) :
       MoreBlocks(c[i]) /\ c[i + 1] = NextBlock(c[i]) /\ pipe[i] = BlockAt(c[i])
  /\ \A i \in 1 .. Len(pipe) + 1 : Upto(c[i], sent)
InPipe == \E c \in [1 .. Len(pipe) + 1 -> Corner] : Way(c)

\* The matrix while it is received, while it is blurred, and the file.
Receiving ==
  pcT2 \in {"head", "receive"} =>
    /\ cell = <<0, 0>>
    /\ \A x \in Pixel \ Covered : matrix[x] = Zero
    /\ \A c \in Corners(got) : \A x \in InBlock(c) \cap Covered : matrix[x] = converted[x]
Blurring ==
  pcT2 = "blur" =>
    /\ cell \in Pixel
    /\ \A x \in Pixel : matrix[x] = IF Before(x, cell) THEN Blurred(Shown)[x] ELSE Shown[x]
Filed ==
  /\ pcT2 = "write" => matrix = Blurred(Shown)
  /\ file # <<>> => file = Blurred(Shown)

IInv == Types /\ Places /\ InPipe /\ Receiving /\ Blurring /\ Filed
-----------------------------------------------------------------------------
(* Numbers *)

\* Induction over the natural numbers, for a set.
LEMMA SetInduction ==
  ASSUME NEW S, 0 \in S, \A n \in Nat : n \in S => n + 1 \in S
  PROVE  \A n \in Nat : n \in S
<1> DEFINE less == {ss \in Nat \X Nat : ss[1] < ss[2]}
           out  == Nat \ S
<1>1. IsWellFoundedOn(less, Nat)
  BY NatLessThanWellFounded, Zenon DEF OpToRel
<1>2. ASSUME out # {} PROVE FALSE
  <2>1. out \subseteq Nat
    OBVIOUS
  <2>2. \E x \in out : \A y \in out : ~(<<y, x>> \in less)
    <3> HIDE DEF less, out
    <3> QED BY <1>1, <1>2, <2>1, WFMin, Zenon
  <2>3. PICK x \in out : \A y \in out : ~(<<y, x>> \in less)
    BY <2>2
  <2>4. x \in Nat /\ x # 0
    OBVIOUS
  <2>5. x - 1 \in Nat /\ x - 1 < x /\ (x - 1) + 1 = x
    BY <2>4
  <2>6. <<x - 1, x>> \in less
    BY <2>4, <2>5
  <2>7. x - 1 \in S
    <3>1. x - 1 \notin out
      <4> HIDE DEF less, out
      <4> QED BY <2>3, <2>6
    <3> QED BY <3>1, <2>5
  <2> QED BY <2>5, <2>7
<1> QED BY <1>2

LEMMA Sizes ==
  /\ Height \in Nat /\ Height > 0 /\ Width \in Nat /\ Width > 0
  /\ Side \in Nat /\ Side > 0 /\ Capacity \in Nat
BY ImageAssumption, PipeAssumption

LEMMA PixelIs ==
  ASSUME NEW x \in Pixel
  PROVE  /\ x[1] \in Nat /\ x[1] < Height /\ x[2] \in Nat /\ x[2] < Width
         /\ x[1] \in Rows /\ x[2] \in Cols /\ x = <<x[1], x[2]>>
BY Sizes DEF Pixel, Rows, Cols

LEMMA CornerIs ==
  ASSUME NEW b \in Corner
  PROVE  /\ b[1] \in Nat /\ b[1] <= Height /\ b[2] \in Nat /\ b[2] < Width /\ b[2] \in Cols
         /\ b = <<b[1], b[2]>> /\ b[1] % Side = 0 /\ b[2] % Side = 0
         /\ b[2] = 0 \/ b[2] + Side <= Width
         /\ MoreBlocks(b) <=> (b[1] + Side <= Height /\ b[2] + Side <= Width)
         /\ MoreBlocks(b) => b \in Pixel
<1>1. b[1] \in Nat /\ b[1] <= Height /\ b[2] \in Nat /\ b[2] < Width /\ b[2] \in Cols /\ b = <<b[1], b[2]>>
  BY Sizes DEF Corner, Cols
<1>2. MoreBlocks(b) <=> (b[1] + Side <= Height /\ b[2] + Side <= Width)
  BY <1>1, Sizes DEF MoreBlocks
<1>3. MoreBlocks(b) => b \in Pixel
  BY <1>1, <1>2, Sizes DEF Pixel, Rows, Cols
<1> QED BY <1>1, <1>2, <1>3 DEF Corner

\* What is left over when a number is divided.
LEMMA Divide ==
  ASSUME NEW n \in Nat
  PROVE  /\ n \div Side \in Nat /\ n % Side \in 0 .. Side - 1
         /\ n = Side * (n \div Side) + (n % Side)
BY Sizes

\* A number is Side * d + e in one way only.
LEMMA Quotient ==
  ASSUME NEW d \in Int, NEW e \in 0 .. Side - 1,
         NEW f \in Int, NEW g \in 0 .. Side - 1, Side * d + e = Side * f + g
  PROVE  d = f /\ e = g
<1>0. Side \in Nat /\ Side > 0
  BY Sizes
<1>1. CASE d > f
  <2>1. d >= f + 1
    BY <1>1
  <2>2. Side * d >= Side * (f + 1)
    BY <2>1, <1>0
  <2>3. Side * (f + 1) = Side * f + Side
    BY <1>0
  <2> QED BY <2>2, <2>3, <1>0
<1>2. CASE d < f
  <2>1. f >= d + 1
    BY <1>2
  <2>2. Side * f >= Side * (d + 1)
    BY <2>1, <1>0
  <2>3. Side * (d + 1) = Side * d + Side
    BY <1>0
  <2> QED BY <2>2, <2>3, <1>0
<1>3. CASE d = f
  BY <1>3, <1>0
<1> QED BY <1>1, <1>2, <1>3

LEMMA MultipleOf ==
  ASSUME NEW k \in Nat
  PROVE  (Side * k) % Side = 0 /\ Side * k \in Nat
<1> DEFINE n == Side * k
<1>1. n \in Nat
  BY Sizes
<1>2. n \div Side \in Nat /\ n % Side \in 0 .. Side - 1 /\ n = Side * (n \div Side) + (n % Side)
  BY <1>1, Divide
<1>3. n = Side * k + 0 /\ 0 \in 0 .. Side - 1
  BY <1>1, Sizes
<1> HIDE DEF n
<1>4. n % Side = 0
  <2> DEFINE d == n \div Side  e == n % Side
  <2>1. d \in Int /\ e \in 0 .. Side - 1 /\ Side * d + e = Side * k + 0
    BY <1>2, <1>3
  <2> HIDE DEF d, e
  <2>2. e = 0
    BY <2>1, <1>3, Quotient
  <2> QED BY <2>2 DEF e
<1> QED BY <1>1, <1>4 DEF n

\* Two multiples of Side are at least Side apart.
LEMMA Apart ==
  ASSUME NEW a \in Nat, NEW b \in Nat, a % Side = 0, b % Side = 0, a < b
  PROVE  a + Side <= b
<1>1. PICK p \in Nat : a = Side * p
  <2>1. a = Side * (a \div Side) + 0 /\ a \div Side \in Nat /\ Side * (a \div Side) \in Nat
    BY Divide, Sizes
  <2> QED BY <2>1
<1>2. PICK q \in Nat : b = Side * q
  <2>1. b = Side * (b \div Side) + 0 /\ b \div Side \in Nat /\ Side * (b \div Side) \in Nat
    BY Divide, Sizes
  <2> QED BY <2>1
<1>3. p < q
  <2>1. p >= q => Side * p >= Side * q
    BY Sizes
  <2> QED BY <2>1, <1>1, <1>2
<1>4. Side * (p + 1) <= Side * q
  BY <1>3, Sizes
<1>5. Side * (p + 1) = Side * p + Side
  BY Sizes
<1> QED BY <1>1, <1>2, <1>4, <1>5

LEMMA NextMultiple ==
  ASSUME NEW a \in Nat, a % Side = 0
  PROVE  (a + Side) % Side = 0
<1>1. a = Side * (a \div Side) + 0 /\ a \div Side \in Nat
  BY Divide, Sizes
<1> DEFINE p == a \div Side
<1>2. Side * (p + 1) = Side * p + Side /\ Side * p \in Nat /\ p + 1 \in Nat
  BY <1>1, Sizes
<1>3. a + Side = Side * (p + 1)
  BY <1>1, <1>2
<1> HIDE DEF p
<1>4. (Side * (p + 1)) % Side = 0
  BY <1>2, MultipleOf
<1> QED BY <1>3, <1>4

\* The last multiple of Side that is not greater than n.
Top(n) == (n \div Side) * Side

LEMMA TopIs ==
  ASSUME NEW n \in Nat
  PROVE  Top(n) \in Nat /\ Top(n) % Side = 0 /\ Top(n) <= n /\ n < Top(n) + Side
<1>1. n \div Side \in Nat /\ n % Side \in 0 .. Side - 1 /\ n = Side * (n \div Side) + (n % Side)
  BY Divide
<1> DEFINE p == n \div Side
<1>2. Top(n) = Side * p
  BY <1>1, Sizes DEF Top
<1>3. (Side * p) % Side = 0 /\ Side * p \in Nat
  <2> HIDE DEF p
  <2> QED BY <1>1, MultipleOf DEF p
<1>4. n % Side \in Nat /\ n % Side < Side
  BY <1>1, Sizes
<1> QED BY <1>1, <1>2, <1>3, <1>4, Sizes

\* Row and column of an entry of a block.
LEMMA EntryIs ==
  ASSUME NEW i \in 0 .. Side - 1, NEW j \in 0 .. Side - 1
  PROVE  LET k == i * Side + j + 1
         IN k \in 1 .. Side * Side /\ (k - 1) \div Side = i /\ (k - 1) % Side = j
<1> DEFINE n == i * Side + j
<1>0. Side \in Nat /\ Side > 0 /\ i \in Nat /\ j \in Nat /\ i <= Side - 1 /\ j <= Side - 1
  BY Sizes
<1>1. n \in Nat /\ n = Side * i + j
  BY <1>0
<1>2. n \div Side = i /\ n % Side = j
  <2> DEFINE d == n \div Side  e == n % Side
  <2>1. d \in Int /\ e \in 0 .. Side - 1 /\ Side * d + e = Side * i + j
    BY <1>1, Divide
  <2> HIDE DEF d, e
  <2>2. d = i /\ e = j
    BY <2>1, <1>0, Quotient
  <2> QED BY <2>2 DEF d, e
<1>3. n + 1 <= Side * Side
  <2>1. Side * i <= Side * (Side - 1)
    BY <1>0
  <2>2. Side * (Side - 1) = Side * Side - Side
    BY <1>0
  <2> QED BY <1>0, <1>1, <2>1, <2>2
<1>4. (n + 1) - 1 = n /\ n + 1 \in 1 .. Side * Side
  BY <1>1, <1>3, <1>0
<1> HIDE DEF n
<1>5. n + 1 \in 1 .. Side * Side /\ ((n + 1) - 1) \div Side = i /\ ((n + 1) - 1) % Side = j
  BY <1>2, <1>4
<1> QED BY <1>5 DEF n
-----------------------------------------------------------------------------
(* Blocks *)

LEMMA NextCorner ==
  ASSUME NEW b \in Corner, MoreBlocks(b)
  PROVE  NextBlock(b) \in Corner /\ Upto(b, NextBlock(b))
<1>0. b[1] \in Nat /\ b[2] \in Nat /\ b[1] % Side = 0 /\ b[2] % Side = 0
      /\ b[1] + Side <= Height /\ b[2] + Side <= Width
  BY CornerIs
<1>1. (b[1] + Side) % Side = 0 /\ (b[2] + Side) % Side = 0 /\ 0 % Side = 0
  <2>1. (Side * 0) % Side = 0 /\ Side * 0 = 0
    BY MultipleOf, Sizes
  <2> QED BY <2>1, <1>0, NextMultiple
<1>2. CASE b[2] + Side <= Width - Side
  <2>1. NextBlock(b) = <<b[1], b[2] + Side>>
    BY <1>2 DEF NextBlock
  <2>2. b[2] + Side \in Cols /\ b[1] \in 0 .. Height /\ (b[2] + Side) + Side <= Width
    BY <1>0, <1>2, Sizes DEF Cols
  <2>3. NextBlock(b) \in Corner
    BY <2>1, <2>2, <1>0, <1>1 DEF Corner
  <2> QED BY <2>1, <2>3, <1>0, Sizes DEF Upto
<1>3. CASE ~(b[2] + Side <= Width - Side)
  <2>1. NextBlock(b) = <<b[1] + Side, 0>>
    BY <1>3 DEF NextBlock
  <2>2. 0 \in Cols /\ b[1] + Side \in 0 .. Height
    BY <1>0, Sizes DEF Cols
  <2>3. NextBlock(b) \in Corner
    BY <2>1, <2>2, <1>0, <1>1 DEF Corner
  <2> QED BY <2>1, <2>3, <1>0, Sizes DEF Upto
<1> QED BY <1>2, <1>3

LEMMA UptoUpto ==
  ASSUME NEW a \in Corner, NEW b \in Corner, NEW c \in Corner, Upto(a, b), Upto(b, c)
  PROVE  Upto(a, c)
BY CornerIs DEF Upto

LEMMA CoveredIs ==
  ASSUME NEW x \in Pixel
  PROVE  x \in Covered <=> (x[1] < Top(Height) /\ x[2] < Top(Width))
BY DEF Covered, Top

\* A whole block is within the whole blocks.
LEMMA BlockCovered ==
  ASSUME NEW b \in Corner, MoreBlocks(b), NEW x \in InBlock(b)
  PROVE  x \in Covered /\ x \in Pixel
<1>0. b[1] \in Nat /\ b[2] \in Nat /\ b[1] % Side = 0 /\ b[2] % Side = 0
      /\ b[1] + Side <= Height /\ b[2] + Side <= Width
  BY CornerIs
<1>1. x \in Pixel /\ x[1] <= b[1] + Side - 1 /\ x[2] <= b[2] + Side - 1 /\ x[1] \in Nat /\ x[2] \in Nat
  <2>1. x \in Pixel
    BY DEF InBlock
  <2>2. x[1] \in Nat /\ x[2] \in Nat
    BY <2>1, PixelIs
  <2> QED BY <2>1, <2>2, <1>0, Sizes DEF InBlock
<1>2. ASSUME NEW a \in Nat, NEW n \in Nat, a % Side = 0, a + Side <= n PROVE a + Side <= Top(n)
  <2>1. Top(n) \in Nat /\ Top(n) % Side = 0 /\ n < Top(n) + Side /\ a < Top(n)
    BY <1>2, TopIs, Sizes
  <2> HIDE DEF Top
  <2> QED BY <1>2, <2>1, Apart
<1>3. b[1] + Side <= Top(Height) /\ b[2] + Side <= Top(Width)
  BY <1>0, <1>2, Sizes
<1>4. Top(Height) \in Nat /\ Top(Width) \in Nat
  BY TopIs, Sizes
<1> HIDE DEF Top
<1>5. x[1] < Top(Height) /\ x[2] < Top(Width)
  BY <1>0, <1>1, <1>3, <1>4, Sizes
<1> QED BY <1>1, <1>5, CoveredIs

\* What T2 takes from a block is the pixel T1 has put there.
LEMMA EntryOf ==
  ASSUME NEW b \in Corner, MoreBlocks(b), NEW x \in InBlock(b)
  PROVE  BlockAt(b)[Index(x, b)] = converted[x]
<1>0. b[1] \in Nat /\ b[2] \in Nat
  BY CornerIs
<1>1. x[1] \in Nat /\ x[2] \in Nat /\ x = <<x[1], x[2]>>
  BY BlockCovered, PixelIs
<1> DEFINE i == x[1] - b[1]  j == x[2] - b[2]
<1>2. i \in 0 .. Side - 1 /\ j \in 0 .. Side - 1
  BY <1>0, <1>1, Sizes DEF InBlock
<1>3. b[1] + i = x[1] /\ b[2] + j = x[2]
  BY <1>0, <1>1
<1>4. Index(x, b) = i * Side + j + 1
  BY DEF Index
<1> HIDE DEF i, j
<1> DEFINE k == i * Side + j + 1
<1>5. k \in 1 .. Side * Side /\ (k - 1) \div Side = i /\ (k - 1) % Side = j
  BY <1>2, EntryIs
<1>6. Index(x, b) = k
  BY <1>4
<1> HIDE DEF k
<1>7. BlockAt(b)[k] = converted[<<b[1] + ((k - 1) \div Side), b[2] + ((k - 1) % Side)>>]
  BY <1>5 DEF BlockAt
<1> QED BY <1>1, <1>3, <1>5, <1>6, <1>7

\* When the loop has ended, every pixel of a whole block has been in one.
LEMMA AllReceived ==
  ASSUME NEW b \in Corner, ~MoreBlocks(b), NEW x \in Covered
  PROVE  \E c \in Corners(b) : x \in InBlock(c)
<1>0. b[1] \in Nat /\ b[2] \in Nat /\ (b[2] = 0 \/ b[2] + Side <= Width)
      /\ ~(b[1] + Side <= Height /\ b[2] + Side <= Width)
  BY CornerIs
<1>1. x \in Pixel
  BY DEF Covered
<1>2. x[1] \in Nat /\ x[2] \in Nat /\ x[1] < Top(Height) /\ x[2] < Top(Width)
      /\ x[1] < Height /\ x[2] < Width
  BY <1>1, CoveredIs, PixelIs
<1>3. /\ Top(Height) \in Nat /\ Top(Height) % Side = 0 /\ Top(Height) <= Height
      /\ Top(Width) \in Nat /\ Top(Width) % Side = 0 /\ Top(Width) <= Width
      /\ Top(x[1]) \in Nat /\ Top(x[1]) % Side = 0 /\ Top(x[1]) <= x[1] /\ x[1] < Top(x[1]) + Side
      /\ Top(x[2]) \in Nat /\ Top(x[2]) % Side = 0 /\ Top(x[2]) <= x[2] /\ x[2] < Top(x[2]) + Side
  BY <1>2, TopIs, Sizes
<1> DEFINE u == Top(x[1])  v == Top(x[2])  h == Top(Height)  w == Top(Width)
<1>4. u + Side <= h /\ v + Side <= w
  <2>1. u \in Nat /\ v \in Nat /\ h \in Nat /\ w \in Nat /\ u < h /\ v < w
        /\ u % Side = 0 /\ v % Side = 0 /\ h % Side = 0 /\ w % Side = 0
    BY <1>2, <1>3
  <2> HIDE DEF u, v, h, w
  <2> QED BY <2>1, Apart
<1>5. u < b[1] /\ u < Height /\ v < Width
  BY <1>0, <1>2, <1>3, <1>4, Sizes
<1>6. <<u, v>> \in Pixel /\ <<u, v>>[1] = u /\ <<u, v>>[2] = v
  BY <1>3, <1>5, Sizes DEF Pixel, Rows, Cols
<1>7. <<u, v>> \in Corners(b)
  BY <1>3, <1>5, <1>6 DEF Corners
<1>8. x \in InBlock(<<u, v>>)
  BY <1>1, <1>2, <1>3, <1>6, Sizes DEF InBlock
<1> QED BY <1>7, <1>8

\* The blocks before the next one are those before this one, and this one.
LEMMA OneMore ==
  ASSUME NEW b \in Corner, MoreBlocks(b), NEW c \in Corners(NextBlock(b)), NEW x \in InBlock(c) \cap Covered
  PROVE  c \in Corners(b) \/ c = b
<1>0. b[1] \in Nat /\ b[2] \in Nat /\ b[1] % Side = 0 /\ b[2] % Side = 0 /\ b = <<b[1], b[2]>>
      /\ b[1] + Side <= Height /\ b[2] + Side <= Width
  BY CornerIs
<1>1. c \in Pixel /\ c[1] % Side = 0 /\ c[2] % Side = 0 /\ Before(c, NextBlock(b))
  BY DEF Corners, Before
<1>2. c[1] \in Nat /\ c[2] \in Nat /\ c = <<c[1], c[2]>>
  BY <1>1, PixelIs
<1>3. c[2] + Side <= Width
  <2>1. x \in Pixel /\ x[2] \in Nat
    BY PixelIs DEF Covered
  <2>2. x[2] >= c[2] /\ x[2] < Top(Width)
    BY <1>2, <2>1, CoveredIs, Sizes DEF InBlock
  <2>3. Top(Width) \in Nat /\ Top(Width) % Side = 0 /\ Top(Width) <= Width
    BY TopIs, Sizes
  <2> DEFINE w == Top(Width)
  <2> HIDE DEF w
  <2>4. w \in Nat /\ w % Side = 0 /\ w <= Width /\ c[2] < w
    BY <1>2, <2>1, <2>2, <2>3 DEF w
  <2>5. c[2] + Side <= w
    BY <1>1, <1>2, <2>4, Apart
  <2> QED BY <1>2, <2>4, <2>5, Sizes
<1>4. c[1] <= b[1]
  <2>1. c[1] > b[1] => c[1] >= b[1] + Side
    BY <1>0, <1>1, <1>2, Apart
  <2>2. NextBlock(b) = <<b[1], b[2] + Side>> \/ NextBlock(b) = <<b[1] + Side, 0>>
    BY DEF NextBlock
  <2> QED BY <1>0, <1>1, <1>2, <2>1, <2>2, Sizes DEF Before
<1>5. CASE c[1] < b[1]
  BY <1>1, <1>5 DEF Corners
<1>6. CASE c[1] = b[1] /\ c[2] < b[2]
  BY <1>1, <1>6 DEF Corners
<1>7. CASE c[1] = b[1] /\ c[2] = b[2]
  BY <1>0, <1>2, <1>7
<1>8. CASE c[1] = b[1] /\ c[2] > b[2]
  <2>1. c[2] >= b[2] + Side
    BY <1>0, <1>1, <1>2, <1>8, Apart
  <2>2. b[2] + Side <= Width - Side
    BY <1>0, <1>2, <1>3, <2>1, Sizes
  <2>3. NextBlock(b) = <<b[1], b[2] + Side>>
    BY <2>2 DEF NextBlock
  <2> QED BY <1>0, <1>1, <1>2, <1>8, <2>1, <2>3, Sizes DEF Before
<1> QED BY <1>0, <1>2, <1>4, <1>5, <1>6, <1>7, <1>8
-----------------------------------------------------------------------------
(* T2's loop *)

LEMMA SamePixel ==
  ASSUME NEW x \in Pixel, NEW y \in Pixel
  PROVE  x = y <=> (x[1] = y[1] /\ x[2] = y[2])
BY PixelIs

\* The window of a pixel is in its row, from its column on.
LEMMA WindowInRow ==
  ASSUME NEW x \in Pixel, NEW k \in 1 .. Window(x[2])
  PROVE  /\ <<x[1], x[2] + k - 1>> \in Pixel
         /\ x[2] + k - 1 \in Nat /\ x[2] + k - 1 >= x[2]
         /\ x[2] + k - 1 <= x[2] + Window(x[2]) - 1
<1>1. x[1] \in Rows /\ x[2] \in Nat /\ x[2] < Width /\ BlurAmount \in Nat
  BY PixelIs, ImageAssumption
<1>2. k \in Nat /\ k >= 1 /\ k <= Width - x[2] /\ k <= Window(x[2]) /\ Window(x[2]) \in Nat
  BY <1>1, Sizes DEF Window
<1>3. x[2] + k - 1 \in Cols /\ x[2] + k - 1 >= x[2]
  BY <1>1, <1>2, Sizes DEF Cols
<1> QED BY <1>1, <1>2, <1>3 DEF Pixel, Cols

\* Two images that agree on a window have the same colours there.
LEMMA SameColours ==
  ASSUME NEW f, NEW g, NEW x \in Pixel,
         \A k \in 1 .. Window(x[2]) : f[<<x[1], x[2] + k - 1>>] = g[<<x[1], x[2] + k - 1>>]
  PROVE  Colours(f, x[1], x[2]) = Colours(g, x[1], x[2])
BY DEF Colours

\* The pixel after this one in T2's loop.
After(x) == IF x[2] < Width - 1 THEN <<x[1], x[2] + 1>> ELSE <<x[1] + 1, 0>>

LEMMA AfterIs ==
  ASSUME NEW x \in Pixel
  PROVE  /\ After(x) \in Pixel \cup {<<Height, 0>>}
         /\ \A y \in Pixel : Before(y, After(x)) <=> (Before(y, x) \/ y = x)
<1>1. x[1] \in Nat /\ x[1] < Height /\ x[2] \in Nat /\ x[2] < Width
  BY PixelIs
<1>2. CASE x[2] < Width - 1
  <2>1. After(x) = <<x[1], x[2] + 1>> /\ After(x)[1] = x[1] /\ After(x)[2] = x[2] + 1
    BY <1>2 DEF After
  <2>2. After(x) \in Pixel
    BY <1>1, <1>2, <2>1, Sizes DEF Pixel, Rows, Cols
  <2>3. ASSUME NEW y \in Pixel PROVE Before(y, After(x)) <=> (Before(y, x) \/ y = x)
    <3>1. y[1] \in Nat /\ y[2] \in Nat
      BY PixelIs
    <3>2. y = x <=> (y[1] = x[1] /\ y[2] = x[2])
      BY SamePixel
    <3> QED BY <1>1, <2>1, <3>1, <3>2 DEF Before
  <2> QED BY <2>2, <2>3
<1>3. CASE ~(x[2] < Width - 1)
  <2>1. After(x) = <<x[1] + 1, 0>> /\ After(x)[1] = x[1] + 1 /\ After(x)[2] = 0 /\ x[2] = Width - 1
    BY <1>1, <1>3, Sizes DEF After
  <2>2. After(x) \in Pixel \cup {<<Height, 0>>}
    BY <1>1, <2>1, Sizes DEF Pixel, Rows, Cols
  <2>3. ASSUME NEW y \in Pixel PROVE Before(y, After(x)) <=> (Before(y, x) \/ y = x)
    <3>1. y[1] \in Nat /\ y[2] \in Nat /\ y[2] < Width
      BY PixelIs
    <3>2. y = x <=> (y[1] = x[1] /\ y[2] = x[2])
      BY SamePixel
    <3> QED BY <1>1, <2>1, <3>1, <3>2, Sizes DEF Before
  <2> QED BY <2>2, <2>3
<1> QED BY <1>2, <1>3

\* The images that BlurInPlace goes through, column by column.
Passes(f, img) ==
  f = [n \in 0 .. Width |->
         IF n = 0 THEN img
         ELSE [x \in Pixel |-> IF x[2] = n - 1
                               THEN blur_value(Colours(f[n - 1], x[1], n - 1))
                               ELSE f[n - 1][x]]]

\* The image when the columns before n are blurred.
Partly(img, n) == [x \in Pixel |-> IF x[2] < n THEN Blurred(img)[x] ELSE img[x]]

LEMMA PartlyStep ==
  ASSUME NEW img, NEW n \in Nat, n < Width, NEW f,
         \A x \in Pixel : f[x] = Partly(img, n)[x]
  PROVE  [x \in Pixel |-> IF x[2] = n THEN blur_value(Colours(f, x[1], n)) ELSE f[x]]
           = Partly(img, n + 1)
<1>1. ASSUME NEW x \in Pixel
      PROVE  (IF x[2] = n THEN blur_value(Colours(f, x[1], n)) ELSE f[x])
               = IF x[2] < n + 1 THEN Blurred(img)[x] ELSE img[x]
  <2>0. x[2] \in Nat
    BY PixelIs
  <2>1. CASE x[2] = n
    <3>1. \A k \in 1 .. Window(x[2]) : f[<<x[1], x[2] + k - 1>>] = img[<<x[1], x[2] + k - 1>>]
      <4> TAKE k \in 1 .. Window(x[2])
      <4> DEFINE y == <<x[1], x[2] + k - 1>>
      <4>1. y \in Pixel /\ y[2] \in Nat /\ ~(y[2] < n)
        BY <2>1, WindowInRow
      <4> HIDE DEF y
      <4>2. f[y] = img[y]
        BY <4>1 DEF Partly
      <4> QED BY <4>2 DEF y
    <3>2. Colours(f, x[1], x[2]) = Colours(img, x[1], x[2])
      BY <3>1, SameColours
    <3>3. Blurred(img)[x] = blur_value(Colours(img, x[1], x[2]))
      BY DEF Blurred
    <3>4. x[2] < n + 1
      BY <2>1
    <3> QED BY <2>1, <3>2, <3>3, <3>4
  <2>2. CASE x[2] # n
    <3>1. x[2] < n + 1 <=> x[2] < n
      BY <2>0, <2>2
    <3>2. f[x] = IF x[2] < n THEN Blurred(img)[x] ELSE img[x]
      BY DEF Partly
    <3> QED BY <2>2, <3>1, <3>2
  <2> QED BY <2>1, <2>2
<1> QED BY <1>1 DEF Partly

LEMMA PassesExists ==
  ASSUME NEW img
  PROVE  \E f : Passes(f, img)
<1> DEFINE f == [n \in 0 .. Width |-> IF n = 0 THEN img ELSE Partly(img, n)]
<1>1. ASSUME NEW n \in 0 .. Width, n # 0
      PROVE  [x \in Pixel |-> IF x[2] = n - 1 THEN blur_value(Colours(f[n - 1], x[1], n - 1))
                              ELSE f[n - 1][x]] = Partly(img, n)
  <2> DEFINE m == n - 1
  <2>1. m \in Nat /\ m < Width /\ m + 1 = n /\ m \in 0 .. Width
    BY <1>1, Sizes
  <2>2. \A x \in Pixel : f[m][x] = Partly(img, m)[x]
    <3>1. CASE m = 0
      <4>1. f[m] = img
        BY <2>1, <3>1
      <4>2. \A x \in Pixel : ~(x[2] < m)
        BY <3>1, PixelIs
      <4> HIDE DEF f, m
      <4> QED BY <4>1, <4>2 DEF Partly
    <3>2. CASE m # 0
      BY <2>1, <3>2
    <3> QED BY <3>1, <3>2
  <2> DEFINE u == f[m]
  <2>3. \A x \in Pixel : u[x] = Partly(img, m)[x]
    BY <2>2
  <2> HIDE DEF u, m, f
  <2>4. [x \in Pixel |-> IF x[2] = m THEN blur_value(Colours(u, x[1], m)) ELSE u[x]]
          = Partly(img, m + 1)
    BY <2>1, <2>3, PartlyStep
  <2> QED BY <2>1, <2>4 DEF u, m
<1>2. Passes(f, img)
  <2> DEFINE g == [n \in 0 .. Width |->
         IF n = 0 THEN img
         ELSE [x \in Pixel |-> IF x[2] = n - 1
                               THEN blur_value(Colours(f[n - 1], x[1], n - 1))
                               ELSE f[n - 1][x]]]
  <2>1. \A n \in 0 .. Width : f[n] = g[n]
    BY <1>1, Zenon
  <2>2. f = [n \in 0 .. Width |-> f[n]] /\ g = [n \in 0 .. Width |-> g[n]]
    BY Zenon
  <2>3. f = g
    <3> HIDE DEF f, g
    <3> QED BY <2>1, <2>2
  <2> HIDE DEF f
  <2> QED BY <2>3 DEF Passes
<1> QED BY <1>2

\* Blurring in place is blurring: T2 reads only what it has not overwritten.
LEMMA InPlace ==
  ASSUME NEW img, NEW x \in Pixel
  PROVE  BlurInPlace(img)[x] = Blurred(img)[x]
<1> DEFINE f == CHOOSE g : Passes(g, img)
<1>1. Passes(f, img)
  BY PassesExists, Zenon
<1>2. BlurInPlace(img) = f[Width]
  BY Zenon DEF BlurInPlace, Passes
<1> HIDE DEF f
<1>3. f[0] = img
  BY <1>1, Sizes DEF Passes
<1>4. ASSUME NEW n \in Nat, n < Width
      PROVE  f[n + 1] = [y \in Pixel |-> IF y[2] = n THEN blur_value(Colours(f[n], y[1], n)) ELSE f[n][y]]
  <2>1. n + 1 \in 0 .. Width /\ n + 1 # 0 /\ (n + 1) - 1 = n
    BY <1>4, Sizes
  <2> DEFINE g == [m \in 0 .. Width |->
         IF m = 0 THEN img
         ELSE [y \in Pixel |-> IF y[2] = m - 1
                               THEN blur_value(Colours(f[m - 1], y[1], m - 1))
                               ELSE f[m - 1][y]]]
  <2>2. f = g
    BY <1>1, Zenon DEF Passes
  <2>3. g[n + 1] = [y \in Pixel |-> IF y[2] = (n + 1) - 1
                               THEN blur_value(Colours(f[(n + 1) - 1], y[1], (n + 1) - 1))
                               ELSE f[(n + 1) - 1][y]]
    BY <2>1, Zenon
  <2> HIDE DEF g
  <2> QED BY <2>1, <2>2, <2>3
<1> DEFINE T == {n \in Nat : n <= Width => \A y \in Pixel : f[n][y] = Partly(img, n)[y]}
<1>5. 0 \in T
  <2>1. \A y \in Pixel : ~(y[2] < 0)
    BY PixelIs
  <2> QED BY <1>3, <2>1 DEF Partly
<1>6. ASSUME NEW n \in Nat, n \in T PROVE n + 1 \in T
  <2>1. ASSUME n + 1 <= Width PROVE f[n + 1] = Partly(img, n + 1)
    <3>1. n < Width /\ \A y \in Pixel : f[n][y] = Partly(img, n)[y]
      BY <1>6, <2>1, Sizes
    <3> DEFINE u == f[n]
    <3>2. \A y \in Pixel : u[y] = Partly(img, n)[y]
      BY <3>1
    <3>3. f[n + 1] = [y \in Pixel |-> IF y[2] = n THEN blur_value(Colours(u, y[1], n)) ELSE u[y]]
      BY <3>1, <1>4
    <3> HIDE DEF u
    <3> QED BY <3>1, <3>2, <3>3, PartlyStep
  <2> QED BY <2>1
<1>7. \A n \in Nat : n \in T
  <2> HIDE DEF T
  <2> QED BY <1>5, <1>6, SetInduction
<1>8. f[Width][x] = Partly(img, Width)[x]
  BY <1>7, Sizes
<1>9. x[2] < Width
  BY PixelIs
<1> QED BY <1>2, <1>8, <1>9 DEF Partly
-----------------------------------------------------------------------------
(* The steps *)

LEMMA OriginIs ==
  /\ <<0, 0>> \in Pixel /\ FirstBlock \in Corner
  /\ \A x \in Pixel : ~Before(x, <<0, 0>>)
  /\ Corners(FirstBlock) = {}
<1>1. 0 \in Rows /\ 0 \in Cols /\ 0 \in 0 .. Height
  BY Sizes DEF Rows, Cols
<1>2. 0 % Side = 0
  <2>1. (Side * 0) % Side = 0 /\ Side * 0 = 0
    BY MultipleOf, Sizes
  <2> QED BY <2>1
<1>3. \A x \in Pixel : x[1] \in Nat /\ x[2] \in Nat
  BY PixelIs
<1>4. <<0, 0>> \in Pixel /\ <<0, 0>>[1] = 0 /\ <<0, 0>>[2] = 0
  BY <1>1 DEF Pixel
<1>5. FirstBlock \in Corner
  BY <1>1, <1>2 DEF FirstBlock, Corner
<1>6. \A x \in Pixel : ~Before(x, <<0, 0>>)
  BY <1>3, <1>4 DEF Before
<1>7. Corners(FirstBlock) = {}
  BY <1>3 DEF Corners, FirstBlock
<1> QED BY <1>4, <1>5, <1>6, <1>7

LEMMA InitInv == Init => IInv
<1> SUFFICES ASSUME Init PROVE IInv
  OBVIOUS
<1>1. pipe = <<>> /\ pipe \in Seq(Blocks) /\ Len(pipe) = 0
  BY DEF Init
<1>2. Types
  <2>1. matrix = [x \in Pixel |-> matrix[x]]
    BY DEF Init
  <2>2. sent \in Corner /\ got \in Corner /\ cell \in Pixel
    BY OriginIs DEF Init
  <2>3. Len(pipe) <= Capacity
    BY <1>1, Sizes
  <2> QED BY <1>1, <2>1, <2>2, <2>3 DEF Init, Types
<1>3. Places
  BY DEF Init, Places
<1>4. InPipe
  <2> DEFINE c == [i \in 1 .. 1 |-> FirstBlock]
  <2>1. 1 .. Len(pipe) + 1 = 1 .. 1 /\ 1 .. Len(pipe) = {} /\ Len(pipe) + 1 = 1
    BY <1>1
  <2>2. c \in [1 .. 1 -> Corner] /\ c[1] = FirstBlock
    BY OriginIs
  <2>3. Upto(FirstBlock, FirstBlock)
    BY DEF Upto, FirstBlock
  <2>4. Way(c)
    <3> HIDE DEF c
    <3> QED BY <2>1, <2>2, <2>3 DEF Way, Init
  <2> QED BY <2>1, <2>2, <2>4 DEF InPipe
<1>5. Receiving
  <2>1. \A x \in Pixel : matrix[x] = Zero
    BY DEF Init
  <2>2. Corners(got) = {}
    BY OriginIs DEF Init
  <2> QED BY <2>1, <2>2 DEF Receiving, Init
<1>6. Blurring /\ Filed
  BY DEF Init, Blurring, Filed
<1> QED BY <1>2, <1>3, <1>4, <1>5, <1>6 DEF IInv

\* The way stays when neither end of the pipe moves.
LEMMA Unmoved ==
  ASSUME InPipe, UNCHANGED <<pipe, sent, got>>
  PROVE  InPipe'
<1>1. PICK c \in [1 .. Len(pipe) + 1 -> Corner] : Way(c)
  BY DEF InPipe
<1>2. Way(c)'
  BY <1>1 DEF Way
<1> QED BY <1>1, <1>2 DEF InPipe

LEMMA SendHeaderInv == IInv /\ SendHeader => IInv'
<1> SUFFICES ASSUME IInv, SendHeader PROVE IInv'
  OBVIOUS
<1>1. InPipe'
  BY Unmoved DEF IInv, SendHeader
<1>2. Types' /\ Places'
  BY DEF IInv, SendHeader, Types, Places
<1>3. Receiving' /\ Blurring' /\ Filed'
  BY DEF IInv, SendHeader, Receiving, Blurring, Filed
<1> QED BY <1>1, <1>2, <1>3 DEF IInv

LEMMA ExitT1Inv == IInv /\ ExitT1 => IInv'
<1> SUFFICES ASSUME IInv, ExitT1 PROVE IInv'
  OBVIOUS
<1>1. InPipe'
  BY Unmoved DEF IInv, ExitT1
<1>2. Types' /\ Places'
  BY DEF IInv, ExitT1, Types, Places
<1>3. Receiving' /\ Blurring' /\ Filed'
  BY DEF IInv, ExitT1, Receiving, Blurring, Filed
<1> QED BY <1>1, <1>2, <1>3 DEF IInv

LEMMA ReceiveHeaderInv == IInv /\ ReceiveHeader => IInv'
<1> SUFFICES ASSUME IInv, ReceiveHeader PROVE IInv'
  OBVIOUS
<1>1. InPipe'
  BY Unmoved DEF IInv, ReceiveHeader
<1>2. Types' /\ Places'
  BY DEF IInv, ReceiveHeader, Types, Places
<1>3. Receiving' /\ Blurring' /\ Filed'
  BY DEF IInv, ReceiveHeader, Receiving, Blurring, Filed
<1> QED BY <1>1, <1>2, <1>3 DEF IInv

LEMMA WaitMainInv == IInv /\ wait_main => IInv'
<1> SUFFICES ASSUME IInv, wait_main PROVE IInv'
  OBVIOUS
<1>1. InPipe'
  BY Unmoved DEF IInv, wait_main
<1>2. Types' /\ Places'
  BY DEF IInv, wait_main, Types, Places
<1>3. Receiving' /\ Blurring' /\ Filed'
  BY DEF IInv, wait_main, Receiving, Blurring, Filed
<1> QED BY <1>1, <1>2, <1>3 DEF IInv

LEMMA WriteFileInv == IInv /\ WriteFile => IInv'
<1> SUFFICES ASSUME IInv, WriteFile PROVE IInv'
  OBVIOUS
<1>1. InPipe'
  BY Unmoved DEF IInv, WriteFile
<1>2. Types' /\ Places'
  BY DEF IInv, WriteFile, Types, Places
<1>3. Receiving' /\ Blurring' /\ Filed'
  BY DEF IInv, WriteFile, Receiving, Blurring, Filed
<1> QED BY <1>1, <1>2, <1>3 DEF IInv

\* T1 puts the block at the far end of the way and goes one block on.
LEMMA SendBlockInv == IInv /\ SendBlock => IInv'
<1> SUFFICES ASSUME IInv, SendBlock PROVE IInv'
  OBVIOUS
<1> DEFINE n == Len(pipe)  b == BlockAt(sent)  d == NextBlock(sent)
<1>0. /\ pcT1 = "send" /\ MoreBlocks(sent) /\ n < Capacity
      /\ pipe' = Append(pipe, b) /\ sent' = d
      /\ UNCHANGED <<pcT1, pcT2, pcMain, header, got, matrix, cell, file>>
  BY DEF SendBlock, SendBlock_into
<1>1. Types /\ sent \in Corner /\ d \in Corner /\ Upto(sent, d) /\ pipe \in Seq(Blocks)
  BY <1>0, NextCorner DEF IInv, Types
<1>2. b \in Blocks
  BY <1>0, <1>1 DEF Blocks
<1> HIDE DEF b, d
<1>3. /\ n \in Nat /\ Len(pipe') = n + 1 /\ pipe' \in Seq(Blocks)
      /\ \A i \in 1 .. n : pipe'[i] = pipe[i]
      /\ pipe'[n + 1] = b
  BY <1>0, <1>1, <1>2
<1>4. Types'
  <2>1. Len(pipe') <= Capacity
    BY <1>0, <1>3, Sizes
  <2> HIDE DEF n
  <2> QED BY <1>0, <1>1, <1>3, <2>1 DEF Types
<1>5. Places'
  BY <1>0 DEF IInv, Places
<1>6. InPipe'
  <2>1. PICK c \in [1 .. n + 1 -> Corner] : Way(c)
    BY DEF IInv, InPipe
  <2>2. /\ c[1] = got /\ c[n + 1] = sent
        /\ \A i \in 1 .. n : MoreBlocks(c[i]) /\ c[i + 1] = NextBlock(c[i]) /\ pipe[i] = BlockAt(c[i])
        /\ \A i \in 1 .. n + 1 : Upto(c[i], sent) /\ c[i] \in Corner
    BY <2>1 DEF Way
  <2>e. PICK e : e = [i \in 1 .. (n + 1) + 1 |-> IF i = (n + 1) + 1 THEN d ELSE c[i]]
    OBVIOUS
  <2> HIDE DEF n
  <2>3. /\ e \in [1 .. (n + 1) + 1 -> Corner] /\ e[(n + 1) + 1] = d
        /\ \A i \in 1 .. n + 1 : e[i] = c[i]
        /\ e[1] = got
    BY <1>1, <1>3, <2>2, <2>e
  <2>4. \A i \in 1 .. n + 1 :
          MoreBlocks(e[i]) /\ e[i + 1] = NextBlock(e[i]) /\ pipe'[i] = BlockAt(e[i])
    <3> TAKE i \in 1 .. n + 1
    <3>1. CASE i = n + 1
      <4>1. e[i] = sent /\ e[i + 1] = d /\ pipe'[i] = b
        BY <1>3, <2>2, <2>3, <3>1
      <4> QED BY <4>1, <1>0 DEF b, d
    <3>2. CASE i # n + 1
      <4>1. i \in 1 .. n /\ i + 1 \in 1 .. n + 1
        BY <1>3, <3>2
      <4> QED BY <4>1, <1>3, <2>2, <2>3
    <3> QED BY <3>1, <3>2
  <2>5. \A i \in 1 .. (n + 1) + 1 : Upto(e[i], d)
    <3> TAKE i \in 1 .. (n + 1) + 1
    <3>1. CASE i = (n + 1) + 1
      <4>1. d[1] \in Nat /\ d[2] \in Nat
        BY <1>1, CornerIs
      <4> QED BY <4>1, <2>3, <3>1 DEF Upto
    <3>2. CASE i # (n + 1) + 1
      <4>1. i \in 1 .. n + 1
        BY <1>3, <3>2
      <4>2. e[i] = c[i] /\ Upto(c[i], sent) /\ c[i] \in Corner
        BY <4>1, <2>2, <2>3
      <4>3. Upto(c[i], d)
        BY <4>2, <1>1, UptoUpto
      <4> QED BY <4>2, <4>3
    <3> QED BY <3>1, <3>2
  <2>6. Way(e)'
    BY <1>0, <1>3, <2>3, <2>4, <2>5 DEF Way
  <2> QED BY <1>3, <2>3, <2>6 DEF InPipe
<1>7. Receiving' /\ Blurring' /\ Filed'
  BY <1>0 DEF IInv, Receiving, Blurring, Filed
<1> QED BY <1>4, <1>5, <1>6, <1>7 DEF IInv

\* T2 takes the block at the near end of the way and puts it at its place.
LEMMA ReceiveBlockInv == IInv /\ ReceiveBlock => IInv'
<1> SUFFICES ASSUME IInv, ReceiveBlock PROVE IInv'
  OBVIOUS
<1>0. /\ pcT2 = "receive" /\ MoreBlocks(got) /\ pipe # <<>>
      /\ matrix' = [x \in Pixel |-> IF x \in InBlock(got)
                                    THEN Head(pipe)[Index(x, got)] ELSE matrix[x]]
      /\ pipe' = Tail(pipe) /\ got' = NextBlock(got)
      /\ UNCHANGED <<pcT1, pcT2, pcMain, header, sent, cell, file>>
  BY DEF ReceiveBlock
<1>1. Types /\ got \in Corner /\ pipe \in Seq(Blocks) /\ got' \in Corner
  BY <1>0, NextCorner DEF IInv, Types
<1>m. PICK m \in Nat : Len(pipe) = m + 1
  <2>1. Len(pipe) \in Nat /\ Len(pipe) # 0
    BY <1>0, <1>1
  <2>2. Len(pipe) = (Len(pipe) - 1) + 1 /\ Len(pipe) - 1 \in Nat
    BY <2>1
  <2> QED BY <2>2
<1>2. /\ Len(pipe') = m /\ pipe' \in Seq(Blocks) /\ Head(pipe) = pipe[1]
      /\ \A i \in 1 .. m : pipe'[i] = pipe[i + 1]
  BY <1>0, <1>1, <1>m
<1>3. PICK c \in [1 .. (m + 1) + 1 -> Corner] : Way(c)
  BY <1>m DEF IInv, InPipe
<1>4. /\ c[1] = got /\ c[(m + 1) + 1] = sent
      /\ \A i \in 1 .. m + 1 :
           MoreBlocks(c[i]) /\ c[i + 1] = NextBlock(c[i]) /\ pipe[i] = BlockAt(c[i])
      /\ \A i \in 1 .. (m + 1) + 1 : Upto(c[i], sent) /\ c[i] \in Corner
  BY <1>3, <1>m DEF Way
<1>5. Head(pipe) = BlockAt(got) /\ c[2] = got'
  BY <1>0, <1>2, <1>4
<1>6. Types'
  <2>1. Len(pipe') <= Capacity
    BY <1>1, <1>m, <1>2, Sizes DEF Types
  <2>2. matrix' = [x \in Pixel |-> matrix'[x]]
    BY <1>0
  <2> QED BY <1>0, <1>1, <1>2, <2>1, <2>2 DEF Types
<1>7. Places'
  BY <1>0 DEF IInv, Places
<1>8. InPipe'
  <2>e. PICK e : e = [i \in 1 .. m + 1 |-> c[i + 1]]
    OBVIOUS
  <2>1. \A i \in 1 .. m + 1 : i + 1 \in 1 .. (m + 1) + 1
    OBVIOUS
  <2>2. /\ e \in [1 .. m + 1 -> Corner] /\ e[1] = got' /\ e[m + 1] = sent'
        /\ \A i \in 1 .. m + 1 : e[i] = c[i + 1]
    BY <2>e, <2>1, <1>4, <1>5, <1>0
  <2>3. \A i \in 1 .. m :
          MoreBlocks(e[i]) /\ e[i + 1] = NextBlock(e[i]) /\ pipe'[i] = BlockAt(e[i])
    <3> TAKE i \in 1 .. m
    <3>1. i + 1 \in 1 .. m + 1 /\ i \in 1 .. m + 1
      OBVIOUS
    <3>2. e[i] = c[i + 1] /\ e[i + 1] = c[(i + 1) + 1] /\ pipe'[i] = pipe[i + 1]
      BY <3>1, <2>2, <1>2
    <3>3. MoreBlocks(c[i + 1]) /\ c[(i + 1) + 1] = NextBlock(c[i + 1]) /\ pipe[i + 1] = BlockAt(c[i + 1])
      BY <3>1, <1>4
    <3> QED BY <3>2, <3>3
  <2>4. \A i \in 1 .. m + 1 : Upto(e[i], sent')
    BY <2>1, <2>2, <1>4, <1>0
  <2>5. Way(e)'
    BY <1>2, <2>2, <2>3, <2>4 DEF Way
  <2> QED BY <1>2, <2>2, <2>5 DEF InPipe
<1>9. Receiving'
  <2>0. cell' = <<0, 0>> /\ (\A x \in Pixel \ Covered : matrix[x] = Zero)
        /\ \A k \in Corners(got) : \A x \in InBlock(k) \cap Covered : matrix[x] = converted[x]
    BY <1>0 DEF IInv, Receiving
  <2>1. \A x \in InBlock(got) : x \in Covered /\ x \in Pixel /\ matrix'[x] = converted[x]
    <3> TAKE x \in InBlock(got)
    <3>1. x \in Covered /\ x \in Pixel /\ BlockAt(got)[Index(x, got)] = converted[x]
      BY <1>0, <1>1, BlockCovered, EntryOf
    <3>2. matrix'[x] = Head(pipe)[Index(x, got)]
      BY <1>0, <3>1
    <3> QED BY <3>1, <3>2, <1>5
  <2>2. \A x \in Pixel : x \notin InBlock(got) => matrix'[x] = matrix[x]
    BY <1>0
  <2>3. \A x \in Pixel \ Covered : matrix'[x] = Zero
    BY <2>0, <2>1, <2>2
  <2>4. ASSUME NEW k \in Corners(got'), NEW x \in InBlock(k) \cap Covered
        PROVE  matrix'[x] = converted[x]
    <3>1. k \in Corners(NextBlock(got))
      BY <1>0
    <3>2. k \in Corners(got) \/ k = got
      BY <1>0, <1>1, <3>1, OneMore
    <3>3. x \in Pixel
      BY DEF Covered
    <3>4. CASE x \in InBlock(got)
      BY <2>1, <3>4
    <3>5. CASE x \notin InBlock(got)
      BY <2>0, <2>2, <3>2, <3>3, <3>5
    <3> QED BY <3>4, <3>5
  <2> QED BY <2>0, <2>3, <2>4 DEF Receiving
<1>10. Blurring' /\ Filed'
  BY <1>0 DEF IInv, Blurring, Filed
<1> QED BY <1>6, <1>7, <1>8, <1>9, <1>10 DEF IInv

\* When the last block is in, the matrix is what the whole blocks show.
LEMMA StartBlurInv == IInv /\ StartBlur => IInv'
<1> SUFFICES ASSUME IInv, StartBlur PROVE IInv'
  OBVIOUS
<1>1. InPipe'
  BY Unmoved DEF IInv, StartBlur
<1>2. Types' /\ Places'
  BY DEF IInv, StartBlur, Types, Places
<1>3. ASSUME NEW x \in Pixel PROVE matrix[x] = Shown[x]
  <2>0. got \in Corner /\ ~MoreBlocks(got)
    BY DEF IInv, Types, StartBlur
  <2>1. (\A y \in Pixel \ Covered : matrix[y] = Zero)
        /\ \A k \in Corners(got) : \A y \in InBlock(k) \cap Covered : matrix[y] = converted[y]
    BY DEF IInv, Receiving, StartBlur
  <2>2. CASE x \in Covered
    <3>1. \E k \in Corners(got) : x \in InBlock(k)
      BY <2>0, <2>2, AllReceived
    <3>2. matrix[x] = converted[x]
      BY <2>1, <2>2, <3>1
    <3> QED BY <2>2, <3>2 DEF Shown
  <2>3. CASE x \notin Covered
    BY <2>1, <2>3 DEF Shown
  <2> QED BY <2>2, <2>3
<1>4. Blurring'
  <2>1. cell' = <<0, 0>> /\ matrix' = matrix
    BY DEF IInv, Receiving, StartBlur
  <2> QED BY <1>3, <2>1, OriginIs DEF Blurring
<1>5. Receiving' /\ Filed'
  BY DEF IInv, StartBlur, Receiving, Filed
<1> QED BY <1>1, <1>2, <1>4, <1>5 DEF IInv

\* T2 reads only what it has not overwritten.
LEMMA BlurPixelInv == IInv /\ BlurPixel => IInv'
<1> SUFFICES ASSUME IInv, BlurPixel PROVE IInv'
  OBVIOUS
<1>0. /\ pcT2 = "blur"
      /\ matrix' = [matrix EXCEPT ![cell] = blur_value(Colours(matrix, cell[1], cell[2]))]
      /\ cell' = After(cell)
      /\ pcT2' = IF cell' = <<Height, 0>> THEN "write" ELSE "blur"
      /\ UNCHANGED <<pcT1, pcMain, header, pipe, sent, got, file>>
  BY DEF BlurPixel, After
<1>1. /\ cell \in Pixel /\ matrix = [x \in Pixel |-> matrix[x]]
      /\ \A x \in Pixel : matrix[x] = IF Before(x, cell) THEN Blurred(Shown)[x] ELSE Shown[x]
  BY <1>0 DEF IInv, Blurring, Types
<1>2. /\ cell' \in Pixel \cup {<<Height, 0>>}
      /\ \A x \in Pixel : Before(x, cell') <=> (Before(x, cell) \/ x = cell)
  BY <1>0, <1>1, AfterIs
<1>3. Colours(matrix, cell[1], cell[2]) = Colours(Shown, cell[1], cell[2])
  <2>1. \A k \in 1 .. Window(cell[2]) :
          matrix[<<cell[1], cell[2] + k - 1>>] = Shown[<<cell[1], cell[2] + k - 1>>]
    <3> TAKE k \in 1 .. Window(cell[2])
    <3> DEFINE y == <<cell[1], cell[2] + k - 1>>
    <3>1. y \in Pixel /\ y[1] = cell[1] /\ y[2] >= cell[2] /\ y[2] \in Nat
      BY <1>1, WindowInRow
    <3>2. cell[1] \in Nat /\ cell[2] \in Nat
      BY <1>1, PixelIs
    <3> HIDE DEF y
    <3>3. ~Before(y, cell)
      BY <3>1, <3>2 DEF Before
    <3>4. matrix[y] = Shown[y]
      BY <1>1, <3>1, <3>3
    <3> QED BY <3>4 DEF y
  <2> QED BY <1>1, <2>1, SameColours
<1>4. /\ matrix' = [x \in Pixel |-> matrix'[x]]
      /\ matrix'[cell] = blur_value(Colours(matrix, cell[1], cell[2]))
      /\ \A x \in Pixel : x # cell => matrix'[x] = matrix[x]
  BY <1>0, <1>1
<1>5. ASSUME NEW x \in Pixel
      PROVE  matrix'[x] = IF Before(x, cell') THEN Blurred(Shown)[x] ELSE Shown[x]
  <2>1. CASE x = cell
    <3>1. Blurred(Shown)[x] = blur_value(Colours(Shown, x[1], x[2]))
      BY DEF Blurred
    <3> QED BY <1>2, <1>3, <1>4, <2>1, <3>1
  <2>2. CASE x # cell
    BY <1>1, <1>2, <1>4, <2>2
  <2> QED BY <2>1, <2>2
<1>6. InPipe'
  BY <1>0, Unmoved DEF IInv
<1>7. Types' /\ Places'
  BY <1>0, <1>2, <1>4 DEF IInv, Types, Places
<1>8. Blurring'
  BY <1>0, <1>2, <1>5 DEF Blurring
<1>9. Receiving'
  BY <1>0 DEF Receiving
<1>10. Filed'
  <2>1. ASSUME pcT2' = "write" PROVE matrix' = Blurred(Shown)
    <3>1. cell' = <<Height, 0>>
      BY <1>0, <2>1
    <3>2. ASSUME NEW x \in Pixel PROVE Before(x, cell')
      <4>1. x[1] \in Nat /\ x[1] < Height
        BY PixelIs
      <4> QED BY <3>1, <4>1 DEF Before
    <3>3. \A x \in Pixel : matrix'[x] = Blurred(Shown)[x]
      BY <1>5, <3>2
    <3> QED BY <1>4, <3>3 DEF Blurred
  <2> QED BY <1>0, <2>1 DEF IInv, Filed
<1> QED BY <1>6, <1>7, <1>8, <1>9, <1>10 DEF IInv
-----------------------------------------------------------------------------
(* The theorem *)

LEMMA NextInv == IInv /\ [Next]_vars => IInv'
<1> SUFFICES ASSUME IInv, [Next]_vars PROVE IInv'
  OBVIOUS
<1>1. CASE UNCHANGED vars
  <2>1. InPipe'
    BY <1>1, Unmoved DEF IInv, vars
  <2> QED BY <1>1, <2>1 DEF IInv, vars, Types, Places, Receiving, Blurring, Filed
<1>2. CASE T1
  BY <1>2, SendHeaderInv, SendBlockInv, ExitT1Inv DEF T1
<1>3. CASE T2
  BY <1>3, ReceiveHeaderInv, ReceiveBlockInv, StartBlurInv, BlurPixelInv, WriteFileInv DEF T2
<1>4. CASE wait_main
  BY <1>4, WaitMainInv
<1> QED BY <1>1, <1>2, <1>3, <1>4 DEF Next

LEMMA InvImplies == IInv => PipelineInv
<1> SUFFICES ASSUME IInv PROVE PipelineInv
  OBVIOUS
<1>1. PICK c \in [1 .. Len(pipe) + 1 -> Corner] : Way(c)
  BY DEF IInv, InPipe
<1>2. sent \in Corner /\ got \in Corner /\ pipe \in Seq(Blocks)
  BY DEF IInv, Types
<1>3. TypeOK
  <2>1. \A b \in {sent, got} : b[1] \in Nat /\ b[2] \in Cols
    BY <1>2, CornerIs
  <2>2. DOMAIN matrix = Pixel
    BY DEF IInv, Types
  <2> QED BY <2>1, <2>2 DEF IInv, Types, TypeOK
<1>4. ASSUME pipe # <<>>
      PROVE  MoreBlocks(got) /\ Head(pipe) = BlockAt(got)
  <2>1. 1 \in 1 .. Len(pipe) /\ Head(pipe) = pipe[1]
    BY <1>2, <1>4
  <2> QED BY <1>1, <2>1 DEF Way
<1>5. BlocksInOrder
  <2>1. Upto(got, sent)
    <3>1. 1 \in 1 .. Len(pipe) + 1
      BY <1>2
    <3> QED BY <1>1, <3>1 DEF Way
  <2>2. ASSUME pipe # <<>> PROVE Head(pipe)[1] = converted[got]
    <3>0. got[1] \in Nat /\ got[2] \in Nat /\ got = <<got[1], got[2]>> /\ MoreBlocks(got) /\ got \in Pixel
      BY <1>2, <1>4, <2>2, CornerIs
    <3>1. got \in InBlock(got)
      BY <3>0, Sizes DEF InBlock
    <3>2. Index(got, got) = 1
      BY <3>0, Sizes DEF Index
    <3>3. BlockAt(got)[Index(got, got)] = converted[got]
      BY <1>2, <3>0, <3>1, EntryOf
    <3> QED BY <1>4, <2>2, <3>2, <3>3
  <2> QED BY <2>1, <2>2 DEF BlocksInOrder, Upto, IInv, Receiving
<1>6. PipesDrained
  BY <1>4 DEF IInv, Places, PipesDrained
<1>7. PipelineResult
  <2> SUFFICES ASSUME file # <<>> 
               PROVE  /\ file = Blurred(Shown)
                      /\ \A x \in Pixel : <<x[1], x[2] + Window(x[2]) - 1>> \in Covered
                                         => file[x] = part1[x]
    BY DEF PipelineResult
  <2>1. file = Blurred(Shown)
    BY DEF IInv, Filed
  <2>2. ASSUME NEW x \in Pixel, <<x[1], x[2] + Window(x[2]) - 1>> \in Covered
        PROVE  file[x] = part1[x]
    <3> DEFINE last == <<x[1], x[2] + Window(x[2]) - 1>>
    <3>1. last \in Pixel /\ last[1] < Top(Height) /\ last[2] < Top(Width)
      <4>1. last \in Pixel
        BY <2>2 DEF Covered
      <4> QED BY <4>1, <2>2, CoveredIs
    <3>2. Top(Width) \in Nat
      BY TopIs, Sizes
    <3>3. \A k \in 1 .. Window(x[2]) :
            Shown[<<x[1], x[2] + k - 1>>] = converted[<<x[1], x[2] + k - 1>>]
      <4> TAKE k \in 1 .. Window(x[2])
      <4> DEFINE y == <<x[1], x[2] + k - 1>>
      <4>1. y \in Pixel /\ y[1] = last[1] /\ y[2] \in Nat /\ y[2] <= last[2]
        BY WindowInRow
      <4>2. last[2] \in Nat
        BY <3>1, PixelIs
      <4> HIDE DEF y, last
      <4>3. y[1] < Top(Height) /\ y[2] < Top(Width)
        BY <3>1, <3>2, <4>1, <4>2
      <4>4. y \in Covered
        BY <4>1, <4>3, CoveredIs
      <4>5. Shown[y] = converted[y]
        BY <4>1, <4>4 DEF Shown
      <4> QED BY <4>5 DEF y
    <3>4. Colours(Shown, x[1], x[2]) = Colours(converted, x[1], x[2])
      BY <3>3, SameColours
    <3>5. Blurred(Shown)[x] = blur_value(Colours(Shown, x[1], x[2]))
          /\ Blurred(converted)[x] = blur_value(Colours(converted, x[1], x[2]))
      BY DEF Blurred
    <3>6. part1[x] = Blurred(converted)[x]
      BY InPlace DEF part1, converted
    <3> QED BY <2>1, <3>4, <3>5, <3>6
  <2> QED BY <2>1, <2>2
<1> QED BY <1>3, <1>5, <1>6, <1>7 DEF PipelineInv, PipeInv

\* The two children of part2_3.cpp: the blocks arrive in the order in which
\* they were sent, each pixel at its place, the pipe is never over its
\* capacity and empty at the end, and the file written is the blur of the
\* whole blocks, the one part1.cpp writes wherever T2 looks at no other pixel.
THEOREM PipelineCorrect == Spec => []PipelineInv
<1>1. Init => IInv
  BY InitInv
<1>2. IInv /\ [Next]_vars => IInv'
  BY NextInv
<1>3. IInv => PipelineInv
  BY InvImplies
<1> QED BY <1>1, <1>2, <1>3, PTL DEF Spec
=============================================================================
