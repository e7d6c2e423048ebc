------------------------- MODULE ImmediateFileProofs -------------------------
(***************************************************************************)
(* One file of Lab-10 with inodes, blocks, disks and requests of every     *)
(* size: inode and zones are in order as long as nobody does to an         *)
(* immediate file what its code does not provide for, what programs then   *)
(* see is the file of ByteFile, and whatever they do, no write changes     *)
(* more than it covers and only immediate files are taken for something    *)
(* else.                                                                   *)
(***************************************************************************)
EXTENDS ImmediateFile, FiniteSetTheorems, WellFoundedInduction, TLAPS

-----------------------------------------------------------------------------
(* The inductive invariant *)

Types ==
  /\ mode \in {"free", "immediate", "regular"}
  /\ i_size \in 0 .. MaxSize /\ free \in 0 .. Zones
  /\ has \subseteq 0 .. MaxBlocks - 1
  /\ i_zone \in [0 .. NrZones - 1 -> Cells] /\ data \in [InFile -> Cells]
  /\ vnode \in [mode : {"none", "immediate", "regular"}, size : 0 .. MaxSize]
  /\ filp \in [Fd -> [open : BOOLEAN, pos : 0 .. MaxSize, append : BOOLEAN]]
  /\ reply \in Seq(Cells) \cup {Failed} /\ wild \in BOOLEAN

\* What VFS knows of the inode: there is a vnode while the file is open, and a
\* vnode that says regular is right.
Known ==
  /\ vnode.mode = "none" <=> Open = {}
  /\ vnode.mode = "none" => vnode = NoVnode
  /\ vnode.mode = "regular" => mode = "regular"
  /\ mode = "free" => vnode.mode = "none" /\ i_size = 0
  /\ \A fd \in Fd : ~filp[fd].open => filp[fd] = Closed

\* The zones, of which misuse may lose some, and what is wrong with a file.
Counted ==
  /\ free + Cardinality(has) <= Zones
  /\ mode # "regular" => has = {}
  /\ wild => mode = "immediate"

\* Nobody truncates an immediate file to a length of his own, peeks into it or
\* writes to it from an address he does not have.
PlainUse == Calls \cap {"resize", "peek", "fault"} = {}

Plain ==
  PlainUse => /\ free + Cardinality(has) = Zones
              /\ mode = "immediate" => i_size <= ImmMax

IInv == Types /\ Known /\ Counted /\ Plain
-----------------------------------------------------------------------------
(* Numbers *)

LEMMA Sizes ==
  /\ ImmMax \in Nat /\ ImmMax > 0 /\ NrZones \in Nat /\ NrZones >= ImmMax
  /\ BlockSize \in Nat /\ BlockSize >= NrZones /\ BlockSize > ImmMax /\ BlockSize > 0
  /\ MaxBlocks \in Nat /\ MaxBlocks > 1 /\ Zones \in Nat
  /\ MaxSize \in Nat /\ MaxSize >= 2 * BlockSize /\ MaxSize = BlockSize * MaxBlocks
  /\ \A n \in Amount : n \in Nat /\ n > 0
<1>1. /\ ImmMax \in Nat /\ ImmMax > 0 /\ NrZones \in Nat /\ NrZones >= ImmMax
      /\ BlockSize \in Nat /\ BlockSize >= NrZones /\ BlockSize > ImmMax /\ BlockSize > 0
      /\ MaxBlocks \in Nat /\ MaxBlocks > 1 /\ Zones \in Nat
  BY FileAssumption
<1>2. BlockSize * MaxBlocks \in Nat /\ BlockSize * MaxBlocks >= BlockSize * 2
  BY <1>1
<1>3. BlockSize * 2 = 2 * BlockSize
  BY <1>1
<1>4. \A n \in Amount : n \in Nat /\ n > 0
  BY FileAssumption
<1> QED BY <1>1, <1>2, <1>3, <1>4 DEF MaxSize

\* A set of natural numbers that is not empty has a least member.
LEMMA Least ==
  ASSUME NEW S, S \subseteq Nat, S # {}
  PROVE  \E x \in S : \A y \in S : x <= y
<1> DEFINE less == {ss \in Nat \X Nat : ss[1] < ss[2]}
<1>1. IsWellFoundedOn(less, Nat)
  BY NatLessThanWellFounded, Zenon DEF OpToRel
<1>2. \E x \in S : \A y \in S : ~(<<y, x>> \in less)
  <2> HIDE DEF less
  <2> QED BY <1>1, WFMin, Zenon
<1>3. PICK x \in S : \A y \in S : ~(<<y, x>> \in less)
  BY <1>2
<1>4. ASSUME NEW y \in S PROVE x <= y
  <2>1. x \in Nat /\ y \in Nat
    BY <1>3, <1>4
  <2>2. y < x => <<y, x>> \in less
    BY <2>1
  <2> HIDE DEF less
  <2> QED BY <1>3, <2>1, <2>2
<1> QED BY <1>3, <1>4

\* If it is bounded it has a greatest one.
LEMMA Greatest ==
  ASSUME NEW S, S \subseteq Nat, S # {}, NEW n \in Nat, \A x \in S : x <= n
  PROVE  \E x \in S : \A y \in S : y <= x
<1> DEFINE T == {t \in Nat : \A x \in S : x <= t}
<1>1. T \subseteq Nat /\ T # {}
  OBVIOUS
<1>2. PICK t \in T : \A y \in T : t <= y
  <2> HIDE DEF T
  <2> QED BY <1>1, Least
<1>3. t \in Nat /\ \A x \in S : x <= t
  BY <1>2
<1>4. ASSUME t \notin S PROVE FALSE
  <2>1. \A x \in S : x \in Nat /\ x < t
    BY <1>3, <1>4
  <2>2. t # 0
    <3>1. PICK x \in S : TRUE
      OBVIOUS
    <3> QED BY <2>1, <3>1
  <2>3. t - 1 \in Nat /\ \A x \in S : x <= t - 1
    BY <1>3, <2>1, <2>2
  <2>4. t - 1 \in T
    BY <2>3
  <2>5. t <= t - 1
    <3> HIDE DEF T
    <3> QED BY <1>2, <2>4
  <2> QED BY <1>3, <2>5
<1> QED BY <1>3, <1>4

\* The block of a position.
LEMMA BlockIs ==
  ASSUME NEW p \in Nat
  PROVE  /\ BlockOf(p) \in Nat
         /\ BlockOf(p) * BlockSize <= p /\ p < BlockOf(p) * BlockSize + BlockSize
         /\ BlockOf(p) * BlockSize \in Nat
<1> DEFINE b == p \div BlockSize
<1>1. b \in Nat /\ p % BlockSize \in 0 .. BlockSize - 1 /\ p = BlockSize * b + (p % BlockSize)
  BY Sizes
<1>2. BlockSize * b = b * BlockSize /\ b * BlockSize \in Nat
  BY <1>1, Sizes
<1> QED BY <1>1, <1>2, Sizes DEF BlockOf

LEMMA BlockIn ==
  ASSUME NEW p \in Nat, NEW b \in Nat
  PROVE  /\ BlockOf(p) >= b <=> p >= b * BlockSize
         /\ b * BlockSize \in Nat /\ (b + 1) * BlockSize = b * BlockSize + BlockSize
<1> DEFINE c == BlockOf(p)
<1>1. c \in Nat /\ c * BlockSize <= p /\ p < c * BlockSize + BlockSize /\ c * BlockSize \in Nat
  BY BlockIs
<1>2. b * BlockSize \in Nat /\ (b + 1) * BlockSize = b * BlockSize + BlockSize
      /\ (c + 1) * BlockSize = c * BlockSize + BlockSize
  BY <1>1, Sizes
<1> HIDE DEF c
<1>3. c >= b => c * BlockSize >= b * BlockSize
  BY <1>1, Sizes
<1>4. c < b => (c + 1) * BlockSize <= b * BlockSize
  <2>1. c < b => c + 1 <= b
    BY <1>1
  <2> QED BY <2>1, <1>1, Sizes
<1>5. c >= b \/ c < b
  BY <1>1
<1>6. c >= b <=> p >= b * BlockSize
  BY <1>1, <1>2, <1>3, <1>4, <1>5, Sizes
<1> QED BY <1>2, <1>6 DEF c

\* Positions that are in order are in blocks that are in order.
LEMMA BlockOrder ==
  ASSUME NEW p \in Nat, NEW q \in Nat, p <= q
  PROVE  BlockOf(p) <= BlockOf(q)
<1>1. BlockOf(p) \in Nat /\ BlockOf(p) * BlockSize <= p /\ BlockOf(p) * BlockSize \in Nat
  BY BlockIs
<1> DEFINE b == BlockOf(p)
<1> HIDE DEF b
<1>2. b \in Nat /\ b * BlockSize \in Nat /\ q >= b * BlockSize
  BY <1>1 DEF b
<1>3. BlockOf(q) >= b /\ BlockOf(q) \in Nat
  BY <1>2, BlockIn, BlockIs
<1> QED BY <1>2, <1>3 DEF b

LEMMA BlockInFile ==
  ASSUME NEW p \in Nat, p < MaxSize
  PROVE  BlockOf(p) \in 0 .. MaxBlocks - 1 /\ p \in InFile
<1>1. MaxBlocks * BlockSize = MaxSize /\ MaxBlocks \in Nat
  BY Sizes
<1>2. ~(BlockOf(p) >= MaxBlocks)
  BY <1>1, BlockIn, Sizes
<1>3. BlockOf(p) \in Nat
  BY BlockIs
<1> QED BY <1>2, <1>3, Sizes DEF InFile

LEMMA InFileIs ==
  ASSUME NEW p \in InFile
  PROVE  p \in Nat /\ p < MaxSize /\ BlockOf(p) \in 0 .. MaxBlocks - 1
BY BlockInFile, Sizes DEF InFile
-----------------------------------------------------------------------------
(* Zones and blocks *)

\* The blocks of a file can be counted.
LEMMA Count ==
  ASSUME NEW S \in SUBSET (0 .. MaxBlocks - 1)
  PROVE  IsFiniteSet(S) /\ Cardinality(S) \in Nat
<1>1. IsFiniteSet(0 .. MaxBlocks - 1)
  BY FS_Interval, Sizes
<1>2. IsFiniteSet(S)
  BY <1>1, FS_Subset
<1> QED BY <1>2, FS_CardinalityType

LEMMA CountNone == Cardinality({}) = 0
BY FS_EmptySet

LEMMA CountMore ==
  ASSUME NEW S \in SUBSET (0 .. MaxBlocks - 1), NEW T \in SUBSET (0 .. MaxBlocks - 1), S \cap T = {}
  PROVE  Cardinality(S \cup T) = Cardinality(S) + Cardinality(T)
<1>1. Cardinality(S \cup T) = Cardinality(S) + Cardinality(T) - Cardinality(S \cap T)
  BY Count, FS_Union
<1>2. Cardinality(S) \in Nat /\ Cardinality(T) \in Nat
  BY Count
<1>3. Cardinality(S \cap T) = 0
  BY CountNone
<1> QED BY <1>1, <1>2, <1>3

LEMMA CountLess ==
  ASSUME NEW S \in SUBSET (0 .. MaxBlocks - 1), NEW T \in SUBSET S
  PROVE  /\ Cardinality(T) \in Nat /\ Cardinality(S) \in Nat
         /\ Cardinality(T) <= Cardinality(S)
         /\ Cardinality(S \ T) = Cardinality(S) - Cardinality(T)
         /\ T # S => Cardinality(T) < Cardinality(S)
<1>1. T \in SUBSET (0 .. MaxBlocks - 1) /\ S \ T \in SUBSET (0 .. MaxBlocks - 1)
  OBVIOUS
<1>2. IsFiniteSet(S) /\ Cardinality(T) \in Nat /\ Cardinality(S) \in Nat /\ Cardinality(S \ T) \in Nat
  BY <1>1, Count
<1>3. Cardinality((S \ T) \cup T) = Cardinality(S \ T) + Cardinality(T)
  BY <1>1, CountMore
<1>4. (S \ T) \cup T = S
  OBVIOUS
<1>5. Cardinality(T) <= Cardinality(S) /\ Cardinality(S \ T) = Cardinality(S) - Cardinality(T)
  BY <1>2, <1>3, <1>4
<1>6. T # S => Cardinality(T) < Cardinality(S)
  <2>1. T # S => Cardinality(T) # Cardinality(S)
    BY <1>2, FS_Subset
  <2> QED BY <1>2, <1>5, <2>1
<1> QED BY <1>2, <1>5, <1>6

LEMMA CountOne ==
  ASSUME NEW b \in 0 .. MaxBlocks - 1
  PROVE  Cardinality({b}) = 1
BY FS_Singleton

\* If before each member of S there are fewer than f blocks missing, S has at
\* most f.
LEMMA CountUpto ==
  ASSUME NEW m \in SUBSET (0 .. MaxBlocks - 1), NEW S \in SUBSET m, NEW f \in Nat,
         \A c \in m, d \in S : c < d => c \in S,
         \A d \in S : Cardinality({c \in m : c < d}) < f
  PROVE  Cardinality(S) <= f
<1>1. CASE S = {}
  BY <1>1, CountNone
<1>2. CASE S # {}
  <2>1. S \subseteq Nat /\ MaxBlocks \in Nat /\ \A x \in S : x <= MaxBlocks
    BY Sizes
  <2>2. PICK d \in S : \A y \in S : y <= d
    BY <1>2, <2>1, Greatest
  <2> DEFINE below == {c \in m : c < d}
  <2>3. S \subseteq below \cup {d}
    BY <2>1, <2>2
  <2>4. below \in SUBSET (0 .. MaxBlocks - 1) /\ {d} \in SUBSET (0 .. MaxBlocks - 1) /\ below \cap {d} = {}
        /\ d \in 0 .. MaxBlocks - 1
    <3>1. d \in 0 .. MaxBlocks - 1 /\ d \in Nat
      BY <2>1, <2>2
    <3>2. d \notin below
      BY <3>1
    <3>3. below \subseteq m
      OBVIOUS
    <3> HIDE DEF below
    <3> QED BY <3>1, <3>2, <3>3
  <2>5. Cardinality(below) < f
    BY <2>2
  <2> HIDE DEF below
  <2>6. Cardinality(below \cup {d}) = Cardinality(below) + 1 /\ Cardinality(below) \in Nat
    BY <2>4, CountMore, CountOne, Count
  <2>7. below \cup {d} \in SUBSET (0 .. MaxBlocks - 1)
    BY <2>4
  <2>8. Cardinality(S) <= Cardinality(below \cup {d}) /\ Cardinality(S) \in Nat
    BY <2>3, <2>7, CountLess
  <2> QED BY <2>5, <2>6, <2>8
<1> QED BY <1>1, <1>2

LEMMA MissingIs ==
  ASSUME NEW h, NEW from \in Nat, NEW to \in Nat, from < to, to <= MaxSize
  PROVE  /\ Missing(h, from, to) \in SUBSET (0 .. MaxBlocks - 1)
         /\ Missing(h, from, to) \cap h = {}
         /\ \A p \in from .. to - 1 : BlockOf(p) \in h \cup Missing(h, from, to)
<1>1. to - 1 \in Nat /\ to - 1 < MaxSize
  BY Sizes
<1>2. BlockOf(from) \in Nat /\ BlockOf(to - 1) \in 0 .. MaxBlocks - 1
  BY <1>1, BlockIs, BlockInFile
<1>3. \A p \in from .. to - 1 : BlockOf(p) \in BlockOf(from) .. BlockOf(to - 1)
  <2> TAKE p \in from .. to - 1
  <2>1. p \in Nat /\ from <= p /\ p <= to - 1
    OBVIOUS
  <2>2. BlockOf(from) <= BlockOf(p) /\ BlockOf(p) <= BlockOf(to - 1) /\ BlockOf(p) \in Nat
    BY <1>1, <2>1, BlockOrder, BlockIs
  <2> QED BY <1>2, <2>2
<1> QED BY <1>2, <1>3, Sizes DEF Missing

\* How far a write gets: as far as there are zones for it.
LEMMA ReachIs ==
  ASSUME NEW h, NEW f \in Nat, NEW from \in Nat, NEW to \in Nat, from < to, to <= MaxSize
  PROVE  /\ Reach(h, f, from, to) \in from .. to
         /\ Reach(h, f, from, to) # from => Cardinality(Missing(h, from, Reach(h, f, from, to))) <= f
         /\ Cardinality(Missing(h, from, to)) <= f => Reach(h, f, from, to) = to
<1> DEFINE m == Missing(h, from, to)
           lacking == {b \in m : Cardinality({c \in m : c < b}) >= f}
           b == CHOOSE x \in lacking : \A y \in lacking : x <= y
<1>1. m \in SUBSET (0 .. MaxBlocks - 1)
  BY MissingIs
<1>m. m \subseteq BlockOf(from) .. BlockOf(to - 1) /\ to - 1 \in Nat
  BY DEF Missing
<1>r. Reach(h, f, from, to) = IF lacking = {} THEN to
                              ELSE IF b * BlockSize > from THEN b * BlockSize ELSE from
  BY DEF Reach
<1>c. \A d \in m : Cardinality({c \in m : c < d}) \in Nat
  <2> TAKE d \in m
  <2>1. {c \in m : c < d} \in SUBSET (0 .. MaxBlocks - 1)
    BY <1>1
  <2> QED BY <2>1, Count
<1>2. CASE lacking = {}
  <2>1. \A d \in m : Cardinality({c \in m : c < d}) < f
    BY <1>2, <1>c
  <2> HIDE DEF m
  <2>2. Cardinality(m) <= f
    BY <1>1, <2>1, CountUpto
  <2> QED BY <1>2, <1>r, <2>2 DEF m
<1>3. CASE lacking # {}
  <2>1. lacking \subseteq Nat
    BY <1>1
  <2>2. \E x \in lacking : \A y \in lacking : x <= y
    <3> HIDE DEF lacking
    <3> QED BY <1>3, <2>1, Least
  <2>3. b \in lacking /\ \A y \in lacking : b <= y
    <3> HIDE DEF lacking
    <3> QED BY <2>2
  <2>4. b \in m /\ b \in Nat /\ Cardinality({c \in m : c < b}) >= f
    BY <2>3, <2>1
  <2> HIDE DEF b
  <2>5. Cardinality(m) > f
    <3> DEFINE S == {c \in m : c < b}
    <3>1. S \in SUBSET m /\ S # m
      BY <2>4
    <3>2. Cardinality(S) >= f
      BY <2>4
    <3> HIDE DEF S, m
    <3>3. Cardinality(S) < Cardinality(m) /\ Cardinality(S) \in Nat /\ Cardinality(m) \in Nat
      BY <1>1, <3>1, CountLess
    <3> QED BY <3>2, <3>3
  <2>6. b * BlockSize \in Nat /\ b * BlockSize <= to - 1
    <3>1. b <= BlockOf(to - 1) /\ BlockOf(to - 1) \in Nat
      BY <1>m, <2>4, BlockIs
    <3> QED BY <1>m, <2>4, <3>1, BlockIn
  <2>7. CASE ~(b * BlockSize > from)
    <3>1. Reach(h, f, from, to) = from
      BY <1>r, <1>3, <2>7
    <3>2. Cardinality(m) \in Nat
      BY <1>1, Count
    <3> HIDE DEF m
    <3>3. ~(Cardinality(m) <= f)
      BY <2>5, <3>2
    <3> QED BY <3>1, <3>3 DEF m
  <2>8. CASE b * BlockSize > from
    <3> DEFINE end == b * BlockSize
    <3>1. Reach(h, f, from, to) = end
      BY <1>r, <1>3, <2>8
    <3>2. end \in from .. to /\ end - 1 \in Nat
      BY <2>6, <2>8
    <3>3. BlockOf(end - 1) < b /\ BlockOf(end - 1) \in Nat
      <4>1. ~(end - 1 >= b * BlockSize)
        BY <2>6
      <4>2. BlockOf(end - 1) \in Nat
        BY <3>2, BlockIs
      <4> QED BY <2>4, <3>2, <4>1, <4>2, BlockIn
    <3>4. BlockOf(end - 1) <= BlockOf(to - 1) /\ BlockOf(to - 1) \in Nat /\ BlockOf(from) \in Nat
      BY <1>m, <3>2, BlockOrder, BlockIs
    <3> HIDE DEF end
    <3>5. Missing(h, from, end) \subseteq m
      BY <3>3, <3>4 DEF Missing
    <3>6. \A d \in Missing(h, from, end) : d < b /\ d \in Nat
      BY <2>4, <3>3, <3>4 DEF Missing
    <3>7. \A c \in m, d \in Missing(h, from, end) : c < d => c \in Missing(h, from, end)
      <4> TAKE c \in m, d \in Missing(h, from, end)
      <4> HAVE c < d
      <4>1. c \in BlockOf(from) .. BlockOf(to - 1) /\ c \notin h
        BY DEF Missing
      <4>2. d \in Nat /\ d <= BlockOf(end - 1)
        BY <3>3, <3>4 DEF Missing
      <4>3. c \in BlockOf(from) .. BlockOf(end - 1)
        BY <3>3, <3>4, <4>1, <4>2
      <4> QED BY <4>1, <4>3 DEF Missing
    <3>8. \A d \in Missing(h, from, end) : Cardinality({c \in m : c < d}) < f
      <4> TAKE d \in Missing(h, from, end)
      <4>1. d \in m /\ ~(b <= d)
        BY <3>5, <3>6, <2>4
      <4>2. d \notin lacking
        BY <2>3, <4>1
      <4> QED BY <4>1, <4>2, <1>c
    <3> HIDE DEF m
    <3>9. Cardinality(Missing(h, from, end)) <= f
      BY <1>1, <3>5, <3>7, <3>8, CountUpto
    <3>10. Cardinality(m) \in Nat
      BY <1>1, Count
    <3>11. ~(Cardinality(m) <= f)
      BY <2>5, <3>10
    <3> QED BY <3>1, <3>2, <3>9, <3>11 DEF m
  <2> QED BY <2>7, <2>8
<1> QED BY <1>2, <1>3

\* A state of the loop over blocks.
Chunked(s) ==
  /\ s.has \in SUBSET (0 .. MaxBlocks - 1) /\ s.data \in [InFile -> Cells]
  /\ s.free \in Nat /\ s.size \in Nat

\* What the loop does: zones move from the disk into the file, the cells it has
\* reached are written, one it has not reached stays if it is before them or in
\* the file.
Chunks(s, w, from, cell) ==
  /\ w.has \in SUBSET (0 .. MaxBlocks - 1) /\ s.has \subseteq w.has
  /\ w.free \in Nat /\ w.free + Cardinality(w.has) = s.free + Cardinality(s.has)
  /\ w.data \in [InFile -> Cells]
  /\ \A p \in InFile :
       /\ p \in from .. w.end - 1 => (w.data[p] = cell /\ BlockOf(p) \in w.has)
       /\ p \notin from .. w.end - 1 =>
            /\ w.data[p] \in {s.data[p], Blank}
            /\ (BlockOf(p) \in s.has /\ (p < s.size \/ p < from)) => w.data[p] = s.data[p]
            /\ BlockOf(p) \in w.has \ s.has => w.data[p] = Blank

LEMMA WriteChunksIs ==
  ASSUME NEW s, Chunked(s), NEW from \in Nat, NEW to \in Nat, from < to, to <= MaxSize,
         NEW cell \in Cells
  PROVE  /\ WriteChunks(s, from, to, cell).end \in from .. to
         /\ Chunks(s, WriteChunks(s, from, to, cell), from, cell)
         /\ Cardinality(Missing(s.has, from, to)) <= s.free => WriteChunks(s, from, to, cell).end = to
<1> DEFINE w == WriteChunks(s, from, to, cell)
           end == Reach(s.has, s.free, from, to)
           new == IF end = from THEN {} ELSE Missing(s.has, from, end)
           zeroed == new \cup {b \in s.has : /\ b * BlockSize \in from .. end - 1
                                             /\ b * BlockSize >= s.size
                                             /\ to < (b + 1) * BlockSize}
           cells == [p \in InFile |-> IF p \in from .. end - 1 THEN cell
                                      ELSE ZeroBlocks(s.data, zeroed)[p]]
<1>1. w = [has |-> s.has \cup new, free |-> s.free - Cardinality(new), data |-> cells, end |-> end]
  BY Zenon DEF WriteChunks, ChunksZeroing
<1>2. w.has = s.has \cup new /\ w.free = s.free - Cardinality(new) /\ w.data = cells /\ w.end = end
  <2> HIDE DEF end, new, cells, w
  <2> QED BY <1>1
<1>3. /\ s.has \in SUBSET (0 .. MaxBlocks - 1) /\ s.data \in [InFile -> Cells]
      /\ s.free \in Nat /\ s.size \in Nat
  BY DEF Chunked
<1>4. end \in from .. to /\ (end # from => Cardinality(Missing(s.has, from, end)) <= s.free)
      /\ (Cardinality(Missing(s.has, from, to)) <= s.free => end = to)
  BY <1>3, ReachIs
<1>5. /\ new \in SUBSET (0 .. MaxBlocks - 1) /\ new \cap s.has = {} /\ Cardinality(new) <= s.free
      /\ \A p \in from .. end - 1 : BlockOf(p) \in s.has \cup new
  <2>1. CASE end = from
    <3>1. new = {} /\ from .. end - 1 = {}
      BY <2>1
    <3> QED BY <3>1, <1>3, CountNone
  <2>2. CASE end # from
    <3>1. new = Missing(s.has, from, end)
      BY <2>2
    <3>2. end \in Nat /\ from < end /\ end <= MaxSize
      BY <2>2, <1>4, Sizes
    <3> HIDE DEF end, new
    <3> QED BY <1>4, <2>2, <3>1, <3>2, MissingIs
  <2> QED BY <2>1, <2>2
<1>6. w.free \in Nat /\ w.free + Cardinality(w.has) = s.free + Cardinality(s.has)
  <2>1. Cardinality(new) \in Nat /\ Cardinality(s.has) \in Nat
    BY <1>3, <1>5, Count
  <2>2. s.has \cap new = {}
    BY <1>5
  <2>3. Cardinality(s.has \cup new) = Cardinality(s.has) + Cardinality(new)
    <3> HIDE DEF new
    <3> QED BY <1>3, <1>5, <2>2, CountMore
  <2> HIDE DEF new, w
  <2> QED BY <1>2, <1>3, <1>5, <2>1, <2>3
<1>7. \A p \in InFile : /\ cells[p] = IF p \in from .. end - 1 THEN cell
                                      ELSE IF BlockOf(p) \in zeroed THEN Blank ELSE s.data[p]
                        /\ cells[p] \in Cells
  <2> HIDE DEF zeroed, end
  <2> QED BY <1>3 DEF ZeroBlocks, Cells
<1>8. w.data \in [InFile -> Cells]
  <2>1. cells = [p \in InFile |-> cells[p]]
    BY Zenon
  <2> HIDE DEF cells, w
  <2> QED BY <1>2, <1>7, <2>1
<1>9. ASSUME NEW p \in InFile, p \notin from .. end - 1
      PROVE  /\ cells[p] \in {s.data[p], Blank}
             /\ (BlockOf(p) \in s.has /\ (p < s.size \/ p < from)) => cells[p] = s.data[p]
             /\ BlockOf(p) \in (s.has \cup new) \ s.has => cells[p] = Blank
  <2>1. cells[p] = IF BlockOf(p) \in zeroed THEN Blank ELSE s.data[p]
    <3> HIDE DEF cells, zeroed, end
    <3> QED BY <1>7, <1>9
  <2>2. ASSUME BlockOf(p) \in s.has, p < s.size \/ p < from PROVE BlockOf(p) \notin zeroed
    <3>1. BlockOf(p) \notin new
      BY <1>5, <2>2
    <3>2. BlockOf(p) * BlockSize <= p /\ p \in Nat /\ BlockOf(p) * BlockSize \in Nat
      BY InFileIs, BlockIs
    <3>3. ~(BlockOf(p) * BlockSize >= s.size /\ BlockOf(p) * BlockSize >= from)
      BY <1>3, <2>2, <3>2
    <3>4. BlockOf(p) * BlockSize \in from .. end - 1 => BlockOf(p) * BlockSize >= from
      BY <1>4, <3>2
    <3> HIDE DEF new, end
    <3> QED BY <3>1, <3>3, <3>4
  <2>3. new \subseteq zeroed
    <3> HIDE DEF new
    <3> QED OBVIOUS
  <2> HIDE DEF new, zeroed, cells
  <2> QED BY <2>1, <2>2, <2>3
<1>10. Chunks(s, w, from, cell)
  <2>1. \A p \in InFile : p \in from .. end - 1 => cells[p] = cell
    <3> HIDE DEF cells, end
    <3> QED BY <1>7
  <2>2. w.has \in SUBSET (0 .. MaxBlocks - 1)
    <3> HIDE DEF w, new
    <3> QED BY <1>2, <1>3, <1>5
  <2> HIDE DEF w, new, zeroed, cells, end
  <2> QED BY <1>2, <1>5, <1>6, <1>8, <1>9, <2>1, <2>2 DEF Chunks
<1> HIDE DEF w, end, new
<1>11. w.end \in from .. to /\ Chunks(s, w, from, cell)
       /\ (Cardinality(Missing(s.has, from, to)) <= s.free => w.end = to)
  BY <1>2, <1>4, <1>10
<1> QED BY <1>11 DEF w
-----------------------------------------------------------------------------
(* The parts of the steps *)

LEMMA Empty ==
  /\ NoZone \in [0 .. NrZones - 1 -> Cells] /\ AllBlank \in [InFile -> Cells]
  /\ <<>> \in Seq(Cells)
BY DEF NoZone, AllBlank, Cells

LEMMA InitInv == Init => IInv
<1> SUFFICES ASSUME Init PROVE IInv
  OBVIOUS
<1>1. Types
  <2>1. 0 \in 0 .. MaxSize /\ Zones \in 0 .. Zones
    BY Sizes
  <2> QED BY <2>1, Empty DEF Init, Types, NoVnode, Closed
<1>2. Known
  <2>1. Open = {}
    BY DEF Open, Init, Closed
  <2> QED BY <2>1 DEF Init, Known, NoVnode
<1>3. free = Zones /\ Cardinality(has) = 0
  BY CountNone DEF Init
<1>4. Counted /\ Plain
  BY <1>3, Sizes DEF Init, Counted, Plain
<1> QED BY <1>1, <1>2, <1>4 DEF IInv

\* A descriptor that is open.
LEMMA OpenIs ==
  ASSUME IInv, NEW fd \in Fd, filp[fd].open
  PROVE  /\ filp[fd].pos \in 0 .. MaxSize /\ vnode.size \in 0 .. MaxSize
         /\ filp[fd].append \in BOOLEAN
         /\ vnode.mode \in {"immediate", "regular"} /\ mode \in {"immediate", "regular"}
         /\ vnode.mode = "regular" => mode = "regular"
         /\ Position(fd) \in 0 .. MaxSize
<1>1. filp[fd] \in [open : BOOLEAN, pos : 0 .. MaxSize, append : BOOLEAN]
      /\ vnode \in [mode : {"none", "immediate", "regular"}, size : 0 .. MaxSize]
  BY DEF IInv, Types
<1>2. Open # {}
  BY DEF Open
<1>3. vnode.mode \in {"immediate", "regular"} /\ mode \in {"immediate", "regular"}
  BY <1>1, <1>2 DEF IInv, Types, Known
<1> QED BY <1>1, <1>3 DEF IInv, Known, Position

\* A descriptor that moves; the vnode keeps its type.
LEMMA Moved ==
  ASSUME IInv, NEW fd \in Fd, filp[fd].open, NEW x \in 0 .. MaxSize,
         filp' = [filp EXCEPT ![fd].pos = x], vnode'.mode = vnode.mode,
         mode' \in {mode, "regular"}
  PROVE  /\ Known'
         /\ filp' \in [Fd -> [open : BOOLEAN, pos : 0 .. MaxSize, append : BOOLEAN]]
<1>1. filp \in [Fd -> [open : BOOLEAN, pos : 0 .. MaxSize, append : BOOLEAN]]
  BY DEF IInv, Types
<1>2. filp' \in [Fd -> [open : BOOLEAN, pos : 0 .. MaxSize, append : BOOLEAN]]
      /\ \A e \in Fd : filp'[e].open = filp[e].open /\ (e # fd => filp'[e] = filp[e])
  BY <1>1
<1>3. Open' = Open
  BY <1>2 DEF Open
<1>4. vnode.mode \in {"immediate", "regular"} /\ mode \in {"immediate", "regular"}
      /\ (vnode.mode = "regular" => mode = "regular")
  BY OpenIs
<1>5. \A e \in Fd : ~filp'[e].open => filp'[e] = Closed
  BY <1>2 DEF IInv, Known
<1> QED BY <1>2, <1>3, <1>4, <1>5 DEF IInv, Known

LEMMA ReturnIs ==
  ASSUME IInv, NEW fd \in Fd, filp[fd].open, NEW x \in 0 .. MaxSize,
         NEW answer \in {<<>>, Failed}, Return(fd, x, answer), mode' \in {mode, "regular"}
  PROVE  /\ Known' /\ reply' \in Seq(Cells) \cup {Failed}
         /\ vnode' \in [mode : {"none", "immediate", "regular"}, size : 0 .. MaxSize]
         /\ filp' \in [Fd -> [open : BOOLEAN, pos : 0 .. MaxSize, append : BOOLEAN]]
<1>1. vnode \in [mode : {"none", "immediate", "regular"}, size : 0 .. MaxSize]
  BY DEF IInv, Types
<1>2. vnode' \in [mode : {"none", "immediate", "regular"}, size : 0 .. MaxSize] /\ vnode'.mode = vnode.mode
  BY <1>1 DEF Return
<1>3. filp' = [filp EXCEPT ![fd].pos = x] /\ reply' = answer
  BY DEF Return
<1> QED BY <1>2, <1>3, Moved, Empty

LEMMA WrittenIs ==
  ASSUME IInv, NEW fd \in Fd, filp[fd].open, NEW x \in 0 .. MaxSize, Written(fd, x),
         mode' \in {mode, "regular"}
  PROVE  /\ Known' /\ reply' \in Seq(Cells) \cup {Failed}
         /\ vnode' \in [mode : {"none", "immediate", "regular"}, size : 0 .. MaxSize]
         /\ filp' \in [Fd -> [open : BOOLEAN, pos : 0 .. MaxSize, append : BOOLEAN]]
<1>1. Return(fd, x, <<>>) /\ <<>> \in {<<>>, Failed}
  BY DEF Written
<1> QED BY <1>1, ReturnIs

LEMMA RefusedIs ==
  ASSUME IInv, NEW fd \in Fd, filp[fd].open, Position(fd) \in 0 .. MaxSize, Refused(fd),
         mode' \in {mode, "regular"}
  PROVE  /\ Known' /\ reply' \in Seq(Cells) \cup {Failed}
         /\ vnode' \in [mode : {"none", "immediate", "regular"}, size : 0 .. MaxSize]
         /\ filp' \in [Fd -> [open : BOOLEAN, pos : 0 .. MaxSize, append : BOOLEAN]]
<1>1. Return(fd, Position(fd), Failed) /\ Failed \in {<<>>, Failed}
  BY DEF Refused
<1> QED BY <1>1, ReturnIs

\* The parts of the inode after a step.
InodeOK ==
  /\ mode \in {"free", "immediate", "regular"}
  /\ i_size \in 0 .. MaxSize /\ free \in 0 .. Zones
  /\ has \subseteq 0 .. MaxBlocks - 1
  /\ i_zone \in [0 .. NrZones - 1 -> Cells] /\ data \in [InFile -> Cells]
  /\ wild \in BOOLEAN

VfsOK ==
  /\ vnode \in [mode : {"none", "immediate", "regular"}, size : 0 .. MaxSize]
  /\ filp \in [Fd -> [open : BOOLEAN, pos : 0 .. MaxSize, append : BOOLEAN]]
  /\ reply \in Seq(Cells) \cup {Failed}

LEMMA Halves == Types <=> (InodeOK /\ VfsOK)
BY DEF Types, InodeOK, VfsOK

LEMMA Whole == InodeOK' /\ VfsOK' /\ Known' /\ Counted' /\ Plain' => IInv'
BY DEF IInv, Types, InodeOK, VfsOK

LEMMA HasIs ==
  ASSUME IInv
  PROVE  /\ has \in SUBSET (0 .. MaxBlocks - 1) /\ Cardinality(has) \in Nat
         /\ free \in Nat /\ free <= Zones /\ i_size \in Nat /\ i_size <= MaxSize
         /\ free + Cardinality(has) <= Zones
         /\ PlainUse => free + Cardinality(has) = Zones
         /\ mode # "regular" => has = {} /\ Cardinality(has) = 0
<1>1. has \in SUBSET (0 .. MaxBlocks - 1) /\ free \in 0 .. Zones /\ i_size \in 0 .. MaxSize
  BY DEF IInv, Types
<1>2. Cardinality(has) \in Nat
  BY <1>1, Count
<1>3. mode # "regular" => has = {} /\ Cardinality(has) = 0
  BY CountNone DEF IInv, Counted
<1>4. free \in Nat /\ free <= Zones /\ i_size \in Nat /\ i_size <= MaxSize
  BY <1>1, Sizes
<1> QED BY <1>1, <1>2, <1>3, <1>4 DEF IInv, Counted, Plain

LEMMA WipeIs ==
  ASSUME IInv, NEW m \in {"free", "immediate"}, Wipe(m), ~wild', wild' \in BOOLEAN
  PROVE  InodeOK' /\ Counted' /\ Plain' /\ mode' = m /\ i_size' = 0
<1>1. mode' = m /\ i_size' = 0 /\ i_zone' = NoZone /\ has' = {} /\ data' = AllBlank
      /\ free' = free + Cardinality(has)
  BY DEF Wipe, Wipe_with
<1>2. Cardinality(has') = 0
  BY <1>1, CountNone
<1>3. free' \in 0 .. Zones /\ free' + Cardinality(has') = free + Cardinality(has)
  BY <1>1, <1>2, HasIs, Sizes
<1>4. 0 \in 0 .. MaxSize /\ 0 <= ImmMax
  BY Sizes
<1>5. InodeOK'
  BY <1>1, <1>3, <1>4, Empty DEF InodeOK
<1>6. Counted' /\ Plain'
  BY <1>1, <1>3, <1>4, HasIs DEF Counted, Plain
<1> QED BY <1>1, <1>5, <1>6

LEMMA TruncateIs ==
  ASSUME IInv, ~wild, NEW n \in 0 .. MaxSize, TruncateTo(n), mode # "free",
         PlainUse /\ mode = "immediate" => n = 0
  PROVE  InodeOK' /\ Counted' /\ Plain' /\ mode' = mode
<1> DEFINE kept == {b \in has : b * BlockSize < n}
<1>1. mode' = mode /\ i_zone' = i_zone /\ i_size' = n
  BY DEF TruncateTo
<1>0. mode \in {"immediate", "regular"} /\ i_zone \in [0 .. NrZones - 1 -> Cells] /\ data \in [InFile -> Cells]
      /\ has \in SUBSET (0 .. MaxBlocks - 1) /\ free \in 0 .. Zones /\ wild \in BOOLEAN
  BY DEF IInv, Types
<1>2. CASE mode = "immediate"
  <2>1. has' = has /\ data' = data /\ free' = free /\ wild' \in BOOLEAN
    BY <1>2 DEF TruncateTo
  <2>2. PlainUse => i_size' <= ImmMax
    BY <1>1, <1>2, Sizes
  <2>3. InodeOK'
    BY <1>0, <1>1, <2>1 DEF InodeOK
  <2> QED BY <1>1, <1>2, <2>1, <2>2, <2>3 DEF IInv, Counted, Plain
<1>3. CASE mode = "regular"
  <2>1. has' = kept /\ free' = free + Cardinality(has \ kept) /\ wild' = wild
        /\ data' = [p \in InFile |-> IF p < n THEN data[p] ELSE Blank]
    BY <1>3 DEF TruncateTo
  <2>2. kept \in SUBSET has
    OBVIOUS
  <2> HIDE DEF kept
  <2>3. Cardinality(has \ kept) = Cardinality(has) - Cardinality(kept)
        /\ Cardinality(kept) \in Nat /\ Cardinality(kept) <= Cardinality(has)
    BY <1>0, <2>2, CountLess
  <2>4. free' \in 0 .. Zones /\ free' + Cardinality(has') = free + Cardinality(has)
    BY <2>1, <2>3, HasIs, Sizes
  <2>5. data' \in [InFile -> Cells]
    BY <1>0, <2>1 DEF Cells
  <2>6. InodeOK'
    BY <1>0, <1>1, <2>1, <2>2, <2>4, <2>5 DEF InodeOK
  <2> QED BY <1>1, <1>3, <2>1, <2>4, <2>6, HasIs DEF Counted, Plain
<1> QED BY <1>0, <1>2, <1>3

\* What a write into blocks starts from.
Source == IF mode = "immediate" THEN Converted ELSE AsRegular

LEMMA SourceIs ==
  ASSUME IInv, mode = "regular" \/ (mode = "immediate" /\ i_size <= NrZones)
  PROVE  /\ Chunked(Source) /\ Source.ok \in BOOLEAN /\ Source.size \in {0, i_size}
         /\ Source.free + Cardinality(Source.has) = free + Cardinality(has)
         /\ mode = "regular" => /\ Source.ok /\ Source.has = has /\ Source.data = data
                                /\ Source.free = free /\ Source.size = i_size
         /\ mode = "immediate" =>
              /\ Source.size = 0 /\ (Source.ok <=> free # 0)
              /\ ~Source.ok => Source.has = {} /\ Source.data = AllBlank /\ Source.free = 0
              /\ Source.ok => /\ Source.has = {0}
                              /\ \A p \in InFile :
                                   Source.data[p] = IF p < i_size THEN i_zone[p] ELSE Blank
<1>0. /\ free \in Nat /\ i_size \in Nat /\ i_size <= MaxSize
      /\ has \in SUBSET (0 .. MaxBlocks - 1) /\ data \in [InFile -> Cells]
      /\ i_zone \in [0 .. NrZones - 1 -> Cells] /\ Cardinality(has) \in Nat
  BY HasIs DEF IInv, Types
<1>1. CASE mode = "regular"
  <2>1. Source = [ok |-> TRUE, has |-> has, data |-> data, free |-> free, size |-> i_size]
    BY <1>1 DEF Source, AsRegular
  <2> QED BY <1>0, <1>1, <2>1 DEF Chunked
<1>2. CASE mode = "immediate" /\ free = 0
  <2>1. Source = [ok |-> FALSE, has |-> {}, data |-> AllBlank, free |-> 0, size |-> 0]
    BY <1>2 DEF Source, Converted, Converted_from
  <2>2. Source.free + Cardinality(Source.has) = free + Cardinality(has)
    BY <1>2, <2>1, HasIs
  <2> QED BY <1>0, <1>2, <2>1, <2>2, Empty DEF Chunked
<1>3. CASE mode = "immediate" /\ free # 0
  <2> DEFINE d == [p \in InFile |-> IF p < i_size THEN i_zone[p] ELSE Blank]
  <2>1. Source = [ok |-> TRUE, has |-> {0}, free |-> free - 1, size |-> 0, data |-> d]
    BY <1>3 DEF Source, Converted, Converted_from
  <2>2. \A p \in InFile : p < i_size => i_zone[p] \in Cells
    <3> TAKE p \in InFile
    <3> HAVE p < i_size
    <3>1. p \in 0 .. NrZones - 1
      BY <1>0, <1>3, InFileIs, Sizes
    <3> QED BY <1>0, <3>1
  <2>3. d \in [InFile -> Cells] /\ \A p \in InFile : d[p] = IF p < i_size THEN i_zone[p] ELSE Blank
    BY <2>2 DEF Cells
  <2> HIDE DEF d
  <2>4. 0 \in 0 .. MaxBlocks - 1 /\ Cardinality({0}) = 1
    BY CountOne, Sizes
  <2>5. Source.ok /\ Source.has = {0} /\ Source.free = free - 1 /\ Source.size = 0 /\ Source.data = d
        /\ Source.ok = TRUE
    BY <2>1
  <2>6. Source.free \in Nat /\ Source.free + Cardinality(Source.has) = free + Cardinality(has)
    BY <1>0, <1>3, <2>4, <2>5, HasIs
  <2>7. Chunked(Source)
    BY <2>3, <2>4, <2>5, <2>6 DEF Chunked
  <2> QED BY <1>3, <2>3, <2>5, <2>6, <2>7
<1> QED BY <1>1, <1>2, <1>3
-----------------------------------------------------------------------------
(* The steps of VFS *)

LEMMA CreatInv ==
  ASSUME IInv, NEW fd \in Fd, NEW append \in BOOLEAN, do_creat(fd, append)
  PROVE  IInv'
<1>1. /\ ~wild /\ mode = "free" /\ Wipe("immediate") /\ reply' = <<>> /\ wild' = wild
      /\ vnode' = [mode |-> "immediate", size |-> 0]
      /\ filp' = [filp EXCEPT ![fd] = [open |-> TRUE, pos |-> 0, append |-> append]]
  BY DEF do_creat, Put
<1>2. wild \in BOOLEAN /\ filp \in [Fd -> [open : BOOLEAN, pos : 0 .. MaxSize, append : BOOLEAN]]
      /\ 0 \in 0 .. MaxSize
  BY Sizes DEF IInv, Types
<1>3. InodeOK' /\ Counted' /\ Plain' /\ mode' = "immediate" /\ i_size' = 0
  BY <1>1, <1>2, WipeIs
<1>4. VfsOK'
  BY <1>1, <1>2, Empty DEF VfsOK
<1>5. filp'[fd].open /\ \A e \in Fd : e # fd => filp'[e] = filp[e]
  BY <1>1, <1>2
<1>6. Open' # {}
  BY <1>5 DEF Open
<1>7. Known'
  BY <1>1, <1>3, <1>5, <1>6 DEF IInv, Known
<1> QED BY <1>3, <1>4, <1>7, Whole

LEMMA OpenInv ==
  ASSUME IInv, NEW fd \in Fd, NEW append \in BOOLEAN, NEW trunc \in BOOLEAN,
         common_open(fd, append, trunc)
  PROVE  IInv'
<1> DEFINE v == IF vnode = NoVnode THEN [mode |-> mode, size |-> i_size] ELSE vnode
<1>1. /\ ~wild /\ mode # "free" /\ reply' = <<>>
      /\ filp' = [filp EXCEPT ![fd] = [open |-> TRUE, pos |-> 0, append |-> append]]
      /\ trunc => TruncateTo(0) /\ vnode' = [v EXCEPT !.size = 0]
      /\ ~trunc => vnode' = v /\ UNCHANGED <<mode, i_size, i_zone, has, data, free, wild>>
  BY DEF common_open, Put
<1>2. filp \in [Fd -> [open : BOOLEAN, pos : 0 .. MaxSize, append : BOOLEAN]]
      /\ vnode \in [mode : {"none", "immediate", "regular"}, size : 0 .. MaxSize]
      /\ 0 \in 0 .. MaxSize /\ mode \in {"immediate", "regular"} /\ i_size \in 0 .. MaxSize
  BY <1>1, Sizes DEF IInv, Types
<1>3. v \in [mode : {"immediate", "regular"}, size : 0 .. MaxSize] /\ (v.mode = "regular" => mode = "regular")
  <2>1. CASE vnode = NoVnode
    BY <2>1, <1>2
  <2>2. CASE vnode # NoVnode
    BY <2>2, <1>2 DEF IInv, Known
  <2> QED BY <2>1, <2>2
<1> HIDE DEF v
<1>4. vnode' \in [mode : {"immediate", "regular"}, size : 0 .. MaxSize] /\ vnode'.mode = v.mode
  BY <1>1, <1>2, <1>3
<1>5. InodeOK' /\ Counted' /\ Plain' /\ mode' = mode
  <2>1. CASE trunc
    BY <1>1, <1>2, <2>1, TruncateIs
  <2>2. CASE ~trunc
    BY <1>1, <2>2, Halves DEF IInv, InodeOK, Counted, Plain
  <2> QED BY <2>1, <2>2
<1>6. VfsOK'
  BY <1>1, <1>2, <1>4, Empty DEF VfsOK
<1>7. filp'[fd].open /\ \A e \in Fd : e # fd => filp'[e] = filp[e]
  BY <1>1, <1>2
<1>8. Open' # {}
  BY <1>7 DEF Open
<1>9. Known'
  BY <1>2, <1>3, <1>4, <1>5, <1>7, <1>8 DEF IInv, Known
<1> QED BY <1>5, <1>6, <1>9, Whole

LEMMA CloseInv ==
  ASSUME IInv, NEW fd \in Fd, close_fd(fd)
  PROVE  IInv'
<1>1. /\ filp[fd].open /\ reply' = <<>> /\ filp' = [filp EXCEPT ![fd] = Closed]
      /\ vnode' = IF Open = {fd} THEN NoVnode ELSE vnode
      /\ UNCHANGED <<mode, i_size, i_zone, has, data, free, wild>>
  BY DEF close_fd, Put
<1>2. filp \in [Fd -> [open : BOOLEAN, pos : 0 .. MaxSize, append : BOOLEAN]]
      /\ vnode \in [mode : {"none", "immediate", "regular"}, size : 0 .. MaxSize]
      /\ 0 \in 0 .. MaxSize
  BY Sizes DEF IInv, Types
<1>3. InodeOK' /\ Counted' /\ Plain'
  BY <1>1, Halves DEF IInv, InodeOK, Counted, Plain
<1>4. VfsOK'
  BY <1>1, <1>2, Empty DEF VfsOK, Closed, NoVnode
<1>5. filp'[fd] = Closed /\ ~filp'[fd].open /\ \A e \in Fd : e # fd => filp'[e] = filp[e]
  BY <1>1, <1>2 DEF Closed
<1>6. Open' = Open \ {fd} /\ fd \in Open
  BY <1>1, <1>5 DEF Open
<1>7. vnode.mode # "none" /\ mode # "free"
  BY <1>6 DEF IInv, Known
<1>8. Known'
  <2>1. CASE Open = {fd}
    BY <1>1, <1>5, <1>6, <1>7, <2>1 DEF IInv, Known, NoVnode
  <2>2. CASE Open # {fd}
    <3>1. Open' # {}
      BY <1>6, <2>2
    <3> QED BY <1>1, <1>5, <1>7, <2>2, <3>1 DEF IInv, Known
  <2> QED BY <2>1, <2>2
<1> QED BY <1>3, <1>4, <1>8, Whole

LEMMA UnlinkInv == IInv /\ do_unlink => IInv'
<1> SUFFICES ASSUME IInv, do_unlink PROVE IInv'
  OBVIOUS
<1>1. /\ ~wild /\ Open = {} /\ Wipe("free") /\ reply' = <<>> /\ UNCHANGED <<vnode, filp, wild>>
  BY DEF do_unlink
<1>2. wild \in BOOLEAN
  BY DEF IInv, Types
<1>3. InodeOK' /\ Counted' /\ Plain' /\ mode' = "free" /\ i_size' = 0
  BY <1>1, <1>2, WipeIs
<1>4. VfsOK'
  BY <1>1, Halves, Empty DEF IInv, VfsOK
<1>5. Known'
  BY <1>1, <1>3 DEF IInv, Known, Open
<1> QED BY <1>3, <1>4, <1>5, Whole

LEMMA SeekInv ==
  ASSUME IInv, NEW fd \in Fd, NEW to \in 0 .. MaxSize, actual_lseek(fd, to)
  PROVE  IInv'
<1>1. /\ filp[fd].open /\ filp' = [filp EXCEPT ![fd].pos = to] /\ reply' = <<>>
      /\ UNCHANGED <<mode, i_size, i_zone, has, data, free, vnode, wild>>
  BY DEF actual_lseek
<1>2. Known' /\ filp' \in [Fd -> [open : BOOLEAN, pos : 0 .. MaxSize, append : BOOLEAN]]
  BY <1>1, Moved
<1>3. InodeOK' /\ Counted' /\ Plain'
  BY <1>1, Halves DEF IInv, InodeOK, Counted, Plain
<1>4. VfsOK'
  BY <1>1, <1>2, Halves, Empty DEF IInv, VfsOK
<1> QED BY <1>2, <1>3, <1>4, Whole

\* The vnode and the descriptors stay open; only the size in the vnode may change.
LEMMA Resized ==
  ASSUME IInv, NEW n \in 0 .. MaxSize, mode' = mode, mode # "free", filp' = filp, reply' = <<>>,
         vnode' \in {vnode, [vnode EXCEPT !.size = n]}, vnode.mode # "none"
  PROVE  VfsOK' /\ Known'
<1>1. filp \in [Fd -> [open : BOOLEAN, pos : 0 .. MaxSize, append : BOOLEAN]]
      /\ vnode \in [mode : {"none", "immediate", "regular"}, size : 0 .. MaxSize]
  BY DEF IInv, Types
<1>2. vnode' \in [mode : {"none", "immediate", "regular"}, size : 0 .. MaxSize] /\ vnode'.mode = vnode.mode
  BY <1>1
<1>3. VfsOK'
  BY <1>1, <1>2, Empty DEF VfsOK
<1>4. Open' = Open
  BY DEF Open
<1> QED BY <1>2, <1>3, <1>4 DEF IInv, Known

\* What a plain program asks of a file that VFS takes for immediate.
LEMMA NotAllowed ==
  ASSUME PlainUse, NEW call \in {"resize", "peek", "fault"}, NEW type, type # "regular"
  PROVE  ~Allowed(type, call)
BY DEF PlainUse, Allowed

LEMMA FtruncateInv ==
  ASSUME IInv, NEW fd \in Fd, NEW n \in 0 .. MaxSize, do_ftruncate(fd, n)
  PROVE  IInv'
<1>1. /\ ~wild /\ filp[fd].open /\ Allowed(vnode.mode, "resize") /\ reply' = <<>> /\ filp' = filp
      /\ \/ UNCHANGED <<mode, i_size, i_zone, has, data, free, vnode, wild>>
         \/ TruncateTo(n) /\ vnode' = [vnode EXCEPT !.size = n]
  BY DEF do_ftruncate, truncate_vnode
<1>2. mode # "free" /\ vnode.mode # "none" /\ (vnode.mode = "regular" => mode = "regular")
  BY <1>1, OpenIs
<1>3. PlainUse => mode = "regular"
  BY <1>1, <1>2, NotAllowed
<1>4. InodeOK' /\ Counted' /\ Plain' /\ mode' = mode
  <2>1. CASE UNCHANGED <<mode, i_size, i_zone, has, data, free, vnode, wild>>
    BY <2>1, Halves DEF IInv, InodeOK, Counted, Plain
  <2>2. CASE TruncateTo(n)
    BY <1>1, <1>2, <1>3, <2>2, TruncateIs
  <2> QED BY <1>1, <2>1, <2>2
<1>5. vnode' \in {vnode, [vnode EXCEPT !.size = n]}
  BY <1>1
<1>6. VfsOK' /\ Known'
  BY <1>1, <1>2, <1>4, <1>5, Resized
<1> QED BY <1>4, <1>6, Whole
-----------------------------------------------------------------------------
(* Reading and writing *)

LEMMA Asked ==
  ASSUME IInv, NEW fd \in Fd, filp[fd].open, NEW n \in Amount
  PROVE  /\ n \in Nat /\ n > 0 /\ MaxSize \in Nat /\ ImmMax \in Nat /\ ImmMax <= MaxSize
         /\ Position(fd) \in Nat /\ Position(fd) \in 0 .. MaxSize
         /\ filp[fd].pos \in Nat /\ filp[fd].pos \in 0 .. MaxSize
         /\ i_size \in Nat /\ i_size \in 0 .. MaxSize /\ mode \in {"immediate", "regular"}
<1>1. n \in Nat /\ n > 0
  BY Sizes
<1>2. MaxSize \in Nat /\ ImmMax \in Nat /\ ImmMax <= MaxSize
  BY Sizes
<1>3. Position(fd) \in 0 .. MaxSize /\ filp[fd].pos \in 0 .. MaxSize /\ mode \in {"immediate", "regular"}
  BY OpenIs
<1>4. i_size \in 0 .. MaxSize
  BY DEF IInv, Types
<1> QED BY <1>1, <1>2, <1>3, <1>4

LEMMA WriteImmediateInv ==
  ASSUME IInv, NEW fd \in Fd, NEW n \in Amount, WriteImmediate(fd, n)
  PROVE  IInv'
<1> DEFINE from == Position(fd)
<1>1. /\ ~wild /\ filp[fd].open /\ mode = "immediate" /\ from + n <= ImmMax
      /\ i_zone' = [k \in 0 .. NrZones - 1 |-> IF k \in from .. from + n - 1 THEN fd ELSE i_zone[k]]
      /\ i_size' = IF from + n > i_size THEN from + n ELSE i_size
      /\ Written(fd, from + n)
      /\ UNCHANGED <<mode, has, data, free, wild>>
  BY DEF WriteImmediate
<1>2. from \in Nat /\ n \in Nat /\ i_size \in 0 .. MaxSize /\ from + n \in 0 .. MaxSize
  BY <1>1, Asked
<1> HIDE DEF from
<1>3. i_zone' \in [0 .. NrZones - 1 -> Cells]
  BY <1>1 DEF IInv, Types, Cells
<1>4. i_size' \in 0 .. MaxSize /\ (i_size <= ImmMax => i_size' <= ImmMax)
  BY <1>1, <1>2
<1>5. InodeOK'
  BY <1>1, <1>3, <1>4, Halves DEF IInv, InodeOK
<1>6. Counted' /\ Plain'
  BY <1>1, <1>4 DEF IInv, Counted, Plain
<1>7. Known' /\ VfsOK'
  BY <1>1, <1>2, WrittenIs DEF VfsOK
<1> QED BY <1>5, <1>6, <1>7, Whole

\* A state of the loop in which nothing is wrong becomes the inode.
LEMMA NewBlocks ==
  ASSUME IInv, NEW w, w.has \in SUBSET (0 .. MaxBlocks - 1), w.free \in Nat,
         w.free + Cardinality(w.has) = free + Cardinality(has), w.data \in [InFile -> Cells],
         mode' = "regular", i_zone' \in [0 .. NrZones - 1 -> Cells], has' = w.has, free' = w.free,
         data' = w.data, i_size' \in 0 .. MaxSize, ~wild, wild' = wild
  PROVE  InodeOK' /\ Counted' /\ Plain'
<1>1. Cardinality(w.has) \in Nat
  BY Count
<1>2. free' \in 0 .. Zones /\ free' + Cardinality(has') = free + Cardinality(has)
  BY <1>1, HasIs, Sizes
<1>3. wild' \in BOOLEAN
  BY DEF IInv, Types
<1>4. InodeOK'
  BY <1>2, <1>3 DEF InodeOK
<1> QED BY <1>2, <1>4, HasIs DEF Counted, Plain

LEMMA WriteBlocksInv ==
  ASSUME IInv, NEW fd \in Fd, NEW n \in Amount, WriteBlocks(fd, n)
  PROVE  IInv'
<1> DEFINE from == Position(fd)
           s == Source
           w == WriteChunks(s, from, from + n, fd)
<1>1. /\ ~wild /\ filp[fd].open
      /\ mode = "regular" \/ (mode = "immediate" /\ from + n > ImmMax /\ i_size <= NrZones)
      /\ from + n <= MaxSize
      /\ mode' = "regular" /\ i_zone' = NoZone
      /\ s.ok => /\ has' = w.has /\ data' = w.data /\ free' = w.free
                 /\ i_size' = IF w.end > i_size THEN w.end ELSE s.size
                 /\ IF w.end = from + n THEN Written(fd, w.end) ELSE Refused(fd)
      /\ ~s.ok => /\ has' = {} /\ data' = AllBlank /\ free' = 0 /\ i_size' = 0
                  /\ Refused(fd)
      /\ wild' = wild
  BY DEF WriteBlocks, Source
<1>2. from \in Nat /\ from \in 0 .. MaxSize /\ n \in Nat /\ n > 0 /\ i_size \in 0 .. MaxSize
  BY <1>1, Asked
<1>3. /\ Chunked(s) /\ s.ok \in BOOLEAN /\ s.size \in {0, i_size}
      /\ s.free + Cardinality(s.has) = free + Cardinality(has)
      /\ ~s.ok => s.has = {} /\ s.free = 0
  BY <1>1, SourceIs
<1>a. Position(fd) \in 0 .. MaxSize
  BY <1>2
<1> HIDE DEF from, s
<1>4. w.end \in from .. from + n /\ Chunks(s, w, from, fd)
  <2>1. fd \in Cells /\ from + n \in Nat /\ from < from + n
    BY <1>2 DEF Cells
  <2> QED BY <1>1, <1>2, <1>3, <2>1, WriteChunksIs
<1> HIDE DEF w
<1>5. CASE s.ok
  <2>1. i_size' \in 0 .. MaxSize
    BY <1>1, <1>2, <1>3, <1>4, <1>5, Sizes
  <2>2. InodeOK' /\ Counted' /\ Plain'
    BY <1>1, <1>3, <1>4, <1>5, <2>1, Empty, NewBlocks DEF Chunks
  <2>3. w.end \in 0 .. MaxSize
    BY <1>1, <1>2, <1>4, Sizes
  <2>4. Known' /\ VfsOK'
    BY <1>1, <1>5, <1>a, <2>3, WrittenIs, RefusedIs DEF VfsOK
  <2> QED BY <2>2, <2>4, Whole
<1>6. CASE ~s.ok
  <2>1. Cardinality(has') = 0 /\ Cardinality(s.has) = 0
    BY <1>1, <1>3, <1>6, CountNone
  <2>2. i_size' = 0 /\ 0 \in 0 .. MaxSize /\ 0 \in 0 .. Zones /\ free' = 0 /\ s.free = 0
    BY <1>1, <1>3, <1>6, Sizes
  <2>3. free' + Cardinality(has') = free + Cardinality(has)
    BY <1>3, <2>1, <2>2
  <2>4. InodeOK'
    BY <1>1, <1>6, <2>2, Empty DEF IInv, Types, InodeOK
  <2>5. Counted' /\ Plain'
    BY <1>1, <2>3, HasIs DEF Counted, Plain
  <2>6. Known' /\ VfsOK'
    BY <1>1, <1>6, <1>a, RefusedIs DEF VfsOK
  <2> QED BY <2>4, <2>5, <2>6, Whole
<1> QED BY <1>3, <1>5, <1>6

\* A write whose copy fails is the loop over blocks that ends where it failed.
LEMMA FaultAtIs ==
  ASSUME NEW s, Chunked(s), NEW from \in Nat, NEW to \in Nat, from < to, to <= MaxSize,
         NEW cell \in Cells, NEW at \in ChunkBegins(s, from, to, cell)
  PROVE  /\ at \in from .. to - 1 /\ FaultAt(s, from, to, at, cell).end = at
         /\ Chunks(s, FaultAt(s, from, to, at, cell), from, cell)
<1> DEFINE w == IF at = from THEN s ELSE WriteChunks(s, from, at, cell)
           b == BlockOf(at)
           new == IF w.free > 0 THEN {b} \ w.has ELSE {}
           zeroed == new \cup {c \in w.has \cap {b} : /\ at = b * BlockSize
                                                     /\ at >= s.size
                                                     /\ to < at + BlockSize}
           f == FaultAt(s, from, to, at, cell)
<1>1. /\ f.has = w.has \cup new /\ f.free = w.free - Cardinality(new)
      /\ f.data = ZeroBlocks(w.data, zeroed) /\ f.end = at
  BY Zenon DEF FaultAt
<1>2. /\ at \in from .. to - 1 /\ at \in Nat /\ from <= at /\ at < MaxSize /\ MaxSize \in Nat
      /\ at # from => (at = b * BlockSize /\ WriteChunks(s, from, at, cell).end = at)
  BY Sizes DEF ChunkBegins
<1>3. b \in 0 .. MaxBlocks - 1 /\ b \in Nat
  BY <1>2, BlockInFile
<1>4. /\ w.has \in SUBSET (0 .. MaxBlocks - 1) /\ s.has \subseteq w.has
      /\ w.free \in Nat /\ w.free + Cardinality(w.has) = s.free + Cardinality(s.has)
      /\ w.data \in [InFile -> Cells]
      /\ \A p \in InFile :
           /\ p \in from .. at - 1 => (w.data[p] = cell /\ BlockOf(p) \in w.has)
           /\ p \notin from .. at - 1 =>
                /\ w.data[p] \in {s.data[p], Blank}
                /\ (BlockOf(p) \in s.has /\ (p < s.size \/ p < from)) => w.data[p] = s.data[p]
                /\ BlockOf(p) \in w.has \ s.has => w.data[p] = Blank
  <2>1. CASE at = from
    <3>1. w = s
      BY <2>1
    <3>2. \A p \in InFile : p \notin from .. at - 1
      BY <1>2, <2>1
    <3> HIDE DEF w
    <3> QED BY <3>1, <3>2 DEF Chunked
  <2>2. CASE at # from
    <3> DEFINE x == WriteChunks(s, from, at, cell)
    <3>1. w = x /\ x.end = at /\ from < at /\ at <= MaxSize
      BY <1>2, <2>2
    <3>2. Chunks(s, x, from, cell)
      BY <1>2, <3>1, WriteChunksIs
    <3> HIDE DEF x, w
    <3> QED BY <3>1, <3>2, Zenon DEF Chunks
  <2> QED BY <2>1, <2>2
<1>5. /\ new \in SUBSET (0 .. MaxBlocks - 1) /\ w.has \cap new = {} /\ new \subseteq {b}
      /\ new \subseteq zeroed /\ zeroed \subseteq {b}
      /\ (zeroed \ new # {} => at = b * BlockSize /\ at >= s.size)
  BY <1>3
<1>6. Cardinality(new) <= w.free
  <2>1. CASE new = {}
    BY <1>4, <2>1, CountNone
  <2>2. CASE new # {}
    <3>1. w.free > 0 /\ new = {b}
      BY <2>2
    <3>2. Cardinality(new) = 1
      BY <1>3, <3>1, CountOne
    <3> QED BY <1>4, <3>1, <3>2
  <2> QED BY <2>1, <2>2
<1> HIDE DEF w, b, new, zeroed, f
<1>7. /\ Cardinality(new) \in Nat /\ Cardinality(w.has) \in Nat
      /\ Cardinality(w.has \cup new) = Cardinality(w.has) + Cardinality(new)
  BY <1>4, <1>5, Count, CountMore
<1>8. /\ f.has \in SUBSET (0 .. MaxBlocks - 1) /\ s.has \subseteq f.has /\ f.free \in Nat
      /\ f.free + Cardinality(f.has) = s.free + Cardinality(s.has)
  <2>1. f.has \in SUBSET (0 .. MaxBlocks - 1) /\ s.has \subseteq f.has
    BY <1>1, <1>4, <1>5
  <2>2. Cardinality(s.has) \in Nat /\ s.free \in Nat
    BY Count DEF Chunked
  <2>3. f.free \in Nat /\ f.free + Cardinality(f.has) = s.free + Cardinality(s.has)
    BY <1>1, <1>4, <1>6, <1>7, <2>2
  <2> QED BY <2>1, <2>3
<1>9. f.data \in [InFile -> Cells]
      /\ \A p \in InFile : f.data[p] = IF BlockOf(p) \in zeroed THEN Blank ELSE w.data[p]
  BY <1>1, <1>4 DEF ZeroBlocks, Cells
<1>10. ASSUME NEW p \in InFile
       PROVE  /\ p \in from .. at - 1 => (f.data[p] = cell /\ BlockOf(p) \in f.has)
              /\ p \notin from .. at - 1 =>
                   /\ f.data[p] \in {s.data[p], Blank}
                   /\ (BlockOf(p) \in s.has /\ (p < s.size \/ p < from)) => f.data[p] = s.data[p]
                   /\ BlockOf(p) \in f.has \ s.has => f.data[p] = Blank
  <2>1. p \in Nat /\ BlockOf(p) * BlockSize <= p /\ s.size \in Nat
    BY InFileIs, BlockIs DEF Chunked
  <2>2. BlockOf(p) \in zeroed => BlockOf(p) = b
    BY <1>5
  <2>3. BlockOf(p) \in zeroed \ new => p >= at /\ p >= s.size /\ p >= from
    <3> HAVE BlockOf(p) \in zeroed \ new
    <3>1. at = BlockOf(p) * BlockSize /\ at >= s.size
      BY <1>5, <2>2
    <3> QED BY <1>2, <2>1, <3>1
  <2>4. f.data[p] = IF BlockOf(p) \in zeroed THEN Blank ELSE w.data[p]
    BY <1>9
  <2>5. CASE p \in from .. at - 1
    <3>1. at # from /\ ~(at <= p)
      BY <1>2, <2>1, <2>5
    <3>2. BlockOf(p) # b
      BY <1>2, <2>1, <3>1
    <3> QED BY <1>1, <1>4, <2>2, <2>4, <2>5, <3>2
  <2>6. CASE p \notin from .. at - 1
    <3>1. /\ w.data[p] \in {s.data[p], Blank}
          /\ (BlockOf(p) \in s.has /\ (p < s.size \/ p < from)) => w.data[p] = s.data[p]
          /\ BlockOf(p) \in w.has \ s.has => w.data[p] = Blank
      BY <1>4, <2>6
    <3>2. BlockOf(p) \in new => BlockOf(p) \notin s.has
      BY <1>4, <1>5
    <3>3. (p < s.size \/ p < from) => BlockOf(p) \notin zeroed \ new
      BY <1>2, <2>1, <2>3
    <3>4. BlockOf(p) \in f.has <=> BlockOf(p) \in w.has \/ BlockOf(p) \in new
      BY <1>1
    <3>5. BlockOf(p) \in new => BlockOf(p) \in zeroed
      BY <1>5
    <3> QED BY <2>4, <2>6, <3>1, <3>2, <3>3, <3>4, <3>5, Zenon
  <2> QED BY <2>5, <2>6
<1>11. Chunks(s, f, from, cell)
  <2>1. \A p \in InFile :
          /\ p \in from .. f.end - 1 => (f.data[p] = cell /\ BlockOf(p) \in f.has)
          /\ p \notin from .. f.end - 1 =>
               /\ f.data[p] \in {s.data[p], Blank}
               /\ (BlockOf(p) \in s.has /\ (p < s.size \/ p < from)) => f.data[p] = s.data[p]
               /\ BlockOf(p) \in f.has \ s.has => f.data[p] = Blank
    BY <1>1, <1>10, Zenon
  <2> QED BY <1>8, <1>9, <2>1 DEF Chunks
<1> QED BY <1>1, <1>2, <1>11 DEF f

LEMMA WriteBlocksFaultIs ==
  ASSUME IInv, NEW fd \in Fd, NEW n \in Amount, WriteBlocksFault(fd, n)
  PROVE  \E w :
           /\ w.end \in Position(fd) .. Position(fd) + n - 1
           /\ Chunks(Source, w, Position(fd), fd)
           /\ mode' = "regular" /\ has' = w.has /\ data' = w.data /\ free' = w.free
           /\ i_size' = IF Source.ok /\ w.end > i_size THEN w.end ELSE Source.size
<1> DEFINE from == Position(fd)
           s == Source
<1>1. /\ filp[fd].open
      /\ mode = "regular" \/ (mode = "immediate" /\ from + n > ImmMax /\ i_size <= NrZones)
      /\ from + n <= MaxSize /\ mode' = "regular"
      /\ \E at \in ChunkBegins(s, from, from + n, fd) :
           /\ has' = FaultAt(s, from, from + n, at, fd).has
           /\ data' = FaultAt(s, from, from + n, at, fd).data
           /\ free' = FaultAt(s, from, from + n, at, fd).free
           /\ i_size' = IF s.ok /\ at > i_size THEN at ELSE s.size
  BY Zenon DEF WriteBlocksFault, Source
<1>2. from \in Nat /\ n \in Nat /\ n > 0 /\ from + n \in Nat /\ from < from + n /\ fd \in Cells
  BY <1>1, Asked DEF Cells
<1>3. Chunked(s)
  BY <1>1, SourceIs
<1> HIDE DEF from, s
<1>4. PICK at \in ChunkBegins(s, from, from + n, fd) :
        /\ has' = FaultAt(s, from, from + n, at, fd).has
        /\ data' = FaultAt(s, from, from + n, at, fd).data
        /\ free' = FaultAt(s, from, from + n, at, fd).free
        /\ i_size' = IF s.ok /\ at > i_size THEN at ELSE s.size
  BY <1>1
<1> DEFINE w == FaultAt(s, from, from + n, at, fd)
<1>5. at \in from .. from + n - 1 /\ w.end = at /\ Chunks(s, w, from, fd)
  BY <1>1, <1>2, <1>3, FaultAtIs
<1> HIDE DEF w
<1>6. has' = w.has /\ data' = w.data /\ free' = w.free
      /\ i_size' = IF s.ok /\ w.end > i_size THEN w.end ELSE s.size
  BY <1>4, <1>5 DEF w
<1> QED BY <1>1, <1>5, <1>6 DEF from, s

LEMMA WriteBlocksFaultInv ==
  ASSUME IInv, NEW fd \in Fd, NEW n \in Amount, WriteBlocksFault(fd, n)
  PROVE  IInv'
<1>1. /\ ~wild /\ filp[fd].open
      /\ mode = "regular" \/ (mode = "immediate" /\ i_size <= NrZones)
      /\ Position(fd) + n <= MaxSize /\ mode' = "regular" /\ i_zone' = NoZone
      /\ Refused(fd) /\ wild' = wild
  BY DEF WriteBlocksFault
<1>2. PICK w : /\ w.end \in Position(fd) .. Position(fd) + n - 1
               /\ Chunks(Source, w, Position(fd), fd)
               /\ has' = w.has /\ data' = w.data /\ free' = w.free
               /\ i_size' = IF Source.ok /\ w.end > i_size THEN w.end ELSE Source.size
  BY WriteBlocksFaultIs
<1>3. /\ Position(fd) \in Nat /\ Position(fd) \in 0 .. MaxSize /\ n \in Nat /\ n > 0
      /\ i_size \in 0 .. MaxSize
  BY <1>1, Asked
<1>4. /\ Source.size \in {0, i_size}
      /\ Source.free + Cardinality(Source.has) = free + Cardinality(has)
  BY <1>1, SourceIs
<1>5. i_size' \in 0 .. MaxSize
  BY <1>1, <1>2, <1>3, <1>4, Sizes
<1>6. InodeOK' /\ Counted' /\ Plain'
  BY <1>1, <1>2, <1>4, <1>5, Empty, NewBlocks DEF Chunks
<1>7. Known' /\ VfsOK'
  BY <1>1, <1>3, RefusedIs DEF VfsOK
<1> QED BY <1>6, <1>7, Whole

LEMMA WriteTooBigInv ==
  ASSUME IInv, NEW fd \in Fd, NEW n \in Amount, WriteTooBig(fd, n)
  PROVE  IInv'
<1>1. /\ filp[fd].open /\ Refused(fd)
      /\ UNCHANGED <<mode, i_size, i_zone, has, data, free, wild>>
  BY DEF WriteTooBig
<1>2. Position(fd) \in 0 .. MaxSize
  BY <1>1, OpenIs
<1>3. InodeOK' /\ Counted' /\ Plain'
  BY <1>1, Halves DEF IInv, InodeOK, Counted, Plain
<1>4. Known' /\ VfsOK'
  BY <1>1, <1>2, RefusedIs DEF VfsOK
<1> QED BY <1>3, <1>4, Whole

LEMMA OverrunInv ==
  ASSUME IInv, NEW fd \in Fd, NEW n \in Amount, Overrun(fd, n)
  PROVE  IInv'
<1>1. /\ mode = "immediate" /\ wild' = TRUE
      /\ UNCHANGED <<mode, i_size, i_zone, has, data, free, vnode, filp, reply>>
  BY DEF Overrun
<1>2. InodeOK' /\ Counted' /\ Plain'
  BY <1>1, Halves DEF IInv, InodeOK, Counted, Plain
<1>3. Known' /\ VfsOK'
  BY <1>1, Halves DEF IInv, VfsOK, Known, Open
<1> QED BY <1>2, <1>3, Whole

\* The loop over blocks with an immediate file.
LEMMA NoSuchBlockIs ==
  ASSUME IInv, NEW p, NoSuchBlock(p), mode = "immediate", ~PlainUse, ~wild,
         UNCHANGED <<mode, i_size, i_zone, has, data>>
  PROVE  InodeOK' /\ Counted' /\ Plain'
<1>1. wild' \in BOOLEAN /\ (free' = free \/ (free # 0 /\ free' = free - 1))
  BY DEF NoSuchBlock, IInv, Types
<1>2. free' \in 0 .. Zones /\ free' <= free /\ Cardinality(has') = 0 /\ Cardinality(has) = 0
  BY <1>1, HasIs, Sizes
<1>3. InodeOK'
  BY <1>1, <1>2, Halves DEF IInv, InodeOK
<1>4. Counted'
  <2>1. free' + Cardinality(has') <= Zones
    <3>1. free' \in Nat /\ free' <= Zones /\ Zones \in Nat
      BY <1>2, Sizes
    <3>2. \A k \in Nat : k + 0 = k
      OBVIOUS
    <3>3. free' + Cardinality(has') = free'
      BY <1>2, <3>1, <3>2, Zenon
    <3> QED BY <3>1, <3>3
  <2> QED BY <2>1 DEF IInv, Counted
<1> QED BY <1>3, <1>4 DEF Plain

LEMMA WriteFaultInv ==
  ASSUME IInv, NEW fd \in Fd, NEW n \in Amount, WriteFault(fd, n)
  PROVE  IInv'
<1>1. /\ ~wild /\ filp[fd].open /\ Allowed(vnode.mode, "fault") /\ mode = "immediate"
      /\ NoSuchBlock(Position(fd)) /\ Refused(fd)
      /\ UNCHANGED <<mode, i_size, i_zone, has, data>>
  BY DEF WriteFault
<1>2. Position(fd) \in 0 .. MaxSize /\ vnode.mode # "regular"
  BY <1>1, OpenIs
<1>3. ~PlainUse
  BY <1>1, <1>2, NotAllowed
<1>4. InodeOK' /\ Counted' /\ Plain'
  BY <1>1, <1>3, NoSuchBlockIs
<1>5. Known' /\ VfsOK'
  BY <1>1, <1>2, RefusedIs DEF VfsOK
<1> QED BY <1>4, <1>5, Whole

\* Where the contents of the file are.
LEMMA StoredIs ==
  ASSUME IInv, NEW p \in Nat, p < i_size, mode = "immediate" => i_size <= NrZones
  PROVE  Stored(p) \in Cells
<1>1. CASE mode = "immediate"
  <2>1. p \in 0 .. NrZones - 1
    BY <1>1, HasIs, Sizes
  <2> QED BY <1>1, <2>1 DEF Stored, IInv, Types
<1>2. CASE mode # "immediate"
  <2>1. p \in InFile
    BY BlockInFile, HasIs, Sizes
  <2> QED BY <1>2, <2>1 DEF Stored, IInv, Types, Cells
<1> QED BY <1>1, <1>2

\* A read that returns got.
LEMMA AnswerIs ==
  ASSUME IInv, NEW fd \in Fd, filp[fd].open, NEW got \in Seq(Cells), Answer(fd, got),
         filp[fd].pos + Len(got) <= MaxSize, vnode' = vnode, mode' = mode
  PROVE  Known' /\ VfsOK'
<1>1. filp[fd].pos + Len(got) \in 0 .. MaxSize
  BY OpenIs, Sizes
<1>2. filp' = [filp EXCEPT ![fd].pos = filp[fd].pos + Len(got)] /\ reply' = got
  BY DEF Answer, IInv, Types
<1>3. Known' /\ filp' \in [Fd -> [open : BOOLEAN, pos : 0 .. MaxSize, append : BOOLEAN]]
  BY <1>1, <1>2, Moved
<1> QED BY <1>2, <1>3, Halves DEF VfsOK, IInv

LEMMA ReadBlocksInv ==
  ASSUME IInv, NEW fd \in Fd, NEW n \in Amount, ReadBlocks(fd, n)
  PROVE  IInv'
<1> DEFINE from == filp[fd].pos
           to == IF from + n > i_size THEN i_size ELSE from + n
           l == IF to < from THEN 0 ELSE to - from
           got == [k \in 1 .. l |-> Stored(from + k - 1)]
<1>1. /\ filp[fd].open /\ (mode = "regular" \/ from >= i_size)
      /\ Answer(fd, got)
      /\ UNCHANGED <<mode, i_size, i_zone, has, data, free, vnode, wild>>
  BY DEF ReadBlocks
<1>2. from \in 0 .. MaxSize /\ n \in Nat /\ i_size \in Nat /\ i_size <= MaxSize /\ MaxSize \in Nat
      /\ mode \in {"immediate", "regular"}
  BY <1>1, Asked
<1>3. l \in Nat /\ from + l <= MaxSize /\ (l > 0 => from + l <= i_size /\ mode = "regular")
  BY <1>1, <1>2
<1>4. \A k \in 1 .. l : Stored(from + k - 1) \in Cells
  <2> HIDE DEF l, from
  <2> TAKE k \in 1 .. l
  <2>1. l > 0 /\ from + k - 1 \in Nat /\ from + k - 1 < i_size
    BY <1>2, <1>3
  <2> QED BY <1>3, <2>1, StoredIs
<1>5. got \in Seq(Cells) /\ Len(got) = l
  <2> HIDE DEF l, from
  <2> QED BY <1>3, <1>4
<1> HIDE DEF got, l, to
<1>6. Known' /\ VfsOK'
  <2>1. filp[fd].pos + Len(got) <= MaxSize
    BY <1>3, <1>5
  <2> QED BY <1>1, <1>5, <2>1, AnswerIs
<1>7. InodeOK' /\ Counted' /\ Plain'
  BY <1>1, Halves DEF IInv, InodeOK, Counted, Plain
<1> QED BY <1>6, <1>7, Whole

LEMMA ContentsIs ==
  ASSUME IInv, mode = "immediate" => i_size <= NrZones
  PROVE  Contents \in Seq(Cells) /\ Len(Contents) = i_size
<1>1. \A k \in 1 .. i_size : Stored(k - 1) \in Cells
  <2> TAKE k \in 1 .. i_size
  <2>1. k - 1 \in Nat /\ k - 1 < i_size
    BY HasIs
  <2> QED BY <2>1, StoredIs
<1> QED BY <1>1, HasIs DEF Contents

LEMMA ReadImmediateInv ==
  ASSUME IInv, NEW fd \in Fd, NEW n \in Amount, ReadImmediate(fd, n)
  PROVE  IInv'
<1>1. /\ ~wild /\ filp[fd].open /\ mode = "immediate" /\ filp[fd].pos < i_size
      /\ i_size > NrZones => wild' = TRUE /\ UNCHANGED <<reply, filp>>
      /\ ~(i_size > NrZones) => wild' = wild /\ Answer(fd, Contents)
      /\ UNCHANGED <<mode, i_size, i_zone, has, data, free, vnode>>
  BY DEF ReadImmediate
<1>2. filp[fd].pos \in Nat /\ i_size \in Nat
  BY <1>1, OpenIs, HasIs, Sizes
<1>3. wild' \in BOOLEAN
  BY <1>1, <1>2, Sizes DEF IInv, Types
<1>4. InodeOK' /\ Counted' /\ Plain'
  BY <1>1, <1>3, Halves DEF IInv, InodeOK, Counted, Plain
<1>5. Known' /\ VfsOK'
  <2>1. CASE i_size > NrZones
    BY <1>1, <2>1, Halves DEF IInv, VfsOK, Known, Open
  <2>2. CASE ~(i_size > NrZones)
    <3>1. Contents \in Seq(Cells) /\ Len(Contents) = i_size
      BY <1>2, <2>2, Sizes, ContentsIs
    <3>2. filp[fd].pos + Len(Contents) <= MaxSize
      BY <1>1, <1>2, <2>2, <3>1, Sizes
    <3> QED BY <1>1, <2>2, <3>1, <3>2, AnswerIs
  <2> QED BY <2>1, <2>2
<1> QED BY <1>4, <1>5, Whole

LEMMA ReadShortInv ==
  ASSUME IInv, NEW fd \in Fd, NEW n \in Amount, ReadShort(fd, n)
  PROVE  IInv'
<1> DEFINE from == filp[fd].pos
           left == IF n < i_size - from THEN n ELSE i_size - from
           got == [k \in 1 .. left |-> Blank]
<1>1. /\ ~wild /\ filp[fd].open /\ mode = "immediate" /\ from < i_size
      /\ \/ Answer(fd, got) /\ wild' = wild
         \/ wild' = TRUE /\ UNCHANGED <<reply, filp>>
      /\ UNCHANGED <<mode, i_size, i_zone, has, data, free, vnode>>
  BY DEF ReadShort
<1>2. from \in Nat /\ i_size \in Nat /\ i_size <= MaxSize /\ n \in Nat /\ MaxSize \in Nat
  BY <1>1, OpenIs, HasIs, Sizes
<1>3. left \in Nat /\ from + left <= MaxSize
  BY <1>1, <1>2
<1>4. got \in Seq(Cells) /\ Len(got) = left
  <2> HIDE DEF left
  <2> QED BY <1>3 DEF Cells
<1> HIDE DEF got, left
<1>5. wild' \in BOOLEAN
  BY <1>1 DEF IInv, Types
<1>6. InodeOK' /\ Counted' /\ Plain'
  BY <1>1, <1>5, Halves DEF IInv, InodeOK, Counted, Plain
<1>7. Known' /\ VfsOK'
  <2>1. CASE Answer(fd, got)
    BY <1>1, <1>3, <1>4, <2>1, AnswerIs
  <2>2. CASE UNCHANGED <<reply, filp>>
    BY <1>1, <2>2, Halves DEF IInv, VfsOK, Known, Open
  <2> QED BY <1>1, <2>1, <2>2
<1> QED BY <1>6, <1>7, Whole

LEMMA PeekInv ==
  ASSUME IInv, NEW fd \in Fd, NEW p \in InFile, Peek(fd, p)
  PROVE  IInv'
<1> DEFINE w == IF BlockOf(p) \in has \/ free = 0 THEN {} ELSE {BlockOf(p)}
<1>1. /\ ~wild /\ filp[fd].open /\ Allowed(vnode.mode, "peek") /\ reply' = <<>>
      /\ mode = "immediate" => NoSuchBlock(p) /\ UNCHANGED <<has, data>>
      /\ mode # "immediate" => /\ has' = has \cup w /\ free' = free - Cardinality(w)
                               /\ data' = ZeroBlocks(data, w) /\ wild' = wild
      /\ UNCHANGED <<mode, i_size, i_zone, vnode, filp>>
  BY DEF Peek
<1>2. vnode.mode # "none" /\ mode \in {"immediate", "regular"} /\ (vnode.mode = "regular" => mode = "regular")
  BY <1>1, OpenIs
<1>3. VfsOK' /\ Known'
  BY <1>1, Halves, Empty DEF IInv, VfsOK, Known, Open
<1>4. CASE mode = "immediate"
  <2>1. ~PlainUse
    BY <1>1, <1>2, <1>4, NotAllowed
  <2>2. InodeOK' /\ Counted' /\ Plain'
    BY <1>1, <1>4, <2>1, NoSuchBlockIs
  <2> QED BY <1>3, <2>2, Whole
<1>5. CASE mode = "regular"
  <2>0. BlockOf(p) \in 0 .. MaxBlocks - 1
    BY InFileIs
  <2>1. w \in SUBSET (0 .. MaxBlocks - 1) /\ has \cap w = {} /\ has \in SUBSET (0 .. MaxBlocks - 1)
        /\ free \in Nat /\ Cardinality(has) \in Nat
    BY <2>0, HasIs
  <2>2. Cardinality(w) <= free
    <3>1. CASE w = {}
      BY <2>1, <3>1, CountNone
    <3>2. CASE w # {}
      <4>1. free # 0 /\ w = {BlockOf(p)}
        BY <3>2
      <4>2. Cardinality(w) = 1
        BY <2>0, <4>1, CountOne
      <4> QED BY <2>1, <4>1, <4>2
    <3> QED BY <3>1, <3>2
  <2> HIDE DEF w
  <2>3. Cardinality(w) \in Nat /\ Cardinality(has \cup w) = Cardinality(has) + Cardinality(w)
    BY <2>1, Count, CountMore
  <2> DEFINE u == [has |-> has \cup w, free |-> free - Cardinality(w), data |-> ZeroBlocks(data, w)]
  <2>4. u.has = has \cup w /\ u.free = free - Cardinality(w) /\ u.data = ZeroBlocks(data, w)
    OBVIOUS
  <2> HIDE DEF u
  <2>5. u.free \in Nat /\ u.free + Cardinality(u.has) = free + Cardinality(has)
    BY <2>1, <2>2, <2>3, <2>4
  <2>6. u.data \in [InFile -> Cells] /\ u.has \in SUBSET (0 .. MaxBlocks - 1)
    BY <2>1, <2>4 DEF ZeroBlocks, Cells, IInv, Types
  <2>7. i_size' \in 0 .. MaxSize /\ i_zone' \in [0 .. NrZones - 1 -> Cells]
    BY <1>1 DEF IInv, Types
  <2>8. InodeOK' /\ Counted' /\ Plain'
    BY <1>1, <1>5, <2>4, <2>5, <2>6, <2>7, NewBlocks
  <2> QED BY <1>3, <2>8, Whole
<1> QED BY <1>2, <1>4, <1>5

LEMMA NextInv == IInv /\ [Next]_vars => IInv'
<1> SUFFICES ASSUME IInv, [Next]_vars PROVE IInv'
  OBVIOUS
<1>1. CASE UNCHANGED vars
  BY <1>1 DEF vars, IInv, Types, Known, Counted, Plain, Open
<1>2. CASE OpenClose
  BY <1>2, OpenInv, CreatInv, CloseInv DEF OpenClose
<1>3. CASE Transfer
  <2> PICK fd \in Fd, n \in Amount :
        \/ WriteImmediate(fd, n) \/ WriteBlocks(fd, n) \/ WriteTooBig(fd, n)
        \/ WriteFault(fd, n) \/ WriteBlocksFault(fd, n) \/ Overrun(fd, n)
        \/ ReadBlocks(fd, n) \/ ReadImmediate(fd, n) \/ ReadShort(fd, n)
    BY <1>3 DEF Transfer
  <2> QED BY WriteImmediateInv, WriteBlocksInv, WriteTooBigInv, WriteFaultInv,
             WriteBlocksFaultInv, OverrunInv, ReadBlocksInv, ReadImmediateInv, ReadShortInv
<1>4. CASE Place
  BY <1>4, SeekInv, FtruncateInv, PeekInv DEF Place
<1>5. CASE do_unlink
  BY <1>5, UnlinkInv
<1> QED BY <1>1, <1>2, <1>3, <1>4, <1>5 DEF Next
-----------------------------------------------------------------------------
(* The invariants *)

LEMMA Always == Spec => []IInv
<1>1. Init => IInv
  BY InitInv
<1>2. IInv /\ [Next]_vars => IInv'
  BY NextInv
<1> QED BY <1>1, <1>2, PTL DEF Spec

\* MFS and VFS, when nobody resizes, peeks into or writes with a bad address to
\* a file that VFS takes for immediate: every zone is free or in the file, over
\* conversions, truncation, deletion and a full disk, and what is in an
\* immediate file fits into i_zone.
THEOREM InodesCorrect ==
  ASSUME PlainUse
  PROVE  Spec => []InodeInv
<1>1. IInv => InodeInv
  <2> SUFFICES ASSUME IInv PROVE InodeInv
    OBVIOUS
  <2>1. TypeOK
    <3>1. 0 .. MaxSize \subseteq 0 .. 2 * MaxSize
      BY Sizes
    <3>2. filp \in [Fd -> [open : BOOLEAN, pos : 0 .. 2 * MaxSize, append : BOOLEAN]]
      BY <3>1 DEF IInv, Types
    <3> QED BY <3>2 DEF IInv, Types, TypeOK
  <2>2. ZonesAccounted
    BY DEF IInv, Counted, Plain, ZonesAccounted
  <2>3. ImmediateFits
    BY HasIs, Sizes DEF IInv, Plain, ImmediateFits
  <2> QED BY <2>1, <2>2, <2>3 DEF InodeInv
<1> QED BY <1>1, Always, PTL
-----------------------------------------------------------------------------
(* What a write changes *)

\* WriteBlocks, with names for its parts.
LEMMA WriteBlocksIs ==
  ASSUME IInv, NEW fd \in Fd, NEW n \in Amount, WriteBlocks(fd, n), Source.ok
  PROVE  \E w :
           /\ w.end \in Position(fd) .. Position(fd) + n /\ Chunks(Source, w, Position(fd), fd)
           /\ Cardinality(Missing(Source.has, Position(fd), Position(fd) + n)) <= Source.free
                => w.end = Position(fd) + n
           /\ mode' = "regular" /\ has' = w.has /\ data' = w.data /\ free' = w.free
           /\ i_size' = IF w.end > i_size THEN w.end ELSE Source.size
           /\ IF w.end = Position(fd) + n THEN Written(fd, w.end) ELSE Refused(fd)
<1> DEFINE from == Position(fd)
           s == Source
           w == WriteChunks(s, from, from + n, fd)
<1>1. /\ filp[fd].open
      /\ mode = "regular" \/ (mode = "immediate" /\ from + n > ImmMax /\ i_size <= NrZones)
      /\ from + n <= MaxSize /\ mode' = "regular"
      /\ has' = w.has /\ data' = w.data /\ free' = w.free
      /\ i_size' = IF w.end > i_size THEN w.end ELSE s.size
      /\ IF w.end = from + n THEN Written(fd, w.end) ELSE Refused(fd)
  BY DEF WriteBlocks, Source
<1>2. from \in Nat /\ n \in Nat /\ n > 0
  BY <1>1, Asked
<1>3. Chunked(s)
  BY <1>1, SourceIs
<1> HIDE DEF from, s
<1>4. /\ w.end \in from .. from + n /\ Chunks(s, w, from, fd)
      /\ Cardinality(Missing(s.has, from, from + n)) <= s.free => w.end = from + n
  <2>1. fd \in Cells /\ from + n \in Nat /\ from < from + n
    BY <1>2 DEF Cells
  <2> QED BY <1>1, <1>2, <1>3, <2>1, WriteChunksIs
<1> HIDE DEF w
<1> QED BY <1>1, <1>4 DEF from, s

\* A cell that was in the file and that the write does not cover.
LEMMA CellKept ==
  ASSUME IInv, NEW fd \in Fd, NEW from \in Nat, NEW n \in Nat, Source.ok,
         mode = "regular" \/ (mode = "immediate" /\ i_size <= NrZones),
         NEW w, w.end \in from .. from + n, Chunks(Source, w, from, fd),
         mode' = "regular", has' = w.has, data' = w.data,
         NEW k \in 1 .. i_size, k \notin from + 1 .. from + n,
         mode = "regular" \/ k <= from, k <= i_size', i_size' \in Nat
  PROVE  Contents'[k] = Contents[k]
<1> DEFINE p == k - 1
<1>1. /\ w.end \in from .. from + n /\ Chunks(Source, w, from, fd)
      /\ mode' = "regular" /\ has' = w.has /\ data' = w.data
  OBVIOUS
<1>2. mode = "regular" \/ (mode = "immediate" /\ i_size <= NrZones)
  OBVIOUS
<1>3. from \in Nat /\ n \in Nat /\ i_size \in Nat /\ i_size \in 0 .. MaxSize
  BY HasIs
<1>4. p \in Nat /\ p < i_size /\ p < MaxSize /\ k \in Nat
  BY <1>3, Sizes
<1>5. p \in InFile
  BY <1>4, BlockInFile
<1>6. p \notin from .. w.end - 1
  BY <1>1, <1>3, <1>4
<1>7. Contents[k] = Stored(p) /\ Contents'[k] = Stored(p)'
  <2>1. k \in 1 .. i_size'
    BY <1>4
  <2> QED BY <2>1 DEF Contents
<1>8. Stored(p)' = IF BlockOf(p) \in w.has THEN w.data[p] ELSE Blank
  BY <1>1 DEF Stored
<1>9. /\ Source.has \subseteq w.has
      /\ (BlockOf(p) \in Source.has /\ (p < Source.size \/ p < from)) => w.data[p] = Source.data[p]
      /\ BlockOf(p) \in w.has \ Source.has => w.data[p] = Blank
  BY <1>1, <1>5, <1>6 DEF Chunks
<1>10. CASE mode = "regular"
  <2>1. Source.has = has /\ Source.data = data /\ Source.size = i_size
    BY <1>10, SourceIs
  <2>2. Stored(p) = IF BlockOf(p) \in has THEN data[p] ELSE Blank
    BY <1>10 DEF Stored
  <2> HIDE DEF p
  <2> QED BY <1>4, <1>7, <1>8, <1>9, <2>1, <2>2
<1>11. CASE mode = "immediate" /\ i_size <= NrZones
  <2>1. Source.has = {0} /\ Source.data[p] = IF p < i_size THEN i_zone[p] ELSE Blank
    BY <1>5, <1>11, SourceIs
  <2>2. BlockOf(p) = 0
    <3>1. ~(p >= 1 * BlockSize)
      BY <1>4, <1>11, <1>3, Sizes
    <3>2. ~(BlockOf(p) >= 1) /\ BlockOf(p) \in Nat
      BY <1>4, <3>1, BlockIn, BlockIs
    <3> QED BY <3>2
  <2>3. p < from
    BY <1>11, <1>3, <1>4
  <2>4. Stored(p) = i_zone[p]
    BY <1>11 DEF Stored
  <2> HIDE DEF p
  <2> QED BY <1>4, <1>7, <1>8, <1>9, <2>1, <2>2, <2>3, <2>4
<1> QED BY <1>2, <1>10, <1>11

LEMMA OnlyRangeStep ==
  ASSUME IInv, NEW fd \in Fd, NEW n \in Amount
  PROVE  OnlyRange(fd, n)
<1> SUFFICES ASSUME WriteBlocks(fd, n) \/ WriteBlocksFault(fd, n) \/ WriteImmediate(fd, n),
                    mode = "regular" \/ mode' = "immediate",
                    mode = "regular" \/ i_size <= NrZones
             PROVE  /\ i_size' >= i_size
                    /\ \A k \in 1 .. i_size :
                         k \in Position(fd) + 1 .. Position(fd) + n \/ Contents'[k] = Contents[k]
  BY DEF OnlyRange
<1>0. filp[fd].open
  BY DEF WriteBlocks, WriteBlocksFault, WriteImmediate
<1>a. Position(fd) \in Nat /\ n \in Nat /\ i_size \in Nat
  BY <1>0, Asked
<1>1. CASE WriteBlocks(fd, n) \/ WriteBlocksFault(fd, n)
  <2>1. mode = "regular"
    BY <1>1 DEF WriteBlocks, WriteBlocksFault
  <2>2. Source.ok /\ Source.size = i_size
    BY <2>1, SourceIs
  <2>3. PICK w : /\ w.end \in Position(fd) .. Position(fd) + n
                 /\ Chunks(Source, w, Position(fd), fd)
                 /\ mode' = "regular" /\ has' = w.has /\ data' = w.data
                 /\ i_size' = IF w.end > i_size THEN w.end ELSE Source.size
    <3>1. CASE WriteBlocks(fd, n)
      BY <2>2, <3>1, WriteBlocksIs
    <3>2. CASE WriteBlocksFault(fd, n)
      <4>1. PICK w : /\ w.end \in Position(fd) .. Position(fd) + n - 1
                     /\ Chunks(Source, w, Position(fd), fd)
                     /\ mode' = "regular" /\ has' = w.has /\ data' = w.data
                     /\ i_size' = IF Source.ok /\ w.end > i_size THEN w.end ELSE Source.size
        BY <3>2, WriteBlocksFaultIs
      <4>2. w.end \in Position(fd) .. Position(fd) + n
        BY <1>a, <4>1
      <4>3. i_size' = IF w.end > i_size THEN w.end ELSE Source.size
        BY <2>2, <4>1
      <4> QED BY <4>1, <4>2, <4>3
    <3> QED BY <1>1, <3>1, <3>2
  <2>4. i_size' >= i_size /\ i_size' \in Nat
    BY <1>a, <2>2, <2>3
  <2>5. ASSUME NEW k \in 1 .. i_size, k \notin Position(fd) + 1 .. Position(fd) + n
        PROVE  Contents'[k] = Contents[k]
    <3>1. k <= i_size'
      BY <1>a, <2>4
    <3> QED BY <1>a, <2>1, <2>2, <2>3, <2>4, <2>5, <3>1, CellKept
  <2> QED BY <2>4, <2>5
<1>2. CASE WriteImmediate(fd, n)
  <2>1. /\ mode = "immediate" /\ mode' = "immediate" /\ i_size <= NrZones
        /\ i_zone' = [k \in 0 .. NrZones - 1 |->
                        IF k \in Position(fd) .. Position(fd) + n - 1 THEN fd ELSE i_zone[k]]
        /\ i_size' = IF Position(fd) + n > i_size THEN Position(fd) + n ELSE i_size
    BY <1>2 DEF WriteImmediate
  <2>2. i_size' >= i_size /\ i_size' \in Nat
    BY <1>a, <2>1
  <2>3. ASSUME NEW k \in 1 .. i_size, k \notin Position(fd) + 1 .. Position(fd) + n
        PROVE  Contents'[k] = Contents[k]
    <3>1. k - 1 \in 0 .. NrZones - 1 /\ k - 1 \notin Position(fd) .. Position(fd) + n - 1
          /\ k \in 1 .. i_size'
      BY <1>a, <2>1, <2>2, <2>3, Sizes
    <3>2. i_zone'[k - 1] = i_zone[k - 1]
      BY <2>1, <3>1
    <3> QED BY <2>1, <3>1, <3>2 DEF Contents, Stored
  <2> QED BY <2>2, <2>3
<1> QED BY <1>1, <1>2

\* MFS, whatever calls are made: a write into a regular file, or one that leaves
\* the file immediate, changes no cell it does not cover and never makes
\* the file shorter, when the disk is full or the copy fails in the middle of it
\* as well.
THEOREM WritesKeepRest ==
  Spec => [][\A fd \in Fd, n \in Amount : OnlyRange(fd, n)]_vars
<1>1. IInv /\ [Next]_vars => [\A fd \in Fd, n \in Amount : OnlyRange(fd, n)]_vars
  BY OnlyRangeStep
<1> QED BY <1>1, Always, PTL DEF Spec
-----------------------------------------------------------------------------
(* What programs see *)

\* Programs use a file that may be immediate only as a whole, from its beginning
\* and without a gap, a regular one in any way but O_APPEND, and the disk has
\* room for the largest file.
Orderly == Calls = {} /\ "end" \notin RegularCalls /\ MaxBlocks <= Zones

\* Then nothing of an earlier, longer file is behind the end of this one.
Trim ==
  /\ \A p \in InFile : (p >= i_size \/ mode # "regular") => data[p] = Blank
  /\ \A fd \in Fd : ~filp[fd].append
  /\ ~wild

Offset == [fd \in Fd |-> filp[fd].pos]

LEMMA OnlyRegular ==
  ASSUME Orderly, NEW type, NEW call, Allowed(type, call)
  PROVE  type = "regular" /\ call # "end"
BY DEF Orderly, Allowed

LEMMA OrderlyIs == Orderly => PlainUse
BY DEF Orderly, PlainUse

LEMMA Fits ==
  ASSUME Orderly, IInv, mode = "immediate"
  PROVE  i_size <= ImmMax /\ i_size <= NrZones
<1>1. i_size <= ImmMax /\ i_size \in Nat
  BY OrderlyIs, HasIs DEF IInv, Plain
<1> QED BY <1>1, Sizes

LEMMA Seen ==
  ASSUME Orderly, IInv
  PROVE  /\ Contents \in Seq(Cells) /\ Len(Contents) = i_size /\ i_size \in Nat
         /\ i_size <= MaxSize
         /\ \A k \in 1 .. i_size : Contents[k] = Stored(k - 1)
<1>1. Contents \in Seq(Cells) /\ Len(Contents) = i_size /\ i_size \in Nat /\ i_size <= MaxSize
  BY Fits, ContentsIs, HasIs
<1>2. \A k \in 1 .. i_size : Contents[k] = Stored(k - 1)
  BY DEF Contents
<1> QED BY <1>1, <1>2

LEMMA At ==
  ASSUME Orderly, IInv, Trim, NEW fd \in Fd
  PROVE  Position(fd) = filp[fd].pos /\ Offset[fd] = filp[fd].pos
BY DEF Trim, Position, Offset

\* Every step of the file of ByteFile, in terms of this one.
LEMMA SeeOther ==
  ASSUME reply' = <<>>, Contents' = Contents, Offset' = Offset
  PROVE  File!FNext
BY DEF File!FNext, File!FOther, Offset

LEMMA SeeSeek ==
  ASSUME NEW fd \in Fd, NEW to \in 0 .. MaxSize, reply' = <<>>, Contents' = Contents,
         Offset' = [Offset EXCEPT ![fd] = to]
  PROVE  File!FNext
<1>1. File!FSeek(fd)
  BY DEF File!FSeek, Offset
<1> QED BY <1>1 DEF File!FNext

LEMMA SeeResize ==
  ASSUME NEW n \in 0 .. MaxSize, reply' = <<>>,
         Offset' = Offset \/ (\E d \in Fd : Offset' = [Offset EXCEPT ![d] = 0]),
         Contents' = [k \in 1 .. n |-> IF k <= Len(Contents) THEN Contents[k] ELSE Blank]
  PROVE  File!FNext
<1>1. File!FResize
  BY Zenon DEF File!FResize, Offset
<1> QED BY <1>1 DEF File!FNext

LEMMA SeeRead ==
  ASSUME NEW fd \in Fd, NEW n \in 0 .. MaxSize, Contents' = Contents,
         reply' = File!Slice(Contents, Offset[fd], n),
         Offset' = [Offset EXCEPT ![fd] = Offset[fd] + Len(reply')]
  PROVE  File!FNext
<1>1. File!FRead(fd, n)
  BY Zenon DEF File!FRead, Offset
<1> QED BY <1>1 DEF File!FNext

LEMMA SeeWrite ==
  ASSUME NEW fd \in Fd, NEW n \in 0 .. MaxSize, reply' = <<>>,
         Contents' = File!WriteAt(Contents, Offset[fd], fd, n),
         Offset' = [Offset EXCEPT ![fd] = Offset[fd] + n]
  PROVE  File!FNext
<1>0. fd \in Cells
  BY DEF Cells
<1>1. File!FWrite(fd, fd, n)
  BY Zenon DEF File!FWrite, Offset
<1> QED BY <1>0, <1>1 DEF File!FNext

LEMMA SeeFail ==
  ASSUME NEW fd \in Fd, NEW n \in 0 .. MaxSize, reply' = Failed, Offset' = Offset,
         Contents' \in {Contents, File!WriteAt(Contents, Offset[fd], fd, n)}
  PROVE  File!FNext
<1>0. fd \in Cells
  BY DEF Cells
<1>1. File!FFail(fd, fd, n)
  BY Zenon DEF File!FFail, Offset
<1> QED BY <1>0, <1>1 DEF File!FNext

\* The positions that programs see after a step on one descriptor.
LEMMA OffsetMoved ==
  ASSUME IInv, NEW fd \in Fd, NEW x, filp' = [filp EXCEPT ![fd].pos = x]
  PROVE  Offset' = [Offset EXCEPT ![fd] = x]
<1>1. filp \in [Fd -> [open : BOOLEAN, pos : 0 .. MaxSize, append : BOOLEAN]]
  BY DEF IInv, Types
<1> QED BY <1>1 DEF Offset

LEMMA OffsetPut ==
  ASSUME IInv, NEW fd \in Fd, NEW rec, rec.pos = 0, filp' = [filp EXCEPT ![fd] = rec]
  PROVE  Offset' = [Offset EXCEPT ![fd] = 0]
<1>1. filp \in [Fd -> [open : BOOLEAN, pos : 0 .. MaxSize, append : BOOLEAN]]
  BY DEF IInv, Types
<1> QED BY <1>1 DEF Offset

\* No descriptor appends, before or after.
LEMMA NoAppend ==
  ASSUME IInv, Trim, NEW fd \in Fd,
         \/ filp' = filp
         \/ \E x : filp' = [filp EXCEPT ![fd].pos = x]
         \/ \E rec : filp' = [filp EXCEPT ![fd] = rec] /\ ~rec.append
  PROVE  \A e \in Fd : ~filp'[e].append
<1>1. filp \in [Fd -> [open : BOOLEAN, pos : 0 .. MaxSize, append : BOOLEAN]]
      /\ \A e \in Fd : ~filp[e].append
  BY DEF IInv, Types, Trim
<1> QED BY <1>1

\* A shorter or a longer file: what both have is the same.
LEMMA SameText ==
  ASSUME Orderly, IInv, NEW n \in 0 .. MaxSize, i_size' = n,
         \A k \in 1 .. n : Stored(k - 1)' = IF k <= i_size THEN Stored(k - 1) ELSE Blank
  PROVE  Contents' = [k \in 1 .. n |-> IF k <= Len(Contents) THEN Contents[k] ELSE Blank]
<1>1. /\ Len(Contents) = i_size /\ i_size \in Nat
      /\ \A k \in 1 .. i_size : Contents[k] = Stored(k - 1)
  BY Seen
<1>2. Contents' = [k \in 1 .. n |-> Stored(k - 1)']
  BY DEF Contents
<1>3. \A k \in 1 .. n : Stored(k - 1)' = IF k <= Len(Contents) THEN Contents[k] ELSE Blank
  BY <1>1, Sizes
<1> QED BY <1>2, <1>3

LEMMA SameContents ==
  ASSUME UNCHANGED <<mode, i_size, i_zone, has, data>>
  PROVE  Contents' = Contents
BY DEF Contents, Stored

\* Blocks that were not there are zeroed: nobody sees a difference.
LEMMA TrimKept ==
  ASSUME Trim, UNCHANGED <<mode, i_size, data, wild>>, \A e \in Fd : ~filp'[e].append
  PROVE  Trim'
BY DEF Trim

LEMMA CreatSeen ==
  ASSUME Orderly, IInv, Trim, NEW fd \in Fd, NEW append \in BOOLEAN, do_creat(fd, append)
  PROVE  Trim' /\ File!FNext
<1> DEFINE rec == [open |-> TRUE, pos |-> 0, append |-> append]
<1>1. /\ (append => Allowed("immediate", "end")) /\ Wipe("immediate") /\ reply' = <<>> /\ wild' = wild
      /\ filp' = [filp EXCEPT ![fd] = rec]
  BY DEF do_creat, Put
<1>2. ~append
  BY <1>1, OnlyRegular
<1>3. i_size' = 0 /\ data' = AllBlank /\ mode' = "immediate"
  BY <1>1 DEF Wipe, Wipe_with
<1>4. \A e \in Fd : ~filp'[e].append
  <2>1. ~rec.append
    BY <1>2
  <2> HIDE DEF rec
  <2> QED BY <1>1, <2>1, NoAppend
<1>5. Trim'
  BY <1>1, <1>3, <1>4 DEF Trim, AllBlank
<1>6. Offset' = [Offset EXCEPT ![fd] = 0]
  <2>1. rec.pos = 0
    OBVIOUS
  <2> QED BY <1>1, <2>1, OffsetPut
<1>7. 0 \in 0 .. MaxSize /\ (\A k \in 1 .. 0 : FALSE)
  BY Sizes
<1>8. Contents' = [k \in 1 .. 0 |-> IF k <= Len(Contents) THEN Contents[k] ELSE Blank]
  BY <1>3, <1>7, SameText
<1> QED BY <1>1, <1>5, <1>6, <1>7, <1>8, SeeResize

\* Truncation of a regular file, or of any to nothing.
LEMMA TruncateSeen ==
  ASSUME Orderly, IInv, Trim, NEW n \in 0 .. MaxSize, TruncateTo(n), mode # "free",
         mode = "immediate" => n = 0
  PROVE  /\ \A p \in InFile : (p >= i_size' \/ mode' # "regular") => data'[p] = Blank
         /\ ~wild'
         /\ Contents' = [k \in 1 .. n |-> IF k <= Len(Contents) THEN Contents[k] ELSE Blank]
<1>0. mode \in {"immediate", "regular"} /\ n \in Nat /\ n <= MaxSize /\ i_size \in Nat
  BY HasIs, Sizes DEF IInv, Types
<1>1. mode' = mode /\ i_size' = n
  BY DEF TruncateTo
<1>2. CASE mode = "immediate"
  <2>1. n = 0 /\ data' = data /\ wild' = (n \in 1 .. i_size - 1 /\ i_zone[0] # Blank)
    BY <1>2 DEF TruncateTo
  <2>a. n \notin 1 .. i_size - 1 /\ 1 .. n = {}
    BY <2>1, <1>0
  <2>2. ~wild' /\ 1 .. n = {}
    BY <2>1, <2>a, Zenon
  <2>3. Contents' = [k \in 1 .. n |-> IF k <= Len(Contents) THEN Contents[k] ELSE Blank]
    BY <1>1, <2>2, SameText
  <2> QED BY <1>1, <1>2, <2>1, <2>2, <2>3 DEF Trim
<1>3. CASE mode = "regular"
  <2>1. /\ has' = {b \in has : b * BlockSize < n} /\ wild' = wild
        /\ data' = [p \in InFile |-> IF p < n THEN data[p] ELSE Blank]
    BY <1>3 DEF TruncateTo
  <2>2. \A p \in InFile : p \in Nat
    BY InFileIs
  <2>3. \A p \in InFile : p >= n => data'[p] = Blank
    BY <1>0, <2>1, <2>2
  <2>4. ASSUME NEW k \in 1 .. n
        PROVE  Stored(k - 1)' = IF k <= i_size THEN Stored(k - 1) ELSE Blank
    <3> DEFINE p == k - 1
    <3>1. p \in Nat /\ p < n /\ p < MaxSize /\ (k <= i_size <=> ~(p >= i_size))
      BY <1>0, Sizes
    <3>2. p \in InFile
      BY <3>1, BlockInFile
    <3>3. BlockOf(p) \in Nat /\ BlockOf(p) * BlockSize <= p /\ BlockOf(p) * BlockSize \in Nat
      BY <3>1, BlockIs
    <3>4. BlockOf(p) * BlockSize < n
      BY <1>0, <3>1, <3>3
    <3>5. BlockOf(p) \in has' <=> BlockOf(p) \in has
      BY <2>1, <3>4
    <3>6. data'[p] = data[p] /\ (p >= i_size => data[p] = Blank)
      BY <2>1, <3>1, <3>2 DEF Trim
    <3>7. /\ Stored(p)' = IF BlockOf(p) \in has' THEN data'[p] ELSE Blank
          /\ Stored(p) = IF BlockOf(p) \in has THEN data[p] ELSE Blank
      BY <1>1, <1>3 DEF Stored
    <3> HIDE DEF p
    <3>8. Stored(p)' = IF k <= i_size THEN Stored(p) ELSE Blank
      BY <3>1, <3>5, <3>6, <3>7
    <3> QED BY <3>8 DEF p
  <2>5. Contents' = [k \in 1 .. n |-> IF k <= Len(Contents) THEN Contents[k] ELSE Blank]
    BY <1>1, <2>4, SameText
  <2> QED BY <1>1, <1>3, <2>1, <2>3, <2>5 DEF Trim
<1> QED BY <1>0, <1>2, <1>3

LEMMA OpenSeen ==
  ASSUME Orderly, IInv, Trim, NEW fd \in Fd, NEW append \in BOOLEAN, NEW trunc \in BOOLEAN,
         common_open(fd, append, trunc)
  PROVE  Trim' /\ File!FNext
<1> DEFINE rec == [open |-> TRUE, pos |-> 0, append |-> append]
<1>1. /\ mode # "free" /\ reply' = <<>> /\ filp' = [filp EXCEPT ![fd] = rec]
      /\ \E v : append => Allowed(v, "end")
      /\ trunc => TruncateTo(0)
      /\ ~trunc => UNCHANGED <<mode, i_size, i_zone, has, data, free, wild>>
  BY DEF common_open, Put
<1>2. ~append
  BY <1>1, OnlyRegular
<1>3. \A e \in Fd : ~filp'[e].append
  <2>1. ~rec.append
    BY <1>2
  <2> HIDE DEF rec
  <2> QED BY <1>1, <2>1, NoAppend
<1>4. Offset' = [Offset EXCEPT ![fd] = 0]
  <2>1. rec.pos = 0
    OBVIOUS
  <2> QED BY <1>1, <2>1, OffsetPut
<1>5. 0 \in 0 .. MaxSize
  BY Sizes
<1>6. CASE trunc
  <2>1. /\ \A p \in InFile : (p >= i_size' \/ mode' # "regular") => data'[p] = Blank
        /\ ~wild'
        /\ Contents' = [k \in 1 .. 0 |-> IF k <= Len(Contents) THEN Contents[k] ELSE Blank]
    BY <1>1, <1>5, <1>6, TruncateSeen
  <2>2. Trim'
    BY <1>3, <2>1 DEF Trim
  <2> QED BY <1>1, <1>4, <1>5, <2>1, <2>2, SeeResize
<1>7. CASE ~trunc
  <2>1. Contents' = Contents
    BY <1>1, <1>7, SameContents
  <2>2. Trim'
    BY <1>1, <1>3, <1>7, TrimKept
  <2> QED BY <1>1, <1>4, <1>5, <2>1, <2>2, SeeSeek
<1> QED BY <1>6, <1>7

LEMMA CloseSeen ==
  ASSUME Orderly, IInv, Trim, NEW fd \in Fd, close_fd(fd)
  PROVE  Trim' /\ File!FNext
<1>1. /\ reply' = <<>> /\ filp' = [filp EXCEPT ![fd] = Closed]
      /\ UNCHANGED <<mode, i_size, i_zone, has, data, free, wild>>
  BY DEF close_fd, Put
<1>2. ~Closed.append /\ Closed.pos = 0 /\ 0 \in 0 .. MaxSize
  BY Sizes DEF Closed
<1>3. \A e \in Fd : ~filp'[e].append
  BY <1>1, <1>2, NoAppend
<1>4. Offset' = [Offset EXCEPT ![fd] = 0]
  BY <1>1, <1>2, OffsetPut
<1>5. Contents' = Contents /\ Trim'
  BY <1>1, <1>3, SameContents, TrimKept
<1> QED BY <1>1, <1>2, <1>4, <1>5, SeeSeek

LEMMA UnlinkSeen ==
  ASSUME Orderly, IInv, Trim, do_unlink
  PROVE  Trim' /\ File!FNext
<1>1. Wipe("free") /\ reply' = <<>> /\ UNCHANGED <<vnode, filp, wild>>
  BY DEF do_unlink
<1>2. i_size' = 0 /\ data' = AllBlank /\ mode' = "free"
  BY <1>1 DEF Wipe, Wipe_with
<1>3. Trim'
  BY <1>1, <1>2 DEF Trim, AllBlank
<1>4. Offset' = Offset
  BY <1>1 DEF Offset
<1>5. 0 \in 0 .. MaxSize /\ (\A k \in 1 .. 0 : FALSE)
  BY Sizes
<1>6. Contents' = [k \in 1 .. 0 |-> IF k <= Len(Contents) THEN Contents[k] ELSE Blank]
  BY <1>2, <1>5, SameText
<1> QED BY <1>1, <1>3, <1>4, <1>5, <1>6, SeeResize

LEMMA SeekSeen ==
  ASSUME Orderly, IInv, Trim, NEW fd \in Fd, NEW to \in 0 .. MaxSize, actual_lseek(fd, to)
  PROVE  Trim' /\ File!FNext
<1>1. /\ filp' = [filp EXCEPT ![fd].pos = to] /\ reply' = <<>>
      /\ UNCHANGED <<mode, i_size, i_zone, has, data, free, vnode, wild>>
  BY DEF actual_lseek
<1>2. \A e \in Fd : ~filp'[e].append
  BY <1>1, NoAppend
<1>3. Offset' = [Offset EXCEPT ![fd] = to]
  BY <1>1, OffsetMoved
<1>4. Contents' = Contents /\ Trim'
  BY <1>1, <1>2, SameContents, TrimKept
<1> QED BY <1>1, <1>3, <1>4, SeeSeek

LEMMA FtruncateSeen ==
  ASSUME Orderly, IInv, Trim, NEW fd \in Fd, NEW n \in 0 .. MaxSize, do_ftruncate(fd, n)
  PROVE  Trim' /\ File!FNext
<1>1. /\ filp[fd].open /\ Allowed(vnode.mode, "resize") /\ reply' = <<>> /\ filp' = filp
      /\ \/ UNCHANGED <<mode, i_size, i_zone, has, data, free, vnode, wild>>
         \/ TruncateTo(n)
  BY DEF do_ftruncate, truncate_vnode
<1>2. mode = "regular"
  BY <1>1, OnlyRegular, OpenIs
<1>3. Offset' = Offset /\ \A e \in Fd : ~filp'[e].append
  BY <1>1, NoAppend DEF Offset
<1>4. CASE UNCHANGED <<mode, i_size, i_zone, has, data, free, vnode, wild>>
  <2>1. Contents' = Contents /\ Trim'
    BY <1>3, <1>4, SameContents, TrimKept
  <2> QED BY <1>1, <1>3, <2>1, SeeOther
<1>5. CASE TruncateTo(n)
  <2>1. /\ \A p \in InFile : (p >= i_size' \/ mode' # "regular") => data'[p] = Blank
        /\ ~wild'
        /\ Contents' = [k \in 1 .. n |-> IF k <= Len(Contents) THEN Contents[k] ELSE Blank]
    BY <1>2, <1>5, TruncateSeen
  <2>2. Trim'
    BY <1>3, <2>1 DEF Trim
  <2> QED BY <1>1, <1>3, <2>1, <2>2, SeeResize
<1> QED BY <1>1, <1>4, <1>5

\* A write as ByteFile has it, cell by cell.
LEMMA Overwritten ==
  ASSUME Orderly, IInv, NEW fd \in Fd, NEW from \in Nat, NEW n \in Nat,
         i_size' = IF from + n > i_size THEN from + n ELSE i_size,
         \A k \in 1 .. i_size' :
           Stored(k - 1)' = IF k \in from + 1 .. from + n THEN fd
                            ELSE IF k <= i_size THEN Stored(k - 1) ELSE Blank
  PROVE  Contents' = File!WriteAt(Contents, from, fd, n)
<1> DEFINE m == IF from + n > i_size THEN from + n ELSE i_size
<1>1. /\ Len(Contents) = i_size /\ i_size \in Nat
      /\ \A k \in 1 .. i_size : Contents[k] = Stored(k - 1)
  BY Seen
<1>2. Contents' = [k \in 1 .. m |-> Stored(k - 1)'] /\ m \in Nat
  BY <1>1 DEF Contents
<1>3. \A k \in 1 .. m : Stored(k - 1)' = IF k \in from + 1 .. from + n THEN fd
                                         ELSE IF k <= i_size THEN Contents[k] ELSE Blank
  BY <1>1, <1>2
<1>4. File!WriteAt(Contents, from, fd, n) =
        [k \in 1 .. m |-> IF k \in from + 1 .. from + n THEN fd
                          ELSE IF k <= i_size THEN Contents[k] ELSE Blank]
  BY <1>1 DEF File!WriteAt
<1> HIDE DEF m
<1> QED BY <1>2, <1>3, <1>4

LEMMA WriteImmediateSeen ==
  ASSUME Orderly, IInv, Trim, NEW fd \in Fd, NEW n \in Amount, WriteImmediate(fd, n)
  PROVE  Trim' /\ File!FNext
<1> DEFINE from == Position(fd)
<1>1. /\ filp[fd].open /\ mode = "immediate" /\ from + n <= ImmMax
      /\ (from > i_size => Allowed(vnode.mode, "hole"))
      /\ i_zone' = [k \in 0 .. NrZones - 1 |-> IF k \in from .. from + n - 1 THEN fd ELSE i_zone[k]]
      /\ i_size' = IF from + n > i_size THEN from + n ELSE i_size
      /\ filp' = [filp EXCEPT ![fd].pos = from + n] /\ reply' = <<>>
      /\ UNCHANGED <<mode, has, data, free, wild>>
  BY DEF WriteImmediate, Written, Return
<1>2. from \in Nat /\ n \in Nat /\ n > 0 /\ i_size \in Nat /\ n \in 0 .. MaxSize
  BY <1>1, Asked
<1>3. from <= i_size
  <2>1. vnode.mode # "regular"
    BY <1>1, OpenIs
  <2>2. ~(from > i_size)
    BY <1>1, <2>1, OnlyRegular
  <2> QED BY <1>2, <2>2
<1>4. from = filp[fd].pos /\ Offset[fd] = from
  BY At
<1>5. i_size <= ImmMax /\ i_size <= NrZones
  BY <1>1, Fits
<1> HIDE DEF from
<1>6. \A e \in Fd : ~filp'[e].append
  BY <1>1, NoAppend
<1>7. Trim'
  BY <1>1, <1>6 DEF Trim
<1>8. Offset' = [Offset EXCEPT ![fd] = Offset[fd] + n]
  BY <1>1, <1>4, OffsetMoved
<1>9. ASSUME NEW k \in 1 .. i_size'
      PROVE  Stored(k - 1)' = IF k \in from + 1 .. from + n THEN fd
                              ELSE IF k <= i_size THEN Stored(k - 1) ELSE Blank
  <2>1. k - 1 \in 0 .. NrZones - 1
    BY <1>1, <1>2, <1>5, Sizes
  <2>2. (k - 1 \in from .. from + n - 1 <=> k \in from + 1 .. from + n)
        /\ (k \notin from + 1 .. from + n => k <= i_size)
    BY <1>1, <1>2, <1>3
  <2>3. Stored(k - 1)' = i_zone'[k - 1] /\ Stored(k - 1) = i_zone[k - 1]
    BY <1>1 DEF Stored
  <2>4. i_zone'[k - 1] = IF k - 1 \in from .. from + n - 1 THEN fd ELSE i_zone[k - 1]
    BY <1>1, <2>1
  <2> QED BY <2>2, <2>3, <2>4
<1>10. Contents' = File!WriteAt(Contents, Offset[fd], fd, n)
  BY <1>1, <1>2, <1>4, <1>9, Overwritten
<1> QED BY <1>1, <1>2, <1>7, <1>8, <1>10, SeeWrite

\* The disk is never full.
LEMMA NotFull ==
  ASSUME Orderly, IInv, mode = "regular" \/ (mode = "immediate" /\ i_size <= NrZones),
         NEW from \in Nat, NEW to \in Nat, from < to, to <= MaxSize
  PROVE  Source.ok /\ Cardinality(Missing(Source.has, from, to)) <= Source.free
<1> DEFINE s == Source  m == Missing(s.has, from, to)
<1>1. free + Cardinality(has) = Zones /\ MaxBlocks <= Zones /\ free \in Nat
      /\ (mode = "immediate" => Cardinality(has) = 0)
  BY HasIs, OrderlyIs DEF Orderly
<1>2. /\ Chunked(s) /\ s.free + Cardinality(s.has) = free + Cardinality(has)
      /\ (mode = "immediate" => (s.ok <=> free # 0)) /\ (mode = "regular" => s.ok)
  BY SourceIs
<1>3. mode = "immediate" => free # 0
  BY <1>1, FileAssumption
<1>4. s.has \in SUBSET (0 .. MaxBlocks - 1) /\ s.free \in Nat
  BY <1>2 DEF Chunked
<1>5. m \in SUBSET (0 .. MaxBlocks - 1) /\ m \cap s.has = {}
  BY MissingIs
<1> HIDE DEF m, s
<1>6. s.has \cap m = {} /\ s.has \cup m \in SUBSET (0 .. MaxBlocks - 1)
  BY <1>4, <1>5
<1>7. Cardinality(s.has \cup m) = Cardinality(s.has) + Cardinality(m)
      /\ Cardinality(s.has) \in Nat /\ Cardinality(m) \in Nat
  BY <1>4, <1>5, <1>6, Count, CountMore
<1>8. Cardinality(0 .. MaxBlocks - 1) = MaxBlocks /\ MaxBlocks \in Nat
  <2>1. MaxBlocks \in Nat /\ MaxBlocks - 1 \in Int /\ 0 <= MaxBlocks - 1
    BY FileAssumption
  <2>2. Cardinality(0 .. MaxBlocks - 1) = IF 0 > MaxBlocks - 1 THEN 0 ELSE (MaxBlocks - 1) - 0 + 1
    BY <2>1, FS_Interval
  <2> QED BY <2>1, <2>2
<1>9. Cardinality(s.has \cup m) <= Cardinality(0 .. MaxBlocks - 1)
  BY <1>6, CountLess
<1>10. Cardinality(m) <= s.free
  BY <1>1, <1>2, <1>4, <1>7, <1>8, <1>9
<1>11. s.ok
  BY <1>2, <1>3
<1> QED BY <1>10, <1>11 DEF m, s

\* What programs see of the loop over blocks that has written n cells.
LEMMA ChunksSeen ==
  ASSUME Orderly, IInv, Trim, NEW fd \in Fd, NEW from \in Nat, NEW n \in Nat,
         from + n <= MaxSize, Source.ok, mode = "regular" \/ (mode = "immediate" /\ i_size <= NrZones),
         mode = "immediate" => from <= i_size /\ i_size < from + n,
         NEW w, w.end = from + n, Chunks(Source, w, from, fd),
         mode' = "regular", has' = w.has, data' = w.data, wild' = wild,
         i_size' = IF w.end > i_size THEN w.end ELSE Source.size,
         \A e \in Fd : ~filp'[e].append
  PROVE  Trim' /\ Contents' = File!WriteAt(Contents, from, fd, n)
<1>1. mode = "regular" \/ (mode = "immediate" /\ i_size <= NrZones)
  OBVIOUS
<1>2. i_size \in Nat /\ i_size <= MaxSize /\ from + n \in Nat /\ MaxSize \in Nat
  BY HasIs, Sizes
<1>7. i_size' = IF from + n > i_size THEN from + n ELSE i_size
  <2>1. mode = "regular" => Source.size = i_size
    BY SourceIs
  <2> QED BY <1>1, <1>2, <2>1
<1>8. /\ Chunked(Source)
      /\ mode = "regular" => Source.data = data
      /\ mode = "immediate" => \A p \in InFile : Source.data[p] = IF p < i_size THEN i_zone[p] ELSE Blank
  BY <1>1, SourceIs
<1>9. \A p \in InFile : p >= i_size => Source.data[p] = Blank
  <2> TAKE p \in InFile
  <2> HAVE p >= i_size
  <2>1. p \in Nat
    BY InFileIs
  <2>2. ~(p < i_size)
    BY <1>2, <2>1
  <2> QED BY <1>1, <1>8, <2>2 DEF Trim
<1>10. \A p \in InFile :
         /\ p \in from .. from + n - 1 => w.data[p] = fd /\ BlockOf(p) \in w.has
         /\ p \notin from .. from + n - 1 => w.data[p] \in {Source.data[p], Blank}
  <2>1. \A p \in InFile :
          /\ p \in from .. w.end - 1 => (w.data[p] = fd /\ BlockOf(p) \in w.has)
          /\ p \notin from .. w.end - 1 => w.data[p] \in {Source.data[p], Blank}
    BY Zenon DEF Chunks
  <2>2. w.end = from + n
    OBVIOUS
  <2> QED BY <1>2, <2>1, <2>2
<1>11. Trim'
  <2>2. ASSUME NEW p \in InFile, p >= i_size' PROVE data'[p] = Blank
    <3>1. p \in Nat
      BY InFileIs
    <3>2. p >= i_size /\ p \notin from .. from + n - 1
      BY <1>2, <1>7, <2>2, <3>1
    <3> QED BY <1>9, <1>10, <3>2
  <2> QED BY <2>2 DEF Trim
<1>13. ASSUME NEW k \in 1 .. i_size'
       PROVE  Stored(k - 1)' = IF k \in from + 1 .. from + n THEN fd
                               ELSE IF k <= i_size THEN Stored(k - 1) ELSE Blank
  <2> DEFINE p == k - 1
  <2>1. p \in Nat /\ p < MaxSize /\ (p \in from .. from + n - 1 <=> k \in from + 1 .. from + n)
        /\ (k <= i_size <=> ~(p >= i_size)) /\ k \in Nat /\ k > 0 /\ i_size' \in Nat /\ k <= i_size'
    BY <1>1, <1>2, <1>7
  <2>2. p \in InFile
    BY <2>1, BlockInFile
  <2>3. Stored(p)' = IF BlockOf(p) \in w.has THEN w.data[p] ELSE Blank
    BY DEF Stored
  <2>4. CASE k \in from + 1 .. from + n
    <3>1. w.data[p] = fd /\ BlockOf(p) \in w.has
      BY <1>10, <2>1, <2>2, <2>4
    <3> HIDE DEF p
    <3>2. Stored(p)' = fd
      BY <2>3, <3>1
    <3> QED BY <2>4, <3>2 DEF p
  <2>5. CASE k \notin from + 1 .. from + n /\ k <= i_size
    <3>1. k \in 1 .. i_size /\ (mode = "regular" \/ k <= from)
      BY <1>1, <1>2, <2>1, <2>5
    <3>2. Contents'[k] = Contents[k]
      <4>1. w.end \in from .. from + n
        BY <1>2
      <4>2. k \in 1 .. i_size /\ k \notin from + 1 .. from + n /\ k <= i_size' /\ i_size' \in Nat
        BY <2>1, <2>5, <3>1
      <4>3. mode = "regular" \/ k <= from
        BY <3>1
      <4> HIDE DEF p
      <4> QED BY <1>1, <4>1, <4>2, <4>3, CellKept
    <3>3. Contents'[k] = Stored(k - 1)' /\ Contents[k] = Stored(k - 1)
      BY <3>1 DEF Contents
    <3> QED BY <2>5, <3>2, <3>3
  <2>6. CASE k \notin from + 1 .. from + n /\ ~(k <= i_size)
    <3>1. w.data[p] = Blank
      BY <1>9, <1>10, <2>1, <2>2, <2>6
    <3> HIDE DEF p
    <3>2. Stored(p)' = Blank
      BY <2>3, <3>1
    <3> QED BY <2>6, <3>2 DEF p
  <2> QED BY <2>4, <2>5, <2>6
<1>14. Contents' = File!WriteAt(Contents, from, fd, n)
  BY <1>2, <1>7, <1>13, Overwritten
<1> QED BY <1>11, <1>14

LEMMA WriteBlocksSeen ==
  ASSUME Orderly, IInv, Trim, NEW fd \in Fd, NEW n \in Amount, WriteBlocks(fd, n)
  PROVE  Trim' /\ File!FNext
<1> DEFINE from == Position(fd)
<1>1. /\ filp[fd].open
      /\ mode = "regular" \/ (mode = "immediate" /\ from + n > ImmMax /\ i_size <= NrZones)
      /\ (from > i_size => Allowed(vnode.mode, "hole"))
      /\ from + n <= MaxSize /\ wild' = wild
  BY DEF WriteBlocks
<1>2. from \in Nat /\ n \in Nat /\ n > 0 /\ i_size \in Nat /\ n \in 0 .. MaxSize /\ i_size <= MaxSize
      /\ from + n \in Nat /\ from < from + n /\ MaxSize \in Nat
  BY <1>1, Asked
<1>3. Source.ok /\ Cardinality(Missing(Source.has, from, from + n)) <= Source.free
  <2> HIDE DEF from
  <2> QED BY <1>1, <1>2, NotFull
<1>4. PICK w : /\ w.end = from + n /\ Chunks(Source, w, from, fd)
               /\ mode' = "regular" /\ has' = w.has /\ data' = w.data
               /\ i_size' = IF w.end > i_size THEN w.end ELSE Source.size
               /\ Written(fd, from + n)
  BY <1>3, WriteBlocksIs, Zenon
<1>5. from = filp[fd].pos /\ Offset[fd] = from
  BY At
<1>6. mode = "immediate" => from <= i_size /\ i_size < from + n
  <2>1. mode = "immediate" => vnode.mode # "regular"
    BY <1>1, OpenIs
  <2>2. mode = "immediate" => ~(from > i_size)
    BY <1>1, <2>1, OnlyRegular
  <2>3. mode = "immediate" => i_size <= ImmMax
    BY Fits
  <2>4. ImmMax \in Nat
    BY <1>1, Asked
  <2> QED BY <1>1, <1>2, <2>2, <2>3, <2>4
<1>7. \A e \in Fd : ~filp'[e].append
  BY <1>4, NoAppend DEF Written, Return
<1>8. Offset' = [Offset EXCEPT ![fd] = Offset[fd] + n] /\ reply' = <<>>
  BY <1>4, <1>5, OffsetMoved DEF Written, Return
<1> HIDE DEF from
<1>9. Trim' /\ Contents' = File!WriteAt(Contents, from, fd, n)
  BY <1>1, <1>2, <1>3, <1>4, <1>6, <1>7, ChunksSeen
<1> QED BY <1>2, <1>5, <1>8, <1>9, SeeWrite

\* Blocks are zeroed that are new or behind the end: nobody sees a difference but
\* for the length.
LEMMA ZeroedSeen ==
  ASSUME Orderly, IInv, Trim, mode = "regular", mode' = "regular",
         NEW new, NEW zeroed, new \cap has = {}, new \subseteq zeroed,
         \A p \in InFile : BlockOf(p) \in zeroed \ new => p >= i_size,
         has' = has \cup new, data' = ZeroBlocks(data, zeroed),
         NEW m \in 0 .. MaxSize, m >= i_size, i_size' = m
  PROVE  /\ \A p \in InFile : p >= i_size' => data'[p] = Blank
         /\ Contents' = [k \in 1 .. m |-> IF k <= Len(Contents) THEN Contents[k] ELSE Blank]
<1>0. i_size \in Nat /\ m \in Nat /\ m <= MaxSize /\ MaxSize \in Nat
  BY HasIs, Sizes
<1>1. \A p \in InFile : data'[p] = IF BlockOf(p) \in zeroed THEN Blank ELSE data[p]
  BY DEF ZeroBlocks
<1>2. ASSUME NEW p \in InFile, p >= i_size PROVE data'[p] = Blank
  BY <1>1, <1>2 DEF Trim
<1>3. ASSUME NEW p \in InFile, p >= i_size' PROVE data'[p] = Blank
  <2>1. p >= i_size
    BY <1>0, <1>3, InFileIs
  <2> QED BY <1>2, <2>1
<1>4. ASSUME NEW k \in 1 .. m
      PROVE  Stored(k - 1)' = IF k <= i_size THEN Stored(k - 1) ELSE Blank
  <2> DEFINE p == k - 1
  <2>1. p \in Nat /\ p < MaxSize /\ (k <= i_size <=> ~(p >= i_size))
    BY <1>0
  <2>2. p \in InFile
    BY <2>1, BlockInFile
  <2>3. /\ Stored(p)' = IF BlockOf(p) \in has \cup new THEN data'[p] ELSE Blank
        /\ Stored(p) = IF BlockOf(p) \in has THEN data[p] ELSE Blank
    BY DEF Stored
  <2>4. data'[p] = IF BlockOf(p) \in zeroed THEN Blank ELSE data[p]
    BY <1>1, <2>2
  <2>5. (BlockOf(p) \in zeroed \ new => p >= i_size) /\ (p >= i_size => data'[p] = Blank)
    BY <1>2, <2>2
  <2> HIDE DEF p
  <2>6. Stored(p)' = IF k <= i_size THEN Stored(p) ELSE Blank
    BY <2>1, <2>3, <2>4, <2>5
  <2> QED BY <2>6 DEF p
<1>5. Contents' = [k \in 1 .. m |-> IF k <= Len(Contents) THEN Contents[k] ELSE Blank]
  BY <1>4, SameText
<1> QED BY <1>3, <1>5

LEMMA WriteBlocksFaultSeen ==
  ASSUME Orderly, IInv, Trim, NEW fd \in Fd, NEW n \in Amount, WriteBlocksFault(fd, n)
  PROVE  Trim' /\ File!FNext
<1> DEFINE from == Position(fd)
<1>1. filp[fd].open /\ Allowed(vnode.mode, "fault") /\ from + n <= MaxSize /\ wild' = wild /\ Refused(fd)
  BY DEF WriteBlocksFault
<1>2. mode = "regular"
  BY <1>1, OnlyRegular, OpenIs
<1>3. Source.ok
  BY <1>2, SourceIs
<1>4. PICK w : /\ w.end \in from .. from + n - 1 /\ Chunks(Source, w, from, fd)
               /\ mode' = "regular" /\ has' = w.has /\ data' = w.data
               /\ i_size' = IF Source.ok /\ w.end > i_size THEN w.end ELSE Source.size
  BY WriteBlocksFaultIs
<1>5. from \in Nat /\ n \in Nat /\ i_size \in Nat /\ MaxSize \in Nat
  BY <1>1, Asked
<1>6. from = filp[fd].pos /\ Offset[fd] = from
  BY At
<1>7. filp' = [filp EXCEPT ![fd].pos = from] /\ reply' = Failed
  BY <1>1 DEF Refused, Return
<1>8. \A e \in Fd : ~filp'[e].append
  BY <1>7, NoAppend
<1>9. Offset' = Offset
  <2>1. Offset' = [Offset EXCEPT ![fd] = Offset[fd]]
    BY <1>6, <1>7, OffsetMoved
  <2> QED BY <2>1 DEF Offset
<1> HIDE DEF from
<1> DEFINE m == w.end - from
<1>10. m \in Nat /\ m \in 0 .. MaxSize /\ w.end = from + m /\ from + m <= MaxSize
  BY <1>1, <1>4, <1>5
<1>11. i_size' = IF w.end > i_size THEN w.end ELSE Source.size
  BY <1>3, <1>4
<1> HIDE DEF m
<1>12. Trim' /\ Contents' = File!WriteAt(Contents, from, fd, m)
  BY <1>1, <1>2, <1>3, <1>4, <1>5, <1>8, <1>10, <1>11, ChunksSeen
<1> QED BY <1>6, <1>7, <1>9, <1>10, <1>12, SeeFail

LEMMA PeekSeen ==
  ASSUME Orderly, IInv, Trim, NEW fd \in Fd, NEW p \in InFile, Peek(fd, p)
  PROVE  Trim' /\ File!FNext
<1> DEFINE w == IF BlockOf(p) \in has \/ free = 0 THEN {} ELSE {BlockOf(p)}
<1>1. filp[fd].open /\ Allowed(vnode.mode, "peek")
  BY DEF Peek
<1>2. mode = "regular"
  BY <1>1, OnlyRegular, OpenIs
<1>3. /\ has' = has \cup w /\ data' = ZeroBlocks(data, w) /\ wild' = wild /\ reply' = <<>>
      /\ UNCHANGED <<mode, i_size, i_zone, vnode, filp>>
  BY <1>2 DEF Peek
<1>4. w \cap has = {} /\ w \subseteq w /\ (\A q \in InFile : BlockOf(q) \in w \ w => q >= i_size)
  OBVIOUS
<1>5. i_size \in 0 .. MaxSize /\ i_size >= i_size
  BY HasIs, Sizes
<1> HIDE DEF w
<1>6. /\ \A q \in InFile : q >= i_size' => data'[q] = Blank
      /\ Contents' = [k \in 1 .. i_size |-> IF k <= Len(Contents) THEN Contents[k] ELSE Blank]
  BY <1>2, <1>3, <1>4, <1>5, ZeroedSeen
<1>7. Trim' /\ Offset' = Offset
  BY <1>2, <1>3, <1>6 DEF Trim, Offset
<1> QED BY <1>3, <1>5, <1>6, <1>7, SeeResize

LEMMA WriteTooBigSeen ==
  ASSUME Orderly, IInv, Trim, NEW fd \in Fd, NEW n \in Amount, WriteTooBig(fd, n)
  PROVE  Trim' /\ File!FNext
<1>1. /\ filp' = [filp EXCEPT ![fd].pos = Position(fd)] /\ reply' = Failed
      /\ UNCHANGED <<mode, i_size, i_zone, has, data, free, wild>>
  BY DEF WriteTooBig, Refused, Return
<1>2. \A e \in Fd : ~filp'[e].append
  BY <1>1, NoAppend
<1>3. Contents' = Contents /\ Trim'
  BY <1>1, <1>2, SameContents, TrimKept
<1>4. Offset' = Offset
  <2>1. Offset' = [Offset EXCEPT ![fd] = Offset[fd]]
    BY <1>1, At, OffsetMoved
  <2> QED BY <2>1 DEF Offset
<1>5. 0 \in 0 .. MaxSize
  BY Sizes
<1> QED BY <1>1, <1>3, <1>4, <1>5, SeeFail

\* A read that returns what is there.
LEMMA ReadSeen ==
  ASSUME Orderly, IInv, Trim, NEW fd \in Fd, NEW m \in 0 .. MaxSize, NEW got \in Seq(Cells),
         got = File!Slice(Contents, filp[fd].pos, m), Answer(fd, got),
         UNCHANGED <<mode, i_size, i_zone, has, data, free, vnode, wild>>
  PROVE  Trim' /\ File!FNext
<1>1. filp' = [filp EXCEPT ![fd].pos = filp[fd].pos + Len(got)] /\ reply' = got
  BY DEF Answer, IInv, Types
<1>2. \A e \in Fd : ~filp'[e].append
  BY <1>1, NoAppend
<1>3. Contents' = Contents /\ Trim'
  BY <1>2, SameContents, TrimKept
<1>4. Offset' = [Offset EXCEPT ![fd] = Offset[fd] + Len(reply')]
  BY <1>1, At, OffsetMoved
<1>5. reply' = File!Slice(Contents, Offset[fd], m)
  BY <1>1, At
<1> QED BY <1>3, <1>4, <1>5, SeeRead

LEMMA ReadBlocksSeen ==
  ASSUME Orderly, IInv, Trim, NEW fd \in Fd, NEW n \in Amount, ReadBlocks(fd, n)
  PROVE  Trim' /\ File!FNext
<1> DEFINE from == filp[fd].pos
           to == IF from + n > i_size THEN i_size ELSE from + n
           l == IF to < from THEN 0 ELSE to - from
           got == [k \in 1 .. l |-> Stored(from + k - 1)]
           m == IF n > MaxSize THEN MaxSize ELSE n
           q == IF from >= i_size THEN 0 ELSE IF from + m > i_size THEN i_size - from ELSE m
<1>1. /\ filp[fd].open /\ (mode = "regular" \/ from >= i_size)
      /\ Answer(fd, got)
      /\ UNCHANGED <<mode, i_size, i_zone, has, data, free, vnode, wild>>
  BY DEF ReadBlocks
<1>2. from \in Nat /\ n \in Nat /\ n > 0 /\ i_size \in Nat /\ i_size <= MaxSize /\ MaxSize \in Nat
  BY <1>1, Asked
<1>3. l = q /\ l \in Nat /\ m \in 0 .. MaxSize /\ (l > 0 => from + l <= i_size)
  BY <1>2
<1>4. /\ Contents \in Seq(Cells) /\ Len(Contents) = i_size
      /\ \A k \in 1 .. i_size : Contents[k] = Stored(k - 1)
  BY Seen
<1>5. File!Slice(Contents, from, m) = [k \in 1 .. q |-> Contents[from + k]]
  BY <1>4 DEF File!Slice
<1> HIDE DEF l, q, m, from
<1>6. \A k \in 1 .. l : Stored(from + k - 1) = Contents[from + k] /\ Contents[from + k] \in Cells
  <2> TAKE k \in 1 .. l
  <2>1. from + k \in 1 .. i_size /\ (from + k) - 1 = from + k - 1
    BY <1>2, <1>3
  <2>2. Contents[from + k] = Stored((from + k) - 1) /\ Contents[from + k] \in Cells
    BY <1>4, <2>1
  <2> QED BY <2>1, <2>2
<1>7. got = File!Slice(Contents, from, m)
  BY <1>3, <1>5, <1>6
<1>8. got \in Seq(Cells)
  BY <1>3, <1>6
<1> HIDE DEF got
<1> QED BY <1>1, <1>3, <1>7, <1>8, ReadSeen DEF from

LEMMA ReadImmediateSeen ==
  ASSUME Orderly, IInv, Trim, NEW fd \in Fd, NEW n \in Amount, ReadImmediate(fd, n)
  PROVE  Trim' /\ File!FNext
<1>1. /\ filp[fd].open /\ mode = "immediate" /\ i_size <= n
      /\ Allowed(vnode.mode, "part") \/ filp[fd].pos = 0
      /\ ~(i_size > NrZones) => wild' = wild /\ Answer(fd, Contents)
      /\ UNCHANGED <<mode, i_size, i_zone, has, data, free, vnode>>
  BY DEF ReadImmediate
<1>2. filp[fd].pos = 0
  BY <1>1, OnlyRegular, OpenIs
<1>3. i_size <= NrZones /\ i_size \in Nat /\ i_size <= MaxSize /\ NrZones \in Nat
  BY <1>1, Fits, HasIs, Sizes
<1>4. ~(i_size > NrZones) /\ i_size \in 0 .. MaxSize
  BY <1>3, Sizes
<1>5. Contents \in Seq(Cells) /\ Len(Contents) = i_size
  BY Seen
<1>6. Contents = File!Slice(Contents, filp[fd].pos, i_size)
  <2>1. File!Slice(Contents, 0, i_size) = [k \in 1 .. i_size |-> Contents[0 + k]]
    BY <1>3, <1>5 DEF File!Slice
  <2>2. Contents = [k \in 1 .. i_size |-> Contents[k]]
    BY <1>5
  <2>3. \A k \in 1 .. i_size : 0 + k = k
    BY <1>3
  <2> QED BY <1>2, <2>1, <2>2, <2>3
<1> QED BY <1>1, <1>4, <1>5, <1>6, ReadSeen

\* What an orderly program never meets.
LEMMA NeverSeen ==
  ASSUME Orderly, IInv, Trim, NEW fd \in Fd, NEW n \in Amount
  PROVE  ~WriteFault(fd, n) /\ ~Overrun(fd, n) /\ ~ReadShort(fd, n)
<1>1. ~WriteFault(fd, n)
  BY OnlyRegular, OpenIs DEF WriteFault
<1>2. ~ReadShort(fd, n)
  BY OnlyRegular, OpenIs DEF ReadShort
<1>3. ~Overrun(fd, n)
  <2> SUFFICES ASSUME Overrun(fd, n) PROVE FALSE
    OBVIOUS
  <2>1. mode = "immediate" /\ i_size > NrZones
    BY DEF Overrun
  <2>2. i_size <= NrZones /\ i_size \in Nat /\ NrZones \in Nat
    BY <2>1, Fits, HasIs, Sizes
  <2> QED BY <2>1, <2>2
<1> QED BY <1>1, <1>2, <1>3

LEMMA NextSeen ==
  ASSUME Orderly, IInv, Trim, [Next]_vars
  PROVE  Trim' /\ [File!FNext]_(File!fvars)
<1>1. CASE UNCHANGED vars
  <2>1. Contents' = Contents
    BY <1>1, SameContents DEF vars
  <2>2. Trim' /\ UNCHANGED <<reply, [fd \in Fd |-> filp[fd].pos]>>
    BY <1>1 DEF vars, Trim
  <2> QED BY <2>1, <2>2 DEF File!fvars
<1>2. CASE OpenClose
  BY <1>2, OpenSeen, CreatSeen, CloseSeen DEF OpenClose
<1>3. CASE Transfer
  <2> PICK fd \in Fd, n \in Amount :
        \/ WriteImmediate(fd, n) \/ WriteBlocks(fd, n) \/ WriteTooBig(fd, n)
        \/ WriteFault(fd, n) \/ WriteBlocksFault(fd, n) \/ Overrun(fd, n)
        \/ ReadBlocks(fd, n) \/ ReadImmediate(fd, n) \/ ReadShort(fd, n)
    BY <1>3 DEF Transfer
  <2> QED BY WriteImmediateSeen, WriteBlocksSeen, WriteTooBigSeen, WriteBlocksFaultSeen,
             ReadBlocksSeen, ReadImmediateSeen, NeverSeen
<1>4. CASE Place
  BY <1>4, SeekSeen, FtruncateSeen, PeekSeen DEF Place
<1>5. CASE do_unlink
  BY <1>5, UnlinkSeen
<1> QED BY <1>1, <1>2, <1>3, <1>4, <1>5 DEF Next

LEMMA InitSeen ==
  ASSUME Init
  PROVE  Trim /\ File!FInit
<1>1. Trim
  BY DEF Init, Trim, AllBlank, Closed
<1>2. Contents \in Seq(Cells)
  BY DEF Init, Contents
<1>3. [fd \in Fd |-> filp[fd].pos] = [fd \in Fd |-> 0] /\ reply = <<>>
  BY DEF Init, Closed
<1> QED BY <1>1, <1>2, <1>3 DEF File!FInit

\* VFS and MFS refine ByteFile for orderly programs: over the conversion from
\* immediate to regular, gaps, truncation, failing writes and several
\* descriptors, every read returns what ByteFile says is there.
THEOREM SeenAsByteFile ==
  ASSUME Orderly
  PROVE  Spec => IsFile
<1>1. Init => Trim /\ File!FInit
  BY InitSeen
<1>2. IInv /\ Trim /\ [Next]_vars => Trim' /\ [File!FNext]_(File!fvars)
  BY NextSeen
<1> QED BY <1>1, <1>2, Always, PTL DEF Spec, IsFile, File!FSpec
=============================================================================
