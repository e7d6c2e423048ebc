---------------------------- MODULE ImmediateFile ----------------------------
(***************************************************************************)
(* Immediate files (Lab-10): a new file keeps its data in the i_zone array *)
(* of its inode and becomes a regular file, with a block for the data,     *)
(* when a write ends beyond ImmMax.  The module follows one file through   *)
(* VFS (vfs/open.c, read.c, link.c), which keeps a vnode and a filp per    *)
(* descriptor, and MFS (mfs/read.c, write.c), which keeps the inode and    *)
(* the zones.  A call holds the lock of the vnode and of the filp until    *)
(* MFS, a single thread, has answered: every call is one step.             *)
(*                                                                         *)
(* Contents are counted in cells.  A cell stands for the four bytes of one *)
(* entry of i_zone, so that cell k of an immediate file is entry k of the  *)
(* array: code that takes it for a zone number finds NO_ZONE where the     *)
(* cell is Blank and a number that is no zone of the file elsewhere.       *)
(***************************************************************************)
EXTENDS Integers, Sequences, FiniteSets

CONSTANTS
  Fd,            \* descriptors; each writes cells of its own name
  Blank,         \* the zero cell
  NrZones,       \* entries of i_zone: 10, that is 40 bytes
  ImmMax,        \* where an immediate file is converted: 32 bytes
  BlockSize,     \* cells of a block
  MaxBlocks,     \* blocks a file may have, s_max_size = BlockSize * MaxBlocks
  Zones,         \* free zones of the disk at the start
  Amount,        \* how many cells one call reads or writes
  Calls,         \* what programs do with any file, and ...
  RegularCalls   \* ... with one VFS knows to be regular; see Allowed

MaxSize == BlockSize * MaxBlocks

ASSUME FileAssumption ==
  /\ Blank \notin Fd
  /\ ImmMax \in Nat \ {0} /\ NrZones \in Nat /\ NrZones >= ImmMax
  /\ BlockSize \in Nat /\ BlockSize >= NrZones /\ BlockSize > ImmMax
  /\ MaxBlocks \in Nat /\ MaxBlocks > 1 /\ Zones \in Nat
  /\ Amount \subseteq Nat \ {0}
  /\ Calls \cup RegularCalls \subseteq
       {"part", "end", "hole", "resize", "peek", "fault"}
\* "part": reads that do not take an immediate file as a whole
\* "end": O_APPEND                         "hole": writes beyond the end
\* "resize": ftruncate to any length       "peek": REQ_PEEK, from VM
\* "fault": a write from addresses the program has only in part or not at all

VARIABLES
  mode,    \* of the inode: "free", "immediate", "regular"
  i_size,  \* of the inode
  i_zone,  \* of the inode while immediate: its cells
  has,     \* the blocks of the file that exist
  data,    \* the cells in the blocks
  free,    \* free zones of the disk
  vnode,   \* VFS: type and size it believes the file to have
  filp,    \* VFS: per descriptor, whether open, position and O_APPEND
  reply,   \* what the last call returned: the cells of a read, or Failed
  wild     \* a cell of the file was taken for the number of a zone

inode == <<mode, i_size, i_zone, has, data>>
vars == <<mode, i_size, i_zone, has, data, free, vnode, filp, reply, wild>>

Cells   == Fd \cup {Blank}
Closed  == [open |-> FALSE, pos |-> 0, append |-> FALSE]
NoVnode == [mode |-> "none", size |-> 0]
Failed  == <<"error">>
Open    == {fd \in Fd : filp[fd].open}

\* What programs do is restricted only to tell which calls a property needs.
Allowed(type, call) ==
  call \in IF type = "regular" THEN Calls \cup RegularCalls ELSE Calls

BlockOf(p) == p \div BlockSize
InFile     == 0 .. MaxSize - 1
AllBlank   == [p \in InFile |-> Blank]
NoZone     == [k \in 0 .. NrZones - 1 |-> Blank]

Init ==
  /\ mode = "free"
  /\ i_size = 0 /\ i_zone = NoZone /\ has = {} /\ data = AllBlank
  /\ free = Zones
  /\ vnode = NoVnode
  /\ filp = [fd \in Fd |-> Closed]
  /\ reply = <<>> /\ wild = FALSE

-----------------------------------------------------------------------------
(* MFS *)

\* new_block: take a zone, enter it with write_map, zero it.  For an immediate
\* file write_map does nothing and answers NO_BLOCK, which is OK: the zone is
\* taken and entered nowhere.
ZeroBlocks(d, bs) == [p \in InFile |-> IF BlockOf(p) \in bs THEN Blank ELSE d[p]]

\* The blocks a write of cells from .. to - 1 needs and, in the order of the
\* loop, the first it cannot get when f zones are free.
Missing(h, from, to) == {b \in BlockOf(from) .. BlockOf(to - 1) : b \notin h}
Reach(h, f, from, to) ==
  LET m == Missing(h, from, to)
      lacking == {b \in m : Cardinality({c \in m : c < b}) >= f}
  IN IF lacking = {} THEN to
     ELSE LET b == CHOOSE x \in lacking : \A y \in lacking : x <= y
          IN IF b * BlockSize > from THEN b * BlockSize ELSE from

\* The loop of rw_chunk over a regular file: state s (blocks, cells, free zones,
\* the size in the inode), cells from .. to - 1.  A block that begins at or
\* beyond the size in the inode is zeroed before a part of it is written.
ChunksZeroing(s, from, to, cell, size) ==
  LET end == Reach(s.has, s.free, from, to)
      new == IF end = from THEN {} ELSE Missing(s.has, from, end)
      zeroed == new \cup {b \in s.has : /\ b * BlockSize \in from .. end - 1
                                        /\ b * BlockSize >= size
                                        /\ to < (b + 1) * BlockSize}
  IN [has  |-> s.has \cup new,
      free |-> s.free - Cardinality(new),
      data |-> [p \in InFile |-> IF p \in from .. end - 1 THEN cell
                                 ELSE ZeroBlocks(s.data, zeroed)[p]],
      end  |-> end]

\* The size is not looked at: the block is zeroed under the rest of the file.
WriteChunks_wipe(s, from, to, cell) == ChunksZeroing(s, from, to, cell, 0)
WriteChunks(s, from, to, cell) == ChunksZeroing(s, from, to, cell, s.size)

\* An immediate file that outgrows its inode: its cells are kept in a buffer,
\* the inode is wiped and made regular, a first block is taken for the cells.
\* (i_size <= NrZones: see Overrun.)
Converted_from(cells) ==
  IF free = 0
  THEN [ok |-> FALSE, has |-> {}, data |-> AllBlank, free |-> 0, size |-> 0]
  ELSE [ok |-> TRUE, has |-> {0}, free |-> free - 1, size |-> 0,
        data |-> [p \in InFile |-> IF p < i_size THEN cells[p] ELSE Blank]]

\* The copy into the block is left out.
Converted_bare == Converted_from([p \in 0 .. NrZones - 1 |-> Blank])
Converted == Converted_from(i_zone)

AsRegular == [ok |-> TRUE, has |-> has, data |-> data, free |-> free,
              size |-> i_size]

\* The contents as reads of whole files see them.
Stored(p) == IF mode = "immediate" THEN i_zone[p]
             ELSE IF BlockOf(p) \in has THEN data[p] ELSE Blank
Contents == [k \in 1 .. i_size |-> Stored(k - 1)]
-----------------------------------------------------------------------------
(* VFS *)

Put(fd, rec) == filp' = [filp EXCEPT ![fd] = rec]

\* A wiped inode for a file that is gone, or a new one.
Wipe_with(m, zones) ==
  /\ mode' = m /\ i_size' = 0 /\ i_zone' = NoZone
  /\ has' = {} /\ data' = AllBlank
  /\ free' = zones

\* The zones are not given back.
Wipe_lossy(m) == Wipe_with(m, free)
Wipe(m) == Wipe_with(m, free + Cardinality(has))

\* MFS truncates (its code is not in the repository): whole blocks are freed
\* through write_map, which leaves an immediate file alone, and the rest of the
\* last block is zeroed, for which an immediate file is asked for its block.
TruncateTo(n) ==
  LET kept == {b \in has : b * BlockSize < n}
  IN /\ i_size' = n
     /\ UNCHANGED <<mode, i_zone>>
     /\ IF mode = "immediate"
        THEN /\ wild' = (n \in 1 .. i_size - 1 /\ i_zone[0] # Blank)
             /\ UNCHANGED <<has, data, free>>
        ELSE /\ has' = kept
             /\ data' = [p \in InFile |-> IF p < n THEN data[p] ELSE Blank]
             /\ free' = free + Cardinality(has \ kept)
             /\ UNCHANGED wild

truncate_vnode(n) == TruncateTo(n) /\ vnode' = [vnode EXCEPT !.size = n]

\* common_open with O_CREAT: a new file is immediate.
do_creat(fd, append) ==
  /\ ~wild /\ ~filp[fd].open /\ mode = "free"
  /\ append => Allowed("immediate", "end")
  /\ Wipe("immediate")
  /\ vnode' = [mode |-> "immediate", size |-> 0]
  /\ Put(fd, [open |-> TRUE, pos |-> 0, append |-> append])
  /\ reply' = <<>> /\ UNCHANGED wild

\* common_open of a file that exists; the first to open it gets a vnode with
\* the type and the size MFS reports.
common_open(fd, append, trunc) ==
  LET v == IF vnode = NoVnode THEN [mode |-> mode, size |-> i_size] ELSE vnode
  IN /\ ~wild /\ ~filp[fd].open /\ mode # "free"
     /\ append => Allowed(v.mode, "end")
     /\ Put(fd, [open |-> TRUE, pos |-> 0, append |-> append])
     /\ IF trunc
        THEN TruncateTo(0) /\ vnode' = [v EXCEPT !.size = 0]
        ELSE vnode' = v /\ UNCHANGED <<mode, i_size, i_zone, has, data, free, wild>>
     /\ reply' = <<>>

\* close_fd; the last close gives the vnode back.
close_fd(fd) ==
  /\ ~wild /\ filp[fd].open
  /\ Put(fd, Closed)
  /\ vnode' = IF Open = {fd} THEN NoVnode ELSE vnode
  /\ reply' = <<>>
  /\ UNCHANGED <<mode, i_size, i_zone, has, data, free, wild>>

\* do_unlink of a file nobody has open: MFS frees its zones and its inode.
do_unlink ==
  /\ ~wild /\ Open = {} /\ mode # "free"
  /\ Wipe("free")
  /\ reply' = <<>> /\ UNCHANGED <<vnode, filp, wild>>

\* actual_lseek; where the position is counted from is the program's choice.
actual_lseek(fd, to) ==
  /\ ~wild /\ filp[fd].open
  /\ filp' = [filp EXCEPT ![fd].pos = to]
  /\ reply' = <<>>
  /\ UNCHANGED <<mode, i_size, i_zone, has, data, free, vnode, wild>>

do_ftruncate(fd, n) ==
  /\ ~wild /\ filp[fd].open /\ Allowed(vnode.mode, "resize")
  /\ IF vnode.mode = "regular" /\ vnode.size = n
     THEN UNCHANGED <<mode, i_size, i_zone, has, data, free, vnode, wild>>
     ELSE truncate_vnode(n)
  /\ reply' = <<>> /\ UNCHANGED filp

\* Where read_write puts the file position of a write.
Position(fd) == IF filp[fd].append THEN vnode.size ELSE filp[fd].pos

\* VFS takes the new position over, and into the size of what it believes to be
\* a regular file; after an error of MFS it is the position it started from.
Return(fd, pos, answer) ==
  /\ vnode' = IF vnode.mode = "regular" /\ pos > vnode.size
              THEN [vnode EXCEPT !.size = pos] ELSE vnode
  /\ filp' = [filp EXCEPT ![fd].pos = pos]
  /\ reply' = answer
Written(fd, pos) == Return(fd, pos, <<>>)
Refused(fd)      == Return(fd, Position(fd), Failed)

\* read_write and fs_readwrite, WRITING n cells into the inode ...
WriteImmediate(fd, n) ==
  LET from == Position(fd)
  IN /\ ~wild /\ filp[fd].open /\ mode = "immediate"
     /\ from > i_size => Allowed(vnode.mode, "hole")
     /\ from + n <= ImmMax
     /\ i_zone' = [k \in 0 .. NrZones - 1 |->
                     IF k \in from .. from + n - 1 THEN fd ELSE i_zone[k]]
     /\ i_size' = IF from + n > i_size THEN from + n ELSE i_size
     /\ Written(fd, from + n)
     /\ UNCHANGED <<mode, has, data, free, wild>>

\* ... or into blocks, of which there may be too few: then MFS answers with an
\* error.
WriteBlocks(fd, n) ==
  LET from == Position(fd)
      s == IF mode = "immediate" THEN Converted ELSE AsRegular
      w == WriteChunks(s, from, from + n, fd)
  IN /\ ~wild /\ filp[fd].open
     /\ mode = "regular" \/ (mode = "immediate" /\ from + n > ImmMax
                             /\ i_size <= NrZones)
     /\ from > i_size => Allowed(vnode.mode, "hole")
     /\ from + n <= MaxSize
     /\ mode' = "regular" /\ i_zone' = NoZone
     /\ IF s.ok
        THEN /\ has' = w.has /\ data' = w.data /\ free' = w.free
             /\ i_size' = IF w.end > i_size THEN w.end ELSE s.size
             /\ IF w.end = from + n THEN Written(fd, w.end) ELSE Refused(fd)
        ELSE /\ has' = {} /\ data' = AllBlank /\ free' = 0 /\ i_size' = 0
             /\ Refused(fd)
     /\ UNCHANGED wild

\* The copy of a chunk from the program fails: the chunks before it, up to the
\* end of a block, are written; its own block is there, its cells are not.
FaultAt(s, from, to, at, cell) ==
  LET w == IF at = from THEN s ELSE WriteChunks(s, from, at, cell)
      b == BlockOf(at)
      new == IF w.free > 0 THEN {b} \ w.has ELSE {}
      zeroed == new \cup {c \in w.has \cap {b} : /\ at = b * BlockSize
                                                /\ at >= s.size
                                                /\ to < at + BlockSize}
  IN [has  |-> w.has \cup new,
      free |-> w.free - Cardinality(new),
      data |-> ZeroBlocks(w.data, zeroed),
      end  |-> at]

\* Where a chunk of cells from .. to - 1 begins that the loop gets to.
ChunkBegins(s, from, to, cell) ==
  {at \in from .. to - 1 : \/ at = from
                           \/ /\ at = BlockOf(at) * BlockSize
                              /\ WriteChunks(s, from, at, cell).end = at}

WriteBlocksFault(fd, n) ==
  LET from == Position(fd)
      s == IF mode = "immediate" THEN Converted ELSE AsRegular
  IN /\ ~wild /\ filp[fd].open /\ Allowed(vnode.mode, "fault")
     /\ mode = "regular" \/ (mode = "immediate" /\ from + n > ImmMax
                             /\ i_size <= NrZones)
     /\ from > i_size => Allowed(vnode.mode, "hole")
     /\ from + n <= MaxSize
     /\ mode' = "regular" /\ i_zone' = NoZone
     /\ \E at \in ChunkBegins(s, from, from + n, fd) :
          LET w == FaultAt(s, from, from + n, at, fd)
          IN /\ has' = w.has /\ data' = w.data /\ free' = w.free
             /\ i_size' = IF s.ok /\ at > i_size THEN at ELSE s.size
     /\ Refused(fd)
     /\ UNCHANGED wild

\* The contents are longer than i_zone, which they can be after ftruncate: the
\* loop that saves them runs over the end of the array and of its buffer.
Overrun(fd, n) ==
  /\ ~wild /\ filp[fd].open /\ mode = "immediate" /\ i_size > NrZones
  /\ Position(fd) + n \in ImmMax + 1 .. MaxSize
  /\ wild' = TRUE
  /\ UNCHANGED <<mode, i_size, i_zone, has, data, free, vnode, filp, reply>>

\* EFBIG: MFS refuses a write beyond the largest file.
WriteTooBig(fd, n) ==
  /\ ~wild /\ filp[fd].open /\ Position(fd) + n > MaxSize
  /\ Refused(fd)
  /\ UNCHANGED <<mode, i_size, i_zone, has, data, free, wild>>

\* The copy from the program fails.  The loop over blocks goes on with an
\* immediate file: what it finds in i_zone it takes for a zone, and where there
\* is none it takes a new one that write_map does not enter.
NoSuchBlock(p) ==
  IF BlockOf(p) < NrZones /\ i_zone[BlockOf(p)] # Blank
  THEN wild' = TRUE /\ UNCHANGED free
  ELSE wild' = wild /\ free' = IF free = 0 THEN 0 ELSE free - 1

WriteFault(fd, n) ==
  LET from == Position(fd)
  IN /\ ~wild /\ filp[fd].open /\ Allowed(vnode.mode, "fault")
     /\ mode = "immediate" /\ from + n <= ImmMax
     /\ NoSuchBlock(from)
     /\ Refused(fd)
     /\ UNCHANGED <<mode, i_size, i_zone, has, data>>

\* read_write and fs_readwrite, READING n cells of a regular file, or of an
\* immediate one at or beyond its end.
Answer(fd, got) ==
  /\ reply' = got
  /\ filp' = [filp EXCEPT ![fd].pos = @ + Len(got)]

ReadBlocks(fd, n) ==
  LET from == filp[fd].pos
      to == IF from + n > i_size THEN i_size ELSE from + n
  IN /\ ~wild /\ filp[fd].open
     /\ mode = "regular" \/ from >= i_size
     /\ Answer(fd, [k \in 1 .. (IF to < from THEN 0 ELSE to - from) |->
                      Stored(from + k - 1)])
     /\ UNCHANGED <<mode, i_size, i_zone, has, data, free, vnode, wild>>

\* An immediate file is copied as a whole, whatever the position, if the buffer
\* takes it.
ReadImmediate(fd, n) ==
  LET from == filp[fd].pos
  IN /\ ~wild /\ filp[fd].open /\ mode = "immediate" /\ from < i_size
     /\ Allowed(vnode.mode, "part") \/ (from = 0 /\ n >= i_size)
     /\ i_size <= n
     /\ IF i_size > NrZones THEN wild' = TRUE /\ UNCHANGED <<reply, filp>>
        ELSE UNCHANGED wild /\ Answer(fd, Contents)
     /\ UNCHANGED <<mode, i_size, i_zone, has, data, free, vnode>>

\* The buffer is too small for the file: the copy fails and the loop over blocks
\* goes on with the immediate file.
ReadShort(fd, n) ==
  LET from == filp[fd].pos
      left == IF n < i_size - from THEN n ELSE i_size - from
  IN /\ ~wild /\ filp[fd].open /\ mode = "immediate" /\ from < i_size
     /\ Allowed(vnode.mode, "part") /\ n < i_size
     /\ IF BlockOf(from) < NrZones /\ i_zone[BlockOf(from)] = Blank
        THEN Answer(fd, [k \in 1 .. left |-> Blank]) /\ UNCHANGED wild
        ELSE wild' = TRUE /\ UNCHANGED <<reply, filp>>
     /\ UNCHANGED <<mode, i_size, i_zone, has, data, free, vnode>>

\* REQ_PEEK brings blocks into the cache, and makes those that do not exist.  It
\* has no buffer: an immediate file ends in the loop over blocks.
Peek(fd, p) ==
  LET w == IF BlockOf(p) \in has \/ free = 0 THEN {} ELSE {BlockOf(p)}
  IN /\ ~wild /\ filp[fd].open /\ Allowed(vnode.mode, "peek")
     /\ IF mode = "immediate"
        THEN NoSuchBlock(p) /\ UNCHANGED <<has, data>>
        ELSE /\ has' = has \cup w /\ free' = free - Cardinality(w)
             /\ data' = ZeroBlocks(data, w)
             /\ UNCHANGED wild
     /\ reply' = <<>>
     /\ UNCHANGED <<mode, i_size, i_zone, vnode, filp>>

OpenClose == \E fd \in Fd :
  \/ \E append, trunc \in BOOLEAN : common_open(fd, append, trunc)
  \/ \E append \in BOOLEAN : do_creat(fd, append)
  \/ close_fd(fd)

Transfer == \E fd \in Fd : \E n \in Amount :
  \/ WriteImmediate(fd, n) \/ WriteBlocks(fd, n) \/ WriteTooBig(fd, n)
  \/ WriteFault(fd, n) \/ WriteBlocksFault(fd, n) \/ Overrun(fd, n)
  \/ ReadBlocks(fd, n) \/ ReadImmediate(fd, n) \/ ReadShort(fd, n)

Place == \E fd \in Fd :
  \/ \E to \in 0 .. MaxSize : actual_lseek(fd, to) \/ do_ftruncate(fd, to)
  \/ \E p \in InFile : Peek(fd, p)

Next == OpenClose \/ Transfer \/ Place \/ do_unlink

Spec == Init /\ [][Next]_vars

-----------------------------------------------------------------------------
\* The inode, the vnode and the descriptors hold values of their kinds.
TypeOK ==
  /\ mode \in {"free", "immediate", "regular"}
  /\ i_size \in 0 .. MaxSize /\ free \in 0 .. Zones
  /\ has \subseteq 0 .. MaxBlocks - 1
  /\ i_zone \in [0 .. NrZones - 1 -> Cells] /\ data \in [InFile -> Cells]
  /\ vnode \in [mode : {"none", "immediate", "regular"}, size : 0 .. MaxSize]
  /\ filp \in [Fd -> [open : BOOLEAN, pos : 0 .. 2 * MaxSize, append : BOOLEAN]]
  /\ reply \in Seq(Cells) \cup {Failed} /\ wild \in BOOLEAN

\* A zone is free or in the file, whatever was written, truncated, converted or
\* refused on the way, and a file that is gone or immediate has none.
ZonesAccounted ==
  /\ free + Cardinality(has) = Zones
  /\ mode # "regular" => has = {}

\* A write into a regular file, or one that leaves the file immediate, changes
\* the cells it covers and no other, even when it fails half way because the
\* disk is full or the program does not have the rest of the cells; the file
\* does not shrink.  (A conversion on a full disk loses the contents.)
OnlyRange(fd, n) ==
  /\ WriteBlocks(fd, n) \/ WriteBlocksFault(fd, n) \/ WriteImmediate(fd, n)
  /\ mode = "regular" \/ mode' = "immediate"
  /\ mode = "regular" \/ i_size <= NrZones
  => /\ i_size' >= i_size
     /\ \A k \in 1 .. i_size :
          k \in Position(fd) + 1 .. Position(fd) + n \/ Contents'[k] = Contents[k]

File == INSTANCE ByteFile
          WITH Desc <- Fd, Cell <- Cells, Length <- 0 .. MaxSize,
               text <- Contents, answer <- reply, Error <- Failed,
               offset <- [fd \in Fd |-> filp[fd].pos]

\* What programs see through VFS and MFS, over the conversion from immediate to
\* regular, is the file of ByteFile: it starts as one, and every step is a
\* step of its or none that programs could notice.
IsFile == File!FSpec

\* "On write, update file size": the size VFS keeps, which decides where
\* O_APPEND writes, is the size of the file.
SizeAgrees == vnode # NoVnode => vnode.size = i_size

\* "Max 40 bytes": what is in an immediate file fits into i_zone.
ImmediateFits == mode = "immediate" => i_size <= NrZones

\* No zone is lost or taken twice and an immediate file fits its inode, through
\* conversions, truncation and deletion.
InodeInv == TypeOK /\ ZonesAccounted /\ ImmediateFits

=============================================================================
