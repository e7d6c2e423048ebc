------------------------------- MODULE BlockIO -------------------------------
(***************************************************************************)
(* Requests to MFS that move bytes through its block cache (Lab-10/mfs/    *)
(* read.c): reads and writes of a block device (fs_breadwrite) and reads   *)
(* of a regular file without holes, cut into chunks of one block, and the  *)
(* read-ahead that fills the cache in front of them (rahead).  What the    *)
(* cache holds when a chunk's turn comes is arbitrary.  VFS does not clip  *)
(* a request at the end of the device: the cache library answers with      *)
(* END_OF_FILE for a block that it cannot read wholly.                     *)
(***************************************************************************)
EXTENDS Integers, Sequences, FiniteSetsExt

CONSTANTS BlockSize,
          NrBufs,         \* buffers of the cache
          NR_IOREQS,      \* most blocks of one request to the driver
          BLOCKS_MINIMUM, \* fewest blocks to read ahead
          NrCells,        \* bytes of the device, and of the largest file
          Reach,          \* a request ends before this byte
          NDirect,        \* direct zones of an inode
          HeldBufs        \* how many buffers may be in use already

ASSUME BioAssumption ==
  /\ BlockSize \in Nat \ {0} /\ NrBufs \in Nat \ {0} /\ NR_IOREQS \in Nat \ {0}
  /\ BLOCKS_MINIMUM \in Nat /\ NrCells \in Nat \ {0} /\ NDirect \in Nat /\ HeldBufs \subseteq Nat
  /\ Reach \in Nat /\ Reach >= NrCells

VARIABLE bio

Cell == 0..NrCells - 1
Blocks == 0..(Reach \div BlockSize)
BlockOf(position) == position \div BlockSize
NoAhead == [queue |-> <<>>, cached |-> {}, held |-> 0]

\* A request: a range of the device, or of a file with some size.  ro: the
\* device is mounted by this server, and read-only.  cells is what the device
\* holds, ahead the last read-ahead; read is what was copied to the caller.
BioStart(kind, start, asked, size, ro) ==
  [kind |-> kind, start |-> start, asked |-> asked, size |-> size, ro |-> ro,
   position |-> start, nrbytes |-> asked, cum_io |-> 0, r |-> "OK", over |-> FALSE,
   cells |-> [c \in Cell |-> "old"], read |-> <<>>, ahead |-> NoAhead]

BioInit ==
  \E kind \in {"read", "write", "file"}, start \in 0..Reach - 1, asked \in 1..Reach,
     size \in 1..NrCells, ro \in BOOLEAN :
    /\ start + asked <= Reach /\ (kind # "file" => size = NrCells) /\ (kind = "file" => ~ro)
    /\ bio = BioStart(kind, start, asked, size, ro)
-----------------------------------------------------------------------------
\* How many blocks rahead wants.  i_seek of the inode that fs_breadwrite makes
\* up is never set, so that "not after a seek" is arbitrary there.
BlocksAhead(noSeek) ==
  LET fragment == bio.position % BlockSize
      base == bio.position - fragment
      wanted == (bio.nrbytes + fragment + BlockSize - 1) \div BlockSize
      left == (bio.size - base + BlockSize - 1) \div BlockSize
      ind1_pos == NDirect * BlockSize
      nearIndirect == bio.kind = "file" /\ base <= ind1_pos /\ bio.size > ind1_pos
      extra == IF nearIndirect THEN 1 ELSE 0
      most == Min({wanted + extra, NR_IOREQS})
      least == IF most < BLOCKS_MINIMUM /\ noSeek THEN BLOCKS_MINIMUM ELSE most
  IN Min({least, IF bio.kind = "file" THEN left + extra ELSE NR_IOREQS})

\* The queue of buffers for lmfs_rw_scattered: it stops when enough are
\* wanted, when only 4 buffers are left, and before a block that is cached.
rahead(cached, held, noSeek) ==
  LET first == BlockOf(bio.position)
      wanted == BlocksAhead(noSeek)
      n == Min({wanted} \union {k \in 1..wanted : held + k >= NrBufs - 4 \/ first + k \in cached})
  IN IF first \in cached THEN NoAhead
     ELSE [queue |-> [k \in 1..n |-> first + k - 1], cached |-> cached, held |-> held]

\* A chunk is written: a block that is not overwritten entirely is read first.
BioWrite(cells, from, chunk, cached) ==
  LET b == BlockOf(from)
      noRead == chunk = BlockSize /\ b \notin cached
  IN [c \in Cell |-> CASE c \in from..(from + chunk - 1) -> "new"
                       [] noRead /\ BlockOf(c) = b /\ c \notin from..(from + chunk - 1) -> "lost"
                       [] OTHER -> cells[c]]
-----------------------------------------------------------------------------
\* Mutant of Chunk: the offset in the block is forgotten.
Chunk_whole(position) == Min({bio.nrbytes, BlockSize})

Chunk(position) ==
  LET chunk == Min({bio.nrbytes, BlockSize - (position % BlockSize)})
  IN IF bio.kind = "file" THEN Min({chunk, bio.size - position}) ELSE chunk

\* The block of the position is not wholly on the device.
Beyond(position) == (BlockOf(position) + 1) * BlockSize > NrCells

\* Refused: reads of the device as well as writes.
BioRefuse == /\ ~bio.over /\ bio.ro
             /\ bio' = [bio EXCEPT !.r = "EROFS", !.over = TRUE]

\* rw_chunk for the chunk at the position; a copy that fails has moved some of
\* it.  lmfs_rdwt_err is looked at after the copy: a disk error, or END_OF_FILE
\* where there is no block to be read, which makes the answer OK whatever
\* rw_chunk said.  The buffer is not a block of the cache then.
BioStep(cached, held, noSeek, outcome) ==
  LET at == bio.position
      chunk == Chunk(at)
      unread == BlockOf(at) \notin cached /\ (bio.kind = "write" => chunk # BlockSize)
      eof == unread /\ bio.kind # "file" /\ Beyond(at) /\ outcome # "disk_error"
      failed == eof \/ outcome # "OK"
      touched == BioWrite(bio.cells, at, chunk, cached)
  IN /\ ~bio.over /\ ~bio.ro /\ bio.nrbytes > 0 /\ (bio.kind = "file" => at < bio.size)
     /\ outcome = "disk_error" => unread
     /\ bio' = [bio EXCEPT
          !.ahead = IF bio.kind = "write" THEN NoAhead ELSE rahead(cached, held, noSeek),
          !.cells = CASE bio.kind # "write" \/ eof \/ outcome = "disk_error" -> @
                      [] bio.kind = "write" /\ ~eof /\ outcome = "copy_failed" ->
                           [c \in Cell |-> IF touched[c] = "new" /\ @[c] = "old"
                                           THEN "lost" ELSE touched[c]]
                      [] OTHER -> touched,
          !.read = IF bio.kind = "write" \/ outcome = "copy_failed" THEN @
                   ELSE @ \o [i \in 1..chunk |-> at + i - 1],
          !.r = IF eof THEN "OK" ELSE outcome, !.over = failed,
          !.nrbytes = IF failed THEN @ ELSE @ - chunk,
          !.cum_io = IF failed THEN @ ELSE @ + chunk,
          !.position = IF failed THEN @ ELSE @ + chunk]

BioReply == /\ ~bio.over /\ ~bio.ro
            /\ bio.nrbytes = 0 \/ (bio.kind = "file" /\ bio.position >= bio.size)
            /\ bio' = [bio EXCEPT !.over = TRUE, !.ahead = NoAhead]

BioNext ==
  \/ \E cached \in SUBSET Blocks, held \in HeldBufs, noSeek \in BOOLEAN,
        outcome \in {"OK", "copy_failed", "disk_error"} : BioStep(cached, held, noSeek, outcome)
  \/ BioReply
  \/ BioRefuse

BioSpec == BioInit /\ [][BioNext]_bio
-----------------------------------------------------------------------------
\* What is counted has been moved, and all of it at the end, up to the end of
\* the file.  A request to a device that is answered with OK counts less only
\* when it stopped in front of a block that is not wholly on the device.
CountIsExact ==
  /\ bio.position = bio.start + bio.cum_io /\ bio.cum_io + bio.nrbytes = bio.asked
  /\ bio.over /\ bio.r = "OK" =>
       IF bio.kind = "file"
       THEN bio.cum_io = Max({0, Min({bio.asked, bio.size - bio.start})})
       ELSE bio.cum_io = bio.asked \/ Beyond(bio.position)

ReadOnce ==
  bio.kind # "write" => /\ bio.read = [i \in 1..Len(bio.read) |-> bio.start + i - 1]
                        /\ Len(bio.read) >= bio.cum_io

WrittenInRange(b) ==
  \A c \in Cell : /\ b.kind = "write" /\ c \in b.start..(b.position - 1) => b.cells[c] = "new"
                  /\ c \notin b.start..(b.start + b.asked - 1) => b.cells[c] = "old"

\* The read-ahead a of request b.
AheadInOrder(b, a) ==
  /\ \A k \in 1..Len(a.queue) : a.queue[k] = a.queue[1] + k - 1 /\ a.queue[k] \notin a.cached
  /\ Len(a.queue) > 0 =>
       /\ a.queue[1] <= BlockOf(b.position)
       /\ a.held + Len(a.queue) <= Max({a.held + 1, NrBufs - 4})
       /\ b.kind = "file" => a.queue[Len(a.queue)] <= BlockOf(b.size - 1) + 1

\* A request moves each byte of its range once and in order, up to the end of
\* the file or of the device, the position it answers with is behind the last
\* byte it counts, and a write changes no byte outside the blocks' part it
\* covers, though it goes block by block, finds any of them in the cache or
\* not, and may fail or meet the end of the device at any chunk.  The
\* read-ahead starts at the block that is needed, skips none, asks for none
\* that is cached, uses at most the cache's buffers, leaves four of them unless
\* fewer were free, and does not read past the end of a file.
BytesMovedOnce == CountIsExact /\ ReadOnce /\ WrittenInRange(bio) /\ AheadInOrder(bio, bio.ahead)
=============================================================================
