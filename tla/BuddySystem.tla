---------------------------- MODULE BuddySystem ----------------------------
(***************************************************************************)
(* The buddy memory allocator of CS304-Assignment/200010004.cpp.           *)
(*                                                                         *)
(* Memory is a binary tree of blocks.  To allocate, the first block of the *)
(* free list that is large enough is split until halving it again would    *)
(* not leave more than was asked for; to release, a block is joined with   *)
(* its buddy as long as that is free.  A block is a record of its start    *)
(* and size, which name its place in the tree; the tree is the set nodes   *)
(* of the blocks linked into it.  The two loops are taken one round at a   *)
(* time: cur says which is under way and at which block.                   *)
(***************************************************************************)
EXTENDS Integers, FiniteSets

CONSTANTS
  Upper, Lower,  \* MAX_BLOCK_SIZE and MIN_BLOCK_SIZE, powers of two
  Size,          \* the powers of two from Lower to Upper
  Pid,           \* the processes
  Request        \* the amounts they ask for

ASSUME BuddyAssumption ==
  /\ Upper \in Size /\ Lower \in Size /\ Size \subseteq Lower .. Upper
  /\ Lower \in Nat \ {0} /\ Upper \in Nat
  /\ \A n \in Size : n > Lower => n \div 2 \in Size /\ n = 2 * (n \div 2)
  /\ Request \subseteq Nat \ {0}
  /\ 0 \notin Pid

VARIABLES
  nodes,     \* the blocks of the tree
  free,      \* those with free = true
  freeList,  \* kept sorted by compareBlocks, so its order is left out
  blockMap,  \* the block of each process
  p_id,      \* the process each block in use was given to
  cur        \* the loop under way

vars == <<nodes, free, freeList, blockMap, p_id, cur>>

Block == {b \in [start : 0 .. Upper - 1, size : Size] : b.start + b.size <= Upper}
None == 0     \* no process
NULL == [start |-> 0, size |-> 0]
root == [start |-> 0, size |-> Upper]

Idle == [op |-> "idle", block |-> NULL, pid |-> None, size |-> 0]

Address == 0 .. Upper - 1
Cells(b) == b.start .. b.start + b.size - 1

left(b)  == [start |-> b.start, size |-> b.size \div 2]
right(b) == [start |-> b.start + b.size \div 2, size |-> b.size \div 2]

Inner(b) == left(b) \in nodes          \* both children are made together
Leaves == {b \in nodes : ~Inner(b)}

\* getBuddy(): the other child of block's parent q.
buddy(b, q) == IF b = left(q) THEN right(q) ELSE left(q)
IsParent(q, b) == q \in nodes /\ b \in {left(q), right(q)}

\* compareBlocks(): smaller blocks first, of equal ones the higher address.
compareBlocks(b, c) ==
  IF b.size # c.size THEN b.size < c.size ELSE b.start > c.start

Init ==
  /\ nodes = {root} /\ free = {root} /\ freeList = {root}
  /\ blockMap = [p \in Pid |-> NULL]
  /\ p_id = [b \in Block |-> None]
  /\ cur = Idle

\* Mutant of allocateMemory: a block half as large as the request will do.
allocateMemory_small(p, n) ==
  /\ cur = Idle
  /\ \E b \in freeList :
       /\ 2 * b.size >= n
       /\ freeList' = freeList \ {b}
       /\ cur' = [op |-> "split", block |-> b, pid |-> p, size |-> n]
  /\ UNCHANGED <<nodes, free, blockMap, p_id>>

\* allocateMemory() into findFreeBlock(): the first block that is large
\* enough leaves the free list; without one nothing happens.
allocateMemory(p, n) ==
  LET fits == {b \in freeList : b.size >= n}
  IN  /\ cur = Idle
      /\ \E b \in fits :
           /\ \A c \in fits \ {b} : compareBlocks(b, c)
           /\ freeList' = freeList \ {b}
           /\ cur' = [op |-> "split", block |-> b, pid |-> p, size |-> n]
      /\ UNCHANGED <<nodes, free, blockMap, p_id>>

\* The condition of the loop that splits.
TooLarge(b, n) == b.size \div 2 > n /\ b.size \div 2 >= Lower

\* Mutant of split: the right half is forgotten.
split_lossy ==
  LET b == cur.block
  IN  /\ cur.op = "split" /\ TooLarge(b, cur.size)
      /\ nodes' = nodes \cup {left(b), right(b)}
      /\ free' = (free \ {b}) \cup {left(b), right(b)}
      /\ cur' = [cur EXCEPT !.block = left(b)]
      /\ UNCHANGED <<freeList, blockMap, p_id>>

\* One round of it: the left half goes on, the right half is free.
split ==
  LET b == cur.block
  IN  /\ cur.op = "split" /\ TooLarge(b, cur.size)
      /\ nodes' = nodes \cup {left(b), right(b)}
      /\ free' = (free \ {b}) \cup {left(b), right(b)}
      /\ freeList' = freeList \cup {right(b)}
      /\ cur' = [cur EXCEPT !.block = left(b)]
      /\ UNCHANGED <<blockMap, p_id>>

\* allocateProcess(): the block and everything above it are not free.  What
\* the process held before is forgotten, not released.
allocateProcess ==
  LET b == cur.block
      above == {q \in nodes : Cells(b) \subseteq Cells(q)}
  IN  /\ cur.op = "split" /\ ~TooLarge(b, cur.size)
      /\ free' = free \ above
      /\ blockMap' = [blockMap EXCEPT ![cur.pid] = b]
      /\ p_id' = [p_id EXCEPT ![b] = cur.pid]
      /\ cur' = Idle
      /\ UNCHANGED <<nodes, freeList>>

\* releaseMemory() into releaseProcess(), up to its loop.  The name that stays
\* on a free block is never read: the model drops it.
releaseProcess(p) ==
  /\ cur = Idle /\ blockMap[p] # NULL
  /\ free' = free \cup {blockMap[p]}
  /\ blockMap' = [blockMap EXCEPT ![p] = NULL]
  /\ cur' = [op |-> "merge", block |-> blockMap[p], pid |-> p, size |-> 0]
  /\ p_id' = [p_id EXCEPT ![blockMap[p]] = None]
  /\ UNCHANGED <<nodes, freeList>>

\* Mutant of merge: the loop does not move on.
merge_stuck ==
  \E q \in nodes :
    /\ cur.op = "merge" /\ IsParent(q, cur.block)
    /\ buddy(cur.block, q) \in free
    /\ freeList' = freeList \ {buddy(cur.block, q)}
    /\ UNCHANGED <<nodes, free, blockMap, p_id, cur>>

\* One round of its loop: a free buddy leaves the free list, both children
\* are unlinked from their parent, which comes next.
merge ==
  \E q \in nodes :
    LET b == cur.block
        c == buddy(b, q)
    IN  /\ cur.op = "merge" /\ IsParent(q, b)
        /\ c \in free
        /\ freeList' = freeList \ {c}
        /\ nodes' = nodes \ {b, c}
        /\ free' = free \ {b, c}
        /\ cur' = [cur EXCEPT !.block = q]
        /\ UNCHANGED <<blockMap, p_id>>

\* The buddy is in use, or there is none: the block goes into the free list.
settle ==
  /\ cur.op = "merge"
  /\ \A q \in nodes : IsParent(q, cur.block) => buddy(cur.block, q) \notin free
  /\ free' = free \cup {cur.block}
  /\ freeList' = freeList \cup {cur.block}
  /\ cur' = Idle
  /\ UNCHANGED <<nodes, blockMap, p_id>>

Step == split \/ allocateProcess \/ merge \/ settle

Next ==
  \/ Step
  \/ \E p \in Pid : releaseProcess(p) \/ \E n \in Request : allocateMemory(p, n)

Spec == Init /\ [][Next]_vars

\* The program is sequential: a loop goes on until it ends.
FairSpec == Spec /\ WF_vars(Step)
---------------------------------------------------------------------------
(* Properties.                                                             *)

\* Every variable holds values of its type.
TypeOK ==
  /\ nodes \subseteq Block /\ free \subseteq nodes /\ freeList \subseteq nodes
  /\ blockMap \in [Pid -> Block \cup {NULL}]
  /\ p_id \in [Block -> Pid \cup {None}]
  /\ cur \in [op : {"idle", "split", "merge"}, block : Block \cup {NULL},
              pid : Pid \cup {None}, size : Request \cup {0}]

\* The free list is exactly the free leaves of the tree, apart from the block
\* a loop is working on: no block is lost to it, none is in it twice over as
\* a whole and as its halves, and none that a process holds.
FreeListExact ==
  freeList = {b \in Leaves : b \in free} \ {cur.block}

\* Every address lies in exactly one leaf, in the middle of a loop too.
MemoryTiled ==
  \A x \in Address : \E b \in Leaves :
    /\ x \in Cells(b)
    /\ \A c \in Leaves : x \in Cells(c) => c = b

\* Between requests no two buddies are both free: releasing has joined all
\* that could be joined.
Coalesced ==
  cur = Idle => \A q \in nodes : ~(left(q) \in freeList /\ right(q) \in freeList)

\* What the process map points at is a leaf of the tree that is in use and
\* bears the name of the process: a release frees what its process holds.
HeldIsNamed ==
  \A p \in Pid : blockMap[p] # NULL =>
    blockMap[p] \in Leaves \ free /\ p_id[blockMap[p]] = p

\* Tree, free flags, free list and process map are in step, in the middle of
\* a loop too, whatever was asked for, asked for again and released before.
Consistent == TypeOK /\ FreeListExact /\ MemoryTiled /\ HeldIsNamed

\* Both: whatever was split, joined and given away before, the structures agree
\* and releases have joined all they can.
BuddyInv == Consistent /\ Coalesced

\* Every request comes to its end: splitting and joining terminate.
RequestEnds == []<>(cur = Idle)

Pool == INSTANCE MemoryPool WITH
          Process <- Pid, Amount <- Request,
          want <- [p \in Pid |-> IF cur.op = "split" /\ cur.pid = p
                                 THEN cur.size ELSE 0],
          owned <- [p \in Pid |-> IF blockMap[p] = NULL THEN {}
                                  ELSE Cells(blockMap[p])]

\* To its clients the allocator is a pool that hands out memory nobody holds,
\* at least as much as was asked for.
IsPool == Pool!PSpec
=============================================================================
