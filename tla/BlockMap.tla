------------------------------ MODULE BlockMap ------------------------------
(***************************************************************************)
(* Where MFS keeps the blocks of one regular file (Lab-10/mfs/write.c and  *)
(* read.c): zone numbers in the inode, in a single indirect block, and in  *)
(* the indirect blocks that a double indirect block lists.  new_block adds *)
(* a zone, write_map with WMAP_FREE takes one away; indirect blocks come   *)
(* and go with them.  A zone is a block.  Positions lie below s_max_size,  *)
(* as fs_readwrite makes sure.                                             *)
(***************************************************************************)
EXTENDS Integers, FiniteSetsExt

CONSTANTS NrDirect,     \* i_ndzones
          NrIndirect,   \* i_nindirs, entries of an indirect block
          NrZones       \* zones of the disk

ASSUME BlockMapAssumption ==
  NrDirect \in Nat \ {0} /\ NrIndirect \in Nat \ {0} /\ NrZones \in Nat \ {0}

VARIABLE fmap   \* [i_zone: the zone numbers in the inode, free: the zone bitmap,
                \*  block: what the blocks hold, read as indirect blocks]

NO_ZONE == 0
Zones == 1..NrZones
Position == 0..(NrDirect + NrIndirect + NrIndirect * NrIndirect - 1)
Entries == 0..NrIndirect - 1
Zeroes == [k \in Entries |-> NO_ZONE]
Junk == [k \in Entries |-> 1]     \* data, or what a free block happens to hold
Single == NrDirect
Double == NrDirect + 1

MapInit == fmap = [i_zone |-> [i \in 0..Double |-> NO_ZONE], free |-> Zones,
                   block |-> [z \in Zones |-> Junk]]
-----------------------------------------------------------------------------
\* excess and ind_ex of a position behind the direct zones.
IsSingle(pos) == pos - NrDirect < NrIndirect
Excess(pos) == (pos - NrDirect) % NrIndirect
IndEx(pos) == (pos - NrDirect - NrIndirect) \div NrIndirect

rd_indir(m, z, index) == m.block[z][index]
wr_indir(m, z, index, zone) == [m EXCEPT !.block[z][index] = zone]
empty_indir(m, z) == m.block[z] = Zeroes

alloc_zone(m) == IF m.free = {} THEN NO_ZONE ELSE Min(m.free)
Taken(m, z) == [m EXCEPT !.free = @ \ {z}]
free_zone(m, z) == [m EXCEPT !.free = @ \union {z}, !.block[z] = Junk]

\* The indirect block of a position behind the direct zones, or NO_ZONE.
SingleOf(m, pos) ==
  IF IsSingle(pos) THEN m.i_zone[Single]
  ELSE IF m.i_zone[Double] = NO_ZONE THEN NO_ZONE
  ELSE rd_indir(m, m.i_zone[Double], IndEx(pos))
SetSingle(m, pos, z) ==
  IF IsSingle(pos) THEN [m EXCEPT !.i_zone[Single] = z]
  ELSE wr_indir(m, m.i_zone[Double], IndEx(pos), z)

read_map(m, pos) ==
  IF pos < NrDirect THEN m.i_zone[pos]
  ELSE IF SingleOf(m, pos) = NO_ZONE THEN NO_ZONE
  ELSE rd_indir(m, SingleOf(m, pos), Excess(pos))

\* Mutant of NewIndirect: a new block is used without being cleared.
NewIndirect_dirty(m, z) == Taken(m, z)

\* A zone that becomes an indirect block.
NewIndirect(m, z) == [Taken(m, z) EXCEPT !.block[z] = Zeroes]

\* write_map without WMAP_FREE: first the double indirect block, then the
\* indirect one, then the entry.  If no zone is left for the second, the
\* first stays.
write_map_new(m, pos, zone) ==
  LET needs2 == ~IsSingle(pos) /\ m.i_zone[Double] = NO_ZONE
      z2 == alloc_zone(m)
      m2 == IF needs2 THEN [NewIndirect(m, z2) EXCEPT !.i_zone[Double] = z2] ELSE m
      needs1 == SingleOf(m2, pos) = NO_ZONE
      z1 == alloc_zone(m2)
      m1 == IF needs1 THEN SetSingle(NewIndirect(m2, z1), pos, z1) ELSE m2
  IN CASE pos < NrDirect -> [r |-> TRUE, m |-> [m EXCEPT !.i_zone[pos] = zone]]
       [] pos >= NrDirect /\ needs2 /\ z2 = NO_ZONE -> [r |-> FALSE, m |-> m]
       [] pos >= NrDirect /\ ~(needs2 /\ z2 = NO_ZONE) /\ needs1 /\ z1 = NO_ZONE ->
            [r |-> FALSE, m |-> m2]
       [] OTHER -> [r |-> TRUE, m |-> wr_indir(m1, SingleOf(m1, pos), Excess(pos), zone)]

\* Mutant of FreeEntry: the indirect block goes with its first entry.
FreeEntry_first(m, pos, z1) ==
  LET old == rd_indir(m, z1, Excess(pos))
      m1 == IF old = NO_ZONE THEN m
            ELSE wr_indir(free_zone(m, old), z1, Excess(pos), NO_ZONE)
  IN IF Excess(pos) = 0 THEN free_zone(SetSingle(m1, pos, NO_ZONE), z1) ELSE m1

\* The entry is freed, and the indirect block when that was its last one.
FreeEntry(m, pos, z1) ==
  LET old == rd_indir(m, z1, Excess(pos))
      m1 == IF old = NO_ZONE THEN m
            ELSE wr_indir(free_zone(m, old), z1, Excess(pos), NO_ZONE)
  IN IF empty_indir(m1, z1) THEN free_zone(SetSingle(m1, pos, NO_ZONE), z1) ELSE m1

write_map_free(m, pos) ==
  LET z2 == m.i_zone[Double]
      z1 == SingleOf(m, pos)
      m1 == IF z1 = NO_ZONE THEN m ELSE FreeEntry(m, pos, z1)
  IN IF pos < NrDirect
     THEN IF m.i_zone[pos] = NO_ZONE THEN m
          ELSE [free_zone(m, m.i_zone[pos]) EXCEPT !.i_zone[pos] = NO_ZONE]
     ELSE IF SingleOf(m1, pos) = NO_ZONE /\ ~IsSingle(pos) /\ z2 # NO_ZONE /\ empty_indir(m1, z2)
     THEN [free_zone(m1, z2) EXCEPT !.i_zone[Double] = NO_ZONE]
     ELSE m1
-----------------------------------------------------------------------------
\* The zone for the data is taken first, and given back if it cannot be
\* entered.  Without a zone nothing changes.
AddBlock(pos) ==
  LET z == alloc_zone(fmap)
      w == write_map_new(Taken(fmap, z), pos, z)
  IN /\ read_map(fmap, pos) = NO_ZONE /\ z # NO_ZONE
     /\ fmap' = IF w.r THEN w.m ELSE free_zone(w.m, z)

DropBlock(pos) == fmap' = write_map_free(fmap, pos)

MapNext == \E pos \in Position : AddBlock(pos) \/ DropBlock(pos)

MapSpec == MapInit /\ [][MapNext]_fmap
-----------------------------------------------------------------------------
\* The places that hold zone numbers: in the inode, in the blocks it names as
\* indirect, and in the ones that the double indirect block names.
Indirects(m) ==
  {m.i_zone[Single]} \union
  (IF m.i_zone[Double] = NO_ZONE THEN {}
   ELSE {m.i_zone[Double]} \union {m.block[m.i_zone[Double]][k] : k \in Entries})
References(m, z) ==
  Cardinality({i \in 0..Double : m.i_zone[i] = z})
  + Cardinality({p \in (Indirects(m) \ {NO_ZONE}) \X Entries : m.block[p[1]][p[2]] = z})

\* Whatever blocks are added and taken away, on a full disk too, a zone is
\* either free or entered in exactly one place, and no indirect block is kept
\* that lists nothing, but for a double indirect block that was created when
\* the disk had no zone left for the next.
ZonesExact ==
  /\ \A z \in Zones : References(fmap, z) = IF z \in fmap.free THEN 0 ELSE 1
  /\ \A z \in Indirects(fmap) \ {NO_ZONE, fmap.i_zone[Double]} : ~empty_indir(fmap, z)

\* The positions whose block a step changes.
ChangedBlocks == {loc \in Position : read_map(fmap, loc)' # read_map(fmap, loc)}

\* Adding or freeing the block of one position leaves the block of every
\* other position what it was, when indirect blocks come and go as well.
OnlyThatBlock == [][Cardinality(ChangedBlocks) <= 1]_fmap
=============================================================================
