---------------------------- MODULE DirectoryScan ----------------------------
(***************************************************************************)
(* A program lists a directory of MFS with several getdents calls          *)
(* (fs_getdents in Lab-10/mfs/read.c, do_getdents in VFS) while others add *)
(* entries, into the first free slot, and remove some.  The position that  *)
(* one call returns is the slot where the next one goes on.                *)
(***************************************************************************)
EXTENDS Integers, Sequences, FiniteSets, SequencesExt

CONSTANTS Entry,        \* entries that may exist; each is created once
          Reclen,       \* length of the record of an entry
          Mode,         \* type of the file of an entry
          PerBlock,     \* slots of a directory block
          TmpSize,      \* size of getdents_buf
          BufSize       \* sizes of the buffers that programs use

ASSUME DirAssumption ==
  /\ PerBlock \in Nat \ {0} /\ BufSize \subseteq Nat
  /\ "unused" \notin Entry
  /\ \A e \in Entry : Mode[e] \in {"regular", "immediate", "directory", "symlink", "char",
                                   "block", "fifo", "socket"}
  /\ \A e \in Entry : Reclen[e] \in Nat \ {0} /\ Reclen[e] < TmpSize

VARIABLE dir   \* [slots: the entries or Unused, new: not created yet, pos: filp_pos,
               \*  listed: what the calls returned, with type, atStart: the entries when the
               \*  listing began and not removed since, eof: a call returned nothing,
               \*  last: [r, size, nbytes] of the last call]

Unused == "unused"     \* mfs_d_ino = 0
Slots == 0..Len(dir.slots) - 1
At(pos) == dir.slots[pos + 1]

DirStart(slots) ==
  [slots |-> slots, new |-> Entry \ ToSet(slots), pos |-> 0, listed |-> <<>>,
   atStart |-> ToSet(slots), eof |-> FALSE, last |-> [r |-> "OK", size |-> 0, nbytes |-> 0]]

DirInit ==
  \E slots \in BoundedSeq(Entry, PerBlock + 1) : IsInjective(slots) /\ dir = DirStart(slots)
-----------------------------------------------------------------------------
\* What others do in between: search_dir enters a name in the first free slot
\* or behind the last, and deletes one by clearing its slot.
AddEntry(e) ==
  LET free == {k \in Slots : At(k) = Unused}
  IN /\ e \in dir.new
     /\ dir' = [dir EXCEPT !.new = @ \ {e},
                  !.slots = IF free = {} THEN Append(@, e)
                            ELSE [@ EXCEPT ![1 + CHOOSE k \in free : \A j \in free : k <= j] = e]]

RemoveEntry(k) ==
  /\ At(k) # Unused
  /\ dir' = [dir EXCEPT !.slots[k + 1] = Unused, !.atStart = @ \ {At(k)}]
-----------------------------------------------------------------------------
fs_mode_to_type(mode) ==
  CASE mode \in {"regular", "immediate"} -> "DT_REG"
    [] mode = "directory" -> "DT_DIR" [] mode = "symlink" -> "DT_LNK"
    [] mode = "char" -> "DT_CHR"      [] mode = "block" -> "DT_BLK"
    [] mode = "fifo" -> "DT_FIFO"     [] mode = "socket" -> "DT_SOCK"
    [] OTHER -> "abort"

\* Mutant of NextPos: the next call goes on behind the entry that did not fit.
NextPos_behind(k) == k + 1

\* Where the next call goes on when the entry in slot k does not fit.
NextPos(k) == k

\* One slot of the loop; a is the loop's state.
OneEntry(a, k, size) ==
  LET e == At(k)
  IN CASE a.done \/ e = Unused -> a
       [] ~a.done /\ e # Unused /\ a.user + a.tmp + Reclen[e] >= size ->
            [a EXCEPT !.done = TRUE, !.new_pos = NextPos(k)]
       [] OTHER ->
            LET flush == a.tmp + Reclen[e] >= TmpSize
            IN [a EXCEPT !.user = IF flush THEN @ + a.tmp ELSE @,
                         !.tmp = (IF flush THEN 0 ELSE @) + Reclen[e],
                         !.copies = IF flush THEN @ + 1 ELSE @,
                         !.out = Append(@, <<e, fs_mode_to_type(Mode[e])>>)]

\* The loop over the blocks, from the position's slot in its block, after n
\* slots; the position for the next call is the end unless the buffer fills up.
ScanFrom(pos, size) ==
  LET scan[n \in 0..Len(dir.slots)] ==
        IF n <= pos
        THEN [done |-> FALSE, user |-> 0, tmp |-> 0, copies |-> 0, out |-> <<>>,
              new_pos |-> Len(dir.slots)]
        ELSE OneEntry(scan[n - 1], n - 1, size)
  IN scan[Len(dir.slots)]

\* The call: fails when a copy to the program fails or when not even one
\* record fits; VFS moves the position only when bytes were returned.
fs_getdents(size, copyFails) ==
  LET a == ScanFrom(dir.pos, size)
      n == a.user + a.tmp
      r == CASE copyFails -> "EFAULT" [] ~copyFails /\ a.done /\ n = 0 -> "EINVAL" [] OTHER -> "OK"
  IN /\ ~dir.eof /\ (copyFails => n > 0)
     /\ dir' = [dir EXCEPT
                  !.last = [r |-> r, size |-> size, nbytes |-> IF r = "OK" THEN n ELSE 0],
                  !.eof = r = "OK" /\ n = 0,
                  !.listed = IF r = "OK" THEN @ \o a.out ELSE @,
                  !.pos = IF r = "OK" /\ n > 0 THEN a.new_pos ELSE @]

DirNext == \/ \E e \in Entry : AddEntry(e)
           \/ \E k \in Slots : RemoveEntry(k)
           \/ \E size \in BufSize, copyFails \in BOOLEAN : fs_getdents(size, copyFails)

DirSpec == DirInit /\ [][DirNext]_dir
-----------------------------------------------------------------------------
\* A listing names no entry twice and, when it has come to the end, every
\* entry that was there all the time, though entries come and go between the
\* calls, buffers may be too small for a record, and calls may fail; what a
\* call returns fits its buffer; and MFS knows the type of every file,
\* immediate ones included.
ListedOnce ==
  LET names == {dir.listed[i][1] : i \in DOMAIN dir.listed}
  IN /\ Cardinality(names) = Len(dir.listed)
     /\ dir.eof => dir.atStart \subseteq names
     /\ dir.last.nbytes <= dir.last.size
     /\ \A i \in DOMAIN dir.listed : dir.listed[i][2] # "abort"
=============================================================================
