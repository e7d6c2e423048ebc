--------------------------- MODULE ProgramsProofs ---------------------------
(***************************************************************************)
(* Parts of the kernel, of VFS and of MFS that are looked at on their own, *)
(* for tables, pipes, devices and requests of every size: the send masks   *)
(* of the privilege structures, the byte counts of pipes, what a request   *)
(* to MFS moves and reads ahead, the zones that a file has, and what a     *)
(* program that lists a directory gets; the page replacement programs,     *)
(* against what their policies mean, and the chains of processes and of    *)
(* programs. Then the buddy allocator with any memory size, smallest block *)
(* and requests: its tree, free list and process map agree in every state, *)
(* the blocks of the tree tile the memory, releases join all that can be   *)
(* joined, and its clients see a pool that hands out memory nobody holds.  *)
(* Last the image program part2_2.cpp with images and blur windows of      *)
(* every size: what SharedMemoryInv says holds, whatever the schedule of   *)
(* its four processes and whichever of them finds or removes the segment   *)
(* first.                                                                  *)
(***************************************************************************)
EXTENDS BuddySystem, ImageProcesses, Privileges, VfsPipe, BlockIO, BlockMap,
        DirectoryScan, PageReplacement, ProcessChains, FiniteSetTheorems, WellFoundedInduction, TLAPS

\* A set of natural numbers that is not empty has a least member, and Min
\* finds it.
LEMMA MinNat ==
  ASSUME NEW S, S \subseteq Nat, S # {}
  PROVE  Min(S) \in S /\ \A y \in S : Min(S) <= y
<1> DEFINE less == {ss \in Nat \X Nat : ss[1] < ss[2]}
<1>1. IsWellFoundedOn(less, Nat)
  BY NatLessThanWellFounded, Zenon DEF OpToRel
<1>2. \E x \in S : \A y \in S : ~(<<y, x>> \in less)
  <2> HIDE DEF less
  <2> QED BY <1>1, WFMin, Zenon
<1>3. PICK x \in S : \A y \in S : ~(<<y, x>> \in less)
  BY <1>2
<1>4. ASSUME NEW y \in S PROVE x <= y
  <2>1. x \in Nat /\ y \in Nat
    BY <1>3, <1>4
  <2>2. y < x => <<y, x>> \in less
    BY <2>1
  <2> HIDE DEF less
  <2> QED BY <1>3, <2>1, <2>2
<1> QED BY <1>4, Zenon DEF Min

\* The lesser of two numbers.
LEMMA MinTwo ==
  ASSUME NEW a \in Nat, NEW b \in Nat
  PROVE  Min({a, b}) = IF a <= b THEN a ELSE b
<1>1. Min({a, b}) \in {a, b} /\ \A y \in {a, b} : Min({a, b}) <= y
  BY MinNat
<1> HIDE DEF Min
<1> QED BY <1>1, SMT

\* Induction over the natural numbers, with a set for the property.
LEMMA SetInduction ==
  ASSUME NEW S, 0 \in S, \A n \in Nat : n \in S => n + 1 \in S
  PROVE  \A n \in Nat : n \in S
<1>1. ASSUME Nat \ S # {} PROVE FALSE
  <2>1. PICK m \in Nat \ S : \A n \in Nat \ S : m <= n
    BY <1>1, MinNat, Zenon
  <2>2. m # 0 /\ m - 1 \in Nat
    BY <2>1
  <2>3. m - 1 \in S
    BY <2>1, <2>2
  <2> QED BY <2>1, <2>2, <2>3
<1> QED BY <1>1

\* The places of a sequence that is put together from one of m and one of k.
LEMMA JoinedPlaces ==
  ASSUME NEW m \in Nat, NEW k \in Nat
  PROVE  /\ \A i \in 1..m + k : i \in 1..m \/ (i - m \in 1..k /\ i = m + (i - m))
         /\ \A i \in 1..m : i \in 1..m + k
         /\ \A i \in 1..k : m + i \in 1..m + k
OBVIOUS
-----------------------------------------------------------------------------
(* Privileges *)

PrivState == [used : SUBSET PrivId, ipc_to : [PrivId -> SUBSET PrivId],
              sends : SUBSET PrivId, allowed : SUBSET SUBSET PrivId]

PrivTypeOK == privs \in PrivState

PrivInv == PrivTypeOK /\ SendMasksCurrent

\* get_priv never gives a slot away that has a process.
LEMMA GetPrivFree ==
  ASSUME PrivTypeOK, NEW id, get_priv(id) # Refused
  PROVE  get_priv(id) \in PrivId \ privs.used
<1> DEFINE spare == PrivId \ (StaticId \union privs.used)
<1>1. ASSUME spare # {} PROVE Min(spare) \in spare
  <2>1. spare \subseteq Nat
    BY PrivAssumption
  <2> HIDE DEF spare
  <2> QED BY <2>1, <1>1, MinNat
<1> QED BY <1>1, PrivAssumption DEF get_priv

\* All but the masks is the same.
OnlyMasks(p, u) == /\ u \in PrivState
                   /\ u.used = p.used /\ u.sends = p.sends /\ u.allowed = p.allowed

\* set_sendto_bit: the bit for id if id is another process, and then id may answer
\* if it can.
LEMMA SetBit ==
  ASSUME NEW p \in PrivState, NEW rp \in PrivId, NEW id \in PrivId
  PROVE  /\ OnlyMasks(p, set_sendto_bit(p, rp, id))
         /\ \A i, x \in PrivId :
              x \in set_sendto_bit(p, rp, id).ipc_to[i] <=>
                IF i = rp /\ x = id THEN id \in p.used /\ id # rp
                ELSE \/ x \in p.ipc_to[i]
                     \/ i = id /\ x = rp /\ id \in p.used /\ id \in p.sends
<1>1. OnlyMasks(p, set_sendto_bit(p, rp, id))
  BY DEF set_sendto_bit, PrivState, OnlyMasks
<1>2. ASSUME NEW i \in PrivId, NEW x \in PrivId
      PROVE  x \in set_sendto_bit(p, rp, id).ipc_to[i] <=>
                IF i = rp /\ x = id THEN id \in p.used /\ id # rp
                ELSE \/ x \in p.ipc_to[i]
                     \/ i = id /\ x = rp /\ id \in p.used /\ id \in p.sends
  BY DEF set_sendto_bit, PrivState
<1> QED BY <1>1, <1>2, Zenon

\* unset_sendto_bit: the bits of both directions.
LEMMA UnsetBit ==
  ASSUME NEW p \in PrivState, NEW rp \in PrivId, NEW id \in PrivId
  PROVE  /\ OnlyMasks(p, unset_sendto_bit(p, rp, id))
         /\ \A i, x \in PrivId :
              x \in unset_sendto_bit(p, rp, id).ipc_to[i] <=>
                /\ x \in p.ipc_to[i]
                /\ ~(i = rp /\ x = id) /\ ~(i = id /\ x = rp)
<1>1. OnlyMasks(p, unset_sendto_bit(p, rp, id))
  BY DEF unset_sendto_bit, PrivState, OnlyMasks
<1>2. ASSUME NEW i \in PrivId, NEW x \in PrivId
      PROVE  x \in unset_sendto_bit(p, rp, id).ipc_to[i] <=>
                /\ x \in p.ipc_to[i]
                /\ ~(i = rp /\ x = id) /\ ~(i = id /\ x = rp)
  BY DEF unset_sendto_bit, PrivState
<1> QED BY <1>1, <1>2, Zenon

\* The whole mask: its own bits are those of the map, and everyone in the map who
\* can send may answer.
LEMMA FillMask ==
  ASSUME NEW p \in PrivState, NEW rp \in PrivId, NEW map \in SUBSET PrivId
  PROVE  /\ OnlyMasks(p, fill_sendto_mask(p, rp, map))
         /\ \A i, x \in PrivId :
              x \in fill_sendto_mask(p, rp, map).ipc_to[i] <=>
                IF i = rp THEN x \in map /\ x \in p.used /\ x # rp
                ELSE IF x = rp
                THEN i \in map /\ (x \in p.ipc_to[i] \/ (i \in p.used /\ i \in p.sends))
                ELSE x \in p.ipc_to[i]
<1> DEFINE round(id) == IF id \in map THEN set_sendto_bit(p, rp, id)
                        ELSE unset_sendto_bit(p, rp, id)
           row(i) == IF i = rp THEN {id \in PrivId : id \in round(id).ipc_to[rp]}
                     ELSE round(i).ipc_to[i]
<1>1. ASSUME NEW id \in PrivId
      PROVE  /\ OnlyMasks(p, round(id))
             /\ id \in round(id).ipc_to[rp] <=> id \in map /\ id \in p.used /\ id # rp
             /\ \A x \in PrivId : id # rp =>
                  (x \in round(id).ipc_to[id] <=>
                     IF x = rp
                     THEN id \in map /\ (x \in p.ipc_to[id] \/ (id \in p.used /\ id \in p.sends))
                     ELSE x \in p.ipc_to[id])
  <2>1. CASE id \in map
    <3>1. round(id) = set_sendto_bit(p, rp, id)
      BY <2>1
    <3> HIDE DEF round
    <3> QED BY <3>1, <2>1, SetBit
  <2>2. CASE id \notin map
    <3>1. round(id) = unset_sendto_bit(p, rp, id)
      BY <2>2
    <3> HIDE DEF round
    <3> QED BY <3>1, <2>2, UnsetBit
  <2> QED BY <2>1, <2>2
<1>2. fill_sendto_mask(p, rp, map) = [p EXCEPT !.ipc_to = [i \in PrivId |-> row(i)]]
  BY DEF fill_sendto_mask
<1> HIDE DEF round
<1>3. ASSUME NEW i \in PrivId PROVE row(i) \in SUBSET PrivId
  BY <1>1 DEF PrivState, OnlyMasks
<1>4. ASSUME NEW i \in PrivId, NEW x \in PrivId
      PROVE  x \in row(i) <=>
                IF i = rp THEN x \in map /\ x \in p.used /\ x # rp
                ELSE IF x = rp
                THEN i \in map /\ (x \in p.ipc_to[i] \/ (i \in p.used /\ i \in p.sends))
                ELSE x \in p.ipc_to[i]
  BY <1>1
<1> HIDE DEF row
<1>5. OnlyMasks(p, fill_sendto_mask(p, rp, map))
  BY <1>2, <1>3 DEF PrivState, OnlyMasks
<1>6. ASSUME NEW i \in PrivId PROVE fill_sendto_mask(p, rp, map).ipc_to[i] = row(i)
  BY <1>2 DEF PrivState
<1> QED BY <1>4, <1>5, <1>6, Zenon

\* A new process: it may send to exactly the processes of its map, and these
\* may answer, whatever masks the slot's last process left behind.
LEMMA PrivctlStep ==
  ASSUME PrivInv, NEW id \in PrivId \union {NULL_PRIV_ID}, NEW answers \in BOOLEAN,
         NEW map \in SUBSET PrivId, Privctl(id, answers, map)
  PROVE  PrivInv'
<1> DEFINE rp == get_priv(id)
           p == [privs EXCEPT !.used = @ \union {rp},
                              !.sends = IF answers THEN @ \union {rp} ELSE @ \ {rp}]
           u == fill_sendto_mask(p, rp, map)
           new == {a \in u.allowed : rp \notin a} \union Pairs(rp, map)
<1>1. rp \in PrivId \ privs.used
  BY GetPrivFree DEF Privctl, PrivInv
<1>2. /\ p \in PrivState
      /\ p.used = privs.used \union {rp} /\ p.ipc_to = privs.ipc_to
      /\ p.sends \ {rp} = privs.sends \ {rp} /\ p.allowed = privs.allowed
  BY <1>1 DEF PrivInv, PrivTypeOK, PrivState
<1>3. privs' = [u EXCEPT !.allowed = new]
  BY DEF Privctl
<1> HIDE DEF p
<1>4. /\ u \in PrivState
      /\ u.used = p.used /\ u.sends = p.sends /\ u.allowed = p.allowed
      /\ \A i, x \in PrivId :
           x \in u.ipc_to[i] <=>
             IF i = rp THEN x \in map /\ x \in p.used /\ x # rp
             ELSE IF x = rp
             THEN i \in map /\ (x \in p.ipc_to[i] \/ (i \in p.used /\ i \in p.sends))
             ELSE x \in p.ipc_to[i]
  <2> HIDE DEF rp
  <2>1. rp \in PrivId /\ p \in PrivState
    BY <1>1, <1>2
  <2>2. OnlyMasks(p, u)
    BY <2>1, FillMask
  <2>3. \A i, x \in PrivId :
           x \in u.ipc_to[i] <=>
             IF i = rp THEN x \in map /\ x \in p.used /\ x # rp
             ELSE IF x = rp
             THEN i \in map /\ (x \in p.ipc_to[i] \/ (i \in p.used /\ i \in p.sends))
             ELSE x \in p.ipc_to[i]
    BY <2>1, FillMask
  <2> QED BY <2>2, <2>3, Zenon DEF OnlyMasks
<1> HIDE DEF u, rp
<1>5. new \in SUBSET SUBSET PrivId
  BY <1>1, <1>4 DEF Pairs, PrivInv, PrivTypeOK, PrivState
<1>6. ASSUME NEW a, NEW b, a # rp, b # rp
      PROVE  {a, b} \in new <=> {a, b} \in privs.allowed
  BY <1>2, <1>4, <1>6 DEF Pairs
<1>7. ASSUME NEW b \in PrivId, b # rp
      PROVE  /\ {rp, b} \in new <=> b \in map /\ b \in privs.used
             /\ {b, rp} \in new <=> b \in map /\ b \in privs.used
  <2>1. {rp, b} = {b, rp}
    OBVIOUS
  <2>2. {rp, b} \in Pairs(rp, map) <=> b \in map /\ b \in privs.used
    BY <1>7 DEF Pairs
  <2> QED BY <2>1, <2>2
<1> HIDE DEF new
<1>8. /\ privs'.used = privs.used \union {rp} /\ privs'.sends = u.sends
      /\ privs'.allowed = new /\ privs'.ipc_to = u.ipc_to
  BY <1>2, <1>3, <1>4 DEF PrivState
<1>9. PrivTypeOK'
  BY <1>3, <1>4, <1>5 DEF PrivTypeOK, PrivState
<1>10. ASSUME NEW a \in privs'.used \cap privs'.sends
       PROVE  privs'.ipc_to[a] \cap privs'.used = {b \in privs'.used \ {a} : {a, b} \in privs'.allowed}
  <2>1. privs'.used \subseteq PrivId /\ a \in PrivId
    BY <1>9 DEF PrivTypeOK, PrivState
  <2>2. ASSUME NEW b \in privs'.used
        PROVE  b \in privs'.ipc_to[a] <=> b # a /\ {a, b} \in privs'.allowed
    <3>1. CASE a = rp /\ b = rp
      BY <3>1, <1>4, <1>8, <2>1
    <3>2. CASE a = rp /\ b # rp
      BY <3>2, <1>2, <1>4, <1>7, <1>8, <2>1
    <3>3. CASE a # rp
      <4>1. a \in privs.used \cap privs.sends
        BY <3>3, <1>2, <1>4, <1>8
      <4>2. CASE b = rp
        BY <4>1, <4>2, <3>3, <1>1, <1>2, <1>4, <1>7, <1>8, <2>1
      <4>3. CASE b # rp
        <5>1. b \in privs.used
          BY <4>3, <1>8
        <5>2. b \in privs.ipc_to[a] <=> b # a /\ {a, b} \in privs.allowed
          BY <4>1, <5>1 DEF PrivInv, SendMasksCurrent
        <5>3. {a, b} \in new <=> {a, b} \in privs.allowed
          BY <3>3, <4>3, <1>6
        <5>4. b \in u.ipc_to[a] <=> b \in privs.ipc_to[a]
          BY <3>3, <4>3, <1>1, <1>2, <1>4, <2>1
        <5> QED BY <5>2, <5>3, <5>4, <1>8
      <4> QED BY <4>2, <4>3
    <3> QED BY <3>1, <3>2, <3>3
  <2> QED BY <2>2
<1> QED BY <1>9, <1>10 DEF PrivInv, SendMasksCurrent

LEMMA TargetStep ==
  ASSUME PrivInv, NEW rp \in PrivId, NEW id \in PrivId,
         AddTarget(rp, id) \/ DropTarget(rp, id)
  PROVE  PrivInv'
<1> DEFINE add == AddTarget(rp, id)
           u == IF add THEN set_sendto_bit(privs, rp, id) ELSE unset_sendto_bit(privs, rp, id)
           new == IF add THEN privs.allowed \union Pairs(rp, {id})
                  ELSE privs.allowed \ Pairs(rp, {id})
<1>1. privs \in PrivState /\ rp \in privs.used
  BY DEF AddTarget, DropTarget, PrivInv, PrivTypeOK
<1>2. OnlyMasks(privs, u)
  BY <1>1, SetBit, UnsetBit
<1>3. privs' = [u EXCEPT !.allowed = new]
  BY <1>2 DEF AddTarget, DropTarget, OnlyMasks
<1>4. ASSUME NEW i \in PrivId, NEW x \in PrivId
      PROVE  x \in u.ipc_to[i] <=>
               IF i = rp /\ x = id THEN add /\ id \in privs.used /\ id # rp
               ELSE IF i = id /\ x = rp
               THEN IF add THEN x \in privs.ipc_to[i] \/ (id \in privs.used /\ id \in privs.sends)
                    ELSE FALSE
               ELSE x \in privs.ipc_to[i]
  <2>1. CASE add
    <3>1. u = set_sendto_bit(privs, rp, id)
      BY <2>1
    <3> HIDE DEF u, add
    <3> QED BY <3>1, <2>1, <1>1, SetBit
  <2>2. CASE ~add
    <3>1. u = unset_sendto_bit(privs, rp, id)
      BY <2>2
    <3> HIDE DEF u, add
    <3> QED BY <3>1, <2>2, <1>1, UnsetBit
  <2> QED BY <2>1, <2>2
<1>5. Pairs(rp, {id}) = IF id \in privs.used /\ id # rp THEN {{rp, id}} ELSE {}
  BY DEF Pairs
<1> HIDE DEF u
<1>6. new \in SUBSET SUBSET PrivId
  <2>1. privs.allowed \in SUBSET SUBSET PrivId
    BY <1>1 DEF PrivState
  <2>2. Pairs(rp, {id}) \in SUBSET SUBSET PrivId
    BY <1>5
  <2> QED BY <2>1, <2>2
<1>7. ASSUME NEW a \in privs.used, NEW b \in privs.used, a # b
      PROVE  {a, b} \in new <=>
               IF (a = rp /\ b = id) \/ (a = id /\ b = rp) THEN add ELSE {a, b} \in privs.allowed
  <2>1. {a, b} = {rp, id} <=> (a = rp /\ b = id) \/ (a = id /\ b = rp)
    OBVIOUS
  <2>2. CASE (a = rp /\ b = id) \/ (a = id /\ b = rp)
    BY <2>1, <2>2, <1>5, <1>7
  <2>3. CASE ~((a = rp /\ b = id) \/ (a = id /\ b = rp))
    <3>1. {a, b} \notin Pairs(rp, {id})
      BY <2>1, <2>3, <1>5
    <3> QED BY <3>1, <2>3
  <2> QED BY <2>2, <2>3
<1> HIDE DEF new, add
<1>8. /\ privs'.used = privs.used /\ privs'.sends = privs.sends
      /\ privs'.allowed = new /\ privs'.ipc_to = u.ipc_to
  BY <1>2, <1>3 DEF PrivState, OnlyMasks
<1>9. PrivTypeOK'
  BY <1>2, <1>3, <1>6 DEF PrivTypeOK, PrivState, OnlyMasks
<1>10. ASSUME NEW a \in privs'.used \cap privs'.sends
       PROVE  privs'.ipc_to[a] \cap privs'.used = {b \in privs'.used \ {a} : {a, b} \in privs'.allowed}
  <2>1. privs.used \subseteq PrivId /\ a \in PrivId /\ a \in privs.used /\ a \in privs.sends
    BY <1>1, <1>8 DEF PrivState
  <2>2. ASSUME NEW b \in privs.used
        PROVE  b \in u.ipc_to[a] <=> b # a /\ {a, b} \in new
    <3>1. b \in privs.ipc_to[a] <=> b # a /\ {a, b} \in privs.allowed
      BY <2>1 DEF PrivInv, SendMasksCurrent
    <3> QED BY <3>1, <2>1, <1>1, <1>4, <1>7
  <2> QED BY <2>2, <1>8
<1> QED BY <1>9, <1>10 DEF PrivInv, SendMasksCurrent

LEMMA ReleaseStep ==
  ASSUME PrivInv, NEW rp \in PrivId, Release(rp)
  PROVE  PrivInv'
<1> DEFINE new == {a \in privs.allowed : rp \notin a}
<1>1. privs \in PrivState
  BY DEF PrivInv, PrivTypeOK
<1>2. /\ privs'.used = privs.used \ {rp} /\ privs'.sends = privs.sends
      /\ privs'.allowed = new /\ privs'.ipc_to = privs.ipc_to /\ privs' \in PrivState
  BY <1>1 DEF Release, PrivState
<1>3. ASSUME NEW a \in privs'.used \cap privs'.sends
      PROVE  privs'.ipc_to[a] \cap privs'.used = {b \in privs'.used \ {a} : {a, b} \in privs'.allowed}
  <2>1. a \in privs.used \cap privs.sends
    BY <1>2
  <2>2. ASSUME NEW b \in privs.used, b # rp
        PROVE  b \in privs.ipc_to[a] <=> b # a /\ {a, b} \in new
    <3>1. b \in privs.ipc_to[a] <=> b # a /\ {a, b} \in privs.allowed
      BY <2>1 DEF PrivInv, SendMasksCurrent
    <3>2. rp \notin {a, b}
      BY <1>2, <2>2
    <3> QED BY <3>1, <3>2
  <2> QED BY <2>2, <1>2
<1> QED BY <1>2, <1>3 DEF PrivInv, PrivTypeOK, SendMasksCurrent

\* For every number of privilege structures and every assignment of ids: a system
\* process that can send may send to exactly the processes that one of the two
\* named in its last request, through all the processes that used its slot and
\* theirs before (get_priv, fill_sendto_mask, set_ and unset_sendto_bit).
THEOREM MasksCurrent == PrivSpec => []SendMasksCurrent
<1>1. PrivInit => PrivInv
  BY DEF PrivInit, PrivInv, PrivTypeOK, PrivState, SendMasksCurrent
<1>2. PrivInv /\ [PrivNext]_privs => PrivInv'
  <2>1. ASSUME PrivInv, PrivNext PROVE PrivInv'
    BY <2>1, PrivctlStep, TargetStep, ReleaseStep DEF PrivNext
  <2>2. ASSUME PrivInv, UNCHANGED privs PROVE PrivInv'
    BY <2>2 DEF PrivInv, PrivTypeOK, SendMasksCurrent
  <2> QED BY <2>1, <2>2
<1>3. PrivInv => SendMasksCurrent
  BY DEF PrivInv
<1> QED BY <1>1, <1>2, <1>3, PTL DEF PrivSpec
-----------------------------------------------------------------------------
(* Pipes *)

PipeFp == [state : {"running", "suspended"}, rw : {"read", "write"}, nonblock : BOOLEAN,
           left : Nat, fp_cum_io_partial : Nat, result : Int, asked : Nat, accepted : Nat]

\* A call that is under way: what is left of it, and what it has counted.  Only
\* a write of more than the pipe holds is ever done in part.
UnderWay(f) ==
  /\ f \in PipeFp
  /\ f.left > 0 /\ f.left + f.accepted = f.asked
  /\ f.fp_cum_io_partial = f.accepted
  /\ f.nonblock \/ f.rw = "read" \/ f.asked <= PipeBuf => f.accepted = 0

\* What PipeCounts says of one process, and that a call may be resumed.  After
\* an error the count is what went into the pipe, and that is 0 or a part.
CallCounts(f) ==
  /\ f \in PipeFp
  /\ f.state = "suspended" => UnderWay(f)
  /\ f.state = "running" /\ f.result = Error =>
       f.fp_cum_io_partial = f.accepted /\ (f.accepted = 0 \/ CutShort(f))
  /\ f.state = "running" /\ f.result # Error =>
       /\ f.result = f.accepted /\ f.fp_cum_io_partial = 0
       /\ f.rw = "write" /\ ~f.nonblock => f.accepted = f.asked
  /\ f.rw = "write" /\ f.asked <= PipeBuf => f.accepted \in {0, f.asked}

PipeType == pipe \in [v_size : 0..PipeBuf, readers : BOOLEAN, writers : BOOLEAN,
                      panic : BOOLEAN, fp : [PipeUser -> PipeFp]]

PipeInv == /\ PipeType /\ \A p \in PipeUser : CallCounts(pipe.fp[p])
           /\ pipe.panic => \E p \in PipeUser : CutShort(pipe.fp[p])

LEMMA FpFailed ==
  ASSUME NEW f \in PipeFp, NEW res \in Int
  PROVE  [f EXCEPT !.state = "running", !.result = res] \in PipeFp
  BY DEF PipeFp

LEMMA FpDone ==
  ASSUME NEW f \in PipeFp, NEW res \in Int
  PROVE  [f EXCEPT !.state = "running", !.result = res, !.fp_cum_io_partial = 0] \in PipeFp
  BY DEF PipeFp

LEMMA FpNew ==
  ASSUME NEW f \in PipeFp, NEW rw \in {"read", "write"}, NEW nb \in BOOLEAN, NEW n \in Nat
  PROVE  [f EXCEPT !.rw = rw, !.left = n, !.asked = n, !.nonblock = nb,
                   !.accepted = 0] \in PipeFp
  BY DEF PipeFp

\* pipe_check: never more than is left of the call, for a write never more than
\* there is room for, and all or nothing of a write of at most PIPE_BUF bytes.
LEMMA PipeCheck ==
  ASSUME PipeType, NEW f, UnderWay(f)
  PROVE  /\ pipe_check(f) \in {SUSPEND, Error} \union 0..f.left
         /\ pipe_check(f) \in Nat /\ f.rw = "write" =>
              /\ 0 < pipe_check(f) /\ pipe.v_size + pipe_check(f) <= PipeBuf
              /\ f.asked <= PipeBuf => pipe_check(f) = f.left
         /\ pipe_check(f) \in Nat /\ f.rw = "read" => pipe_check(f) \in {0, f.left}
         /\ pipe_check(f) = 0 => f.rw = "read"
<1>1. /\ pipe.v_size \in Nat /\ PipeBuf \in Nat /\ pipe.v_size <= PipeBuf
      /\ f.left \in Nat /\ f.asked \in Nat /\ f.accepted \in Nat /\ f.rw \in {"read", "write"}
      /\ f.left <= f.asked /\ f.left > 0
  BY PipeAssumption DEF PipeType, UnderWay, PipeFp
<1>2. CASE f.rw = "read"
  BY <1>1, <1>2 DEF pipe_check, SUSPEND, Error
<1>3. CASE f.rw = "write"
  BY <1>1, <1>3 DEF pipe_check, SUSPEND, Error
<1> QED BY <1>1, <1>2, <1>3

\* One go at a call, new or resumed, keeps the counts: of this process, and of
\* the others by leaving them alone.
LEMMA RwPipe ==
  ASSUME PipeInv, ~pipe.panic, NEW p \in PipeUser, NEW f, UnderWay(f), NEW fails \in BOOLEAN,
         rw_pipe(p, f, fails)
  PROVE  PipeInv'
<1> DEFINE r == pipe_check(f)
           size == IF f.rw = "read" THEN Min({r, pipe.v_size}) ELSE r
           cum_io == f.fp_cum_io_partial + size
           g == [f EXCEPT !.accepted = @ + size, !.left = @ - size]
<1>1. /\ r \in {SUSPEND, Error} \union 0..f.left
      /\ r \in Nat /\ f.rw = "write" =>
           /\ 0 < r /\ pipe.v_size + r <= PipeBuf
           /\ f.asked <= PipeBuf => r = f.left
      /\ r \in Nat /\ f.rw = "read" => r \in {0, f.left}
      /\ r = 0 => f.rw = "read"
  BY PipeCheck DEF PipeInv
<1>2. /\ f \in PipeFp
      /\ f.left \in Nat /\ f.asked \in Nat /\ f.accepted \in Nat
      /\ f.fp_cum_io_partial \in Nat /\ f.rw \in {"read", "write"} /\ f.nonblock \in BOOLEAN
      /\ pipe.v_size \in Nat /\ PipeBuf \in Nat /\ pipe.v_size <= PipeBuf
  BY PipeAssumption DEF PipeInv, PipeType, UnderWay, PipeFp
<1>3. ASSUME r \in Nat
      PROVE  size \in Nat /\ size <= r /\ (f.rw = "read" => size <= pipe.v_size)
  <2>1. f.rw = "read" => Min({r, pipe.v_size}) = IF r <= pipe.v_size THEN r ELSE pipe.v_size
    BY <1>2, <1>3, MinTwo
  <2> HIDE DEF r
  <2> QED BY <2>1, <1>2, <1>3
<1>4. ASSUME NEW h \in PipeFp, NEW v \in 0..PipeBuf, CallCounts(h),
             pipe' = [pipe EXCEPT !.v_size = v, !.fp[p] = h]
      PROVE  PipeInv'
  <2>1. PipeType'
    BY <1>4 DEF PipeInv, PipeType
  <2>2. ASSUME NEW q \in PipeUser PROVE pipe'.fp[q] = IF q = p THEN h ELSE pipe.fp[q]
    BY <1>4 DEF PipeInv, PipeType
  <2>3. ~pipe'.panic
    BY <1>4 DEF PipeInv, PipeType
  <2> QED BY <2>1, <2>2, <2>3, <1>4 DEF PipeInv
<1>5. CASE r = SUSPEND
  <2> DEFINE h == [f EXCEPT !.state = "suspended"]
  <2>1. h \in PipeFp /\ CallCounts(h)
    BY <1>2 DEF UnderWay, CallCounts, PipeFp
  <2>2. pipe' = [pipe EXCEPT !.fp[p] = h]
    BY <1>5 DEF rw_pipe, Error, SUSPEND
  <2>3. pipe' = [pipe EXCEPT !.v_size = pipe.v_size, !.fp[p] = h]
    BY <2>2 DEF PipeInv, PipeType
  <2>4. pipe.v_size \in 0..PipeBuf
    BY <1>2
  <2> HIDE DEF h
  <2> QED BY <2>1, <2>3, <2>4, <1>4
<1>6. CASE r = Error \/ (r > 0 /\ fails /\ r # SUSPEND)
  <2> DEFINE h == Failing(f)
  <2>1. h \in PipeFp /\ CallCounts(h)
    <3>1. h \in PipeFp
      <4>1. Error \in Int
        BY DEF Error
      <4> QED BY <4>1, <1>2, FpFailed, Zenon DEF Failing
    <3>2. /\ h.state = "running" /\ h.result = Error /\ h.nonblock = f.nonblock
          /\ h.rw = f.rw /\ h.asked = f.asked /\ h.accepted = f.accepted
          /\ h.fp_cum_io_partial = f.fp_cum_io_partial
      BY <1>2 DEF PipeFp, Failing
    <3>3. f.accepted = 0 \/ (f.rw = "write" /\ ~f.nonblock /\ f.asked > PipeBuf)
      BY <1>2 DEF UnderWay
    <3>4. f.accepted < f.asked /\ (f.accepted # 0 => 0 < f.accepted)
      BY <1>2 DEF UnderWay
    <3> HIDE DEF h
    <3>5. f.fp_cum_io_partial = f.accepted
          /\ (f.rw = "write" /\ f.asked <= PipeBuf => f.accepted = 0)
      BY DEF UnderWay
    <3> QED BY <3>1, <3>2, <3>3, <3>4, <3>5 DEF CallCounts, CutShort
  <2>2. pipe' = [pipe EXCEPT !.fp[p] = h]
    BY <1>6 DEF rw_pipe, Error, SUSPEND
  <2>3. pipe' = [pipe EXCEPT !.v_size = pipe.v_size, !.fp[p] = h]
    BY <2>2 DEF PipeInv, PipeType
  <2>4. pipe.v_size \in 0..PipeBuf
    BY <1>2
  <2> HIDE DEF h
  <2> QED BY <2>1, <2>3, <2>4, <1>4
<1>7. CASE r = 0
  <2> DEFINE h == [f EXCEPT !.state = "running", !.result = 0]
  <2>1. h \in PipeFp /\ CallCounts(h)
    <3>1. h \in PipeFp
      <4>1. 0 \in Int
        OBVIOUS
      <4> QED BY <4>1, <1>2, FpFailed, Zenon
    <3>2. /\ h.state = "running" /\ h.result = 0 /\ h.rw = f.rw /\ h.accepted = f.accepted
          /\ h.fp_cum_io_partial = f.fp_cum_io_partial
      BY <1>2 DEF PipeFp
    <3>3. f.rw = "read" /\ f.accepted = 0 /\ f.fp_cum_io_partial = 0
      BY <1>1, <1>2, <1>7 DEF UnderWay
    <3> HIDE DEF h
    <3> QED BY <3>1, <3>2, <3>3 DEF CallCounts
  <2>2. pipe' = [pipe EXCEPT !.fp[p] = h]
    BY <1>7 DEF rw_pipe, Error, SUSPEND
  <2>3. pipe' = [pipe EXCEPT !.v_size = pipe.v_size, !.fp[p] = h]
    BY <2>2 DEF PipeInv, PipeType
  <2>4. pipe.v_size \in 0..PipeBuf
    BY <1>2
  <2> HIDE DEF h
  <2> QED BY <2>1, <2>3, <2>4, <1>4
<1>8. CASE r \in Nat /\ r > 0 /\ ~fails
  <2> DEFINE h == IF r < f.left /\ ~f.nonblock
                  THEN [g EXCEPT !.state = "suspended", !.fp_cum_io_partial = cum_io]
                  ELSE Done(g, cum_io)
             v == IF f.rw = "read" THEN pipe.v_size - size ELSE pipe.v_size + size
  <2>1. pipe' = [pipe EXCEPT !.v_size = v, !.fp[p] = h]
    BY <1>8 DEF rw_pipe, Error, SUSPEND
  <2>2. size = IF f.rw = "read" THEN size ELSE r
    OBVIOUS
  <2>3. size \in Nat /\ size <= r /\ (f.rw = "read" => size <= pipe.v_size) /\ r <= f.left
    BY <1>1, <1>3, <1>8 DEF Error, SUSPEND
  <2> HIDE DEF size, r
  <2>4. v \in 0..PipeBuf
    BY <1>1, <1>2, <1>8, <2>2, <2>3
  <2>5. h \in PipeFp
    <3>1. f.accepted + size \in Nat /\ f.left - size \in Nat /\ cum_io \in Nat
      BY <1>2, <1>8, <1>1, <2>3
    <3> HIDE DEF cum_io
    <3>2. [g EXCEPT !.state = "suspended", !.fp_cum_io_partial = cum_io] \in PipeFp
      BY <1>2, <3>1 DEF PipeFp
    <3>3. Done(g, cum_io) \in PipeFp
      <4>1. g \in PipeFp
        BY <1>2, <3>1 DEF PipeFp
      <4> HIDE DEF g
      <4>2. cum_io \in Int
        BY <3>1
      <4> QED BY <4>1, <4>2, FpDone, Zenon DEF Done
    <3> QED BY <3>2, <3>3
  <2>6. CallCounts(h)
    <3>1. CASE r < f.left /\ ~f.nonblock
      BY <1>1, <1>2, <1>8, <2>2, <2>3, <2>5, <3>1 DEF PipeFp, CallCounts, UnderWay
    <3>2. CASE ~(r < f.left /\ ~f.nonblock)
      <4>1. h.state = "running" /\ h.result = cum_io /\ h.fp_cum_io_partial = 0 /\ h.rw = f.rw
            /\ h.accepted = f.accepted + size /\ h.asked = f.asked /\ h.nonblock = f.nonblock
        BY <3>2, <1>2 DEF PipeFp, Done
      <4>2. f.fp_cum_io_partial = f.accepted /\ f.left + f.accepted = f.asked
        BY DEF UnderWay
      <4>3. f.rw = "write" /\ ~f.nonblock => f.accepted + size = f.asked
        BY <3>2, <2>2, <2>3, <1>2, <1>8, <4>2
      <4>4. f.rw = "write" /\ f.asked <= PipeBuf => f.accepted + size = f.asked
        BY <2>2, <2>3, <1>1, <1>2, <1>8, <4>2
      <4>5. cum_io = f.accepted + size
        BY <4>2, <1>2, <2>3
      <4>6. cum_io # Error
        BY <1>2, <2>3 DEF Error
      <4> HIDE DEF h, cum_io
      <4> QED BY <4>1, <4>3, <4>4, <4>5, <4>6, <2>5 DEF CallCounts
    <3> QED BY <3>1, <3>2
  <2> HIDE DEF h, v
  <2> QED BY <2>1, <2>4, <2>5, <2>6, <1>4
<1> QED BY <1>1, <1>5, <1>6, <1>7, <1>8 DEF SUSPEND, Error

\* For pipes and requests of every size and any number of processes: the count
\* that a call on a pipe returns is the number of bytes it moved, over all its
\* pieces; a blocking write that succeeds has written everything; a write of at
\* most PIPE_BUF bytes is never split; and the pipe never holds more (rw_pipe).
\* read_write panics only over the count of a long write that was cut short.
THEOREM PipesCount == PipeSpec => []PipeCounts
<1>1. PipeInit => PipeInv
  <2>1. Quiet \in PipeFp /\ CallCounts(Quiet)
    BY DEF Quiet, PipeFp, CallCounts
  <2>2. ASSUME PipeInit
        PROVE  PipeType /\ ~pipe.panic /\ \A p \in PipeUser : pipe.fp[p] = Quiet
    <3>1. [p \in PipeUser |-> Quiet] \in [PipeUser -> PipeFp]
      BY <2>1
    <3>2. 0 \in 0..PipeBuf
      BY PipeAssumption
    <3> HIDE DEF Quiet
    <3> QED BY <3>1, <3>2, <2>2 DEF PipeInit, PipeType
  <2> QED BY <2>1, <2>2 DEF PipeInv
<1>2. ASSUME PipeInv, PipeNext PROVE PipeInv'
  <2>1. ASSUME NEW p \in PipeUser, NEW rw \in {"read", "write"}, NEW n \in PipeBytes,
               NEW nonblock \in BOOLEAN, NEW fails \in BOOLEAN,
               PipeCall(p, rw, n, nonblock, fails)
        PROVE  PipeInv'
    <3> DEFINE f == [pipe.fp[p] EXCEPT !.rw = rw, !.left = n, !.asked = n,
                       !.nonblock = nonblock, !.accepted = 0]
    <3>1. n \in Nat /\ n > 0 /\ pipe.fp[p] \in PipeFp
      BY <1>2, PipeAssumption DEF PipeInv, PipeType
    <3>2. CASE pipe.fp[p].fp_cum_io_partial # 0
      <4>1. CutShort(pipe.fp[p])
        BY <1>2, <2>1, <3>2 DEF PipeInv, CallCounts, PipeCall
      <4>2. pipe'.fp = pipe.fp /\ PipeType'
        BY <1>2, <2>1, <3>2 DEF PipeInv, PipeType, PipeCall
      <4> QED BY <4>1, <4>2, <1>2 DEF PipeInv
    <3>3. CASE pipe.fp[p].fp_cum_io_partial = 0
      <4>1. f \in PipeFp
        BY <3>1, FpNew
      <4>2. UnderWay(f)
        BY <3>1, <3>3, <4>1 DEF UnderWay, PipeFp
      <4>3. rw_pipe(p, f, fails) /\ ~pipe.panic
        BY <2>1, <3>3 DEF PipeCall
      <4> HIDE DEF f
      <4> QED BY <4>2, <4>3, <1>2, RwPipe
    <3> QED BY <3>2, <3>3
  <2>2. ASSUME NEW p \in PipeUser, NEW fails \in BOOLEAN, PipeResume(p, fails)
        PROVE  PipeInv'
    BY <2>2, <1>2, RwPipe DEF PipeInv, PipeResume, CallCounts
  <2>3. ASSUME NEW rw \in {"read", "write"}, CloseEnd(rw)
        PROVE  PipeInv'
    <3>1. pipe'.fp = pipe.fp /\ pipe'.panic = pipe.panic /\ PipeType'
      BY <2>3, <1>2 DEF PipeInv, PipeType, CloseEnd
    <3> QED BY <3>1, <1>2 DEF PipeInv
  <2> QED BY <1>2, <2>1, <2>2, <2>3 DEF PipeNext
<1>3. ASSUME PipeInv, UNCHANGED pipe PROVE PipeInv'
  BY <1>3 DEF PipeInv, PipeType
<1>4. PipeInv => PipeCounts
  <2>1. ASSUME NEW f, CallCounts(f)
        PROVE  /\ f.state \in {"running", "suspended"}
               /\ f.state = "running" /\ f.fp_cum_io_partial # 0 => CutShort(f)
               /\ f.state = "suspended" \/ f.result = Error => f.fp_cum_io_partial = f.accepted
    <3>1. f.state \in {"running", "suspended"}
      BY <2>1 DEF CallCounts, PipeFp
    <3> QED BY <2>1, <3>1 DEF CallCounts, UnderWay
  <2> QED BY <2>1 DEF PipeInv, PipeType, PipeCounts, CallCounts
<1> QED BY <1>1, <1>2, <1>3, <1>4, PTL DEF PipeSpec
-----------------------------------------------------------------------------
(* Requests to MFS *)

\* The lesser and the greater of two integers.
LEMMA MinMaxInt ==
  ASSUME NEW a \in Int, NEW b \in Int
  PROVE  /\ Min({a, b}) = IF a <= b THEN a ELSE b
         /\ Max({a, b}) = IF a >= b THEN a ELSE b
<1>1. \E x \in {a, b} : \A y \in {a, b} : x <= y
  OBVIOUS
<1>2. \E x \in {a, b} : \A y \in {a, b} : x >= y
  OBVIOUS
<1>3. Min({a, b}) \in {a, b} /\ \A y \in {a, b} : Min({a, b}) <= y
  BY <1>1, Zenon DEF Min
<1>4. Max({a, b}) \in {a, b} /\ \A y \in {a, b} : Max({a, b}) >= y
  BY <1>2, Zenon DEF Max
<1> HIDE DEF Min, Max
<1> QED BY <1>3, <1>4

\* Whole blocks, and what is behind them.
LEMMA Division ==
  ASSUME NEW x \in Nat
  PROVE  /\ BlockOf(x) \in Nat /\ x % BlockSize \in 0..BlockSize - 1
         /\ x = BlockSize * BlockOf(x) + (x % BlockSize)
BY BioAssumption DEF BlockOf

LEMMA Growing ==
  ASSUME NEW a \in Int, NEW b \in Int, a <= b
  PROVE  BlockSize * a <= BlockSize * b
BY BioAssumption

\* Block q begins at byte BlockSize * q.
LEMMA BlockBounds ==
  ASSUME NEW x \in Nat, NEW q \in Int
  PROVE  /\ x < BlockSize * (q + 1) => BlockOf(x) <= q
         /\ BlockSize * q <= x => q <= BlockOf(x)
<1>1. /\ BlockOf(x) \in Nat /\ x % BlockSize \in 0..BlockSize - 1
      /\ x = BlockSize * BlockOf(x) + (x % BlockSize)
  BY Division
<1>2. BlockSize \in Nat \ {0}
  BY BioAssumption
<1>3. q + 1 <= BlockOf(x) => BlockSize * (q + 1) <= BlockSize * BlockOf(x)
  BY <1>1, Growing
<1>4. BlockOf(x) + 1 <= q => BlockSize * (BlockOf(x) + 1) <= BlockSize * q
  BY <1>1, Growing
<1>5. BlockSize * (BlockOf(x) + 1) = BlockSize * BlockOf(x) + BlockSize
  BY <1>1, <1>2
<1> QED BY <1>1, <1>2, <1>3, <1>4, <1>5

LEMMA BlocksGrow ==
  ASSUME NEW x \in Nat, NEW y \in Nat, x <= y
  PROVE  BlockOf(x) <= BlockOf(y)
<1>1. /\ BlockOf(x) \in Nat /\ x % BlockSize \in 0..BlockSize - 1
      /\ x = BlockSize * BlockOf(x) + (x % BlockSize)
  BY Division
<1>2. BlockSize * BlockOf(x) \in Nat /\ BlockOf(x) \in Int
  BY <1>1, BioAssumption
<1>3. BlockSize * BlockOf(x) <= y
  BY <1>1, <1>2, BioAssumption
<1> QED BY <1>2, <1>3, BlockBounds

\* The bytes of a block that is covered from its first byte on.
LEMMA WholeBlock ==
  ASSUME NEW from \in Nat, NEW c \in Nat, from % BlockSize = 0, BlockOf(c) = BlockOf(from)
  PROVE  c \in from..(from + BlockSize - 1)
<1>1. /\ BlockOf(c) \in Nat /\ c % BlockSize \in 0..BlockSize - 1
      /\ c = BlockSize * BlockOf(c) + (c % BlockSize)
  BY Division
<1>2. from = BlockSize * BlockOf(from) + 0
  BY Division
<1>3. BlockSize * BlockOf(from) \in Nat
  BY <1>1, BioAssumption
<1> QED BY <1>1, <1>2, <1>3, BioAssumption

Aheads == [queue : Seq(Nat), cached : SUBSET Blocks, held : Nat]

BioState ==
  [kind : {"read", "write", "file"}, start : Nat, asked : Nat \ {0}, size : 1..NrCells,
   ro : BOOLEAN, position : Nat, nrbytes : Nat, cum_io : Nat,
   r : {"OK", "copy_failed", "disk_error", "EROFS"},
   over : BOOLEAN, cells : [Cell -> {"old", "new", "lost"}], read : Seq(Nat), ahead : Aheads]

\* What the request has moved, and how much is left of it.
Progressed(b) ==
  /\ b.position = b.start + b.cum_io /\ b.cum_io + b.nrbytes = b.asked
  /\ b.kind = "file" => b.cum_io = 0 \/ b.position <= b.size
  /\ b.over /\ b.r = "OK" =>
       b.nrbytes = 0 \/ IF b.kind = "file" THEN b.position >= b.size ELSE Beyond(b.position)

\* While it lasts it has moved what it counts.
ReadInOrder(b) ==
  b.kind # "write" =>
    /\ \A i \in 1..Len(b.read) : b.read[i] = b.start + i - 1
    /\ Len(b.read) >= b.cum_io /\ (~b.over => Len(b.read) = b.cum_io)

BioInv == /\ bio \in BioState /\ Progressed(bio) /\ ReadInOrder(bio)
          /\ WrittenInRange(bio) /\ AheadInOrder(bio, bio.ahead)

LEMMA BioFields ==
  ASSUME NEW b \in BioState
  PROVE  /\ b.kind \in {"read", "write", "file"} /\ b.over \in BOOLEAN
         /\ b.start \in Nat /\ b.asked \in Nat \ {0} /\ b.size \in Nat \ {0}
         /\ b.position \in Nat /\ b.nrbytes \in Nat /\ b.cum_io \in Nat
         /\ b.cells \in [Cell -> {"old", "new", "lost"}]
         /\ b.read \in Seq(Nat) /\ b.ahead \in Aheads
<1>1. b.start \in Nat /\ b.asked \in Nat \ {0} /\ b.size \in 1..NrCells
  BY DEF BioState
<1>2. b.start \in Nat /\ b.asked \in Nat \ {0} /\ b.size \in Nat \ {0}
  BY <1>1, BioAssumption
<1> QED BY <1>2 DEF BioState

LEMMA NothingAhead ==
  /\ NoAhead \in Aheads
  /\ \A b : AheadInOrder(b, NoAhead)
BY DEF NoAhead, Aheads, AheadInOrder

\* What is read of a piece is at least a byte, lies in one block, and neither
\* in what was not asked for nor behind the end of the file.
LEMMA ChunkFits ==
  ASSUME BioInv, bio.nrbytes > 0, bio.kind = "file" => bio.position < bio.size
  PROVE  /\ Chunk(bio.position) \in 1..bio.nrbytes
         /\ Chunk(bio.position) <= BlockSize - (bio.position % BlockSize)
         /\ bio.kind = "file" => Chunk(bio.position) <= bio.size - bio.position
<1> DEFINE room == BlockSize - (bio.position % BlockSize)
<1>1. bio.position \in Nat /\ bio.nrbytes \in Nat /\ bio.size \in Nat
  BY BioFields DEF BioInv
<1>2. room \in Nat /\ room > 0
  <2>1. bio.position % BlockSize \in 0..BlockSize - 1
    BY <1>1, Division
  <2> QED BY <2>1, BioAssumption
<1> HIDE DEF room
<1>3. Min({bio.nrbytes, room}) = IF bio.nrbytes <= room THEN bio.nrbytes ELSE room
  BY <1>1, <1>2, MinTwo
<1> DEFINE c == Min({bio.nrbytes, room})
<1>4. c \in 1..bio.nrbytes /\ c <= room
  BY <1>1, <1>2, <1>3
<1>5. Chunk(bio.position) = IF bio.kind = "file" THEN Min({c, bio.size - bio.position}) ELSE c
  BY DEF Chunk, room
<1> HIDE DEF c
<1>6. CASE bio.kind = "file"
  <2>1. bio.size - bio.position \in Nat /\ bio.size - bio.position > 0 /\ c \in Nat
    BY <1>1, <1>4, <1>6
  <2>2. Min({c, bio.size - bio.position})
          = IF c <= bio.size - bio.position THEN c ELSE bio.size - bio.position
    BY <2>1, MinTwo
  <2> QED BY <2>1, <2>2, <1>1, <1>2, <1>4, <1>5, <1>6 DEF room
<1>7. CASE bio.kind # "file"
  BY <1>4, <1>5, <1>7 DEF room
<1> QED BY <1>6, <1>7

\* rahead asks for at most one block more than the file has.
LEMMA AheadOfFile ==
  ASSUME BioInv, NEW noSeek \in BOOLEAN, bio.kind = "file" => bio.position < bio.size
  PROVE  /\ BlocksAhead(noSeek) \in Nat
         /\ bio.kind = "file" =>
              BlockOf(bio.position) + BlocksAhead(noSeek) <= BlockOf(bio.size - 1) + 2
<1> DEFINE fragment == bio.position % BlockSize
           base == bio.position - fragment
           wanted == (bio.nrbytes + fragment + BlockSize - 1) \div BlockSize
           rest == (bio.size - base + BlockSize - 1) \div BlockSize
           ind1_pos == NDirect * BlockSize
           nearIndirect == bio.kind = "file" /\ base <= ind1_pos /\ bio.size > ind1_pos
           extra == IF nearIndirect THEN 1 ELSE 0
           most == Min({wanted + extra, NR_IOREQS})
           least == IF most < BLOCKS_MINIMUM /\ noSeek THEN BLOCKS_MINIMUM ELSE most
           limit == IF bio.kind = "file" THEN rest + extra ELSE NR_IOREQS
<1>1. /\ bio.position \in Nat /\ bio.nrbytes \in Nat /\ bio.size \in Nat \ {0}
      /\ BlockSize \in Nat \ {0} /\ NR_IOREQS \in Nat /\ BLOCKS_MINIMUM \in Nat
  BY BioFields, BioAssumption DEF BioInv
<1>2. /\ fragment \in 0..BlockSize - 1 /\ BlockOf(bio.position) \in Nat
      /\ bio.position = BlockSize * BlockOf(bio.position) + fragment
  BY <1>1, Division
<1>3. BlocksAhead(noSeek) = Min({least, limit})
  BY DEF BlocksAhead
<1>4. extra \in {0, 1}
  OBVIOUS
<1> HIDE DEF extra, fragment
<1>5. wanted \in Nat
  <2>1. bio.nrbytes + fragment + BlockSize - 1 \in Nat
    BY <1>1, <1>2
  <2> QED BY <2>1, Division DEF BlockOf
<1> HIDE DEF wanted
<1>6. most \in Nat
  <2>1. wanted + extra \in Nat
    BY <1>4, <1>5
  <2>2. most = IF wanted + extra <= NR_IOREQS THEN wanted + extra ELSE NR_IOREQS
    BY <2>1, <1>1, MinTwo
  <2> QED BY <2>1, <2>2, <1>1
<1> HIDE DEF most
<1>7. least \in Nat
  BY <1>1, <1>6
<1>8. bio.kind = "file" =>
        rest \in Nat /\ BlockOf(bio.position) + rest <= BlockOf(bio.size - 1) + 1
  <2> SUFFICES ASSUME bio.kind = "file"
               PROVE  rest \in Nat /\ BlockOf(bio.position) + rest <= BlockOf(bio.size - 1) + 1
    OBVIOUS
  <2> DEFINE f == BlockOf(bio.position)
             q == BlockOf(bio.size - 1)
             x == bio.size - base + BlockSize - 1
  <2>1. base = BlockSize * f /\ BlockSize * f \in Nat
    BY <1>1, <1>2
  <2>2. x \in Nat /\ bio.size - 1 \in Nat
    BY <1>1, <1>2
  <2>3. rest = BlockOf(x)
    BY DEF BlockOf
  <2>4. q \in Nat /\ bio.size - 1 = BlockSize * q + ((bio.size - 1) % BlockSize)
        /\ (bio.size - 1) % BlockSize \in 0..BlockSize - 1
    BY <2>2, Division
  <2>5. BlockSize * (q + 1 - f + 1) = BlockSize * q - BlockSize * f + 2 * BlockSize
        /\ BlockSize * q \in Nat
    BY <1>1, <1>2, <2>4
  <2>6. x < BlockSize * (q + 1 - f + 1)
    BY <1>1, <2>1, <2>4, <2>5
  <2>7. q + 1 - f \in Int
    BY <1>2, <2>4
  <2>8. BlockOf(x) <= q + 1 - f
    BY <2>2, <2>6, <2>7, BlockBounds
  <2>9. BlockOf(x) \in Nat
    BY <2>2, Division
  <2> HIDE DEF f, q, x, rest
  <2>10. f \in Nat /\ q \in Nat
    BY <1>2, <2>4 DEF f
  <2>11. f + rest <= q + 1
    BY <2>3, <2>8, <2>9, <2>10
  <2> QED BY <2>3, <2>9, <2>11 DEF f, q
<1>9. limit \in Nat
  BY <1>1, <1>4, <1>8
<1>10. Min({least, limit}) \in Nat /\ Min({least, limit}) <= limit
  <2> HIDE DEF least, limit
  <2> QED BY <1>7, <1>9, MinTwo
<1>11. bio.kind = "file" => BlockOf(bio.position) + limit <= BlockOf(bio.size - 1) + 2
  <2>1. bio.size - 1 \in Nat
    BY <1>1
  <2>2. BlockOf(bio.size - 1) \in Nat
    BY <2>1, Division
  <2> HIDE DEF rest
  <2> QED BY <1>2, <1>4, <1>8, <2>2
<1> HIDE DEF least, limit
<1>12. bio.kind = "file" => BlockOf(bio.size - 1) \in Nat
  <2>1. bio.size - 1 \in Nat
    BY <1>1
  <2> QED BY <2>1, Division
<1> QED BY <1>2, <1>3, <1>9, <1>10, <1>11, <1>12

\* The queue of rahead: in order from the block that is needed, none of them
\* cached, and no more of them than buffers and file allow.
LEMMA AheadRight ==
  ASSUME BioInv, NEW cached \in SUBSET Blocks, NEW held \in HeldBufs, NEW noSeek \in BOOLEAN,
         bio.kind = "file" => bio.position < bio.size
  PROVE  /\ rahead(cached, held, noSeek) \in Aheads
         /\ AheadInOrder(bio, rahead(cached, held, noSeek))
<1> DEFINE first == BlockOf(bio.position)
           wanted == BlocksAhead(noSeek)
           stops == {k \in 1..wanted : held + k >= NrBufs - 4 \/ first + k \in cached}
           n == Min({wanted} \union stops)
           queue == [k \in 1..n |-> first + k - 1]
           a == rahead(cached, held, noSeek)
<1>1. /\ wanted \in Nat
      /\ bio.kind = "file" => first + wanted <= BlockOf(bio.size - 1) + 2
  BY AheadOfFile
<1>2. bio.position \in Nat /\ bio.size \in Nat \ {0}
  BY BioFields DEF BioInv
<1>3. first \in Nat /\ BlockOf(bio.size - 1) \in Nat
  <2>1. bio.size - 1 \in Nat
    BY <1>2
  <2> QED BY <2>1, <1>2, Division
<1>4. held \in Nat /\ NrBufs \in Nat
  BY BioAssumption
<1>5. a = IF first \in cached THEN NoAhead ELSE [queue |-> queue, cached |-> cached, held |-> held]
  BY DEF rahead
<1>6. CASE first \in cached
  BY <1>5, <1>6, NothingAhead
<1>7. CASE first \notin cached
  <2> HIDE DEF first, wanted
  <2>1. n \in {wanted} \union stops /\ \A y \in {wanted} \union stops : n <= y
    <3>1. {wanted} \union stops \subseteq Nat /\ {wanted} \union stops # {}
      BY <1>1
    <3> HIDE DEF stops
    <3> QED BY <3>1, MinNat
  <2>2. n \in Nat /\ n <= wanted
    BY <1>1, <2>1
  <2>3. ASSUME NEW k \in 1..wanted, k < n
        PROVE  held + k < NrBufs - 4 /\ first + k \notin cached
    BY <1>1, <1>3, <1>4, <2>1, <2>2, <2>3
  <2> HIDE DEF n
  <2>4. queue \in Seq(Nat) /\ Len(queue) = n /\ \A k \in 1..n : queue[k] = first + k - 1
    <3>1. \A k \in 1..n : first + k - 1 \in Nat
      BY <1>3, <2>2
    <3> QED BY <3>1, <2>2
  <2> HIDE DEF queue, a
  <2>5. a.queue = queue /\ a.cached = cached /\ a.held = held /\ a \in Aheads
    BY <1>4, <1>5, <1>7, <2>4 DEF Aheads
  <2>6. ASSUME NEW k \in 1..n
        PROVE  queue[k] = queue[1] + k - 1 /\ queue[k] \notin cached
    <3>1. queue[k] = first + k - 1 /\ queue[1] = first
      BY <1>3, <2>2, <2>4
    <3>2. CASE k = 1
      BY <3>1, <3>2, <1>3, <1>7
    <3>3. CASE k > 1
      <4>1. k - 1 \in 1..wanted /\ k - 1 < n
        BY <3>3, <1>1, <2>2
      <4>2. first + (k - 1) \notin cached
        BY <4>1, <2>3
      <4>3. first + (k - 1) = first + k - 1
        BY <1>3, <2>2
      <4> QED BY <3>1, <4>2, <4>3, <1>3, <2>2
    <3> QED BY <3>2, <3>3, <2>2
  <2>7. ASSUME n > 0
        PROVE  /\ queue[1] <= BlockOf(bio.position)
               /\ held + n <= Max({held + 1, NrBufs - 4})
               /\ bio.kind = "file" => queue[n] <= BlockOf(bio.size - 1) + 1
    <3>1. queue[1] = first /\ queue[n] = first + n - 1
      BY <1>3, <2>2, <2>4, <2>7
    <3>2. held + n <= held + 1 \/ held + n <= NrBufs - 4
      <4>1. CASE n = 1
        BY <4>1, <1>4
      <4>2. CASE n > 1
        <5>1. n - 1 \in 1..wanted /\ n - 1 < n
          BY <4>2, <1>1, <2>2
        <5>2. held + (n - 1) < NrBufs - 4
          BY <5>1, <2>3
        <5> QED BY <5>2, <1>4, <2>2
      <4> QED BY <4>1, <4>2, <2>2, <2>7
    <3>3. Max({held + 1, NrBufs - 4}) = IF held + 1 >= NrBufs - 4 THEN held + 1 ELSE NrBufs - 4
      <4>1. held + 1 \in Int /\ NrBufs - 4 \in Int
        BY <1>4
      <4> QED BY <4>1, MinMaxInt
    <3>4. queue[1] <= BlockOf(bio.position)
      BY <3>1, <1>3 DEF first
    <3>5. held + n <= Max({held + 1, NrBufs - 4})
      BY <3>2, <3>3, <1>4, <2>2
    <3>6. bio.kind = "file" => queue[n] <= BlockOf(bio.size - 1) + 1
      BY <3>1, <1>1, <1>3, <2>2
    <3> QED BY <3>4, <3>5, <3>6
  <2>8. AheadInOrder(bio, a)
    BY <2>4, <2>5, <2>6, <2>7 DEF AheadInOrder
  <2> QED BY <2>5, <2>8 DEF a
<1> QED BY <1>6, <1>7

\* Moving on keeps what holds of the read-ahead.
LEMMA AheadKept ==
  ASSUME NEW b \in BioState, NEW u \in BioState, NEW a \in Aheads, AheadInOrder(b, a),
         u.position >= b.position, u.kind = b.kind, u.size = b.size
  PROVE  AheadInOrder(u, a)
<1>1. b.position \in Nat /\ u.position \in Nat
  BY BioFields
<1>2. BlockOf(b.position) <= BlockOf(u.position)
  BY <1>1, BlocksGrow
<1>3. BlockOf(b.position) \in Nat /\ BlockOf(u.position) \in Nat
  BY <1>1, Division
<1>4. a.queue \in Seq(Nat)
  BY DEF Aheads
<1>5. Len(a.queue) > 0 => a.queue[1] \in Nat
  BY <1>4
<1>6. Len(a.queue) > 0 /\ a.queue[1] <= BlockOf(b.position) => a.queue[1] <= BlockOf(u.position)
  BY <1>2, <1>3, <1>5
<1> QED BY <1>6 DEF AheadInOrder

\* BioWrite changes the bytes of its piece, and no other.
LEMMA WriteFits ==
  ASSUME NEW cells \in [Cell -> {"old", "new", "lost"}], NEW from \in Nat, NEW chunk \in Nat,
         chunk <= BlockSize - (from % BlockSize), NEW cached
  PROVE  /\ BioWrite(cells, from, chunk, cached) \in [Cell -> {"old", "new", "lost"}]
         /\ \A c \in Cell : BioWrite(cells, from, chunk, cached)[c]
              = IF c \in from..(from + chunk - 1) THEN "new" ELSE cells[c]
<1>1. ASSUME NEW c \in Cell, chunk = BlockSize, BlockOf(c) = BlockOf(from)
      PROVE  c \in from..(from + chunk - 1)
  <2>1. from % BlockSize \in 0..BlockSize - 1
    BY Division
  <2>2. from % BlockSize = 0
    BY <1>1, <2>1, BioAssumption
  <2>3. c \in Nat
    BY BioAssumption DEF Cell
  <2> QED BY <1>1, <2>2, <2>3, WholeBlock
<1> QED BY <1>1 DEF BioWrite

\* One piece, whether the copy and the disk succeed or not.
LEMMA BioStepInv ==
  ASSUME BioInv, NEW cached \in SUBSET Blocks, NEW held \in HeldBufs, NEW noSeek \in BOOLEAN,
         NEW outcome \in {"OK", "copy_failed", "disk_error"},
         BioStep(cached, held, noSeek, outcome)
  PROVE  BioInv'
<1> DEFINE here == bio.position
           chunk == Chunk(here)
           unread == BlockOf(here) \notin cached /\ (bio.kind = "write" => chunk # BlockSize)
           eof == unread /\ bio.kind # "file" /\ Beyond(here) /\ outcome # "disk_error"
           failed == eof \/ outcome # "OK"
           answer == IF eof THEN "OK" ELSE outcome
           touched == BioWrite(bio.cells, here, chunk, cached)
           ahead == IF bio.kind = "write" THEN NoAhead ELSE rahead(cached, held, noSeek)
           cells == CASE bio.kind # "write" \/ eof \/ outcome = "disk_error" -> bio.cells
                      [] bio.kind = "write" /\ ~eof /\ outcome = "copy_failed" ->
                           [c \in Cell |-> IF touched[c] = "new" /\ bio.cells[c] = "old"
                                           THEN "lost" ELSE touched[c]]
                      [] OTHER -> touched
           piece == [i \in 1..chunk |-> here + i - 1]
           read == IF bio.kind = "write" \/ outcome = "copy_failed" THEN bio.read
                   ELSE bio.read \o piece
           moved == IF failed THEN 0 ELSE chunk
<1>1. bio \in BioState
  BY DEF BioInv
<1>2. /\ bio.start \in Nat /\ bio.asked \in Nat /\ bio.size \in Nat
      /\ bio.position \in Nat /\ bio.nrbytes \in Nat /\ bio.cum_io \in Nat
  BY <1>1, BioFields
<1>0. bio.cells \in [Cell -> {"old", "new", "lost"}] /\ bio.read \in Seq(Nat)
  BY <1>1, BioFields
<1>3. ~bio.over /\ bio.nrbytes > 0 /\ (bio.kind = "file" => bio.position < bio.size)
  BY DEF BioStep
<1>21. /\ chunk \in 1..bio.nrbytes /\ chunk <= BlockSize - (here % BlockSize)
       /\ bio.kind = "file" => chunk <= bio.size - here
  BY <1>3, ChunkFits
<1>4. /\ chunk \in Nat /\ chunk > 0 /\ chunk <= bio.nrbytes
      /\ bio.kind = "file" => chunk <= bio.size - bio.position
  <2> HIDE DEF chunk
  <2> QED BY <1>2, <1>21
<1>5. ahead \in Aheads /\ AheadInOrder(bio, ahead)
  BY <1>3, AheadRight, NothingAhead
<1>6. bio' = [bio EXCEPT !.ahead = ahead, !.cells = cells, !.read = read, !.r = answer,
                !.over = failed,
                !.nrbytes = IF failed THEN bio.nrbytes ELSE bio.nrbytes - chunk,
                !.cum_io = IF failed THEN bio.cum_io ELSE bio.cum_io + chunk,
                !.position = IF failed THEN bio.position ELSE bio.position + chunk]
  BY <1>1 DEF BioStep, BioState
<1> HIDE DEF chunk, ahead
<1>7. /\ touched \in [Cell -> {"old", "new", "lost"}]
      /\ \A c \in Cell : touched[c] = IF c \in here..(here + chunk - 1) THEN "new" ELSE bio.cells[c]
  <2>1. here \in Nat /\ chunk \in Nat
    BY <1>2, <1>4
  <2> HIDE DEF here
  <2> QED BY <2>1, <1>0, <1>21, WriteFits
<1> HIDE DEF touched
<1>8. cells \in [Cell -> {"old", "new", "lost"}]
  BY <1>0, <1>7
<1>9. /\ piece \in Seq(Nat) /\ Len(piece) = chunk
      /\ \A i \in 1..chunk : piece[i] = here + i - 1
  <2>1. \A i \in 1..chunk : here + i - 1 \in Nat
    BY <1>2, <1>4
  <2>2. chunk \in Nat
    BY <1>4, <1>2
  <2> HIDE DEF here
  <2> QED BY <2>1, <2>2
<1> HIDE DEF piece
<1>10. read \in Seq(Nat)
  BY <1>0, <1>9
<1>11. /\ bio.nrbytes - chunk \in Nat /\ chunk \in Nat
       /\ bio.cum_io + chunk \in Nat /\ bio.position + chunk \in Nat
  BY <1>2, <1>4
<1>12. /\ failed \in BOOLEAN /\ (outcome # "OK" => failed)
       /\ failed /\ answer = "OK" => bio.kind # "file" /\ Beyond(bio.position)
       /\ failed => eof \/ outcome # "OK"
       /\ answer \in {"OK", "copy_failed", "disk_error", "EROFS"}
       /\ ~failed => ~eof
  BY Zenon
<1> HIDE DEF cells, read, failed, eof, answer
<1>13. /\ bio'.kind = bio.kind /\ bio'.start = bio.start /\ bio'.asked = bio.asked
       /\ bio'.size = bio.size /\ bio'.ahead = ahead /\ bio'.cells = cells /\ bio'.read = read
       /\ bio'.r = answer /\ bio'.over = failed
       /\ bio'.nrbytes = bio.nrbytes - moved /\ bio'.cum_io = bio.cum_io + moved
       /\ bio'.position = bio.position + moved
  BY <1>1, <1>2, <1>6, <1>11 DEF BioState
<1>14. bio' \in BioState
  BY <1>1, <1>5, <1>6, <1>8, <1>10, <1>11, <1>12 DEF BioState
<1>15. moved \in 0..bio.nrbytes /\ moved <= chunk
  BY <1>2, <1>4, <1>12
<1>16. (failed => moved = 0) /\ (~failed => moved = chunk)
  OBVIOUS
<1> HIDE DEF moved
<1>17. Progressed(bio)'
  <2>1. Progressed(bio)
    BY DEF BioInv
  <2> QED BY <2>1, <1>2, <1>3, <1>4, <1>12, <1>13, <1>15, <1>16 DEF Progressed
<1>18. ReadInOrder(bio)'
  <2> SUFFICES ASSUME bio.kind # "write"
               PROVE  /\ \A i \in 1..Len(read) : read[i] = bio.start + i - 1
                      /\ Len(read) >= bio.cum_io + moved
                      /\ ~failed => Len(read) = bio.cum_io + moved
    BY <1>13 DEF ReadInOrder
  <2>1. /\ \A i \in 1..Len(bio.read) : bio.read[i] = bio.start + i - 1
        /\ Len(bio.read) = bio.cum_io
    BY <1>3 DEF BioInv, ReadInOrder
  <2>2. bio.position = bio.start + bio.cum_io
    BY DEF BioInv, Progressed
  <2>3. CASE outcome = "copy_failed"
    <3>1. read = bio.read
      BY <2>3 DEF read
    <3>2. failed /\ moved = 0
      BY <2>3, <1>12, <1>16
    <3>3. bio.cum_io + moved = bio.cum_io
      BY <3>2, <1>2
    <3>4. Len(bio.read) >= bio.cum_io
      BY <2>1, <1>2
    <3> QED BY <2>1, <3>1, <3>2, <3>3, <3>4
  <2>4. CASE outcome # "copy_failed"
    <3>1. read = bio.read \o piece
      BY <2>4 DEF read
    <3>2. Len(read) = Len(bio.read) + chunk
      <4>1. Len(bio.read \o piece) = Len(bio.read) + Len(piece)
        <5>1. piece \in Seq(Nat)
          BY <1>9
        <5>2. bio.read \in Seq(Nat)
          BY <1>0
        <5> QED BY <5>1, <5>2
      <4> QED BY <4>1, <3>1, <1>9
    <3>3. ASSUME NEW i \in 1..Len(read) PROVE read[i] = bio.start + i - 1
      <4>1. CASE i <= Len(bio.read)
        BY <4>1, <3>1, <3>2, <2>1, <1>2, <1>9
      <4>2. CASE i > Len(bio.read)
        <5>1. read[i] = piece[i - Len(bio.read)] /\ i - Len(bio.read) \in 1..chunk
          BY <4>2, <3>1, <3>2, <1>2, <1>9
        <5>2. piece[i - Len(bio.read)] = here + (i - Len(bio.read)) - 1
          BY <5>1, <1>9
        <5> QED BY <5>1, <5>2, <2>1, <2>2, <1>2
      <4> QED BY <4>1, <4>2, <1>2, <1>11, <3>2
    <3> QED BY <3>2, <3>3, <2>1, <1>2, <1>11, <1>15, <1>16
  <2> QED BY <2>3, <2>4
<1>19. WrittenInRange(bio)'
  <2> SUFFICES ASSUME NEW c \in Cell
               PROVE  /\ bio'.kind = "write" /\ c \in bio'.start..(bio'.position - 1) =>
                           bio'.cells[c] = "new"
                      /\ c \notin bio'.start..(bio'.start + bio'.asked - 1) => bio'.cells[c] = "old"
    BY DEF WrittenInRange
  <2> SUFFICES /\ bio.kind = "write" /\ c \in bio.start..(bio.position + moved - 1) =>
                    cells[c] = "new"
               /\ c \notin bio.start..(bio.start + bio.asked - 1) => cells[c] = "old"
    <3>1. moved \in Nat
      BY <1>2, <1>15
    <3>2. bio'.position - 1 = bio.position + moved - 1
      BY <1>2, <1>13, <3>1
    <3> QED BY <1>13, <3>2, Zenon
  <2>1. /\ bio.kind = "write" /\ c \in bio.start..(bio.position - 1) => bio.cells[c] = "new"
        /\ c \notin bio.start..(bio.start + bio.asked - 1) => bio.cells[c] = "old"
    BY DEF BioInv, WrittenInRange
  <2>2. bio.position = bio.start + bio.cum_io /\ bio.cum_io + bio.nrbytes = bio.asked
    BY DEF BioInv, Progressed
  <2>3. c \in Nat
    BY BioAssumption DEF Cell
  <2>4. CASE bio.kind # "write"
    <3>1. cells = bio.cells
      BY <2>4 DEF cells
    <3> QED BY <2>1, <2>4, <3>1
  <2>6. CASE eof \/ outcome = "disk_error"
    <3>1. cells = bio.cells
      BY <2>6 DEF cells
    <3>2. moved = 0
      BY <2>6, <1>12, <1>16
    <3>3. bio.position + moved - 1 = bio.position - 1
      BY <3>2, <1>2
    <3> QED BY <3>1, <3>3, <2>1
  <2>5. CASE bio.kind = "write" /\ ~(eof \/ outcome = "disk_error")
    <3>1. touched[c] = IF c \in here..(here + chunk - 1) THEN "new" ELSE bio.cells[c]
      BY <1>7
    <3>2. c \in here..(here + chunk - 1) => c \in bio.start..(bio.start + bio.asked - 1)
      BY <2>2, <2>3, <1>2, <1>4
    <3>3. c \in bio.start..(bio.position - 1) => c \notin here..(here + chunk - 1)
      BY <2>3, <1>2, <1>4
    <3>4. CASE outcome = "copy_failed"
      <4>1. cells[c] = IF touched[c] = "new" /\ bio.cells[c] = "old" THEN "lost" ELSE touched[c]
        BY <2>5, <3>4 DEF cells
      <4>2. moved = 0
        BY <3>4, <1>12, <1>16
      <4>3. bio.position + moved - 1 = bio.position - 1
        BY <4>2, <1>2
      <4> QED BY <4>1, <4>3, <3>1, <3>2, <3>3, <2>1, <2>5
    <3>5. CASE outcome # "copy_failed"
      <4>1. cells[c] = touched[c]
        BY <2>5, <3>5 DEF cells
      <4>2. c \in bio.start..(bio.position + moved - 1) =>
              c \in bio.start..(bio.position - 1) \/ c \in here..(here + chunk - 1)
        BY <2>3, <1>2, <1>4, <1>11, <1>15
      <4> QED BY <4>1, <4>2, <3>1, <3>2, <2>1, <2>5
    <3> QED BY <3>4, <3>5
  <2> QED BY <2>4, <2>5, <2>6
<1>20. AheadInOrder(bio', bio'.ahead)
  <2>1. bio'.position >= bio.position
    BY <1>2, <1>13, <1>15
  <2> QED BY <2>1, <1>1, <1>5, <1>13, <1>14, AheadKept
<1> QED BY <1>14, <1>17, <1>18, <1>19, <1>20 DEF BioInv

LEMMA BioReplyInv ==
  ASSUME BioInv, BioReply
  PROVE  BioInv'
<1>1. bio \in BioState
  BY DEF BioInv
<1>2. bio' = [bio EXCEPT !.over = TRUE, !.ahead = NoAhead]
  BY DEF BioReply
<1>3. bio' \in BioState
  BY <1>1, <1>2, NothingAhead DEF BioState
<1>4. /\ bio'.kind = bio.kind /\ bio'.start = bio.start /\ bio'.asked = bio.asked
      /\ bio'.size = bio.size /\ bio'.ahead = NoAhead /\ bio'.cells = bio.cells
      /\ bio'.read = bio.read /\ bio'.r = bio.r /\ bio'.over
      /\ bio'.nrbytes = bio.nrbytes /\ bio'.cum_io = bio.cum_io /\ bio'.position = bio.position
  BY <1>1, <1>2 DEF BioState
<1>5. Progressed(bio)'
  BY <1>4 DEF BioReply, BioInv, Progressed
<1>6. ReadInOrder(bio)' /\ WrittenInRange(bio)'
  BY <1>4 DEF BioInv, ReadInOrder, WrittenInRange
<1>7. AheadInOrder(bio', bio'.ahead)
  BY <1>4, NothingAhead
<1> QED BY <1>3, <1>5, <1>6, <1>7 DEF BioInv

LEMMA BioRefuseInv ==
  ASSUME BioInv, BioRefuse
  PROVE  BioInv'
<1>1. bio \in BioState
  BY DEF BioInv
<1>2. bio' = [bio EXCEPT !.r = "EROFS", !.over = TRUE]
  BY DEF BioRefuse
<1>3. bio' \in BioState
  BY <1>1, <1>2 DEF BioState
<1>4. /\ bio'.kind = bio.kind /\ bio'.start = bio.start /\ bio'.asked = bio.asked
      /\ bio'.size = bio.size /\ bio'.ahead = bio.ahead /\ bio'.cells = bio.cells
      /\ bio'.read = bio.read /\ bio'.r = "EROFS" /\ bio'.over
      /\ bio'.nrbytes = bio.nrbytes /\ bio'.cum_io = bio.cum_io /\ bio'.position = bio.position
  BY <1>1, <1>2 DEF BioState
<1>5. Progressed(bio)'
  BY <1>4 DEF BioInv, Progressed
<1>6. ReadInOrder(bio)' /\ WrittenInRange(bio)'
  BY <1>4 DEF BioInv, ReadInOrder, WrittenInRange
<1>7. AheadInOrder(bio', bio'.ahead)
  BY <1>4 DEF BioInv, AheadInOrder
<1> QED BY <1>3, <1>5, <1>6, <1>7 DEF BioInv

LEMMA BioInitInv == BioInit => BioInv
<1> SUFFICES ASSUME NEW kind \in {"read", "write", "file"}, NEW start \in 0..Reach - 1,
                    NEW asked \in 1..Reach, NEW size \in 1..NrCells, NEW ro \in BOOLEAN,
                    bio = BioStart(kind, start, asked, size, ro)
             PROVE  BioInv
  BY DEF BioInit
<1>1. start \in Nat /\ asked \in Nat \ {0}
  BY BioAssumption
<1>2. bio \in BioState
  <2>1. [c \in Cell |-> "old"] \in [Cell -> {"old", "new", "lost"}] /\ <<>> \in Seq(Nat)
    OBVIOUS
  <2> QED BY <1>1, <2>1, NothingAhead DEF BioStart, BioState
<1>3. Progressed(bio)
  BY <1>1 DEF BioStart, Progressed
<1>4. ReadInOrder(bio)
  BY <1>1 DEF BioStart, ReadInOrder
<1>5. WrittenInRange(bio)
  <2>1. start..(start - 1) = {}
    BY <1>1
  <2> QED BY <2>1, <1>1 DEF BioStart, WrittenInRange
<1>6. AheadInOrder(bio, bio.ahead)
  BY NothingAhead DEF BioStart
<1> QED BY <1>2, <1>3, <1>4, <1>5, <1>6 DEF BioInv

LEMMA BioInvImplies == BioInv => BytesMovedOnce
<1> SUFFICES ASSUME BioInv PROVE BytesMovedOnce
  OBVIOUS
<1>1. /\ bio.start \in Nat /\ bio.asked \in Nat \ {0} /\ bio.size \in Nat \ {0}
      /\ bio.position \in Nat /\ bio.nrbytes \in Nat /\ bio.cum_io \in Nat /\ bio.read \in Seq(Nat)
  BY BioFields DEF BioInv
<1>2. bio.position = bio.start + bio.cum_io /\ bio.cum_io + bio.nrbytes = bio.asked
  BY DEF BioInv, Progressed
<1>3. bio.kind # "write" =>
        /\ bio.read = [i \in 1..Len(bio.read) |-> bio.start + i - 1]
        /\ Len(bio.read) >= bio.cum_io
  <2> SUFFICES ASSUME bio.kind # "write"
               PROVE  /\ bio.read = [i \in 1..Len(bio.read) |-> bio.start + i - 1]
                      /\ Len(bio.read) >= bio.cum_io
    OBVIOUS
  <2>1. /\ \A i \in 1..Len(bio.read) : bio.read[i] = bio.start + i - 1
        /\ Len(bio.read) >= bio.cum_io
    BY DEF BioInv, ReadInOrder
  <2>2. bio.read = [i \in 1..Len(bio.read) |-> bio.read[i]]
    <3>1. bio.read \in Seq(Nat)
      BY <1>1
    <3> QED BY <3>1
  <2> QED BY <2>1, <2>2
<1>4. bio.over /\ bio.r = "OK" =>
        IF bio.kind = "file"
        THEN bio.cum_io = Max({0, Min({bio.asked, bio.size - bio.start})})
        ELSE bio.cum_io = bio.asked \/ Beyond(bio.position)
  <2> SUFFICES ASSUME bio.over, bio.r = "OK"
               PROVE  IF bio.kind = "file"
                      THEN bio.cum_io = Max({0, Min({bio.asked, bio.size - bio.start})})
                      ELSE bio.cum_io = bio.asked \/ Beyond(bio.position)
    OBVIOUS
  <2>1. /\ bio.kind = "file" => bio.cum_io = 0 \/ bio.position <= bio.size
        /\ bio.nrbytes = 0
             \/ IF bio.kind = "file" THEN bio.position >= bio.size ELSE Beyond(bio.position)
    BY DEF BioInv, Progressed
  <2> DEFINE m == Min({bio.asked, bio.size - bio.start})
  <2>2. m = IF bio.asked <= bio.size - bio.start THEN bio.asked ELSE bio.size - bio.start
    <3>1. bio.asked \in Int /\ bio.size - bio.start \in Int
      BY <1>1
    <3> QED BY <3>1, MinMaxInt
  <2> HIDE DEF m
  <2>3. Max({0, m}) = IF 0 >= m THEN 0 ELSE m
    <3>1. m \in Int
      BY <1>1, <2>2
    <3> QED BY <3>1, MinMaxInt
  <2>4. CASE bio.kind = "file"
    <3>1. bio.cum_io = IF 0 >= m THEN 0 ELSE m
      <4>1. bio.cum_io = 0 \/ bio.position <= bio.size
        BY <2>1, <2>4
      <4>2. bio.nrbytes = 0 \/ bio.position >= bio.size
        BY <2>1, <2>4
      <4>3. bio.cum_io = 0 \/ bio.start + bio.cum_io <= bio.size
        BY <1>2, <4>1
      <4>4. bio.nrbytes = 0 \/ bio.start + bio.cum_io >= bio.size
        BY <1>2, <4>2
      <4>5. bio.size \in Nat
        BY <1>1
      <4>6. CASE bio.asked <= bio.size - bio.start
        <5>1. m = bio.asked
          BY <2>2, <4>6
        <5> QED BY <1>1, <1>2, <4>3, <4>4, <4>6, <5>1
      <4>7. CASE ~(bio.asked <= bio.size - bio.start)
        <5>1. m = bio.size - bio.start
          BY <2>2, <4>7
        <5> QED BY <1>1, <1>2, <4>3, <4>4, <4>7, <5>1
      <4> QED BY <4>6, <4>7
    <3> QED BY <3>1, <2>3, <2>4 DEF m
  <2>5. CASE bio.kind # "file"
    BY <1>1, <1>2, <2>1, <2>5
  <2> QED BY <2>4, <2>5
<1> QED BY <1>2, <1>3, <1>4 DEF BytesMovedOnce, CountIsExact, ReadOnce, BioInv

\* For devices, files, caches and requests of every size, past the end of the
\* device too: a request moves each byte of its range once and in order, counts
\* what it moved, all of it unless it fails or meets the end, changes no byte
\* outside its range, and reads ahead only what it may, whatever the cache holds
\* at each block and whichever block fails (fs_breadwrite, rw_chunk, rahead).
THEOREM BytesMoved == BioSpec => []BytesMovedOnce
<1>1. BioInit => BioInv
  BY BioInitInv
<1>2. BioInv /\ [BioNext]_bio => BioInv'
  <2>1. ASSUME BioInv, BioNext PROVE BioInv'
    BY <2>1, BioStepInv, BioReplyInv, BioRefuseInv DEF BioNext
  <2>2. ASSUME BioInv, UNCHANGED bio PROVE BioInv'
    BY <2>2 DEF BioInv, Progressed, ReadInOrder, WrittenInRange, AheadInOrder
  <2> QED BY <2>1, <2>2
<1>3. BioInv => BytesMovedOnce
  BY BioInvImplies
<1> QED BY <1>1, <1>2, <1>3, PTL DEF BioSpec
-----------------------------------------------------------------------------
(***************************************************************************)
(* BlockMap.  A call of write_map takes zones out of the bitmap, enters    *)
(* them, takes them out of their entries and gives them back one at a      *)
(* time, so the invariant is stated relative to the zones in hand, which   *)
(* are neither free nor entered: none before and after a call.  Each       *)
(* elementary step has a lemma of its own, and a call is a sequence of     *)
(* them.                                                                   *)
(***************************************************************************)

ZoneNo == 0..NrZones     \* a zone number, or NO_ZONE

MapState == [i_zone : [0..Double -> ZoneNo], free : SUBSET Zones,
             block : [Zones -> [Entries -> ZoneNo]]]

\* The indirect blocks, the places that hold zone numbers (0 is the inode),
\* and what is there.
Inds(m) == Indirects(m) \ {NO_ZONE}
IsPlace(m, b, i) == (b = 0 /\ i \in 0..Double) \/ (b \in Inds(m) /\ i \in Entries)
ZoneAt(m, b, i) == IF b = 0 THEN m.i_zone[i] ELSE m.block[b][i]

\* No zone is entered twice.
Once(m) ==
  \A b \in ZoneNo, c \in ZoneNo, i \in Nat, j \in Nat :
    (IsPlace(m, b, i) /\ IsPlace(m, c, j) /\ ZoneAt(m, b, i) = ZoneAt(m, c, j) /\ ZoneAt(m, b, i) # 0)
      => (b = c /\ i = j)

\* The zones that are entered are the ones that are neither free nor in hand.
Entered(m, hand) ==
  /\ \A b \in ZoneNo, i \in Nat : IsPlace(m, b, i) => ZoneAt(m, b, i) \notin m.free \union hand
  /\ \A z \in Zones \ (m.free \union hand) :
       \E b \in ZoneNo, i \in Nat : IsPlace(m, b, i) /\ ZoneAt(m, b, i) = z

Exact(m, hand) ==
  /\ m \in MapState
  /\ hand \subseteq Zones /\ hand \cap m.free = {}
  /\ Once(m)
  /\ Entered(m, hand)

\* No indirect block is empty but for the double one and the ones in x.
NoneEmpty(m, x) == \A z \in Inds(m) \ ({m.i_zone[Double]} \union x) : ~empty_indir(m, z)

\* The inductive invariant.
MapInv == Exact(fmap, {}) /\ NoneEmpty(fmap, {})

\* The blocks of other positions are the same.
SameElsewhere(m, u, loc) == \A q \in Position \ {loc} : read_map(u, q) = read_map(m, q)

LEMMA MapConsts ==
  /\ NrDirect \in Nat /\ NrDirect > 0 /\ NrIndirect \in Nat /\ NrIndirect > 0
  /\ NrZones \in Nat /\ NrZones > 0
  /\ Single \in 0..Double /\ Double \in 0..Double /\ Single # Double
  /\ Double \in Nat /\ 0..Double \subseteq Nat /\ Entries \subseteq Nat
  /\ 0 \in ZoneNo /\ Zones \subseteq ZoneNo /\ 0 \notin Zones /\ \A z \in ZoneNo : z # 0 => z \in Zones
  /\ Zeroes \in [Entries -> ZoneNo] /\ Junk \in [Entries -> ZoneNo]
  /\ \A k \in Entries : Zeroes[k] = 0
  /\ NO_ZONE = 0
BY BlockMapAssumption DEF Single, Double, Entries, ZoneNo, Zones, Zeroes, Junk, NO_ZONE

\* x is y * d + e in one way only.
LEMMA Quotient ==
  ASSUME NEW y \in Nat, y > 0, NEW d \in Int, NEW e \in 0..y - 1,
         NEW f \in Int, NEW g \in 0..y - 1, y * d + e = y * f + g
  PROVE  d = f /\ e = g
<1>1. CASE d > f
  <2>1. d >= f + 1
    BY <1>1
  <2>2. y * d >= y * (f + 1)
    BY <2>1
  <2>3. y * (f + 1) = y * f + y
    OBVIOUS
  <2> QED BY <2>2, <2>3
<1>2. CASE d < f
  <2>1. f >= d + 1
    BY <1>2
  <2>2. y * f >= y * (d + 1)
    BY <2>1
  <2>3. y * (d + 1) = y * d + y
    OBVIOUS
  <2> QED BY <2>2, <2>3
<1>3. CASE d = f
  BY <1>3
<1> QED BY <1>1, <1>2, <1>3

\* Where a position behind the direct zones is found.
LEMMA Behind ==
  ASSUME NEW loc \in Position, loc >= NrDirect
  PROVE  /\ Excess(loc) \in Entries
         /\ IsSingle(loc) => loc = NrDirect + Excess(loc)
         /\ ~IsSingle(loc) => /\ IndEx(loc) \in Entries
                              /\ loc = NrDirect + NrIndirect + NrIndirect * IndEx(loc) + Excess(loc)
<1> DEFINE n == NrIndirect  x == loc - NrDirect
<1>0. n \in Nat /\ n > 0 /\ x \in Nat /\ NrDirect \in Nat /\ loc \in Nat /\ loc = x + NrDirect
      /\ x <= n + n * n - 1
  BY MapConsts DEF Position
<1>1. x \div n \in Nat /\ x % n \in 0..n - 1 /\ x = n * (x \div n) + (x % n)
  BY <1>0
<1>2. Excess(loc) \in Entries /\ Excess(loc) = x % n
  BY <1>1 DEF Excess, Entries
<1>3. ASSUME IsSingle(loc) PROVE loc = NrDirect + Excess(loc)
  <2>1. x < n
    BY <1>3 DEF IsSingle
  <2>2. x = n * 0 + x /\ x \in 0..n - 1
    BY <2>1, <1>0
  <2>3. x % n = x
    <3> HIDE DEF n, x
    <3> QED BY <1>0, <1>1, <2>2, Quotient
  <2> QED BY <2>3, <1>2, <1>0
<1>4. ASSUME ~IsSingle(loc)
      PROVE  /\ IndEx(loc) \in Entries
             /\ loc = NrDirect + NrIndirect + NrIndirect * IndEx(loc) + Excess(loc)
  <2> DEFINE y == x - n
  <2>1. y \in Nat /\ y <= n * n - 1 /\ x = y + n
    BY <1>4, <1>0 DEF IsSingle
  <2>2. y \div n \in Nat /\ y % n \in 0..n - 1 /\ y = n * (y \div n) + (y % n)
    <3> HIDE DEF n, y
    <3> QED BY <1>0, <2>1
  <2>3. n * (y \div n + 1) = n * (y \div n) + n
    <3> HIDE DEF n, y
    <3> QED BY <1>0, <2>2
  <2>4. x = n * (y \div n + 1) + (y % n)
    <3> DEFINE d == y \div n  e == y % n
    <3>1. d \in Nat /\ e \in Nat /\ y = n * d + e /\ n * (d + 1) = n * d + n
      BY <2>2, <2>3
    <3> HIDE DEF n, x, y, d, e
    <3>2. x = n * (d + 1) + e
      BY <1>0, <2>1, <3>1
    <3> QED BY <3>2 DEF d, e
  <2>5. x % n = y % n
    <3> DEFINE d == y \div n + 1  e == y % n  f == x \div n  g == x % n
    <3>1. d \in Int /\ f \in Int /\ e \in 0..n - 1 /\ g \in 0..n - 1 /\ n * d + e = n * f + g
      BY <2>2, <1>1, <2>4
    <3> HIDE DEF n, x, y, d, e, f, g
    <3>2. e = g
      BY <1>0, <3>1, Quotient
    <3> QED BY <3>2 DEF e, g
  <2>6. y \div n < n
    <3> DEFINE d == y \div n
    <3>1. d \in Nat /\ y >= n * d
      <4> DEFINE e == y % n
      <4>1. d \in Nat /\ e \in Nat /\ y = n * d + e
        BY <2>2
      <4> HIDE DEF n, y, d, e
      <4> QED BY <1>0, <2>1, <4>1
    <3> HIDE DEF n, y, d
    <3>2. ASSUME d >= n PROVE FALSE
      <4>1. n * d >= n * n
        BY <3>1, <3>2, <1>0
      <4> QED BY <4>1, <3>1, <2>1, <1>0
    <3>3. d < n
      BY <3>1, <3>2, <1>0
    <3> QED BY <3>3 DEF d
  <2>7. IndEx(loc) = y \div n
    BY <1>0 DEF IndEx
  <2> QED BY <2>2, <2>5, <2>6, <2>7, <1>0, <1>2 DEF Entries
<1> QED BY <1>2, <1>3, <1>4
-----------------------------------------------------------------------------
LEMMA PlaceTypes ==
  ASSUME NEW m \in MapState
  PROVE  /\ Inds(m) \subseteq Zones /\ Inds(m) \subseteq ZoneNo
         /\ \A b, i : IsPlace(m, b, i) => b \in ZoneNo /\ i \in Nat /\ ZoneAt(m, b, i) \in ZoneNo
<1>1. m.i_zone \in [0..Double -> ZoneNo] /\ m.block \in [Zones -> [Entries -> ZoneNo]]
  BY DEF MapState
<1>2. ASSUME NEW z \in Indirects(m), z # 0 PROVE z \in Zones
  <2>1. CASE z = m.i_zone[Single]
    BY <2>1, <1>1, <1>2, MapConsts
  <2>2. CASE m.i_zone[Double] # 0 /\ z = m.i_zone[Double]
    BY <2>2, <1>1, <1>2, MapConsts
  <2>3. ASSUME m.i_zone[Double] # 0, NEW k \in Entries, z = m.block[m.i_zone[Double]][k] PROVE z \in Zones
    <3>1. m.i_zone[Double] \in Zones
      BY <1>1, <2>3, MapConsts
    <3>2. z \in ZoneNo
      BY <1>1, <2>3, <3>1
    <3> QED BY <3>2, <1>2, MapConsts
  <2> QED BY <1>2, <2>1, <2>2, <2>3, MapConsts DEF Indirects
<1>3. Inds(m) \subseteq Zones /\ Inds(m) \subseteq ZoneNo
  BY <1>2, MapConsts DEF Inds
<1>4. ASSUME NEW b, NEW i, IsPlace(m, b, i)
      PROVE  b \in ZoneNo /\ i \in Nat /\ ZoneAt(m, b, i) \in ZoneNo
  <2>1. CASE b = 0 /\ i \in 0..Double
    BY <2>1, <1>1, MapConsts DEF ZoneAt
  <2>2. CASE b \in Inds(m) /\ i \in Entries
    <3>1. b # 0 /\ b \in Zones
      BY <2>2, <1>3, MapConsts
    <3> QED BY <2>2, <3>1, <1>1, MapConsts DEF ZoneAt
  <2> QED BY <1>4, <2>1, <2>2 DEF IsPlace
<1> QED BY <1>3, <1>4

LEMMA UseOnce ==
  ASSUME NEW m \in MapState, Once(m), NEW b, NEW i, NEW c, NEW j,
         IsPlace(m, b, i), IsPlace(m, c, j), ZoneAt(m, b, i) = ZoneAt(m, c, j), ZoneAt(m, b, i) # 0
  PROVE  b = c /\ i = j
<1>1. b \in ZoneNo /\ c \in ZoneNo /\ i \in Nat /\ j \in Nat
  BY PlaceTypes
<1>2. QED BY <1>1 DEF Once

\* A zone in hand is entered in a place that was empty.  If it becomes an
\* indirect block, its own places are empty.
LEMMA Attach ==
  ASSUME NEW m, NEW u \in MapState, NEW hand, Exact(m, hand),
         NEW z \in hand, NEW b, NEW i, IsPlace(m, b, i), ZoneAt(m, b, i) = 0,
         u.free = m.free,
         \A c, j : IsPlace(m, c, j) => IsPlace(u, c, j),
         \A c, j : IsPlace(u, c, j) => IsPlace(m, c, j) \/ (c = z /\ ZoneAt(u, c, j) = 0),
         \A c, j : IsPlace(m, c, j) => ZoneAt(u, c, j) = IF c = b /\ j = i THEN z ELSE ZoneAt(m, c, j)
  PROVE  Exact(u, hand \ {z})
<1>1. /\ hand \subseteq Zones /\ hand \cap m.free = {} /\ Once(m) /\ Entered(m, hand)
      /\ m \in MapState /\ z \in Zones /\ z # 0
  BY MapConsts DEF Exact
<1>2. \A c, j : IsPlace(m, c, j) => c \in ZoneNo /\ j \in Nat
  BY <1>1, PlaceTypes
<1>a. \A c, j : IsPlace(u, c, j) => c \in ZoneNo /\ j \in Nat
  BY PlaceTypes
<1>b. 0 \notin m.free \union hand
  BY <1>1, MapConsts DEF MapState
<1>3. Once(u)
  <2> SUFFICES ASSUME NEW c \in ZoneNo, NEW d \in ZoneNo, NEW j \in Nat, NEW k \in Nat,
                      IsPlace(u, c, j), IsPlace(u, d, k), ZoneAt(u, c, j) = ZoneAt(u, d, k), ZoneAt(u, c, j) # 0
               PROVE  c = d /\ j = k
    BY Zenon DEF Once
  <2>1. IsPlace(m, c, j) /\ IsPlace(m, d, k)
    BY Zenon
  <2>2. /\ ZoneAt(m, c, j) # z /\ ZoneAt(m, d, k) # z
    BY <2>1, <1>1, <1>2 DEF Entered
  <2>3. /\ ZoneAt(u, c, j) = IF c = b /\ j = i THEN z ELSE ZoneAt(m, c, j)
        /\ ZoneAt(u, d, k) = IF d = b /\ k = i THEN z ELSE ZoneAt(m, d, k)
    BY <2>1
  <2>4. (c = d /\ j = k) \/ (ZoneAt(m, c, j) = ZoneAt(m, d, k) /\ ZoneAt(m, c, j) # 0)
    BY <2>2, <2>3
  <2> QED BY <2>1, <2>4, <1>1, UseOnce
<1>4. Entered(u, hand \ {z})
  <2>1. ASSUME NEW c \in ZoneNo, NEW j \in Nat, IsPlace(u, c, j)
        PROVE  ZoneAt(u, c, j) \notin u.free \union (hand \ {z})
    <3>1. CASE IsPlace(m, c, j)
      BY <3>1, <1>1 DEF Entered
    <3>2. CASE ZoneAt(u, c, j) = 0
      BY <3>2, <1>b
    <3> QED BY <2>1, <3>1, <3>2
  <2>2. ASSUME NEW y \in Zones \ (u.free \union (hand \ {z}))
        PROVE  \E c \in ZoneNo, j \in Nat : IsPlace(u, c, j) /\ ZoneAt(u, c, j) = y
    <3>1. CASE y = z
      BY <3>1, <1>2
    <3>2. CASE y # z
      <4>1. PICK c \in ZoneNo, j \in Nat : IsPlace(m, c, j) /\ ZoneAt(m, c, j) = y
        BY <3>2, <2>2, <1>1 DEF Entered
      <4>2. ~(c = b /\ j = i)
        BY <4>1, <2>2, MapConsts
      <4> QED BY <4>1, <4>2
    <3> QED BY <3>1, <3>2
  <2> QED BY <2>1, <2>2 DEF Entered
<1> QED BY <1>1, <1>3, <1>4 DEF Exact

\* A place is emptied and its zone freed, which was no indirect block or one
\* without entries.
LEMMA Detach ==
  ASSUME NEW m, NEW u \in MapState, NEW hand, Exact(m, hand),
         NEW z \in Zones, NEW b, NEW i, IsPlace(m, b, i), ZoneAt(m, b, i) = z,
         u.free = m.free \union {z},
         \A c, j : IsPlace(u, c, j) => IsPlace(m, c, j),
         \A c, j : IsPlace(m, c, j) => IsPlace(u, c, j) \/ (c = z /\ ZoneAt(m, c, j) = 0),
         \A c, j : IsPlace(u, c, j) => ZoneAt(u, c, j) = IF c = b /\ j = i THEN 0 ELSE ZoneAt(m, c, j)
  PROVE  Exact(u, hand)
<1>1. /\ hand \subseteq Zones /\ hand \cap m.free = {} /\ Once(m) /\ Entered(m, hand)
      /\ m \in MapState /\ z # 0
  BY MapConsts DEF Exact
<1>2. \A c, j : IsPlace(m, c, j) => c \in ZoneNo /\ j \in Nat
  BY <1>1, PlaceTypes
<1>a. 0 \notin m.free \union hand \union {z}
  BY <1>1, MapConsts DEF MapState
<1>3. Once(u)
  <2> SUFFICES ASSUME NEW c \in ZoneNo, NEW d \in ZoneNo, NEW j \in Nat, NEW k \in Nat,
                      IsPlace(u, c, j), IsPlace(u, d, k), ZoneAt(u, c, j) = ZoneAt(u, d, k), ZoneAt(u, c, j) # 0
               PROVE  c = d /\ j = k
    BY Zenon DEF Once
  <2>1. IsPlace(m, c, j) /\ IsPlace(m, d, k)
    BY Zenon
  <2>2. ZoneAt(u, c, j) = ZoneAt(m, c, j) /\ ZoneAt(u, d, k) = ZoneAt(m, d, k)
    OBVIOUS
  <2>3. ZoneAt(m, c, j) = ZoneAt(m, d, k) /\ ZoneAt(m, c, j) # 0
    BY <2>2
  <2> QED BY <2>1, <2>3, <1>1, UseOnce
<1>4. z \notin hand \union m.free
  BY <1>1, <1>2 DEF Entered
<1>5. Entered(u, hand)
  <2>1. ASSUME NEW c \in ZoneNo, NEW j \in Nat, IsPlace(u, c, j)
        PROVE  ZoneAt(u, c, j) \notin u.free \union hand
    <3>1. CASE c = b /\ j = i
      BY <3>1, <2>1, <1>a
    <3>2. CASE ~(c = b /\ j = i)
      <4>1. IsPlace(m, c, j) /\ ZoneAt(u, c, j) = ZoneAt(m, c, j)
        BY <2>1, <3>2
      <4>2. ZoneAt(m, c, j) # z
        BY <4>1, <3>2, <1>1, <1>2 DEF Once
      <4> QED BY <4>1, <4>2, <1>1 DEF Entered
    <3> QED BY <3>1, <3>2
  <2>2. ASSUME NEW y \in Zones \ (u.free \union hand)
        PROVE  \E c \in ZoneNo, j \in Nat : IsPlace(u, c, j) /\ ZoneAt(u, c, j) = y
    <3>1. PICK c \in ZoneNo, j \in Nat : IsPlace(m, c, j) /\ ZoneAt(m, c, j) = y
      BY <2>2, <1>1 DEF Entered
    <3>2. y # z /\ y # 0
      BY <2>2, MapConsts
    <3>3. ~(c = b /\ j = i) /\ IsPlace(u, c, j)
      BY <3>1, <3>2
    <3> QED BY <3>1, <3>3
  <2> QED BY <2>1, <2>2 DEF Entered
<1> QED BY <1>1, <1>3, <1>4, <1>5 DEF Exact

\* Zones that are free or in hand are no indirect blocks, and nobody lists them.
LEMMA NotListed ==
  ASSUME NEW m, NEW hand, Exact(m, hand), NEW z \in m.free \union hand
  PROVE  z \notin Inds(m) /\ z \in Zones /\ \A b, i : IsPlace(m, b, i) => ZoneAt(m, b, i) # z
<1>1. m \in MapState /\ Entered(m, hand) /\ z \in Zones /\ z # 0
  BY MapConsts DEF Exact, MapState
<1>2. \A b, i : IsPlace(m, b, i) => ZoneAt(m, b, i) # z
  BY <1>1, PlaceTypes DEF Entered
<1>3. m.i_zone[Single] # z /\ m.i_zone[Double] # z
  BY <1>2, MapConsts DEF IsPlace, ZoneAt
<1>4. ASSUME m.i_zone[Double] # 0, NEW k \in Entries PROVE m.block[m.i_zone[Double]][k] # z
  <2>1. m.i_zone[Double] \in Inds(m)
    BY <1>4, MapConsts DEF Inds, Indirects
  <2> QED BY <2>1, <1>2, <1>4 DEF IsPlace, ZoneAt
<1> QED BY <1>1, <1>2, <1>3, <1>4, MapConsts DEF Inds, Indirects
-----------------------------------------------------------------------------
\* What the helpers change.
LEMMA WrIndir ==
  ASSUME NEW m \in MapState, NEW b \in Zones, NEW i \in Entries, NEW v \in ZoneNo
  PROVE  /\ wr_indir(m, b, i, v) \in MapState
         /\ wr_indir(m, b, i, v).i_zone = m.i_zone /\ wr_indir(m, b, i, v).free = m.free
         /\ \A c \in Zones : \A j \in Entries :
              wr_indir(m, b, i, v).block[c][j] = IF c = b /\ j = i THEN v ELSE m.block[c][j]
         /\ \A c \in Zones \ {b} : wr_indir(m, b, i, v).block[c] = m.block[c]
<1> DEFINE row == [m.block[b] EXCEPT ![i] = v]
           blk == [m.block EXCEPT ![b] = row]
<1>1. m.block \in [Zones -> [Entries -> ZoneNo]]
  BY DEF MapState
<1>2. row \in [Entries -> ZoneNo] /\ \A j \in Entries : row[j] = IF j = i THEN v ELSE m.block[b][j]
  BY <1>1
<1> HIDE DEF row
<1>3. blk \in [Zones -> [Entries -> ZoneNo]] /\ \A c \in Zones : blk[c] = IF c = b THEN row ELSE m.block[c]
  BY <1>1, <1>2
<1>4. wr_indir(m, b, i, v) = [m EXCEPT !.block = blk]
  BY DEF wr_indir, row
<1> HIDE DEF blk
<1>5. /\ wr_indir(m, b, i, v) \in MapState /\ wr_indir(m, b, i, v).block = blk
      /\ wr_indir(m, b, i, v).i_zone = m.i_zone /\ wr_indir(m, b, i, v).free = m.free
  BY <1>4, <1>3 DEF MapState
<1> QED BY <1>5, <1>2, <1>3

LEMMA SetZone ==
  ASSUME NEW m \in MapState, NEW i \in 0..Double, NEW v \in ZoneNo
  PROVE  /\ [m EXCEPT !.i_zone[i] = v] \in MapState
         /\ [m EXCEPT !.i_zone[i] = v].block = m.block /\ [m EXCEPT !.i_zone[i] = v].free = m.free
         /\ \A j \in 0..Double : [m EXCEPT !.i_zone[i] = v].i_zone[j] = IF j = i THEN v ELSE m.i_zone[j]
<1> DEFINE row == [m.i_zone EXCEPT ![i] = v]
<1>1. row \in [0..Double -> ZoneNo] /\ \A j \in 0..Double : row[j] = IF j = i THEN v ELSE m.i_zone[j]
  BY DEF MapState
<1>2. [m EXCEPT !.i_zone[i] = v] = [m EXCEPT !.i_zone = row]
  OBVIOUS
<1> HIDE DEF row
<1> QED BY <1>1, <1>2 DEF MapState

LEMMA FreeZone ==
  ASSUME NEW m \in MapState, NEW z \in Zones
  PROVE  /\ free_zone(m, z) \in MapState
         /\ free_zone(m, z).i_zone = m.i_zone /\ free_zone(m, z).free = m.free \union {z}
         /\ \A c \in Zones \ {z} : free_zone(m, z).block[c] = m.block[c]
<1> DEFINE blk == [m.block EXCEPT ![z] = Junk]
<1>1. blk \in [Zones -> [Entries -> ZoneNo]] /\ \A c \in Zones \ {z} : blk[c] = m.block[c]
  BY MapConsts DEF MapState
<1>2. free_zone(m, z) = [m EXCEPT !.free = m.free \union {z}, !.block = blk]
  BY DEF free_zone
<1> HIDE DEF blk
<1> QED BY <1>1, <1>2 DEF MapState

LEMMA TakeZone ==
  ASSUME NEW m \in MapState, NEW z \in Zones
  PROVE  /\ Taken(m, z) \in MapState
         /\ Taken(m, z).i_zone = m.i_zone /\ Taken(m, z).free = m.free \ {z}
         /\ Taken(m, z).block = m.block
BY DEF Taken, MapState

LEMMA ClearZone ==
  ASSUME NEW m \in MapState, NEW z \in Zones
  PROVE  /\ NewIndirect(m, z) \in MapState
         /\ NewIndirect(m, z).i_zone = m.i_zone /\ NewIndirect(m, z).free = m.free \ {z}
         /\ NewIndirect(m, z).block[z] = Zeroes
         /\ \A c \in Zones \ {z} : NewIndirect(m, z).block[c] = m.block[c]
<1> DEFINE t == Taken(m, z)
           blk == [m.block EXCEPT ![z] = Zeroes]
<1>1. /\ blk \in [Zones -> [Entries -> ZoneNo]] /\ blk[z] = Zeroes
      /\ \A c \in Zones \ {z} : blk[c] = m.block[c]
  BY MapConsts DEF MapState
<1>2. t \in MapState /\ t.i_zone = m.i_zone /\ t.free = m.free \ {z} /\ t.block = m.block
  BY TakeZone
<1>3. NewIndirect(m, z) = [t EXCEPT !.block = blk]
  BY <1>2 DEF NewIndirect
<1> HIDE DEF blk, t
<1> QED BY <1>1, <1>2, <1>3 DEF MapState

LEMMA IndsAre ==
  ASSUME NEW m
  PROVE  \A z : z \in Inds(m) <=>
           /\ z # 0
           /\ \/ z = m.i_zone[Single]
              \/ /\ m.i_zone[Double] # 0
                 /\ z = m.i_zone[Double] \/ \E k \in Entries : z = m.block[m.i_zone[Double]][k]
BY MapConsts DEF Inds, Indirects

LEMMA PlacesAre ==
  ASSUME NEW m \in MapState
  PROVE  /\ \A i \in 0..Double : IsPlace(m, 0, i) /\ ZoneAt(m, 0, i) = m.i_zone[i]
         /\ \A b \in Inds(m), i \in Entries : IsPlace(m, b, i) /\ ZoneAt(m, b, i) = m.block[b][i]
         /\ \A b, i : IsPlace(m, b, i) => b \in Zones \union {0}
BY PlaceTypes, MapConsts DEF IsPlace, ZoneAt, Inds
-----------------------------------------------------------------------------
\* Where the indirect block of a position is listed.
Holder(m, loc) == IF IsSingle(loc) THEN 0 ELSE m.i_zone[Double]
Slotted(loc) == IF IsSingle(loc) THEN Single ELSE IndEx(loc)
Reached(m, loc) == IsSingle(loc) \/ m.i_zone[Double] # 0

LEMMA SinglePlace ==
  ASSUME NEW m \in MapState, NEW loc \in Position, loc >= NrDirect, Reached(m, loc)
  PROVE  /\ IsPlace(m, Holder(m, loc), Slotted(loc))
         /\ ZoneAt(m, Holder(m, loc), Slotted(loc)) = SingleOf(m, loc)
         /\ SingleOf(m, loc) \in ZoneNo
         /\ SingleOf(m, loc) # 0 => SingleOf(m, loc) \in Inds(m)
<1>1. CASE IsSingle(loc)
  <2>1. SingleOf(m, loc) = m.i_zone[Single]
    BY <1>1 DEF SingleOf
  <2> QED BY <1>1, <2>1, PlacesAre, PlaceTypes, IndsAre, MapConsts DEF Holder, Slotted
<1>2. CASE ~IsSingle(loc)
  <2>1. m.i_zone[Double] # 0 /\ m.i_zone[Double] \in Inds(m) /\ IndEx(loc) \in Entries
    BY <1>2, IndsAre, Behind DEF Reached
  <2>2. SingleOf(m, loc) = m.block[m.i_zone[Double]][IndEx(loc)]
    BY <1>2, <2>1, MapConsts DEF SingleOf, rd_indir
  <2>3. IsPlace(m, Holder(m, loc), Slotted(loc)) /\ ZoneAt(m, Holder(m, loc), Slotted(loc)) = SingleOf(m, loc)
    BY <1>2, <2>1, <2>2, PlacesAre DEF Holder, Slotted
  <2> QED BY <2>1, <2>2, <2>3, PlaceTypes, IndsAre
<1> QED BY <1>1, <1>2

LEMMA NotReached ==
  ASSUME NEW m, NEW loc, ~Reached(m, loc)
  PROVE  SingleOf(m, loc) = 0
BY MapConsts DEF Reached, SingleOf

\* It is not the double indirect block, and no other position has the same
\* entry of it.
LEMMA SingleDiffers ==
  ASSUME NEW m, NEW hand, Exact(m, hand), NEW loc \in Position, loc >= NrDirect, SingleOf(m, loc) # 0
  PROVE  /\ SingleOf(m, loc) \in Inds(m) /\ SingleOf(m, loc) \in Zones
         /\ SingleOf(m, loc) # m.i_zone[Double]
         /\ Holder(m, loc) # SingleOf(m, loc)
         /\ \A q \in Position : (q >= NrDirect /\ SingleOf(m, q) = SingleOf(m, loc))
              => /\ Holder(m, q) = Holder(m, loc) /\ Slotted(q) = Slotted(loc)
                 /\ Excess(q) = Excess(loc) => q = loc
<1>1. m \in MapState /\ Once(m) /\ Reached(m, loc)
  BY NotReached DEF Exact
<1> DEFINE s == SingleOf(m, loc)  h == Holder(m, loc)  k == Slotted(loc)
<1>2. IsPlace(m, h, k) /\ ZoneAt(m, h, k) = s /\ s \in Inds(m) /\ s \in Zones
  BY <1>1, SinglePlace, PlaceTypes
<1>3. IsPlace(m, 0, Double) /\ ZoneAt(m, 0, Double) = m.i_zone[Double]
  BY <1>1, PlacesAre, MapConsts
<1>4. ~(h = 0 /\ k = Double)
  <2>1. CASE IsSingle(loc)
    BY <2>1, MapConsts DEF Slotted
  <2>2. CASE ~IsSingle(loc)
    BY <2>2, <1>1 DEF Holder, Reached
  <2> QED BY <2>1, <2>2
<1>5. s # m.i_zone[Double]
  <2> HIDE DEF s, h, k
  <2>1. s # 0
    BY DEF s
  <2> QED BY <1>1, <1>2, <1>3, <1>4, <2>1, UseOnce
<1>6. h # s
  BY <1>5, <1>2, MapConsts DEF Holder
<1>7. ASSUME NEW q \in Position, q >= NrDirect, SingleOf(m, q) = s
      PROVE  /\ Holder(m, q) = h /\ Slotted(q) = k
             /\ Excess(q) = Excess(loc) => q = loc
  <2>1. Reached(m, q)
    BY <1>7, NotReached
  <2>2. IsPlace(m, Holder(m, q), Slotted(q)) /\ ZoneAt(m, Holder(m, q), Slotted(q)) = s
    BY <1>1, <1>7, <2>1, SinglePlace
  <2>3. Holder(m, q) = h /\ Slotted(q) = k
    <3> HIDE DEF h, k
    <3> QED BY <1>1, <1>2, <2>2, UseOnce
  <2>4. IsSingle(q) <=> IsSingle(loc)
    BY <2>3, <2>1, <1>1 DEF Holder, Reached
  <2>5. ASSUME Excess(q) = Excess(loc) PROVE q = loc
    <3>1. CASE IsSingle(loc)
      BY <3>1, <2>4, <2>5, <1>7, Behind
    <3>2. CASE ~IsSingle(loc)
      <4>1. IndEx(q) = IndEx(loc)
        BY <3>2, <2>4, <2>3 DEF Slotted
      <4> QED BY <3>2, <4>1, <2>4, <2>5, <1>7, Behind
    <3> QED BY <3>1, <3>2
  <2> QED BY <2>3, <2>5
<1> QED BY <1>2, <1>5, <1>6, <1>7
-----------------------------------------------------------------------------
\* u differs from m in what place (b, i) holds, which is v, and in blocks
\* that are not indirect.
Changed(m, u, b, i, v) ==
  \A c, j : IsPlace(m, c, j) => ZoneAt(u, c, j) = IF c = b /\ j = i THEN v ELSE ZoneAt(m, c, j)

\* A place for data.
IsLeaf(m, b, i) ==
  \/ b = 0 /\ i \in 0..NrDirect - 1
  \/ b \in Inds(m) /\ b # m.i_zone[Double] /\ i \in Entries

LEMMA LeafIndirects ==
  ASSUME NEW m \in MapState, NEW u \in MapState, NEW b, NEW i, NEW v,
         IsLeaf(m, b, i), Changed(m, u, b, i, v)
  PROVE  /\ u.i_zone[Single] = m.i_zone[Single] /\ u.i_zone[Double] = m.i_zone[Double]
         /\ m.i_zone[Double] # 0 =>
              \A k \in Entries : u.block[m.i_zone[Double]][k] = m.block[m.i_zone[Double]][k]
         /\ Inds(u) = Inds(m)
         /\ IsPlace(m, b, i)
         /\ \A c, j : IsPlace(u, c, j) <=> IsPlace(m, c, j)
<1>1. u.i_zone[Single] = m.i_zone[Single] /\ u.i_zone[Double] = m.i_zone[Double]
  <2>1. ~(b = 0 /\ (i = Single \/ i = Double))
    BY MapConsts, PlaceTypes DEF IsLeaf, Single, Double
  <2>2. /\ IsPlace(m, 0, Single) /\ IsPlace(m, 0, Double)
        /\ ZoneAt(m, 0, Single) = m.i_zone[Single] /\ ZoneAt(m, 0, Double) = m.i_zone[Double]
        /\ ZoneAt(u, 0, Single) = u.i_zone[Single] /\ ZoneAt(u, 0, Double) = u.i_zone[Double]
    BY PlacesAre, MapConsts
  <2> QED BY <2>1, <2>2, Zenon DEF Changed
<1>2. ASSUME m.i_zone[Double] # 0, NEW k \in Entries
      PROVE  u.block[m.i_zone[Double]][k] = m.block[m.i_zone[Double]][k]
  <2>1. m.i_zone[Double] \in Inds(m) /\ m.i_zone[Double] # b
    BY <1>2, IndsAre DEF IsLeaf
  <2>2. IsPlace(m, m.i_zone[Double], k)
    BY <2>1, PlacesAre
  <2>3. ZoneAt(u, m.i_zone[Double], k) = ZoneAt(m, m.i_zone[Double], k)
    BY <2>1, <2>2 DEF Changed
  <2> QED BY <2>3, <1>2 DEF ZoneAt
<1>3. Inds(u) = Inds(m)
  <2>1. \A z : z \in Inds(u) <=> z \in Inds(m)
    BY <1>1, <1>2, IndsAre
  <2> QED BY <2>1
<1>4. IsPlace(m, b, i)
  BY MapConsts DEF IsLeaf, IsPlace, Double
<1> QED BY <1>1, <1>2, <1>3, <1>4 DEF IsPlace

\* A leaf that is changed is seen at one position only.
LEMMA LeafSame ==
  ASSUME NEW m, NEW hand, Exact(m, hand), NEW u \in MapState, NEW b, NEW i, NEW v,
         IsLeaf(m, b, i), Changed(m, u, b, i, v), NEW loc \in Position,
         IF loc < NrDirect THEN b = 0 /\ i = loc
         ELSE SingleOf(m, loc) # 0 /\ b = SingleOf(m, loc) /\ i = Excess(loc)
  PROVE  /\ SameElsewhere(m, u, loc)
         /\ \A q \in Position : q >= NrDirect => SingleOf(u, q) = SingleOf(m, q)
<1>0. m \in MapState /\ Position \subseteq Nat /\ NrDirect \in Nat
  BY MapConsts DEF Exact, Position
<1>1. /\ u.i_zone[Single] = m.i_zone[Single] /\ u.i_zone[Double] = m.i_zone[Double]
      /\ m.i_zone[Double] # 0 =>
           \A k \in Entries : u.block[m.i_zone[Double]][k] = m.block[m.i_zone[Double]][k]
      /\ Inds(u) = Inds(m)
  BY <1>0, LeafIndirects
<1>2. ASSUME NEW q \in Position, q >= NrDirect PROVE SingleOf(u, q) = SingleOf(m, q)
  BY <1>1, <1>2, Behind, MapConsts DEF SingleOf, rd_indir
<1>3. ASSUME NEW q \in Position \ {loc} PROVE read_map(u, q) = read_map(m, q)
  <2>1. CASE q < NrDirect
    <3>1. IsPlace(m, 0, q) /\ ZoneAt(m, 0, q) = m.i_zone[q] /\ ZoneAt(u, 0, q) = u.i_zone[q]
      BY <2>1, <1>0, PlacesAre, MapConsts DEF Double
    <3>2. ~(0 = b /\ q = i)
      <4>1. CASE loc < NrDirect
        BY <4>1
      <4>2. CASE ~(loc < NrDirect)
        BY <4>2, <1>0, SingleDiffers, MapConsts
      <4> QED BY <4>1, <4>2
    <3> QED BY <2>1, <3>1, <3>2 DEF Changed, read_map
  <2>2. CASE q >= NrDirect /\ SingleOf(m, q) = 0
    BY <2>2, <1>0, <1>2, MapConsts DEF read_map
  <2>3. CASE q >= NrDirect /\ SingleOf(m, q) # 0
    <3>1. SingleOf(m, q) \in Inds(m) /\ Excess(q) \in Entries /\ SingleOf(m, q) \in Zones
      BY <2>3, SingleDiffers, Behind
    <3>2. /\ IsPlace(m, SingleOf(m, q), Excess(q))
          /\ ZoneAt(m, SingleOf(m, q), Excess(q)) = m.block[SingleOf(m, q)][Excess(q)]
          /\ ZoneAt(u, SingleOf(m, q), Excess(q)) = u.block[SingleOf(m, q)][Excess(q)]
      BY <3>1, <1>0, <1>1, PlacesAre
    <3>3. ~(SingleOf(m, q) = b /\ Excess(q) = i)
      <4>1. CASE loc < NrDirect
        BY <4>1, <3>1, MapConsts
      <4>2. CASE ~(loc < NrDirect)
        BY <4>2, <2>3, <1>0, SingleDiffers
      <4> QED BY <4>1, <4>2
    <3>4. u.block[SingleOf(m, q)][Excess(q)] = m.block[SingleOf(m, q)][Excess(q)]
      BY <3>2, <3>3, Zenon DEF Changed
    <3> QED BY <2>3, <3>4, <1>2, <1>0, MapConsts DEF read_map, rd_indir
  <2> QED BY <2>1, <2>2, <2>3, <1>0
<1> QED BY <1>2, <1>3 DEF SameElsewhere

\* A zone in hand is entered for data.
LEMMA EnterLeaf ==
  ASSUME NEW m, NEW hand, Exact(m, hand), NEW u \in MapState, NEW b, NEW i, NEW z \in hand,
         IsLeaf(m, b, i), ZoneAt(m, b, i) = 0, Changed(m, u, b, i, z), u.free = m.free
  PROVE  Exact(u, hand \ {z})
<1>1. m \in MapState
  BY DEF Exact
<1>2. IsPlace(m, b, i) /\ \A c, j : IsPlace(u, c, j) <=> IsPlace(m, c, j)
  BY <1>1, LeafIndirects
<1>3. \A c, j : IsPlace(m, c, j) => ZoneAt(u, c, j) = IF c = b /\ j = i THEN z ELSE ZoneAt(m, c, j)
  BY DEF Changed
<1> QED BY <1>2, <1>3, Attach

\* The zone of a leaf is freed.
LEMMA LeaveLeaf ==
  ASSUME NEW m, NEW hand, Exact(m, hand), NEW u \in MapState, NEW b, NEW i, NEW z \in Zones,
         IsLeaf(m, b, i), ZoneAt(m, b, i) = z, Changed(m, u, b, i, 0), u.free = m.free \union {z}
  PROVE  Exact(u, hand)
<1>1. m \in MapState
  BY DEF Exact
<1>2. IsPlace(m, b, i) /\ \A c, j : IsPlace(u, c, j) <=> IsPlace(m, c, j)
  BY <1>1, LeafIndirects
<1>3. \A c, j : IsPlace(u, c, j) => ZoneAt(u, c, j) = IF c = b /\ j = i THEN 0 ELSE ZoneAt(m, c, j)
  BY <1>2 DEF Changed
<1> QED BY <1>2, <1>3, Detach

\* What a leaf lists is data, no indirect block.
LEMMA LeafIsData ==
  ASSUME NEW m, NEW hand, Exact(m, hand), NEW b, NEW i, IsLeaf(m, b, i), ZoneAt(m, b, i) # 0
  PROVE  ZoneAt(m, b, i) \notin Inds(m) /\ ZoneAt(m, b, i) \in Zones
<1>1. m \in MapState /\ Once(m)
  BY DEF Exact
<1>2. IsPlace(m, b, i)
  BY MapConsts DEF IsLeaf, IsPlace, Double
<1>3. ZoneAt(m, b, i) \in Zones
  BY <1>1, <1>2, PlaceTypes, MapConsts
<1>4. ~(b = 0 /\ (i = Single \/ i = Double))
  BY <1>1, MapConsts, PlaceTypes DEF IsLeaf, Single, Double
<1>5. /\ IsPlace(m, 0, Single) /\ IsPlace(m, 0, Double)
      /\ ZoneAt(m, 0, Single) = m.i_zone[Single] /\ ZoneAt(m, 0, Double) = m.i_zone[Double]
  BY <1>1, PlacesAre, MapConsts
<1>6. ZoneAt(m, b, i) # m.i_zone[Single] /\ ZoneAt(m, b, i) # m.i_zone[Double]
  BY <1>1, <1>2, <1>4, <1>5, UseOnce
<1>7. ASSUME m.i_zone[Double] # 0, NEW k \in Entries PROVE ZoneAt(m, b, i) # m.block[m.i_zone[Double]][k]
  <2>1. m.i_zone[Double] \in Inds(m) /\ b # m.i_zone[Double]
    BY <1>7, IndsAre DEF IsLeaf
  <2>2. /\ IsPlace(m, m.i_zone[Double], k)
        /\ ZoneAt(m, m.i_zone[Double], k) = m.block[m.i_zone[Double]][k]
    BY <1>1, <2>1, PlacesAre
  <2> QED BY <2>1, <2>2, <1>1, <1>2, UseOnce
<1> QED BY <1>3, <1>6, <1>7, IndsAre
-----------------------------------------------------------------------------
Same(m, u) == \A q \in Position : read_map(u, q) = read_map(m, q)

\* What happens to the bitmap and to blocks that are not indirect is not seen.
LEMMA Invisible ==
  ASSUME NEW m \in MapState, NEW u \in MapState, u.i_zone = m.i_zone,
         \A c \in Inds(m) : u.block[c] = m.block[c]
  PROVE  /\ Inds(u) = Inds(m)
         /\ \A c, j : IsPlace(u, c, j) <=> IsPlace(m, c, j)
         /\ \A c, j : IsPlace(m, c, j) => ZoneAt(u, c, j) = ZoneAt(m, c, j)
         /\ Same(m, u)
         /\ \A q \in Position : q >= NrDirect => SingleOf(u, q) = SingleOf(m, q)
         /\ \A x : NoneEmpty(m, x) => NoneEmpty(u, x)
<1>1. m.i_zone[Double] # 0 => m.i_zone[Double] \in Inds(m)
  BY IndsAre
<1>2. Inds(u) = Inds(m)
  <2>1. \A z : z \in Inds(u) <=> z \in Inds(m)
    BY <1>1, IndsAre
  <2> QED BY <2>1
<1>3. \A c, j : IsPlace(u, c, j) <=> IsPlace(m, c, j)
  BY <1>2 DEF IsPlace
<1>4. \A c, j : IsPlace(m, c, j) => ZoneAt(u, c, j) = ZoneAt(m, c, j)
  BY DEF IsPlace, ZoneAt
<1>5. ASSUME NEW q \in Position, q >= NrDirect PROVE SingleOf(u, q) = SingleOf(m, q)
  BY <1>1, MapConsts DEF SingleOf, rd_indir
<1>6. ASSUME NEW q \in Position PROVE read_map(u, q) = read_map(m, q)
  <2>0. q \in Nat /\ NrDirect \in Nat
    BY MapConsts DEF Position
  <2>1. CASE q < NrDirect
    BY <2>1 DEF read_map
  <2>2. CASE q >= NrDirect /\ SingleOf(m, q) = 0
    BY <2>2, <2>0, <1>5, MapConsts DEF read_map
  <2>3. CASE q >= NrDirect /\ SingleOf(m, q) # 0
    <3>1. SingleOf(m, q) \in Inds(m)
      BY <2>3, SinglePlace, NotReached
    <3> QED BY <2>3, <2>0, <3>1, <1>5, MapConsts DEF read_map, rd_indir
  <2> QED BY <2>0, <2>1, <2>2, <2>3
<1>7. \A x : NoneEmpty(m, x) => NoneEmpty(u, x)
  BY <1>2 DEF NoneEmpty, empty_indir
<1> QED BY <1>2, <1>3, <1>4, <1>5, <1>6, <1>7 DEF Same

\* A zone is taken into the hand, and maybe cleared.
LEMMA TakeStep ==
  ASSUME NEW m, NEW hand, Exact(m, hand), NEW z \in m.free,
         NEW u \in MapState, u.i_zone = m.i_zone, u.free = m.free \ {z},
         \A c \in Zones \ {z} : u.block[c] = m.block[c]
  PROVE  /\ Exact(u, hand \union {z}) /\ Inds(u) = Inds(m) /\ z \notin Inds(m) /\ z \in Zones
         /\ Same(m, u) /\ \A x : NoneEmpty(m, x) => NoneEmpty(u, x)
<1>1. /\ m \in MapState /\ Once(m) /\ Entered(m, hand) /\ hand \subseteq Zones
      /\ hand \cap m.free = {} /\ z \in Zones /\ z \notin Inds(m)
  BY NotListed DEF Exact
<1>2. \A c \in Inds(m) : u.block[c] = m.block[c]
  BY <1>1, PlaceTypes
<1>3. /\ Inds(u) = Inds(m) /\ \A c, j : IsPlace(u, c, j) <=> IsPlace(m, c, j)
      /\ \A c, j : IsPlace(m, c, j) => ZoneAt(u, c, j) = ZoneAt(m, c, j)
      /\ Same(m, u) /\ \A x : NoneEmpty(m, x) => NoneEmpty(u, x)
  BY <1>1, <1>2, Invisible
<1>4. Once(u)
  BY <1>1, <1>3, UseOnce DEF Once
<1>5. Entered(u, hand \union {z})
  <2>1. u.free \union (hand \union {z}) = m.free \union hand
    OBVIOUS
  <2> QED BY <1>1, <1>3, <2>1 DEF Entered
<1> QED BY <1>1, <1>3, <1>4, <1>5 DEF Exact

\* A zone in hand is given back.
LEMMA GiveStep ==
  ASSUME NEW m, NEW hand, Exact(m, hand), NEW z \in hand
  PROVE  /\ Exact(free_zone(m, z), hand \ {z}) /\ Same(m, free_zone(m, z))
         /\ \A x : NoneEmpty(m, x) => NoneEmpty(free_zone(m, z), x)
<1> DEFINE u == free_zone(m, z)
<1>1. /\ m \in MapState /\ Once(m) /\ Entered(m, hand) /\ hand \subseteq Zones
      /\ hand \cap m.free = {} /\ z \in Zones /\ z \notin Inds(m)
  BY NotListed DEF Exact
<1>a. /\ u \in MapState /\ u.i_zone = m.i_zone /\ u.free = m.free \union {z}
      /\ \A c \in Zones \ {z} : u.block[c] = m.block[c]
  BY <1>1, FreeZone
<1> HIDE DEF u
<1>2. \A c \in Inds(m) : u.block[c] = m.block[c]
  BY <1>1, <1>a, PlaceTypes
<1>3. /\ Inds(u) = Inds(m) /\ \A c, j : IsPlace(u, c, j) <=> IsPlace(m, c, j)
      /\ \A c, j : IsPlace(m, c, j) => ZoneAt(u, c, j) = ZoneAt(m, c, j)
      /\ Same(m, u) /\ \A x : NoneEmpty(m, x) => NoneEmpty(u, x)
  BY <1>1, <1>a, <1>2, Invisible
<1>4. Once(u)
  BY <1>1, <1>3, UseOnce DEF Once
<1>5. Entered(u, hand \ {z})
  <2>1. u.free \union (hand \ {z}) = m.free \union hand
    BY <1>a
  <2> QED BY <1>1, <1>3, <2>1 DEF Entered
<1>6. Exact(u, hand \ {z})
  BY <1>1, <1>a, <1>4, <1>5 DEF Exact
<1> QED BY <1>3, <1>6 DEF u

\* The double indirect block is created.
NewDouble(m, z) == [NewIndirect(m, z) EXCEPT !.i_zone[Double] = z]

LEMMA NewDoubleStep ==
  ASSUME NEW m, NEW hand, Exact(m, hand), NEW z \in m.free, m.i_zone[Double] = 0
  PROVE  /\ Exact(NewDouble(m, z), hand) /\ Same(m, NewDouble(m, z))
         /\ NewDouble(m, z).i_zone[Double] = z /\ z \in Zones
         /\ NewDouble(m, z).free = m.free \ {z}
         /\ \A x : NoneEmpty(m, x) => NoneEmpty(NewDouble(m, z), x)
<1> DEFINE n == NewIndirect(m, z)
           u == NewDouble(m, z)
<1>0. m \in MapState /\ z \in Zones /\ hand \cap m.free = {}
  BY NotListed DEF Exact
<1>1. /\ n \in MapState /\ n.i_zone = m.i_zone /\ n.free = m.free \ {z} /\ n.block[z] = Zeroes
      /\ \A c \in Zones \ {z} : n.block[c] = m.block[c]
  BY <1>0, ClearZone
<1> HIDE DEF n
<1>2. /\ Exact(n, hand \union {z}) /\ Inds(n) = Inds(m) /\ z \notin Inds(m)
      /\ Same(m, n) /\ \A x : NoneEmpty(m, x) => NoneEmpty(n, x)
  BY <1>1, TakeStep
<1>3. /\ u \in MapState /\ u.block = n.block /\ u.free = n.free
      /\ \A j \in 0..Double : u.i_zone[j] = IF j = Double THEN z ELSE n.i_zone[j]
  BY <1>0, <1>1, SetZone, MapConsts DEF n, NewDouble
<1> HIDE DEF u
<1>4. u.i_zone[Double] = z /\ u.i_zone[Single] = m.i_zone[Single] /\ u.block[z] = Zeroes
  BY <1>1, <1>3, MapConsts
<1>5. Inds(u) = Inds(n) \union {z}
  <2>1. z # 0
    BY <1>0, MapConsts
  <2>2. \A k \in Entries : u.block[z][k] = 0
    BY <1>4, MapConsts
  <2>3. ASSUME NEW y PROVE y \in Inds(u) <=> y # 0 /\ (y = m.i_zone[Single] \/ y = z)
    <3>1. y \in Inds(u) <=> /\ y # 0
                           /\ \/ y = m.i_zone[Single]
                              \/ y = z \/ \E k \in Entries : y = u.block[z][k]
      BY <1>4, <2>1, IndsAre
    <3> QED BY <3>1, <2>2
  <2>4. \A y : y \in Inds(n) <=> y # 0 /\ y = m.i_zone[Single]
    BY <1>1, IndsAre
  <2> QED BY <2>1, <2>3, <2>4
<1>6. Exact(u, (hand \union {z}) \ {z})
  <2>1. IsPlace(n, 0, Double) /\ ZoneAt(n, 0, Double) = 0
    BY <1>1, PlacesAre, MapConsts
  <2>2. \A c, j : IsPlace(n, c, j) => IsPlace(u, c, j)
    BY <1>5 DEF IsPlace
  <2>3. \A c, j : IsPlace(u, c, j) => IsPlace(n, c, j) \/ (c = z /\ ZoneAt(u, c, j) = 0)
    BY <1>0, <1>4, <1>5, MapConsts DEF IsPlace, ZoneAt
  <2>4. \A c, j : IsPlace(n, c, j) => ZoneAt(u, c, j) = IF c = 0 /\ j = Double THEN z ELSE ZoneAt(n, c, j)
    BY <1>1, <1>2, <1>3, PlaceTypes, MapConsts DEF IsPlace, ZoneAt
  <2> DEFINE h == hand \union {z}
  <2>5. z \in h /\ Exact(n, h)
    BY <1>2
  <2> HIDE DEF h
  <2>6. Exact(u, h \ {z})
    BY <1>3, <2>1, <2>2, <2>3, <2>4, <2>5, Attach
  <2> QED BY <2>6 DEF h
<1>7. (hand \union {z}) \ {z} = hand
  BY <1>0
<1>8. Same(n, u)
  <2> SUFFICES ASSUME NEW q \in Position PROVE read_map(u, q) = read_map(n, q)
    BY DEF Same
  <2>0. q \in Nat /\ NrDirect \in Nat
    BY MapConsts DEF Position
  <2>1. CASE q < NrDirect
    <3>1. q \in 0..Double /\ q # Double
      BY <2>0, <2>1 DEF Double
    <3> QED BY <2>1, <3>1, <1>3 DEF read_map
  <2>2. CASE q >= NrDirect /\ IsSingle(q)
    <3>1. SingleOf(u, q) = SingleOf(n, q) /\ SingleOf(n, q) = m.i_zone[Single]
      BY <2>2, <1>1, <1>4 DEF SingleOf
    <3> QED BY <2>0, <2>2, <3>1, <1>3 DEF read_map, rd_indir
  <2>3. CASE q >= NrDirect /\ ~IsSingle(q)
    <3>1. SingleOf(n, q) = 0
      BY <2>3, <1>1, MapConsts DEF SingleOf
    <3>2. SingleOf(u, q) = 0
      BY <2>3, <1>4, Behind, MapConsts DEF SingleOf, rd_indir
    <3> QED BY <2>0, <2>3, <3>1, <3>2, MapConsts DEF read_map
  <2> QED BY <2>0, <2>1, <2>2, <2>3
<1>9. \A x : NoneEmpty(m, x) => NoneEmpty(u, x)
  <2> SUFFICES ASSUME NEW x, NoneEmpty(n, x) PROVE NoneEmpty(u, x)
    BY <1>2
  <2>1. \A c \in Inds(n) : c # n.i_zone[Double]
    BY <1>1, IndsAre
  <2> QED BY <1>3, <1>4, <1>5, <2>1 DEF NoneEmpty, empty_indir
<1>10. Same(m, u)
  BY <1>2, <1>8 DEF Same
<1> QED BY <1>0, <1>1, <1>2, <1>3, <1>4, <1>6, <1>7, <1>9, <1>10 DEF u
-----------------------------------------------------------------------------
\* Another indirect block, v, is listed for a position.
LEMMA SetSingleFacts ==
  ASSUME NEW m \in MapState, NEW loc \in Position, loc >= NrDirect, Reached(m, loc), NEW v \in ZoneNo
  PROVE  /\ SetSingle(m, loc, v) \in MapState /\ SetSingle(m, loc, v).free = m.free
         /\ SetSingle(m, loc, v).i_zone[Double] = m.i_zone[Double]
         /\ \A q \in 0..NrDirect - 1 : SetSingle(m, loc, v).i_zone[q] = m.i_zone[q]
         /\ \A c \in Zones : c # Holder(m, loc) => SetSingle(m, loc, v).block[c] = m.block[c]
         /\ Changed(m, SetSingle(m, loc, v), Holder(m, loc), Slotted(loc), v)
<1> DEFINE u == SetSingle(m, loc, v)
<1>1. CASE IsSingle(loc)
  <2>1. u = [m EXCEPT !.i_zone[Single] = v]
    BY <1>1 DEF SetSingle
  <2>2. /\ u \in MapState /\ u.block = m.block /\ u.free = m.free
        /\ \A j \in 0..Double : u.i_zone[j] = IF j = Single THEN v ELSE m.i_zone[j]
    BY <2>1, SetZone, MapConsts
  <2> HIDE DEF u
  <2>3. Holder(m, loc) = 0 /\ Slotted(loc) = Single
    BY <1>1 DEF Holder, Slotted
  <2>4. Changed(m, u, 0, Single, v)
    BY <2>2, PlaceTypes, MapConsts DEF Changed, IsPlace, ZoneAt
  <2>5. \A q \in 0..NrDirect - 1 : u.i_zone[q] = m.i_zone[q]
    BY <2>2, MapConsts DEF Single, Double
  <2>6. u.i_zone[Double] = m.i_zone[Double]
    BY <2>2, MapConsts
  <2> QED BY <2>2, <2>3, <2>4, <2>5, <2>6 DEF u
<1>2. CASE ~IsSingle(loc)
  <2> DEFINE z2 == m.i_zone[Double]  k == IndEx(loc)
  <2>0. z2 \in Zones /\ z2 # 0 /\ k \in Entries
    BY <1>2, Behind, IndsAre, PlaceTypes DEF Reached
  <2>1. u = wr_indir(m, z2, k, v)
    BY <1>2 DEF SetSingle
  <2>2. /\ u \in MapState /\ u.i_zone = m.i_zone /\ u.free = m.free
        /\ \A c \in Zones : \A j \in Entries :
             u.block[c][j] = IF c = z2 /\ j = k THEN v ELSE m.block[c][j]
        /\ \A c \in Zones \ {z2} : u.block[c] = m.block[c]
    BY <2>0, <2>1, WrIndir
  <2>3. Holder(m, loc) = z2 /\ Slotted(loc) = k
    BY <1>2 DEF Holder, Slotted
  <2> HIDE DEF u, z2, k
  <2>4. Changed(m, u, z2, k, v)
    BY <2>0, <2>2, PlaceTypes, MapConsts DEF Changed, IsPlace, ZoneAt
  <2> QED BY <2>2, <2>3, <2>4 DEF u
<1> QED BY <1>1, <1>2

\* What follows from it, for a table u that is m but for the indirect block
\* of pos.
Relisted(m, u, loc, v) ==
  /\ \A q \in Position : q >= NrDirect =>
       SingleOf(u, q) = IF /\ Reached(m, q) /\ Holder(m, q) = Holder(m, loc)
                           /\ Slotted(q) = Slotted(loc)
                        THEN v ELSE SingleOf(m, q)
  /\ \A y : y \in Inds(u) => y \in Inds(m) \/ (y = v /\ v # 0)
  /\ \A y : y \in Inds(m) => y \in Inds(u) \/ y = SingleOf(m, loc)
  /\ v # 0 => v \in Inds(u)
  /\ \A q \in 0..NrDirect - 1 : u.i_zone[q] = m.i_zone[q]
  /\ u.i_zone[Double] = m.i_zone[Double]
  /\ v = 0 => \A y \in Inds(u) :
       \E b, i : IsPlace(m, b, i) /\ ZoneAt(m, b, i) = y /\ ~(b = Holder(m, loc) /\ i = Slotted(loc))

LEMMA RelistedHolds ==
  ASSUME NEW m \in MapState, NEW u \in MapState, NEW loc \in Position, loc >= NrDirect,
         Reached(m, loc), NEW v \in ZoneNo,
         Changed(m, u, Holder(m, loc), Slotted(loc), v), u.i_zone[Double] = m.i_zone[Double],
         \A q \in 0..NrDirect - 1 : u.i_zone[q] = m.i_zone[q]
  PROVE  Relisted(m, u, loc, v)
<1> DEFINE h == Holder(m, loc)  k == Slotted(loc)  z2 == m.i_zone[Double]
<1>1. /\ u.i_zone[Single] = IF h = 0 /\ k = Single THEN v ELSE m.i_zone[Single]
      /\ IsPlace(m, 0, Single) /\ ZoneAt(m, 0, Single) = m.i_zone[Single]
  <2>1. /\ IsPlace(m, 0, Single) /\ ZoneAt(m, 0, Single) = m.i_zone[Single]
        /\ ZoneAt(u, 0, Single) = u.i_zone[Single]
    BY PlacesAre, MapConsts
  <2> HIDE DEF h, k
  <2>2. ZoneAt(u, 0, Single) = IF 0 = h /\ Single = k THEN v ELSE ZoneAt(m, 0, Single)
    BY <2>1 DEF Changed, h, k
  <2> QED BY <2>1, <2>2
<1>2. /\ IsPlace(m, 0, Double) /\ ZoneAt(m, 0, Double) = z2 /\ ~(h = 0 /\ k = Double)
  <2>1. IsPlace(m, 0, Double) /\ ZoneAt(m, 0, Double) = z2
    BY PlacesAre, MapConsts
  <2>2. CASE IsSingle(loc)
    BY <2>1, <2>2, MapConsts DEF Slotted
  <2>3. CASE ~IsSingle(loc)
    BY <2>1, <2>3 DEF Holder, Reached
  <2> QED BY <2>2, <2>3
<1>3. ASSUME z2 # 0, NEW e \in Entries
      PROVE  /\ u.block[z2][e] = IF h = z2 /\ k = e THEN v ELSE m.block[z2][e]
             /\ IsPlace(m, z2, e) /\ ZoneAt(m, z2, e) = m.block[z2][e]
  <2>1. z2 \in Inds(m)
    BY <1>3, IndsAre
  <2>2. IsPlace(m, z2, e) /\ ZoneAt(m, z2, e) = m.block[z2][e] /\ ZoneAt(u, z2, e) = u.block[z2][e]
    BY <1>3, <2>1, PlacesAre DEF ZoneAt
  <2> HIDE DEF h, k, z2
  <2>3. ZoneAt(u, z2, e) = IF z2 = h /\ e = k THEN v ELSE ZoneAt(m, z2, e)
    BY <2>2 DEF Changed, h, k
  <2> QED BY <2>2, <2>3
<1>4. /\ IsSingle(loc) => h = 0 /\ k = Single
      /\ ~IsSingle(loc) => z2 # 0 /\ h = z2 /\ k = IndEx(loc) /\ k \in Entries
  BY Behind DEF Holder, Slotted, Reached
<1>5. SingleOf(m, loc) = IF IsSingle(loc) THEN m.i_zone[Single] ELSE m.block[z2][k]
  BY <1>4, MapConsts DEF SingleOf, rd_indir
<1>6. ASSUME NEW q \in Position, q >= NrDirect
      PROVE  SingleOf(u, q) = IF Reached(m, q) /\ Holder(m, q) = h /\ Slotted(q) = k
                              THEN v ELSE SingleOf(m, q)
  <2>1. CASE IsSingle(q)
    <3>1. Reached(m, q) /\ Holder(m, q) = 0 /\ Slotted(q) = Single
      BY <2>1 DEF Reached, Holder, Slotted
    <3>2. SingleOf(u, q) = u.i_zone[Single] /\ SingleOf(m, q) = m.i_zone[Single]
      BY <2>1 DEF SingleOf
    <3> HIDE DEF h, k
    <3> QED BY <3>1, <3>2, <1>1
  <2>2. CASE ~IsSingle(q) /\ z2 = 0
    BY <2>2, MapConsts DEF SingleOf, Reached
  <2>3. CASE ~IsSingle(q) /\ z2 # 0
    <3>1. Reached(m, q) /\ Holder(m, q) = z2 /\ Slotted(q) = IndEx(q) /\ IndEx(q) \in Entries
      BY <2>3, <1>6, Behind DEF Reached, Holder, Slotted
    <3>2. SingleOf(u, q) = u.block[z2][IndEx(q)] /\ SingleOf(m, q) = m.block[z2][IndEx(q)]
      BY <2>3, MapConsts DEF SingleOf, rd_indir
    <3> HIDE DEF h, k, z2
    <3> QED BY <2>3, <3>1, <3>2, <1>3
  <2> QED BY <2>1, <2>2, <2>3
<1>7. ASSUME NEW y \in Inds(u) PROVE y \in Inds(m) \/ (y = v /\ v # 0)
  <2>1. /\ y # 0
        /\ \/ y = u.i_zone[Single]
           \/ z2 # 0 /\ (y = z2 \/ \E e \in Entries : y = u.block[z2][e])
    BY <1>7, IndsAre
  <2>2. CASE y = u.i_zone[Single]
    BY <2>1, <2>2, <1>1, IndsAre
  <2>3. CASE z2 # 0 /\ y = z2
    BY <2>1, <2>3, IndsAre
  <2>4. ASSUME z2 # 0, NEW e \in Entries, y = u.block[z2][e] PROVE y \in Inds(m) \/ (y = v /\ v # 0)
    BY <2>1, <2>4, <1>3, IndsAre
  <2> QED BY <2>1, <2>2, <2>3, <2>4
<1>8. ASSUME NEW y \in Inds(m) PROVE y \in Inds(u) \/ y = SingleOf(m, loc)
  <2>1. /\ y # 0
        /\ \/ y = m.i_zone[Single]
           \/ z2 # 0 /\ (y = z2 \/ \E e \in Entries : y = m.block[z2][e])
    BY <1>8, IndsAre
  <2>2. CASE y = m.i_zone[Single]
    <3>1. CASE h = 0 /\ k = Single
      <4>1. IsSingle(loc)
        BY <3>1, <1>4
      <4> QED BY <4>1, <2>2, <1>5
    <3>2. CASE ~(h = 0 /\ k = Single)
      <4>1. y = u.i_zone[Single]
        BY <3>2, <2>2, <1>1
      <4> QED BY <4>1, <2>1, IndsAre
    <3> QED BY <3>1, <3>2
  <2>3. CASE z2 # 0 /\ y = z2
    BY <2>1, <2>3, IndsAre
  <2>4. ASSUME z2 # 0, NEW e \in Entries, y = m.block[z2][e] PROVE y \in Inds(u) \/ y = SingleOf(m, loc)
    <3>1. CASE h = z2 /\ k = e
      <4>1. ~IsSingle(loc)
        BY <3>1, <1>4, <2>4
      <4> QED BY <4>1, <3>1, <2>4, <1>5
    <3>2. CASE ~(h = z2 /\ k = e)
      <4>1. y = u.block[z2][e]
        BY <3>2, <2>4, <1>3
      <4> QED BY <4>1, <2>1, <2>4, IndsAre
    <3> QED BY <3>1, <3>2
  <2> QED BY <2>1, <2>2, <2>3, <2>4
<1>9. ASSUME v # 0 PROVE v \in Inds(u)
  <2>1. CASE IsSingle(loc)
    <3>1. v = u.i_zone[Single]
      BY <2>1, <1>1, <1>4
    <3> QED BY <3>1, <1>9, IndsAre
  <2>2. CASE ~IsSingle(loc)
    <3>1. z2 # 0 /\ k \in Entries /\ v = u.block[z2][k]
      BY <2>2, <1>3, <1>4
    <3> QED BY <3>1, <1>9, IndsAre
  <2> QED BY <2>1, <2>2
<1>10. ASSUME v = 0, NEW y \in Inds(u)
       PROVE  \E b, i : IsPlace(m, b, i) /\ ZoneAt(m, b, i) = y /\ ~(b = h /\ i = k)
  <2>1. /\ y # 0
        /\ \/ y = u.i_zone[Single]
           \/ z2 # 0 /\ (y = z2 \/ \E e \in Entries : y = u.block[z2][e])
    BY <1>10, IndsAre
  <2> HIDE DEF h, k, z2
  <2>2. CASE y = u.i_zone[Single]
    <3>1. IsPlace(m, 0, Single) /\ ZoneAt(m, 0, Single) = y /\ ~(0 = h /\ Single = k)
      BY <2>1, <2>2, <1>1, <1>10
    <3> QED BY <3>1, Zenon
  <2>3. CASE z2 # 0 /\ y = z2
    <3>1. IsPlace(m, 0, Double) /\ ZoneAt(m, 0, Double) = y /\ ~(0 = h /\ Double = k)
      BY <2>3, <1>2
    <3> QED BY <3>1, Zenon
  <2>4. ASSUME z2 # 0, NEW e \in Entries, y = u.block[z2][e]
        PROVE  \E b, i : IsPlace(m, b, i) /\ ZoneAt(m, b, i) = y /\ ~(b = h /\ i = k)
    <3>1. IsPlace(m, z2, e) /\ ZoneAt(m, z2, e) = y /\ ~(z2 = h /\ e = k)
      BY <2>1, <2>4, <1>3, <1>10
    <3> QED BY <3>1, Zenon
  <2> QED BY <2>1, <2>2, <2>3, <2>4
<1> QED BY <1>6, <1>7, <1>8, <1>9, <1>10 DEF Relisted

\* The indirect block of a position is created.
NewSingle(m, loc, z) == SetSingle(NewIndirect(m, z), loc, z)

LEMMA NewSingleStep ==
  ASSUME NEW m, NEW hand, Exact(m, hand), NEW z \in m.free, NEW loc \in Position, loc >= NrDirect,
         Reached(m, loc), SingleOf(m, loc) = 0
  PROVE  /\ Exact(NewSingle(m, loc, z), hand) /\ Same(m, NewSingle(m, loc, z))
         /\ SingleOf(NewSingle(m, loc, z), loc) = z /\ z # 0 /\ z \in Zones
         /\ NoneEmpty(m, {}) => NoneEmpty(NewSingle(m, loc, z), {z})
<1> DEFINE n == NewIndirect(m, z)
           u == NewSingle(m, loc, z)
           h == Holder(n, loc)
           k == Slotted(loc)
<1>0. m \in MapState /\ z \in Zones /\ hand \cap m.free = {} /\ z # 0 /\ z \in ZoneNo
  BY NotListed, MapConsts DEF Exact
<1>1. /\ n \in MapState /\ n.i_zone = m.i_zone /\ n.free = m.free \ {z} /\ n.block[z] = Zeroes
      /\ \A c \in Zones \ {z} : n.block[c] = m.block[c]
  BY <1>0, ClearZone
<1>2. /\ Exact(n, hand \union {z}) /\ Inds(n) = Inds(m) /\ z \notin Inds(m)
      /\ Same(m, n) /\ \A x : NoneEmpty(m, x) => NoneEmpty(n, x)
      /\ SingleOf(n, loc) = SingleOf(m, loc)
  <2> HIDE DEF n
  <2>1. /\ Exact(n, hand \union {z}) /\ Inds(n) = Inds(m) /\ z \notin Inds(m)
        /\ Same(m, n) /\ \A x : NoneEmpty(m, x) => NoneEmpty(n, x)
    BY <1>1, TakeStep
  <2>2. m.i_zone[Double] # 0 => m.i_zone[Double] \in Zones \ {z}
    BY <1>0, <2>1, IndsAre, PlaceTypes
  <2>3. SingleOf(n, loc) = SingleOf(m, loc)
    BY <1>1, <2>2, MapConsts DEF SingleOf, rd_indir
  <2> QED BY <2>1, <2>3
<1>3. Reached(n, loc)
  BY <1>1 DEF Reached
<1> HIDE DEF n
<1>4. /\ u \in MapState /\ u.free = n.free /\ u.i_zone[Double] = n.i_zone[Double]
      /\ \A q \in 0..NrDirect - 1 : u.i_zone[q] = n.i_zone[q]
      /\ \A c \in Zones : c # h => u.block[c] = n.block[c]
      /\ Changed(n, u, h, k, z)
  BY <1>0, <1>1, <1>3, SetSingleFacts DEF n, NewSingle
<1> HIDE DEF u
<1>5. Relisted(n, u, loc, z)
  BY <1>0, <1>1, <1>3, <1>4, RelistedHolds
<1>6. IsPlace(n, h, k) /\ ZoneAt(n, h, k) = 0
  BY <1>1, <1>2, <1>3, SinglePlace
<1>7. h # z
  <2>1. z \notin Inds(n)
    BY <1>2
  <2> QED BY <2>1, <1>0, <1>3, IndsAre DEF Holder, Reached
<1>8. u.block[z] = Zeroes
  BY <1>0, <1>1, <1>4, <1>7
<1>9. Inds(u) = Inds(n) \union {z}
  <2>1. \A y : y \in Inds(u) => y \in Inds(n) \/ y = z
    BY <1>5 DEF Relisted
  <2>2. \A y : y \in Inds(n) => y \in Inds(u)
    BY <1>5, <1>2, IndsAre DEF Relisted
  <2>3. z \in Inds(u)
    BY <1>5, <1>0 DEF Relisted
  <2> QED BY <2>1, <2>2, <2>3
<1>10. Exact(u, hand)
  <2>2. \A c, j : IsPlace(n, c, j) => IsPlace(u, c, j)
    BY <1>9 DEF IsPlace
  <2>3. \A c, j : IsPlace(u, c, j) => IsPlace(n, c, j) \/ (c = z /\ ZoneAt(u, c, j) = 0)
    BY <1>0, <1>8, <1>9, MapConsts DEF IsPlace, ZoneAt
  <2>4. \A c, j : IsPlace(n, c, j) => ZoneAt(u, c, j) = IF c = h /\ j = k THEN z ELSE ZoneAt(n, c, j)
    BY <1>4 DEF Changed
  <2> DEFINE g == hand \union {z}
  <2>5. z \in g /\ Exact(n, g)
    BY <1>2
  <2> HIDE DEF g, h, k
  <2>6. Exact(u, g \ {z})
    BY <1>4, <1>6, <2>2, <2>3, <2>4, <2>5, Attach
  <2>7. g \ {z} = hand
    BY <1>0 DEF g
  <2> QED BY <2>6, <2>7
<1>11. SingleOf(u, loc) = z
  BY <1>3, <1>5 DEF Relisted
<1>12. Same(n, u)
  <2> SUFFICES ASSUME NEW q \in Position PROVE read_map(u, q) = read_map(n, q)
    BY DEF Same
  <2>0. q \in Nat /\ NrDirect \in Nat
    BY MapConsts DEF Position
  <2>1. CASE q < NrDirect
    BY <2>0, <2>1, <1>4 DEF read_map
  <2>2. CASE q >= NrDirect /\ Reached(n, q) /\ Holder(n, q) = h /\ Slotted(q) = k
    <3>1. SingleOf(n, q) = 0
      BY <2>2, <1>1, <1>6, SinglePlace
    <3>2. SingleOf(u, q) = z
      BY <2>2, <1>5 DEF Relisted
    <3>3. Excess(q) \in Entries
      BY <2>2, Behind
    <3>4. u.block[z][Excess(q)] = 0
      BY <3>3, <1>8, MapConsts
    <3> QED BY <2>0, <2>2, <3>1, <3>2, <3>4, <1>0, MapConsts DEF read_map, rd_indir
  <2>3. CASE q >= NrDirect /\ ~(Reached(n, q) /\ Holder(n, q) = h /\ Slotted(q) = k)
    <3>1. SingleOf(u, q) = SingleOf(n, q)
      BY <2>3, <1>5 DEF Relisted
    <3>2. CASE SingleOf(n, q) = 0
      BY <2>0, <2>3, <3>1, <3>2, MapConsts DEF read_map
    <3>3. CASE SingleOf(n, q) # 0
      <4>1. SingleOf(n, q) \in Zones /\ SingleOf(n, q) # n.i_zone[Double]
        BY <2>3, <3>3, <1>2, SingleDiffers
      <4>2. SingleOf(n, q) # h
        BY <4>1, <3>3 DEF Holder
      <4> QED BY <2>0, <2>3, <3>1, <3>3, <4>1, <4>2, <1>4, MapConsts DEF read_map, rd_indir
    <3> QED BY <3>2, <3>3
  <2> QED BY <2>0, <2>1, <2>2, <2>3
<1>13. ASSUME NoneEmpty(m, {}) PROVE NoneEmpty(u, {z})
  <2>1. NoneEmpty(n, {})
    BY <1>13, <1>2
  <2>2. ASSUME NEW c \in Inds(u) \ ({u.i_zone[Double]} \union {z}) PROVE ~empty_indir(u, c)
    <3>1. c \in Inds(n) /\ c # n.i_zone[Double] /\ c \in Zones /\ c # 0
      BY <2>2, <1>1, <1>4, <1>9, PlaceTypes, IndsAre
    <3>2. u.block[c] = n.block[c]
      BY <3>1, <1>4 DEF Holder
    <3> QED BY <3>1, <3>2, <2>1 DEF NoneEmpty, empty_indir
  <2> QED BY <2>2 DEF NoneEmpty
<1>14. Same(m, u)
  BY <1>2, <1>12 DEF Same
<1> QED BY <1>0, <1>10, <1>11, <1>13, <1>14 DEF u

\* An indirect block without entries is freed.
DropSingle(m, loc) == free_zone(SetSingle(m, loc, NO_ZONE), SingleOf(m, loc))

LEMMA DropSingleStep ==
  ASSUME NEW m, NEW hand, Exact(m, hand), NEW loc \in Position, loc >= NrDirect,
         SingleOf(m, loc) # 0, m.block[SingleOf(m, loc)] = Zeroes
  PROVE  /\ Exact(DropSingle(m, loc), hand) /\ Same(m, DropSingle(m, loc))
         /\ NoneEmpty(m, {SingleOf(m, loc)}) => NoneEmpty(DropSingle(m, loc), {})
         /\ DropSingle(m, loc).i_zone[Double] = m.i_zone[Double]
<1> DEFINE s == SingleOf(m, loc)
           a == SetSingle(m, loc, 0)
           u == DropSingle(m, loc)
           h == Holder(m, loc)
           k == Slotted(loc)
<1>0. m \in MapState /\ Once(m) /\ Reached(m, loc) /\ 0 \in ZoneNo
  BY NotReached, MapConsts DEF Exact
<1>1. s \in Inds(m) /\ s \in Zones /\ s # m.i_zone[Double] /\ h # s /\ s # 0 /\ m.block[s] = Zeroes
  BY SingleDiffers
<1>2. IsPlace(m, h, k) /\ ZoneAt(m, h, k) = s
  BY <1>0, SinglePlace
<1>3. /\ a \in MapState /\ a.free = m.free /\ a.i_zone[Double] = m.i_zone[Double]
      /\ \A q \in 0..NrDirect - 1 : a.i_zone[q] = m.i_zone[q]
      /\ \A c \in Zones : c # h => a.block[c] = m.block[c]
      /\ Changed(m, a, h, k, 0)
  BY <1>0, SetSingleFacts
<1>4. Relisted(m, a, loc, 0)
  <2> HIDE DEF a
  <2> QED BY <1>0, <1>3, RelistedHolds
<1> HIDE DEF s, a, h, k
<1>5. u = free_zone(a, s)
  BY MapConsts DEF DropSingle, a, s
<1>6. /\ u \in MapState /\ u.i_zone = a.i_zone /\ u.free = a.free \union {s}
      /\ \A c \in Zones \ {s} : u.block[c] = a.block[c]
  BY <1>1, <1>3, <1>5, FreeZone
<1> HIDE DEF u
<1>7. Inds(a) = Inds(m) \ {s}
  <2>1. \A y : y \in Inds(a) => y \in Inds(m)
    BY <1>4 DEF Relisted
  <2>2. \A y : y \in Inds(m) => y \in Inds(a) \/ y = s
    BY <1>4 DEF Relisted, s
  <2>3. ASSUME s \in Inds(a) PROVE FALSE
    <3>1. PICK b, i : IsPlace(m, b, i) /\ ZoneAt(m, b, i) = s /\ ~(b = h /\ i = k)
      BY <2>3, <1>4, Zenon DEF Relisted, h, k
    <3> QED BY <3>1, <1>0, <1>1, <1>2, UseOnce
  <2> QED BY <2>1, <2>2, <2>3
<1>8. /\ Inds(u) = Inds(a) /\ \A c, j : IsPlace(u, c, j) <=> IsPlace(a, c, j)
      /\ \A c, j : IsPlace(a, c, j) => ZoneAt(u, c, j) = ZoneAt(a, c, j)
      /\ Same(a, u) /\ \A x : NoneEmpty(a, x) => NoneEmpty(u, x)
  <2>1. \A c \in Inds(a) : u.block[c] = a.block[c]
    BY <1>3, <1>6, <1>7, PlaceTypes
  <2> QED BY <1>3, <1>6, <2>1, Invisible
<1>9. Exact(u, hand)
  <2>1. \A c, j : IsPlace(u, c, j) => IsPlace(m, c, j)
    BY <1>7, <1>8 DEF IsPlace
  <2>2. \A c, j : IsPlace(m, c, j) => IsPlace(u, c, j) \/ (c = s /\ ZoneAt(m, c, j) = 0)
    BY <1>1, <1>7, <1>8, MapConsts DEF IsPlace, ZoneAt
  <2>3. \A c, j : IsPlace(u, c, j) => ZoneAt(u, c, j) = IF c = h /\ j = k THEN 0 ELSE ZoneAt(m, c, j)
    BY <1>3, <1>8, <2>1 DEF Changed
  <2>4. u.free = m.free \union {s}
    BY <1>3, <1>6
  <2> QED BY <1>1, <1>2, <1>6, <2>1, <2>2, <2>3, <2>4, Detach
<1>10. Same(m, a)
  <2> SUFFICES ASSUME NEW q \in Position PROVE read_map(a, q) = read_map(m, q)
    BY DEF Same
  <2>0. q \in Nat /\ NrDirect \in Nat
    BY MapConsts DEF Position
  <2>1. CASE q < NrDirect
    BY <2>0, <2>1, <1>3 DEF read_map
  <2>2. CASE q >= NrDirect /\ Reached(m, q) /\ Holder(m, q) = h /\ Slotted(q) = k
    <3>1. SingleOf(m, q) = s
      BY <2>2, <1>0, <1>2, SinglePlace
    <3>2. SingleOf(a, q) = 0
      BY <2>2, <1>4 DEF Relisted, h, k
    <3>3. Excess(q) \in Entries
      BY <2>2, Behind
    <3>4. m.block[s][Excess(q)] = 0
      BY <3>3, <1>1, MapConsts
    <3> QED BY <2>0, <2>2, <3>1, <3>2, <3>4, <1>1, MapConsts DEF read_map, rd_indir
  <2>3. CASE q >= NrDirect /\ ~(Reached(m, q) /\ Holder(m, q) = h /\ Slotted(q) = k)
    <3>1. SingleOf(a, q) = SingleOf(m, q)
      BY <2>3, <1>4 DEF Relisted, h, k
    <3>2. CASE SingleOf(m, q) = 0
      BY <2>0, <2>3, <3>1, <3>2, MapConsts DEF read_map
    <3>3. CASE SingleOf(m, q) # 0
      <4>1. SingleOf(m, q) \in Zones /\ SingleOf(m, q) # m.i_zone[Double]
        BY <2>3, <3>3, SingleDiffers
      <4>2. SingleOf(m, q) # h
        BY <4>1, <3>3 DEF Holder, h
      <4> QED BY <2>0, <2>3, <3>1, <3>3, <4>1, <4>2, <1>3, MapConsts DEF read_map, rd_indir
    <3> QED BY <3>2, <3>3
  <2> QED BY <2>0, <2>1, <2>2, <2>3
<1>11. ASSUME NoneEmpty(m, {s}) PROVE NoneEmpty(u, {})
  <2>1. ASSUME NEW c \in Inds(a) \ ({a.i_zone[Double]} \union {}) PROVE ~empty_indir(a, c)
    <3>1. c \in Inds(m) /\ c # s /\ c # m.i_zone[Double] /\ c \in Zones /\ c # 0
      BY <2>1, <1>0, <1>3, <1>7, PlaceTypes, IndsAre
    <3>2. a.block[c] = m.block[c]
      BY <3>1, <1>3 DEF Holder, h
    <3> QED BY <3>1, <3>2, <1>11 DEF NoneEmpty, empty_indir
  <2>2. NoneEmpty(a, {})
    BY <2>1 DEF NoneEmpty
  <2> QED BY <2>2, <1>8
<1>12. Same(m, u)
  BY <1>8, <1>10 DEF Same
<1> QED BY <1>3, <1>6, <1>9, <1>11, <1>12 DEF u, s

\* A double indirect block without entries is freed.
DropDouble(m) == [free_zone(m, m.i_zone[Double]) EXCEPT !.i_zone[Double] = NO_ZONE]

LEMMA DropDoubleStep ==
  ASSUME NEW m, NEW hand, Exact(m, hand), m.i_zone[Double] # 0, m.block[m.i_zone[Double]] = Zeroes
  PROVE  /\ Exact(DropDouble(m), hand) /\ Same(m, DropDouble(m))
         /\ \A x : NoneEmpty(m, x) => NoneEmpty(DropDouble(m), x)
<1> DEFINE z == m.i_zone[Double]
           a == free_zone(m, z)
           u == DropDouble(m)
<1>0. m \in MapState /\ Once(m) /\ z \in Inds(m) /\ z \in Zones /\ z # 0 /\ m.block[z] = Zeroes
  BY IndsAre, PlaceTypes DEF Exact
<1>1. /\ a \in MapState /\ a.i_zone = m.i_zone /\ a.free = m.free \union {z}
      /\ \A c \in Zones \ {z} : a.block[c] = m.block[c]
  BY <1>0, FreeZone
<1> HIDE DEF a
<1>2. u = [a EXCEPT !.i_zone[Double] = 0]
  BY MapConsts DEF DropDouble, a
<1>3. /\ u \in MapState /\ u.block = a.block /\ u.free = a.free
      /\ \A j \in 0..Double : u.i_zone[j] = IF j = Double THEN 0 ELSE a.i_zone[j]
  BY <1>1, <1>2, SetZone, MapConsts
<1> HIDE DEF u
<1>4. u.i_zone[Double] = 0 /\ u.i_zone[Single] = m.i_zone[Single]
  BY <1>1, <1>3, MapConsts
<1>5. /\ IsPlace(m, 0, Single) /\ ZoneAt(m, 0, Single) = m.i_zone[Single]
      /\ IsPlace(m, 0, Double) /\ ZoneAt(m, 0, Double) = z
  BY <1>0, PlacesAre, MapConsts
<1>6. m.i_zone[Single] # z
  <2> HIDE DEF z
  <2> QED BY <1>0, <1>5, UseOnce, MapConsts
<1>7. Inds(u) = Inds(m) \ {z}
  <2>1. \A y : y \in Inds(u) <=> y # 0 /\ y = m.i_zone[Single]
    BY <1>4, IndsAre
  <2>2. \A e \in Entries : m.block[z][e] = 0
    BY <1>0, MapConsts
  <2>3. ASSUME NEW y PROVE y \in Inds(m) <=> y # 0 /\ (y = m.i_zone[Single] \/ y = z)
    <3>1. y \in Inds(m) <=> /\ y # 0
                           /\ \/ y = m.i_zone[Single]
                              \/ y = z \/ \E e \in Entries : y = m.block[z][e]
      BY <1>0, IndsAre
    <3> QED BY <3>1, <2>2
  <2> QED BY <2>1, <2>3, <1>6
<1>8. Exact(u, hand)
  <2>1. \A c, j : IsPlace(u, c, j) => IsPlace(m, c, j)
    BY <1>7 DEF IsPlace
  <2>2. \A c, j : IsPlace(m, c, j) => IsPlace(u, c, j) \/ (c = z /\ ZoneAt(m, c, j) = 0)
    BY <1>0, <1>7, MapConsts DEF IsPlace, ZoneAt
  <2>3. \A c, j : IsPlace(u, c, j) => ZoneAt(u, c, j) = IF c = 0 /\ j = Double THEN 0 ELSE ZoneAt(m, c, j)
    <3>1. \A c \in Inds(u) : u.block[c] = m.block[c] /\ c # 0
      BY <1>0, <1>1, <1>3, <1>7, PlaceTypes, IndsAre
    <3> QED BY <3>1, <1>1, <1>3 DEF IsPlace, ZoneAt
  <2>4. u.free = m.free \union {z}
    BY <1>1, <1>3
  <2> HIDE DEF z
  <2> QED BY <1>0, <1>3, <1>5, <2>1, <2>2, <2>3, <2>4, Detach
<1>9. Same(m, u)
  <2> SUFFICES ASSUME NEW q \in Position PROVE read_map(u, q) = read_map(m, q)
    BY DEF Same
  <2>0. q \in Nat /\ NrDirect \in Nat
    BY MapConsts DEF Position
  <2>1. CASE q < NrDirect
    <3>1. q \in 0..Double /\ q # Double
      BY <2>0, <2>1 DEF Double
    <3> QED BY <2>1, <3>1, <1>1, <1>3 DEF read_map
  <2>2. CASE q >= NrDirect /\ IsSingle(q)
    <3>1. SingleOf(u, q) = SingleOf(m, q) /\ SingleOf(m, q) = m.i_zone[Single]
      BY <2>2, <1>4 DEF SingleOf
    <3>2. CASE m.i_zone[Single] = 0
      BY <2>0, <2>2, <3>1, <3>2, MapConsts DEF read_map
    <3>3. CASE m.i_zone[Single] # 0
      <4>1. m.i_zone[Single] \in Zones
        BY <3>3, <1>0, IndsAre, PlaceTypes
      <4>2. u.block[m.i_zone[Single]] = m.block[m.i_zone[Single]]
        BY <4>1, <1>1, <1>3, <1>6
      <4> QED BY <2>0, <2>2, <3>1, <3>3, <4>2, MapConsts DEF read_map, rd_indir
    <3> QED BY <3>2, <3>3
  <2>3. CASE q >= NrDirect /\ ~IsSingle(q)
    <3>1. SingleOf(u, q) = 0
      BY <2>3, <1>4, MapConsts DEF SingleOf
    <3>2. SingleOf(m, q) = 0
      BY <2>3, <1>0, Behind, MapConsts DEF SingleOf, rd_indir
    <3> QED BY <2>0, <2>3, <3>1, <3>2, MapConsts DEF read_map
  <2> QED BY <2>0, <2>1, <2>2, <2>3
<1>10. ASSUME NEW x, NoneEmpty(m, x) PROVE NoneEmpty(u, x)
  <2>1. ASSUME NEW c \in Inds(u) \ ({u.i_zone[Double]} \union x) PROVE ~empty_indir(u, c)
    <3>1. c \in Inds(m) /\ c # z /\ c \notin x /\ c \in Zones
      BY <2>1, <1>0, <1>7, PlaceTypes
    <3>2. u.block[c] = m.block[c]
      BY <3>1, <1>1, <1>3
    <3> QED BY <3>1, <3>2, <1>10 DEF NoneEmpty, empty_indir
  <2> QED BY <2>1 DEF NoneEmpty
<1> QED BY <1>8, <1>9, <1>10 DEF u
-----------------------------------------------------------------------------
LEMMA Alloc ==
  ASSUME NEW m \in MapState
  PROVE  alloc_zone(m) # 0 => alloc_zone(m) \in m.free
<1>1. m.free \subseteq Nat
  BY MapConsts DEF MapState, Zones
<1>2. CASE m.free = {}
  BY <1>2, MapConsts DEF alloc_zone
<1>3. CASE m.free # {}
  BY <1>1, <1>3, MinNat DEF alloc_zone
<1> QED BY <1>2, <1>3

\* A zone in hand is entered in the inode.
LEMMA EnterDirect ==
  ASSUME NEW m, NEW z, Exact(m, {z}), NEW loc \in Position, loc < NrDirect, m.i_zone[loc] = 0
  PROVE  /\ Exact([m EXCEPT !.i_zone[loc] = z], {})
         /\ NoneEmpty(m, {}) => NoneEmpty([m EXCEPT !.i_zone[loc] = z], {})
         /\ SameElsewhere(m, [m EXCEPT !.i_zone[loc] = z], loc)
<1> DEFINE u == [m EXCEPT !.i_zone[loc] = z]
<1>0. m \in MapState /\ z \in Zones /\ z \in ZoneNo
  BY MapConsts DEF Exact
<1>1. loc \in 0..NrDirect - 1 /\ loc \in 0..Double
  BY MapConsts DEF Position, Double
<1>2. /\ u \in MapState /\ u.block = m.block /\ u.free = m.free
      /\ \A j \in 0..Double : u.i_zone[j] = IF j = loc THEN z ELSE m.i_zone[j]
  BY <1>0, <1>1, SetZone
<1> HIDE DEF u
<1>3. IsLeaf(m, 0, loc) /\ ZoneAt(m, 0, loc) = 0
  BY <1>1 DEF IsLeaf, ZoneAt
<1>4. Changed(m, u, 0, loc, z)
  BY <1>0, <1>2, PlaceTypes, MapConsts DEF Changed, IsPlace, ZoneAt
<1>5. Exact(u, {z} \ {z})
  <2> DEFINE g == {z}
  <2>1. Exact(m, g) /\ z \in g
    OBVIOUS
  <2> HIDE DEF g
  <2>2. Exact(u, g \ {z})
    BY <1>2, <1>3, <1>4, <2>1, EnterLeaf
  <2> QED BY <2>2 DEF g
<1>6. SameElsewhere(m, u, loc)
  BY <1>2, <1>3, <1>4, LeafSame
<1>7. u.i_zone[Double] = m.i_zone[Double] /\ Inds(u) = Inds(m)
  BY <1>0, <1>2, <1>3, <1>4, LeafIndirects
<1>8. NoneEmpty(m, {}) => NoneEmpty(u, {})
  BY <1>2, <1>7 DEF NoneEmpty, empty_indir
<1>9. {z} \ {z} = {}
  OBVIOUS
<1> QED BY <1>5, <1>6, <1>8, <1>9 DEF u

\* A zone in hand is entered in an indirect block.
LEMMA EnterSingle ==
  ASSUME NEW m, NEW z, Exact(m, {z}), NEW loc \in Position, loc >= NrDirect,
         SingleOf(m, loc) # 0, read_map(m, loc) = 0, NoneEmpty(m, {SingleOf(m, loc)})
  PROVE  /\ Exact(wr_indir(m, SingleOf(m, loc), Excess(loc), z), {})
         /\ NoneEmpty(wr_indir(m, SingleOf(m, loc), Excess(loc), z), {})
         /\ SameElsewhere(m, wr_indir(m, SingleOf(m, loc), Excess(loc), z), loc)
<1> DEFINE s == SingleOf(m, loc)
           e == Excess(loc)
           u == wr_indir(m, s, e, z)
<1>0. m \in MapState /\ z \in Zones /\ z \in ZoneNo /\ z # 0
  BY MapConsts DEF Exact
<1>1. s \in Inds(m) /\ s \in Zones /\ s # m.i_zone[Double] /\ e \in Entries /\ s # 0
  BY SingleDiffers, Behind
<1>2. /\ u \in MapState /\ u.i_zone = m.i_zone /\ u.free = m.free
      /\ \A c \in Zones : \A j \in Entries :
           u.block[c][j] = IF c = s /\ j = e THEN z ELSE m.block[c][j]
      /\ \A c \in Zones \ {s} : u.block[c] = m.block[c]
  BY <1>0, <1>1, WrIndir
<1>3. m.block[s][e] = 0
  <2>1. loc \in Nat /\ NrDirect \in Nat
    BY MapConsts DEF Position
  <2> QED BY <1>1, <2>1, MapConsts DEF read_map, rd_indir
<1>a. ~(loc < NrDirect)
  BY MapConsts DEF Position
<1>b. SingleOf(m, loc) # 0 /\ s = SingleOf(m, loc) /\ e = Excess(loc)
  OBVIOUS
<1> HIDE DEF u, s, e
<1>4. IsLeaf(m, s, e) /\ ZoneAt(m, s, e) = 0
  BY <1>1, <1>3 DEF IsLeaf, ZoneAt
<1>5. Changed(m, u, s, e, z)
  BY <1>0, <1>1, <1>2, PlaceTypes, MapConsts DEF Changed, IsPlace, ZoneAt
<1>6. Exact(u, {z} \ {z})
  <2> DEFINE g == {z}
  <2>1. Exact(m, g) /\ z \in g
    OBVIOUS
  <2> HIDE DEF g
  <2>2. Exact(u, g \ {z})
    BY <1>2, <1>4, <1>5, <2>1, EnterLeaf
  <2> QED BY <2>2 DEF g
<1>7. SameElsewhere(m, u, loc)
  BY <1>2, <1>4, <1>5, <1>a, <1>b, LeafSame
<1>8. u.i_zone[Double] = m.i_zone[Double] /\ Inds(u) = Inds(m)
  BY <1>0, <1>2, <1>4, <1>5, LeafIndirects
<1>9. NoneEmpty(u, {})
  <2> SUFFICES ASSUME NEW c \in Inds(u) \ {u.i_zone[Double]} PROVE ~empty_indir(u, c)
    BY DEF NoneEmpty
  <2>1. CASE c = s
    <3>1. u.block[s][e] = z
      BY <1>1, <1>2
    <3> QED BY <2>1, <3>1, <1>0, <1>1, MapConsts DEF empty_indir
  <2>2. CASE c # s
    <3>1. c \in Inds(m) /\ c \in Zones /\ c # m.i_zone[Double]
      BY <1>0, <1>8, PlaceTypes
    <3>2. u.block[c] = m.block[c]
      BY <2>2, <3>1, <1>2
    <3> QED BY <2>2, <3>1, <3>2 DEF NoneEmpty, empty_indir, s
  <2> QED BY <2>1, <2>2
<1>10. {z} \ {z} = {}
  OBVIOUS
<1> QED BY <1>6, <1>7, <1>9, <1>10 DEF u, s, e

\* What write_map leaves behind when it enters a zone, and when it cannot.
WriteDone(m, loc, zone, w) ==
  /\ w.r => Exact(w.m, {}) /\ NoneEmpty(w.m, {}) /\ SameElsewhere(m, w.m, loc)
  /\ ~w.r => Exact(w.m, {zone}) /\ NoneEmpty(w.m, {}) /\ Same(m, w.m)

LEMMA WriteNew ==
  ASSUME NEW m, NEW zone, Exact(m, {zone}), NoneEmpty(m, {}), NEW loc \in Position, read_map(m, loc) = 0
  PROVE  WriteDone(m, loc, zone, write_map_new(m, loc, zone))
<1>0. m \in MapState /\ loc \in Nat /\ NrDirect \in Nat
  BY MapConsts DEF Exact, Position
<1>1. CASE loc < NrDirect
  <2>1. write_map_new(m, loc, zone) = [r |-> TRUE, m |-> [m EXCEPT !.i_zone[loc] = zone]]
    BY <1>0, <1>1 DEF write_map_new
  <2>2. m.i_zone[loc] = 0
    BY <1>1 DEF read_map
  <2> DEFINE u == [m EXCEPT !.i_zone[loc] = zone]
  <2>3. Exact(u, {}) /\ NoneEmpty(u, {}) /\ SameElsewhere(m, u, loc)
    BY <1>1, <2>2, EnterDirect
  <2> HIDE DEF u
  <2>4. write_map_new(m, loc, zone) = [r |-> TRUE, m |-> u]
    BY <2>1 DEF u
  <2> QED BY <2>3, <2>4 DEF WriteDone
<1>2. CASE loc >= NrDirect
  <2> DEFINE needs2 == ~IsSingle(loc) /\ m.i_zone[Double] = NO_ZONE
             z2 == alloc_zone(m)
             m2 == IF needs2 THEN [NewIndirect(m, z2) EXCEPT !.i_zone[Double] = z2] ELSE m
             needs1 == SingleOf(m2, loc) = NO_ZONE
             z1 == alloc_zone(m2)
             m1 == IF needs1 THEN SetSingle(NewIndirect(m2, z1), loc, z1) ELSE m2
             last == wr_indir(m1, SingleOf(m1, loc), Excess(loc), zone)
  <2>1. write_map_new(m, loc, zone) =
          IF needs2 /\ z2 = NO_ZONE THEN [r |-> FALSE, m |-> m]
          ELSE IF needs1 /\ z1 = NO_ZONE THEN [r |-> FALSE, m |-> m2]
          ELSE [r |-> TRUE, m |-> last]
    <3> DEFINE w == write_map_new(m, loc, zone)
    <3>1. w = CASE loc < NrDirect -> [r |-> TRUE, m |-> [m EXCEPT !.i_zone[loc] = zone]]
                [] loc >= NrDirect /\ needs2 /\ z2 = NO_ZONE -> [r |-> FALSE, m |-> m]
                [] loc >= NrDirect /\ ~(needs2 /\ z2 = NO_ZONE) /\ needs1 /\ z1 = NO_ZONE ->
                     [r |-> FALSE, m |-> m2]
                [] OTHER -> [r |-> TRUE, m |-> last]
      BY DEF write_map_new
    <3> HIDE DEF w, needs2, z2, m2, needs1, z1, last
    <3>2. ~(loc < NrDirect)
      BY <1>0, <1>2
    <3>3. w = IF needs2 /\ z2 = NO_ZONE THEN [r |-> FALSE, m |-> m]
              ELSE IF needs1 /\ z1 = NO_ZONE THEN [r |-> FALSE, m |-> m2]
              ELSE [r |-> TRUE, m |-> last]
      BY <1>2, <3>1, <3>2
    <3> QED BY <3>3 DEF w
  <2>2. CASE needs2 /\ z2 = NO_ZONE
    <3>1. write_map_new(m, loc, zone) = [r |-> FALSE, m |-> m]
      BY <2>1, <2>2
    <3> QED BY <3>1 DEF WriteDone, Same
  <2>3. CASE ~(needs2 /\ z2 = NO_ZONE)
    <3>1. Exact(m2, {zone}) /\ NoneEmpty(m2, {}) /\ Same(m, m2) /\ Reached(m2, loc)
      <4>1. CASE needs2
        <5>1. z2 \in m.free /\ m.i_zone[Double] = 0
          BY <4>1, <2>3, <1>0, Alloc, MapConsts
        <5>2. m2 = NewDouble(m, z2)
          BY <4>1 DEF NewDouble
        <5> HIDE DEF m2, z2
        <5>3. Exact(m2, {zone}) /\ NoneEmpty(m2, {}) /\ Same(m, m2) /\ m2.i_zone[Double] # 0
          BY <5>1, <5>2, NewDoubleStep, MapConsts
        <5> QED BY <5>3 DEF Reached
      <4>2. CASE ~needs2
        BY <4>2, MapConsts DEF Reached, Same
      <4> QED BY <4>1, <4>2
    <3>2. m2 \in MapState /\ read_map(m2, loc) = 0
      BY <3>1 DEF Exact, Same
    <3> HIDE DEF m2
    <3>3. CASE needs1 /\ z1 = NO_ZONE
      <4>1. write_map_new(m, loc, zone) = [r |-> FALSE, m |-> m2]
        BY <2>1, <2>3, <3>3
      <4> QED BY <3>1, <4>1 DEF WriteDone
    <3>4. CASE ~(needs1 /\ z1 = NO_ZONE)
      <4>1. /\ Exact(m1, {zone}) /\ Same(m2, m1) /\ SingleOf(m1, loc) # 0
            /\ NoneEmpty(m1, {SingleOf(m1, loc)})
        <5>1. CASE needs1
          <6>1. z1 \in m2.free /\ SingleOf(m2, loc) = 0
            BY <5>1, <3>2, <3>4, Alloc, MapConsts
          <6>2. m1 = NewSingle(m2, loc, z1)
            BY <5>1 DEF NewSingle
          <6> HIDE DEF m1, z1
          <6> QED BY <1>2, <3>1, <6>1, <6>2, NewSingleStep
        <5>2. CASE ~needs1
          <6>1. m1 = m2 /\ SingleOf(m2, loc) # 0
            BY <5>2, MapConsts
          <6>2. NoneEmpty(m2, {SingleOf(m2, loc)})
            BY <3>1 DEF NoneEmpty
          <6> HIDE DEF m1
          <6> QED BY <3>1, <6>1, <6>2 DEF Same
        <5> QED BY <5>1, <5>2
      <4>2. read_map(m1, loc) = 0
        BY <4>1, <3>2 DEF Same
      <4>3. write_map_new(m, loc, zone) = [r |-> TRUE, m |-> last]
        BY <2>1, <2>3, <3>4
      <4> HIDE DEF m1
      <4>4. Exact(last, {}) /\ NoneEmpty(last, {}) /\ SameElsewhere(m1, last, loc)
        BY <1>2, <4>1, <4>2, EnterSingle
      <4> HIDE DEF last
      <4>5. SameElsewhere(m, last, loc)
        BY <3>1, <4>1, <4>4 DEF Same, SameElsewhere
      <4> QED BY <4>3, <4>4, <4>5 DEF WriteDone
    <3> QED BY <3>3, <3>4
  <2> QED BY <2>2, <2>3
<1> QED BY <1>0, <1>1, <1>2
-----------------------------------------------------------------------------
\* A zone that the inode lists is freed.
LeftInode(m, loc) == [free_zone(m, m.i_zone[loc]) EXCEPT !.i_zone[loc] = NO_ZONE]

LEMMA LeaveDirect ==
  ASSUME NEW m, Exact(m, {}), NoneEmpty(m, {}), NEW loc \in Position, loc < NrDirect, m.i_zone[loc] # 0
  PROVE  /\ Exact(LeftInode(m, loc), {}) /\ NoneEmpty(LeftInode(m, loc), {})
         /\ SameElsewhere(m, LeftInode(m, loc), loc)
<1> DEFINE z == m.i_zone[loc]
           a == free_zone(m, z)
           u == LeftInode(m, loc)
<1>0. m \in MapState /\ loc \in 0..NrDirect - 1 /\ loc \in 0..Double /\ 0 \in ZoneNo
  BY MapConsts DEF Exact, Position, Double
<1>1. IsLeaf(m, 0, loc) /\ ZoneAt(m, 0, loc) = z
  BY <1>0 DEF IsLeaf, ZoneAt
<1>2. z \notin Inds(m) /\ z \in Zones
  <2> HIDE DEF z
  <2>1. z # 0
    BY DEF z
  <2> QED BY <1>1, <2>1, LeafIsData
<1>3. /\ a \in MapState /\ a.i_zone = m.i_zone /\ a.free = m.free \union {z}
      /\ \A c \in Zones \ {z} : a.block[c] = m.block[c]
  BY <1>0, <1>2, FreeZone
<1> HIDE DEF a
<1>4. u = [a EXCEPT !.i_zone[loc] = 0]
  BY MapConsts DEF a, LeftInode
<1>5. /\ u \in MapState /\ u.block = a.block /\ u.free = m.free \union {z}
      /\ \A j \in 0..Double : u.i_zone[j] = IF j = loc THEN 0 ELSE m.i_zone[j]
  BY <1>0, <1>3, <1>4, SetZone
<1> HIDE DEF u
<1>6. \A c \in Inds(m) : u.block[c] = m.block[c] /\ c # 0
  BY <1>0, <1>2, <1>3, <1>5, PlaceTypes, IndsAre
<1>7. Changed(m, u, 0, loc, 0)
  BY <1>5, <1>6 DEF Changed, IsPlace, ZoneAt
<1>8. Exact(u, {})
  <2> HIDE DEF z
  <2> QED BY <1>1, <1>2, <1>5, <1>7, LeaveLeaf
<1>9. SameElsewhere(m, u, loc)
  BY <1>1, <1>5, <1>7, LeafSame
<1>10. u.i_zone[Double] = m.i_zone[Double] /\ Inds(u) = Inds(m)
  BY <1>0, <1>1, <1>5, <1>7, LeafIndirects
<1>11. NoneEmpty(u, {})
  BY <1>6, <1>10 DEF NoneEmpty, empty_indir
<1> QED BY <1>8, <1>9, <1>11 DEF u

\* A zone that an indirect block lists is freed.
Left(m, s, e) == wr_indir(free_zone(m, m.block[s][e]), s, e, NO_ZONE)

LEMMA LeaveSingle ==
  ASSUME NEW m, Exact(m, {}), NoneEmpty(m, {}), NEW loc \in Position, loc >= NrDirect,
         NEW s, s = SingleOf(m, loc), s # 0, NEW e, e = Excess(loc), m.block[s][e] # 0
  PROVE  /\ Exact(Left(m, s, e), {}) /\ NoneEmpty(Left(m, s, e), {s})
         /\ SameElsewhere(m, Left(m, s, e), loc)
         /\ SingleOf(Left(m, s, e), loc) = s /\ Left(m, s, e).i_zone = m.i_zone
<1> DEFINE z == m.block[s][e]
           a == free_zone(m, z)
           u == Left(m, s, e)
<1>0. m \in MapState /\ 0 \in ZoneNo /\ ~(loc < NrDirect)
  BY MapConsts DEF Exact, Position
<1>1. s \in Inds(m) /\ s \in Zones /\ s # m.i_zone[Double] /\ e \in Entries
  BY SingleDiffers, Behind
<1>2. IsLeaf(m, s, e) /\ ZoneAt(m, s, e) = z
  BY <1>1, PlacesAre, <1>0 DEF IsLeaf
<1>3. z \notin Inds(m) /\ z \in Zones /\ z # s
  <2> HIDE DEF z
  <2>1. z # 0
    BY DEF z
  <2> QED BY <1>1, <1>2, <2>1, LeafIsData
<1>4. /\ a \in MapState /\ a.i_zone = m.i_zone /\ a.free = m.free \union {z}
      /\ \A c \in Zones \ {z} : a.block[c] = m.block[c]
  BY <1>0, <1>3, FreeZone
<1> HIDE DEF a
<1>5. u = wr_indir(a, s, e, 0)
  BY MapConsts DEF a, Left
<1>6. /\ u \in MapState /\ u.i_zone = a.i_zone /\ u.free = a.free
      /\ \A c \in Zones : \A j \in Entries :
           u.block[c][j] = IF c = s /\ j = e THEN 0 ELSE a.block[c][j]
      /\ \A c \in Zones \ {s} : u.block[c] = a.block[c]
  BY <1>0, <1>1, <1>4, <1>5, WrIndir
<1> HIDE DEF u, z
<1>7. \A c \in Inds(m) : c \in Zones \ {z} /\ c # 0
  BY <1>0, <1>3, PlaceTypes, IndsAre
<1>8. Changed(m, u, s, e, 0)
  BY <1>1, <1>4, <1>6, <1>7 DEF Changed, IsPlace, ZoneAt
<1>9. Exact(u, {})
  BY <1>2, <1>3, <1>4, <1>6, <1>8, LeaveLeaf
<1>10. SameElsewhere(m, u, loc) /\ SingleOf(u, loc) = s
  <2>1. SameElsewhere(m, u, loc) /\ \A q \in Position : q >= NrDirect => SingleOf(u, q) = SingleOf(m, q)
    BY <1>0, <1>2, <1>6, <1>8, LeafSame
  <2> QED BY <2>1
<1>11. Inds(u) = Inds(m)
  BY <1>0, <1>2, <1>6, <1>8, LeafIndirects
<1>12. NoneEmpty(u, {s})
  <2> SUFFICES ASSUME NEW c \in Inds(u) \ ({u.i_zone[Double]} \union {s}) PROVE ~empty_indir(u, c)
    BY DEF NoneEmpty
  <2>1. c \in Inds(m) /\ c # m.i_zone[Double] /\ u.block[c] = m.block[c]
    BY <1>4, <1>6, <1>7, <1>11
  <2> QED BY <2>1 DEF NoneEmpty, empty_indir
<1> QED BY <1>4, <1>6, <1>9, <1>10, <1>12 DEF u

LEMMA FreeEntryStep ==
  ASSUME NEW m, Exact(m, {}), NoneEmpty(m, {}), NEW loc \in Position, loc >= NrDirect,
         NEW s, s = SingleOf(m, loc), s # 0
  PROVE  /\ Exact(FreeEntry(m, loc, s), {}) /\ NoneEmpty(FreeEntry(m, loc, s), {})
         /\ SameElsewhere(m, FreeEntry(m, loc, s), loc)
         /\ FreeEntry(m, loc, s).i_zone[Double] = m.i_zone[Double]
<1> DEFINE e == Excess(loc)
           m1 == IF m.block[s][e] = 0 THEN m ELSE Left(m, s, e)
           u == FreeEntry(m, loc, s)
<1>1. u = IF m1.block[s] = Zeroes THEN free_zone(SetSingle(m1, loc, NO_ZONE), s) ELSE m1
  BY MapConsts DEF FreeEntry, rd_indir, empty_indir, Left
<1>2. /\ Exact(m1, {}) /\ NoneEmpty(m1, {s}) /\ SameElsewhere(m, m1, loc)
      /\ SingleOf(m1, loc) = s /\ m1.i_zone = m.i_zone
  <2>1. CASE m.block[s][e] = 0
    BY <2>1 DEF NoneEmpty, SameElsewhere
  <2>2. CASE m.block[s][e] # 0
    BY <2>2, LeaveSingle
  <2> QED BY <2>1, <2>2
<1> HIDE DEF m1, u
<1>3. CASE m1.block[s] = Zeroes
  <2>1. u = DropSingle(m1, loc)
    BY <1>1, <1>2, <1>3 DEF DropSingle
  <2>2. Exact(u, {}) /\ Same(m1, u) /\ NoneEmpty(u, {}) /\ u.i_zone[Double] = m.i_zone[Double]
    BY <1>2, <1>3, <2>1, DropSingleStep
  <2> QED BY <1>2, <2>2 DEF Same, SameElsewhere, u
<1>4. CASE m1.block[s] # Zeroes
  <2>1. NoneEmpty(m1, {})
    BY <1>2, <1>4 DEF NoneEmpty, empty_indir
  <2> QED BY <1>1, <1>2, <1>4, <2>1 DEF u
<1> QED BY <1>3, <1>4

LEMMA WriteFree ==
  ASSUME NEW m, Exact(m, {}), NoneEmpty(m, {}), NEW loc \in Position
  PROVE  /\ Exact(write_map_free(m, loc), {}) /\ NoneEmpty(write_map_free(m, loc), {})
         /\ SameElsewhere(m, write_map_free(m, loc), loc)
<1> DEFINE u == write_map_free(m, loc)
<1>0. loc \in Nat /\ NrDirect \in Nat
  BY MapConsts DEF Position
<1>1. CASE loc < NrDirect
  <2>1. u = IF m.i_zone[loc] = NO_ZONE THEN m
            ELSE [free_zone(m, m.i_zone[loc]) EXCEPT !.i_zone[loc] = NO_ZONE]
    BY <1>1 DEF write_map_free
  <2> HIDE DEF u
  <2>2. CASE m.i_zone[loc] = NO_ZONE
    <3>1. u = m
      BY <2>1, <2>2
    <3> QED BY <3>1 DEF SameElsewhere, u
  <2>3. CASE m.i_zone[loc] # NO_ZONE
    <3>1. u = LeftInode(m, loc) /\ m.i_zone[loc] # 0
      BY <2>1, <2>3, MapConsts DEF LeftInode
    <3> QED BY <1>1, <3>1, LeaveDirect DEF u
  <2> QED BY <2>2, <2>3
<1>2. CASE loc >= NrDirect
  <2> DEFINE z2 == m.i_zone[Double]
             z1 == SingleOf(m, loc)
             m1 == IF z1 = NO_ZONE THEN m ELSE FreeEntry(m, loc, z1)
             last == SingleOf(m1, loc) = NO_ZONE /\ ~IsSingle(loc) /\ z2 # NO_ZONE /\ empty_indir(m1, z2)
  <2>1. u = IF last THEN [free_zone(m1, z2) EXCEPT !.i_zone[Double] = NO_ZONE] ELSE m1
    BY <1>0, <1>2 DEF write_map_free
  <2>2. Exact(m1, {}) /\ NoneEmpty(m1, {}) /\ SameElsewhere(m, m1, loc) /\ m1.i_zone[Double] = z2
    <3>1. CASE z1 = NO_ZONE
      BY <3>1 DEF SameElsewhere
    <3>2. CASE z1 # NO_ZONE
      <4>1. m1 = FreeEntry(m, loc, z1) /\ z1 # 0
        BY <3>2, MapConsts
      <4> HIDE DEF m1, z1
      <4>2. z1 = SingleOf(m, loc)
        BY DEF z1
      <4> QED BY <1>2, <4>1, <4>2, FreeEntryStep
    <3> QED BY <3>1, <3>2
  <2> HIDE DEF m1, u
  <2>3. CASE last
    <3>1. u = DropDouble(m1) /\ m1.i_zone[Double] # 0 /\ m1.block[m1.i_zone[Double]] = Zeroes
      BY <2>1, <2>2, <2>3, MapConsts DEF DropDouble, empty_indir
    <3>2. Exact(u, {}) /\ NoneEmpty(u, {}) /\ Same(m1, u)
      BY <2>2, <3>1, DropDoubleStep
    <3> QED BY <2>2, <3>2 DEF Same, SameElsewhere, u
  <2>4. CASE ~last
    BY <2>1, <2>2, <2>4 DEF u
  <2> QED BY <2>3, <2>4
<1> QED BY <1>0, <1>1, <1>2
-----------------------------------------------------------------------------
LEMMA MapInitInv == MapInit => MapInv
<1> SUFFICES ASSUME MapInit PROVE MapInv
  OBVIOUS
<1>1. /\ fmap.i_zone = [i \in 0..Double |-> 0] /\ fmap.free = Zones
      /\ fmap.block = [z \in Zones |-> Junk] /\ fmap \in MapState
  BY MapConsts DEF MapInit, MapState
<1>2. \A i \in 0..Double : fmap.i_zone[i] = 0
  BY <1>1
<1>3. \A z : z \notin Inds(fmap)
  BY <1>2, IndsAre, MapConsts
<1>4. \A b, i : IsPlace(fmap, b, i) => ZoneAt(fmap, b, i) = 0
  BY <1>2, <1>3 DEF IsPlace, ZoneAt
<1>5. Once(fmap) /\ Entered(fmap, {})
  BY <1>1, <1>4, MapConsts DEF Once, Entered
<1>6. NoneEmpty(fmap, {})
  BY <1>3 DEF NoneEmpty
<1> QED BY <1>1, <1>5, <1>6 DEF MapInv, Exact

LEMMA AddBlockStep ==
  ASSUME MapInv, NEW loc \in Position, AddBlock(loc)
  PROVE  MapInv' /\ SameElsewhere(fmap, fmap', loc)
<1> DEFINE z == alloc_zone(fmap)
           t == Taken(fmap, z)
           w == write_map_new(t, loc, z)
<1>1. /\ Exact(fmap, {}) /\ NoneEmpty(fmap, {}) /\ fmap \in MapState /\ fmap.free \subseteq Zones
      /\ read_map(fmap, loc) = 0 /\ z # 0
      /\ fmap' = IF w.r THEN w.m ELSE free_zone(w.m, z)
  BY MapConsts DEF MapInv, AddBlock, Exact, MapState
<1>2. z \in fmap.free /\ z \in Zones
  BY <1>1, Alloc
<1>3. t \in MapState /\ t.i_zone = fmap.i_zone /\ t.free = fmap.free \ {z} /\ t.block = fmap.block
  BY <1>1, <1>2, TakeZone
<1> HIDE DEF z, t
<1>4. Exact(t, {z}) /\ Same(fmap, t) /\ NoneEmpty(t, {})
  <2> DEFINE g == {}
  <2>1. Exact(fmap, g)
    BY <1>1
  <2> HIDE DEF g
  <2>2. Exact(t, g \union {z}) /\ Same(fmap, t) /\ \A x : NoneEmpty(fmap, x) => NoneEmpty(t, x)
    BY <2>1, <1>2, <1>3, TakeStep
  <2>3. g \union {z} = {z}
    BY DEF g
  <2> QED BY <2>2, <2>3, <1>1
<1>5. read_map(t, loc) = 0
  BY <1>1, <1>4 DEF Same
<1>6. WriteDone(t, loc, z, w)
  BY <1>4, <1>5, WriteNew
<1> HIDE DEF w
<1>7. CASE w.r
  <2>1. fmap' = w.m /\ Exact(w.m, {}) /\ NoneEmpty(w.m, {}) /\ SameElsewhere(t, w.m, loc)
    BY <1>1, <1>6, <1>7 DEF WriteDone
  <2>2. SameElsewhere(fmap, fmap', loc)
    BY <2>1, <1>4 DEF Same, SameElsewhere
  <2> QED BY <2>1, <2>2 DEF MapInv
<1>8. CASE ~w.r
  <2> DEFINE u == free_zone(w.m, z)  g == {z}
  <2>1. fmap' = u /\ Exact(w.m, g) /\ z \in g /\ NoneEmpty(w.m, {}) /\ Same(t, w.m)
    BY <1>1, <1>6, <1>8 DEF WriteDone
  <2> HIDE DEF g
  <2>2. Exact(u, g \ {z}) /\ Same(w.m, u) /\ NoneEmpty(u, {})
    BY <2>1, GiveStep
  <2>3. g \ {z} = {}
    BY DEF g
  <2> HIDE DEF u
  <2>4. SameElsewhere(fmap, fmap', loc)
    BY <2>1, <2>2, <1>4 DEF Same, SameElsewhere
  <2> QED BY <2>1, <2>2, <2>3, <2>4 DEF MapInv
<1> QED BY <1>7, <1>8

LEMMA MapStep ==
  ASSUME MapInv, MapNext
  PROVE  MapInv' /\ \E loc \in Position : SameElsewhere(fmap, fmap', loc)
<1>1. ASSUME NEW loc \in Position, AddBlock(loc)
      PROVE  MapInv' /\ \E p \in Position : SameElsewhere(fmap, fmap', p)
  BY <1>1, AddBlockStep
<1>2. ASSUME NEW loc \in Position, DropBlock(loc)
      PROVE  MapInv' /\ \E p \in Position : SameElsewhere(fmap, fmap', p)
  <2>1. fmap' = write_map_free(fmap, loc) /\ Exact(fmap, {}) /\ NoneEmpty(fmap, {})
    BY <1>2 DEF DropBlock, MapInv
  <2>2. Exact(fmap', {}) /\ NoneEmpty(fmap', {}) /\ SameElsewhere(fmap, fmap', loc)
    BY <2>1, WriteFree
  <2> QED BY <2>2 DEF MapInv
<1> QED BY <1>1, <1>2 DEF MapNext

\* The invariant counts each zone once.
LEMMA MapInvImplies == MapInv => ZonesExact
<1> SUFFICES ASSUME MapInv PROVE ZonesExact
  OBVIOUS
<1>0. fmap \in MapState /\ Once(fmap) /\ Entered(fmap, {}) /\ NoneEmpty(fmap, {})
  BY DEF MapInv, Exact
<1>1. ASSUME NEW z \in Zones PROVE References(fmap, z) = IF z \in fmap.free THEN 0 ELSE 1
  <2> DEFINE A == {i \in 0..Double : fmap.i_zone[i] = z}
             B == {p \in Inds(fmap) \X Entries : fmap.block[p[1]][p[2]] = z}
  <2>1. References(fmap, z) = Cardinality(A) + Cardinality(B)
    BY DEF References, Inds
  <2>2. \A i : i \in A <=> IsPlace(fmap, 0, i) /\ ZoneAt(fmap, 0, i) = z
    BY <1>0, IndsAre DEF IsPlace, ZoneAt
  <2>3. \A b \in Inds(fmap), i \in Entries : <<b, i>> \in B <=> (IsPlace(fmap, b, i) /\ ZoneAt(fmap, b, i) = z)
    <3> SUFFICES ASSUME NEW b \in Inds(fmap), NEW i \in Entries
                 PROVE  <<b, i>> \in B <=> (IsPlace(fmap, b, i) /\ ZoneAt(fmap, b, i) = z)
      OBVIOUS
    <3>1. IsPlace(fmap, b, i) /\ ZoneAt(fmap, b, i) = fmap.block[b][i]
      BY <1>0, PlacesAre
    <3> QED BY <3>1
  <2>4. \A p \in B : p = <<p[1], p[2]>> /\ p[1] \in Inds(fmap) /\ p[2] \in Entries
    OBVIOUS
  <2>5. z # 0 /\ \A b \in Inds(fmap) : b # 0
    BY MapConsts, IndsAre
  <2> HIDE DEF A, B
  <2>6. CASE z \in fmap.free
    <3>1. \A b, i : IsPlace(fmap, b, i) => ZoneAt(fmap, b, i) # z
      BY <2>6, NotListed DEF MapInv
    <3>2. A = {}
      BY <2>2, <3>1
    <3>3. B = {}
      BY <2>3, <2>4, <3>1
    <3> QED BY <2>1, <2>6, <3>2, <3>3, FS_EmptySet
  <2>7. CASE z \notin fmap.free
    <3>1. PICK b \in ZoneNo, i \in Nat : IsPlace(fmap, b, i) /\ ZoneAt(fmap, b, i) = z
      BY <2>7, <1>0 DEF Entered
    <3>2. \A c, j : IsPlace(fmap, c, j) /\ ZoneAt(fmap, c, j) = z => c = b /\ j = i
      BY <1>0, <2>5, <3>1, UseOnce
    <3>3. CASE b = 0
      <4>1. A = {i}
        BY <2>2, <3>1, <3>2, <3>3
      <4>2. B = {}
        BY <2>3, <2>4, <2>5, <3>2, <3>3
      <4>3. Cardinality(A) = 1
        BY <4>1, FS_Singleton
      <4>4. Cardinality(B) = 0
        BY <4>2, FS_EmptySet
      <4> QED BY <2>1, <2>7, <4>3, <4>4
    <3>4. CASE b # 0
      <4>1. A = {}
        BY <2>2, <3>2, <3>4
      <4>2. B = {<<b, i>>}
        <5>1. b \in Inds(fmap) /\ i \in Entries
          BY <3>1, <3>4 DEF IsPlace
        <5> QED BY <2>3, <2>4, <3>1, <3>2, <5>1
      <4>3. Cardinality(B) = 1
        BY <4>2, FS_Singleton, Zenon
      <4> QED BY <2>1, <2>7, <4>1, <4>3, FS_EmptySet
    <3> QED BY <3>3, <3>4
  <2> QED BY <2>6, <2>7
<1>2. \A z \in Indirects(fmap) \ {NO_ZONE, fmap.i_zone[Double]} : ~empty_indir(fmap, z)
  BY <1>0 DEF NoneEmpty, Inds
<1> QED BY <1>1, <1>2 DEF ZonesExact

LEMMA OneBlock ==
  ASSUME NEW loc \in Position, SameElsewhere(fmap, fmap', loc)
  PROVE  Cardinality({q \in Position : read_map(fmap, q)' # read_map(fmap, q)}) <= 1
<1> DEFINE S == {q \in Position : read_map(fmap, q)' # read_map(fmap, q)}
<1>1. S \subseteq {loc}
  BY DEF SameElsewhere
<1>2. S = {} \/ S = {loc}
  BY <1>1
<1>3. Cardinality(S) <= 1
  <2> HIDE DEF S
  <2> QED BY <1>2, FS_EmptySet, FS_Singleton
<1> QED BY <1>3

LEMMA MapCorrect == MapSpec => []MapInv
<1>1. MapInit => MapInv
  BY MapInitInv
<1>2. MapInv /\ [MapNext]_fmap => MapInv'
  <2> SUFFICES ASSUME MapInv, [MapNext]_fmap PROVE MapInv'
    OBVIOUS
  <2>1. CASE MapNext
    BY <2>1, MapStep
  <2>2. CASE UNCHANGED fmap
    BY <2>2 DEF MapInv
  <2> QED BY <2>1, <2>2
<1> QED BY <1>1, <1>2, PTL DEF MapSpec

\* For every size of inodes, indirect blocks and disks: whatever blocks
\* write_map enters and frees, on a full disk too, every zone is free or
\* entered in exactly one place, and no indirect block is kept that lists
\* nothing but for the double indirect one.
THEOREM ZonesCounted == MapSpec => []ZonesExact
BY MapCorrect, MapInvImplies, PTL

\* For the same sizes: new_block and write_map with WMAP_FREE change what
\* read_map says of one position at most, when indirect blocks come and go.
THEOREM OtherBlocksKept == MapSpec => OnlyThatBlock
<1>1. ASSUME MapInv, [MapNext]_fmap
      PROVE  [Cardinality(ChangedBlocks) <= 1]_fmap
  <2>1. CASE MapNext
    <3>1. PICK loc \in Position : SameElsewhere(fmap, fmap', loc)
      BY <1>1, <2>1, MapStep
    <3> QED BY <3>1, OneBlock DEF ChangedBlocks
  <2>2. CASE UNCHANGED fmap
    BY <2>2
  <2> QED BY <1>1, <2>1, <2>2
<1> QED BY <1>1, MapCorrect, PTL DEF MapSpec, OnlyThatBlock
-----------------------------------------------------------------------------
(* Directory listings *)

\* What is listed of an entry, and the fields of a directory.
Named == Entry \X {"DT_REG", "DT_DIR", "DT_LNK", "DT_CHR", "DT_BLK", "DT_FIFO", "DT_SOCK"}
DirState ==
  [slots : Seq(Entry \cup {Unused}), new : SUBSET Entry, pos : Nat, listed : Seq(Named),
   atStart : SUBSET Entry, eof : BOOLEAN,
   last : [r : {"OK", "EFAULT", "EINVAL"}, size : Nat, nbytes : Nat]]

\* Where the entries of a directory in state d are, and what the listing has:
\* an entry is in one slot, one that is still to be created in none and not in
\* the listing; one that is listed is gone or before the position, and only
\* once in the listing; one that was there all the time is behind the position
\* or listed.
Placed(d) ==
  /\ d.pos <= Len(d.slots)
  /\ \A j, k \in 1..Len(d.slots) : d.slots[j] = d.slots[k] /\ d.slots[j] # Unused => j = k
  /\ \A k \in 1..Len(d.slots) : d.slots[k] \notin d.new
Recorded(d) ==
  /\ \A i \in 1..Len(d.listed) :
       /\ d.listed[i][1] \notin d.new
       /\ \A k \in 1..Len(d.slots) : d.slots[k] = d.listed[i][1] => k <= d.pos
  /\ \A i, j \in 1..Len(d.listed) : d.listed[i][1] = d.listed[j][1] => i = j
InList(d, e) == \E i \in 1..Len(d.listed) : d.listed[i][1] = e
Awaited(d) ==
  \A e \in d.atStart : \E k \in 1..Len(d.slots) :
    d.slots[k] = e /\ (k <= d.pos \/ d.eof => InList(d, e))

DirOK(d) == /\ d \in DirState /\ Placed(d) /\ Recorded(d) /\ Awaited(d)
            /\ d.last.nbytes <= d.last.size
DirInv == DirOK(dir)

\* A directory with no unused slot, before the listing begins.
LEMMA DirInitInv == DirInit => DirInv
<1> SUFFICES ASSUME DirInit PROVE DirInv
  OBVIOUS
<1>1. PICK slots \in BoundedSeq(Entry, PerBlock + 1) : IsInjective(slots) /\ dir = DirStart(slots)
  BY DEF DirInit
<1>2. slots \in Seq(Entry)
  <2>1. PICK m \in 0..PerBlock + 1 : slots \in [1..m -> Entry]
    BY <1>1 DEF BoundedSeq, SeqOf
  <2> QED BY <2>1, DirAssumption
<1>3. slots \in Seq(Entry \cup {Unused}) /\ (\A j \in 1..Len(slots) : slots[j] \in Entry)
  BY <1>2
<1>4. \A j, k \in 1..Len(slots) : slots[j] = slots[k] => j = k
  BY <1>1, <1>2 DEF IsInjective
<1>5. ToSet(slots) = {slots[k] : k \in 1..Len(slots)}
  BY <1>2 DEF ToSet
<1>6. /\ dir.slots = slots /\ dir.new = Entry \ ToSet(slots) /\ dir.pos = 0 /\ dir.listed = <<>>
      /\ dir.atStart = ToSet(slots) /\ dir.eof = FALSE
      /\ dir.last = [r |-> "OK", size |-> 0, nbytes |-> 0]
  BY <1>1 DEF DirStart
<1>7. dir \in DirState
  <2>1. ToSet(slots) \subseteq Entry
    BY <1>3, <1>5
  <2> QED BY <1>1, <1>3, <2>1 DEF DirState, DirStart
<1>8. Placed(dir)
  BY <1>2, <1>4, <1>5, <1>6 DEF Placed
<1>9. Recorded(dir)
  BY <1>6 DEF Recorded
<1>10. Awaited(dir)
  <2> SUFFICES ASSUME NEW e \in dir.atStart
               PROVE  \E k \in 1..Len(dir.slots) :
                        dir.slots[k] = e /\ (k <= dir.pos \/ dir.eof => InList(dir, e))
    BY DEF Awaited
  <2>1. PICK k \in 1..Len(slots) : slots[k] = e
    BY <1>5, <1>6
  <2>2. ~(k <= dir.pos) /\ ~dir.eof
    BY <1>6, <2>1
  <2> QED BY <1>6, <2>1, <2>2
<1> QED BY <1>6, <1>7, <1>8, <1>9, <1>10 DEF DirInv, DirOK

\* search_dir enters a new name: its slot was unused, so nothing moves.
LEMMA AddInv ==
  ASSUME DirInv, NEW e \in Entry, AddEntry(e)
  PROVE  DirInv'
<1> DEFINE gaps == {k \in Slots : At(k) = Unused}
           x == CHOOSE k \in gaps : \A j \in gaps : k <= j
           s == IF gaps = {} THEN Append(dir.slots, e) ELSE [dir.slots EXCEPT ![1 + x] = e]
<1>1. e \in dir.new /\ dir' = [dir EXCEPT !.new = @ \ {e}, !.slots = s]
  BY DEF AddEntry
<1>2. dir \in DirState /\ Placed(dir) /\ Recorded(dir) /\ Awaited(dir) /\ dir.last.nbytes <= dir.last.size
  BY DEF DirInv, DirOK
<1>3. dir.slots \in Seq(Entry \cup {Unused}) /\ dir.new \subseteq Entry /\ Len(dir.slots) \in Nat
      /\ dir.pos \in Nat /\ e # Unused
  BY <1>2, DirAssumption DEF DirState, Unused
<1>4. gaps # {} => x + 1 \in 1..Len(dir.slots) /\ dir.slots[x + 1] = Unused /\ 1 + x = x + 1
  <2> SUFFICES ASSUME gaps # {} PROVE x + 1 \in 1..Len(dir.slots) /\ dir.slots[x + 1] = Unused /\ 1 + x = x + 1
    OBVIOUS
  <2>1. gaps \subseteq Nat
    BY <1>3 DEF Slots
  <2>2. \E k \in gaps : \A j \in gaps : k <= j
    <3> HIDE DEF gaps
    <3> QED BY <2>1, MinNat, Zenon
  <2>3. x \in gaps
    <3> HIDE DEF gaps
    <3> QED BY <2>2
  <2> HIDE DEF x
  <2> QED BY <1>3, <2>3 DEF Slots, At
<1> HIDE DEF gaps, x
\* Every slot is as it was, but for one that was unused or is new.
<1>5. PICK h \in Nat :
        /\ s \in Seq(Entry \cup {Unused}) /\ Len(s) >= Len(dir.slots) /\ h \in 1..Len(s) /\ s[h] = e
        /\ h \in 1..Len(dir.slots) => dir.slots[h] = Unused
        /\ \A k \in 1..Len(s) : k # h => k \in 1..Len(dir.slots) /\ s[k] = dir.slots[k]
  <2>1. CASE gaps = {}
    <3>1. s = Append(dir.slots, e)
      BY <2>1
    <3>2. /\ s \in Seq(Entry \cup {Unused}) /\ Len(s) = Len(dir.slots) + 1 /\ s[Len(dir.slots) + 1] = e
          /\ \A k \in 1..Len(dir.slots) : s[k] = dir.slots[k]
      BY <1>3, <3>1
    <3>3. Len(dir.slots) + 1 \in Nat /\ (\A k \in 1..Len(s) : k # Len(dir.slots) + 1 => k \in 1..Len(dir.slots))
      BY <1>3, <3>2
    <3> HIDE DEF s
    <3> QED BY <1>3, <3>2, <3>3
  <2>2. CASE gaps # {}
    <3>1. s = [dir.slots EXCEPT ![x + 1] = e] /\ x + 1 \in 1..Len(dir.slots) /\ dir.slots[x + 1] = Unused
      BY <1>4, <2>2
    <3>2. x + 1 \in Nat
      BY <3>1
    <3> HIDE DEF s
    <3>3. s \in Seq(Entry \cup {Unused}) /\ Len(s) = Len(dir.slots)
      BY <1>3, <3>1
    <3>4. s[x + 1] = e /\ \A k \in 1..Len(s) : k # x + 1 => s[k] = dir.slots[k]
      BY <1>3, <3>1, <3>3
    <3> QED BY <1>3, <3>1, <3>2, <3>3, <3>4
  <2> QED BY <2>1, <2>2
<1> HIDE DEF s
<1>6. /\ dir'.slots = s /\ dir'.new = dir.new \ {e} /\ dir'.pos = dir.pos /\ dir'.listed = dir.listed
      /\ dir'.atStart = dir.atStart /\ dir'.eof = dir.eof /\ dir'.last = dir.last
      /\ dir' \in DirState
  BY <1>1, <1>2, <1>3, <1>5 DEF DirState
<1>7. Placed(dir')
  <2>1. \A k \in 1..Len(dir.slots) : dir.slots[k] # e
    BY <1>1, <1>2 DEF Placed
  <2>2. \A j, k \in 1..Len(s) : s[j] = s[k] /\ s[j] # Unused => j = k
    BY <1>2, <1>5, <2>1 DEF Placed
  <2>3. \A k \in 1..Len(s) : s[k] \notin dir'.new
    BY <1>2, <1>5, <1>6 DEF Placed
  <2>4. dir.pos <= Len(s)
    BY <1>2, <1>3, <1>5 DEF Placed
  <2> QED BY <1>6, <2>2, <2>3, <2>4 DEF Placed
<1>8. Recorded(dir')
  <2>1. ASSUME NEW i \in 1..Len(dir.listed)
        PROVE  /\ dir.listed[i][1] \notin dir'.new
               /\ \A k \in 1..Len(s) : s[k] = dir.listed[i][1] => k <= dir.pos
    <3>1. dir.listed[i][1] \notin dir.new /\ dir.listed[i][1] # e
      BY <1>1, <1>2 DEF Recorded
    <3> QED BY <1>2, <1>5, <1>6, <3>1 DEF Recorded
  <2> QED BY <1>2, <1>6, <2>1 DEF Recorded
<1>9. Awaited(dir')
  <2> SUFFICES ASSUME NEW f \in dir.atStart
               PROVE  \E k \in 1..Len(s) : s[k] = f /\ (k <= dir.pos \/ dir.eof => InList(dir, f))
    BY <1>6 DEF Awaited, InList
  <2>1. PICK k \in 1..Len(dir.slots) : dir.slots[k] = f /\ (k <= dir.pos \/ dir.eof => InList(dir, f))
    BY <1>2 DEF Awaited
  <2>2. f # Unused
    BY <1>2, DirAssumption DEF DirState, Unused
  <2>3. k # h /\ k \in 1..Len(s)
    BY <1>3, <1>5, <2>1, <2>2
  <2> QED BY <1>5, <2>1, <2>3
<1> QED BY <1>2, <1>6, <1>7, <1>8, <1>9 DEF DirInv, DirOK

\* search_dir clears a slot: the entry may be listed, but waits no longer.
LEMMA RemoveInv ==
  ASSUME DirInv, NEW k0 \in Slots, RemoveEntry(k0)
  PROVE  DirInv'
<1> DEFINE h == k0 + 1
           s == [dir.slots EXCEPT ![h] = Unused]
<1>1. dir.slots[h] # Unused /\ dir' = [dir EXCEPT !.slots = s, !.atStart = @ \ {dir.slots[h]}]
  BY DEF RemoveEntry, At
<1>2. dir \in DirState /\ Placed(dir) /\ Recorded(dir) /\ Awaited(dir) /\ dir.last.nbytes <= dir.last.size
  BY DEF DirInv, DirOK
<1>3. dir.slots \in Seq(Entry \cup {Unused}) /\ dir.new \subseteq Entry /\ Len(dir.slots) \in Nat
      /\ Unused \notin Entry
  BY <1>2, DirAssumption DEF DirState, Unused
<1>4. h \in 1..Len(dir.slots)
  BY <1>3 DEF Slots
<1> HIDE DEF h
<1>5. /\ s \in Seq(Entry \cup {Unused}) /\ Len(s) = Len(dir.slots) /\ s[h] = Unused
      /\ \A k \in 1..Len(s) : k # h => s[k] = dir.slots[k]
  BY <1>3, <1>4
<1> HIDE DEF s
<1>6. /\ dir'.slots = s /\ dir'.new = dir.new /\ dir'.pos = dir.pos /\ dir'.listed = dir.listed
      /\ dir'.atStart = dir.atStart \ {dir.slots[h]} /\ dir'.eof = dir.eof /\ dir'.last = dir.last
      /\ dir' \in DirState
  BY <1>1, <1>2, <1>5 DEF DirState
<1>7. Placed(dir')
  <2>1. \A j, k \in 1..Len(s) : s[j] = s[k] /\ s[j] # Unused => j = k
    BY <1>2, <1>5 DEF Placed
  <2>2. \A k \in 1..Len(s) : s[k] \notin dir.new
    BY <1>2, <1>3, <1>5 DEF Placed
  <2> QED BY <1>2, <1>5, <1>6, <2>1, <2>2 DEF Placed
<1>8. Recorded(dir')
  <2>1. ASSUME NEW i \in 1..Len(dir.listed), NEW k \in 1..Len(s), s[k] = dir.listed[i][1]
        PROVE  k <= dir.pos
    <3>1. dir.listed[i] \in Named
      BY <1>2 DEF DirState
    <3>2. dir.listed[i][1] # Unused
      BY <1>3, <3>1 DEF Named
    <3> QED BY <1>2, <1>5, <2>1, <3>2 DEF Recorded
  <2> QED BY <1>2, <1>6, <2>1 DEF Recorded
<1>9. Awaited(dir')
  <2> SUFFICES ASSUME NEW f \in dir.atStart, f # dir.slots[h]
               PROVE  \E k \in 1..Len(s) : s[k] = f /\ (k <= dir.pos \/ dir.eof => InList(dir, f))
    BY <1>6 DEF Awaited, InList
  <2>1. PICK k \in 1..Len(dir.slots) : dir.slots[k] = f /\ (k <= dir.pos \/ dir.eof => InList(dir, f))
    BY <1>2 DEF Awaited
  <2> QED BY <1>5, <2>1
<1> QED BY <1>2, <1>6, <1>7, <1>8, <1>9 DEF DirInv, DirOK
\* The loop of fs_getdents: the state it starts in, the states f[0], ..., f[n]
\* it passes, how many slots are dealt with, and which of them have an entry
\* that is still to be returned.
ScanStart == [done |-> FALSE, user |-> 0, tmp |-> 0, copies |-> 0, out |-> <<>>,
              new_pos |-> Len(dir.slots)]
Scan(f, size, n) ==
  f = [i \in 0..n |-> IF i <= dir.pos THEN ScanStart ELSE OneEntry(f[i - 1], i - 1, size)]
ScanState == [done : BOOLEAN, user : Nat, tmp : Nat, copies : Nat, out : Seq(Named), new_pos : Nat]
Got(a, n) == IF a.done THEN a.new_pos ELSE IF n <= dir.pos THEN dir.pos ELSE n
Unlisted(g) == {k \in 1..Len(dir.slots) : dir.pos < k /\ k <= g /\ dir.slots[k] # Unused}

\* The entries of these slots are returned, each once, and no others.
OutIs(out, g) ==
  /\ \A i \in 1..Len(out) : \E k \in Unlisted(g) : dir.slots[k] = out[i][1]
  /\ \A i, j \in 1..Len(out) : out[i][1] = out[j][1] => i = j
  /\ \A k \in Unlisted(g) : \E i \in 1..Len(out) : out[i][1] = dir.slots[k]
Scanned(a, n, size) ==
  /\ a \in ScanState /\ (~a.done => a.new_pos = Len(dir.slots))
  /\ dir.pos <= Got(a, n) /\ Got(a, n) <= Len(dir.slots)
  /\ OutIs(a.out, Got(a, n))
  /\ a.out = <<>> <=> a.user + a.tmp = 0
  /\ a.user + a.tmp <= size

\* The loop has a state after each number of slots.
LEMMA ScanExists ==
  ASSUME NEW size, dir.pos \in Nat
  PROVE  \A n \in Nat : \E f : Scan(f, size, n)
<1> DEFINE S == {n \in Nat : \E f : Scan(f, size, n)}
<1>1. 0 \in S
  <2> DEFINE f == [i \in 0..0 |-> ScanStart]
  <2>1. \A i \in 0..0 : i <= dir.pos
    OBVIOUS
  <2>2. Scan(f, size, 0)
    BY <2>1 DEF Scan
  <2> QED BY <2>2
<1>2. ASSUME NEW n \in Nat, n \in S PROVE n + 1 \in S
  <2>1. PICK f : Scan(f, size, n)
    BY <1>2
  <2> DEFINE g == [i \in 0..n + 1 |->
                     IF i # n + 1 THEN f[i]
                     ELSE IF n + 1 <= dir.pos THEN ScanStart ELSE OneEntry(f[n], n, size)]
  <2>2. ASSUME NEW i \in 0..n + 1
        PROVE  g[i] = IF i <= dir.pos THEN ScanStart ELSE OneEntry(g[i - 1], i - 1, size)
    <3>1. CASE i = n + 1
      <4>1. i - 1 = n /\ n \in 0..n + 1 /\ n # n + 1
        BY <3>1
      <4>2. g[i - 1] = f[n]
        BY <4>1
      <4> QED BY <3>1, <4>1, <4>2
    <3>2. CASE i # n + 1
      <4>1. i \in 0..n
        BY <3>2
      <4>2. f[i] = IF i <= dir.pos THEN ScanStart ELSE OneEntry(f[i - 1], i - 1, size)
        BY <2>1, <4>1 DEF Scan
      <4>3. ~(i <= dir.pos) => i - 1 \in 0..n + 1 /\ i - 1 # n + 1
        BY <4>1
      <4>4. ~(i <= dir.pos) => g[i - 1] = f[i - 1]
        BY <4>3
      <4>5. g[i] = f[i]
        BY <3>2
      <4> QED BY <4>2, <4>4, <4>5
    <3> QED BY <3>1, <3>2
  <2>3. Scan(g, size, n + 1)
    BY <2>2 DEF Scan
  <2> QED BY <2>3
<1>3. \A n \in Nat : n \in S
  <2> HIDE DEF S
  <2> QED BY <1>1, <1>2, SetInduction
<1> QED BY <1>3

\* The result of the loop is its state after the last slot.
LEMMA ScanFromIs ==
  ASSUME NEW size, dir.pos \in Nat, Len(dir.slots) \in Nat
  PROVE  \E f : Scan(f, size, Len(dir.slots)) /\ ScanFrom(dir.pos, size) = f[Len(dir.slots)]
<1>1. \E f : Scan(f, size, Len(dir.slots))
  BY ScanExists
<1> DEFINE F == CHOOSE f : Scan(f, size, Len(dir.slots))
<1>2. Scan(F, size, Len(dir.slots))
  BY <1>1, Zenon
<1>3. ScanFrom(dir.pos, size) = F[Len(dir.slots)]
  BY DEF ScanFrom, Scan, ScanStart
<1> QED BY <1>2, <1>3

\* One more slot.
LEMMA ScanOne ==
  ASSUME DirInv, NEW size \in Nat, NEW n \in Nat, n < Len(dir.slots), dir.pos <= n,
         NEW a, Scanned(a, n, size)
  PROVE  Scanned(OneEntry(a, n, size), n + 1, size)
<1> DEFINE e == dir.slots[n + 1]
           b == OneEntry(a, n, size)
<1>1. /\ dir \in DirState /\ Placed(dir) /\ dir.slots \in Seq(Entry \cup {Unused})
      /\ Len(dir.slots) \in Nat /\ dir.pos \in Nat /\ n + 1 \in 1..Len(dir.slots) /\ e \in Entry \cup {Unused}
  BY DEF DirInv, DirOK, DirState
<1>2. /\ a \in ScanState /\ OutIs(a.out, Got(a, n)) /\ a.user + a.tmp <= size
      /\ a.out = <<>> <=> a.user + a.tmp = 0
      /\ a.done \in BOOLEAN /\ a.user \in Nat /\ a.tmp \in Nat /\ a.copies \in Nat
      /\ a.out \in Seq(Named) /\ Len(a.out) \in Nat /\ a.new_pos \in Nat
      /\ ~a.done => a.new_pos = Len(dir.slots)
      /\ dir.pos <= Got(a, n) /\ Got(a, n) <= Len(dir.slots)
  BY DEF Scanned, ScanState
<1>3. CASE a.done
  <2>1. b = a
    BY <1>3 DEF OneEntry
  <2>2. Got(a, n + 1) = Got(a, n)
    BY <1>3 DEF Got
  <2> QED BY <1>2, <1>3, <2>1, <2>2 DEF Scanned
<1>4. CASE ~a.done /\ e = Unused
  <2>1. b = a
    BY <1>4 DEF OneEntry, At
  <2>2. Got(a, n + 1) = n + 1 /\ Got(a, n) = n
    BY <1>1, <1>4 DEF Got
  <2>3. Unlisted(n + 1) = Unlisted(n)
    BY <1>1, <1>4 DEF Unlisted
  <2>4. OutIs(a.out, n + 1)
    BY <1>2, <2>2, <2>3 DEF OutIs
  <2> QED BY <1>1, <1>2, <2>1, <2>2, <2>4 DEF Scanned
<1>5. ASSUME ~a.done, e # Unused PROVE Scanned(b, n + 1, size)
  <2>1. e \in Entry /\ Reclen[e] \in Nat /\ Reclen[e] > 0
    BY <1>1, <1>5, DirAssumption
  <2>2. Got(a, n) = n
    BY <1>1, <1>5 DEF Got
  <2>3. CASE a.user + a.tmp + Reclen[e] >= size
    <3>1. b = [a EXCEPT !.done = TRUE, !.new_pos = n]
      BY <1>5, <2>3 DEF OneEntry, At, NextPos
    <3> HIDE DEF b
    <3>2. b \in ScanState /\ b.done /\ b.new_pos = n /\ b.user = a.user /\ b.tmp = a.tmp /\ b.out = a.out
      BY <1>2, <3>1 DEF ScanState
    <3>3. Got(b, n + 1) = n
      BY <3>2 DEF Got
    <3> QED BY <1>1, <1>2, <2>2, <3>2, <3>3 DEF Scanned
  <2>4. CASE ~(a.user + a.tmp + Reclen[e] >= size)
    <3> DEFINE flush == a.tmp + Reclen[e] >= TmpSize
               t == <<e, fs_mode_to_type(Mode[e])>>
               o == Append(a.out, t)
    <3>1. b = [a EXCEPT !.user = IF flush THEN a.user + a.tmp ELSE a.user,
                        !.tmp = (IF flush THEN 0 ELSE a.tmp) + Reclen[e],
                        !.copies = IF flush THEN a.copies + 1 ELSE a.copies,
                        !.out = o]
      BY <1>5, <2>4 DEF OneEntry, At
    <3>2. t \in Named /\ t[1] = e
      BY <2>1, DirAssumption DEF Named, fs_mode_to_type
    <3> HIDE DEF b, t
    <3>3. o \in Seq(Named) /\ Len(o) = Len(a.out) + 1 /\ o[Len(a.out) + 1] = t
          /\ \A i \in 1..Len(a.out) : o[i] = a.out[i]
      BY <1>2, <3>2
    <3> HIDE DEF o
    <3>4. /\ b \in ScanState /\ b.done = FALSE /\ b.new_pos = a.new_pos /\ b.out = o
          /\ b.user + b.tmp = a.user + a.tmp + Reclen[e]
      <4> DEFINE u == IF flush THEN a.user + a.tmp ELSE a.user
                 m == (IF flush THEN 0 ELSE a.tmp) + Reclen[e]
                 c == IF flush THEN a.copies + 1 ELSE a.copies
      <4>1. u \in Nat /\ m \in Nat /\ c \in Nat /\ u + m = a.user + a.tmp + Reclen[e]
        <5>0. a.user \in Nat /\ a.tmp \in Nat /\ a.copies \in Nat /\ Reclen[e] \in Nat
          BY <1>2, <2>1
        <5> HIDE DEF flush, e
        <5>1. CASE flush
          BY <5>0, <5>1
        <5>2. CASE ~flush
          BY <5>0, <5>2
        <5> QED BY <5>1, <5>2
      <4>2. b = [a EXCEPT !.user = u, !.tmp = m, !.copies = c, !.out = o]
        BY <3>1
      <4> HIDE DEF u, m, c
      <4> QED BY <1>2, <1>5, <3>3, <4>1, <4>2 DEF ScanState
    <3>5. Got(b, n + 1) = n + 1
      BY <1>1, <3>4 DEF Got
    <3>6. /\ n + 1 \in Unlisted(n + 1) /\ Unlisted(n) \subseteq Unlisted(n + 1)
          /\ \A k \in Unlisted(n + 1) : k # n + 1 => k \in Unlisted(n)
          /\ \A k \in Unlisted(n) : k \in 1..Len(dir.slots) /\ k <= n
      BY <1>1, <1>5 DEF Unlisted
    <3>7. OutIs(o, n + 1)
      <4>0. OutIs(a.out, n)
        BY <1>2, <2>2
      <4>a. \A i \in 1..Len(o) : i = Len(a.out) + 1 \/ i \in 1..Len(a.out)
        BY <1>2, <3>3
      <4>1. ASSUME NEW i \in 1..Len(o) PROVE \E k \in Unlisted(n + 1) : dir.slots[k] = o[i][1]
        <5>1. CASE i = Len(a.out) + 1
          BY <3>2, <3>3, <3>6, <5>1
        <5>2. CASE i \in 1..Len(a.out)
          <6>1. o[i] = a.out[i]
            BY <3>3, <5>2
          <6>2. PICK k \in Unlisted(n) : dir.slots[k] = a.out[i][1]
            BY <4>0, <5>2, Zenon DEF OutIs
          <6> QED BY <3>6, <6>1, <6>2
        <5> QED BY <4>a, <5>1, <5>2
      <4>2. \A i \in 1..Len(a.out) : o[i][1] # e
        <5> SUFFICES ASSUME NEW i \in 1..Len(a.out), o[i][1] = e PROVE FALSE
          OBVIOUS
        <5>1. PICK k \in Unlisted(n) : dir.slots[k] = e
          <6>1. o[i] = a.out[i]
            BY <3>3
          <6>2. PICK k \in Unlisted(n) : dir.slots[k] = a.out[i][1]
            BY <4>0, Zenon DEF OutIs
          <6> QED BY <6>1, <6>2
        <5>2. k = n + 1
          BY <1>1, <1>5, <3>6, <5>1 DEF Placed
        <5> QED BY <3>6, <5>1, <5>2
      <4>3. ASSUME NEW i \in 1..Len(o), NEW j \in 1..Len(o), o[i][1] = o[j][1] PROVE i = j
        <5>1. CASE i \in 1..Len(a.out) /\ j \in 1..Len(a.out)
          BY <3>3, <4>0, <4>3, <5>1 DEF OutIs
        <5> QED BY <3>2, <3>3, <4>a, <4>2, <4>3, <5>1
      <4>4. ASSUME NEW k \in Unlisted(n + 1) PROVE \E i \in 1..Len(o) : o[i][1] = dir.slots[k]
        <5>1. CASE k = n + 1
          <6>1. Len(a.out) + 1 \in 1..Len(o)
            BY <1>2, <3>3
          <6> QED BY <3>2, <3>3, <5>1, <6>1
        <5>2. CASE k # n + 1
          <6>1. PICK i \in 1..Len(a.out) : a.out[i][1] = dir.slots[k]
            BY <3>6, <4>0, <5>2 DEF OutIs
          <6>2. i \in 1..Len(o)
            BY <1>2, <3>3
          <6> QED BY <3>3, <6>1, <6>2
        <5> QED BY <5>1, <5>2
      <4> QED BY <4>1, <4>3, <4>4 DEF OutIs
    <3>8. o # <<>> /\ b.user + b.tmp # 0 /\ b.user + b.tmp <= size
      <4>1. Len(o) # 0
        BY <1>2, <3>3
      <4> QED BY <1>2, <2>1, <2>4, <3>4, <4>1
    <3> QED BY <1>1, <1>2, <1>5, <3>4, <3>5, <3>7, <3>8 DEF Scanned
  <2> QED BY <2>3, <2>4
<1> QED BY <1>2, <1>3, <1>4, <1>5

\* The whole loop.
LEMMA ScanAll ==
  ASSUME DirInv, NEW size \in Nat
  PROVE  Scanned(ScanFrom(dir.pos, size), Len(dir.slots), size)
<1>1. /\ dir.slots \in Seq(Entry \cup {Unused}) /\ Len(dir.slots) \in Nat
      /\ dir.pos \in Nat /\ dir.pos <= Len(dir.slots)
  BY DEF DirInv, DirOK, DirState, Placed
<1>2. PICK f : Scan(f, size, Len(dir.slots)) /\ ScanFrom(dir.pos, size) = f[Len(dir.slots)]
  BY <1>1, ScanFromIs
<1>3. \A i \in 0..Len(dir.slots) :
        f[i] = IF i <= dir.pos THEN ScanStart ELSE OneEntry(f[i - 1], i - 1, size)
  BY <1>2, Zenon DEF Scan
<1>4. ASSUME NEW n \in Nat, n <= dir.pos PROVE Scanned(ScanStart, n, size)
  <2>1. Got(ScanStart, n) = dir.pos
    BY <1>4 DEF Got, ScanStart
  <2>2. Unlisted(dir.pos) = {}
    BY <1>1 DEF Unlisted
  <2>3. OutIs(<<>>, dir.pos)
    BY <2>2 DEF OutIs
  <2>4. ScanStart \in ScanState
    BY <1>1 DEF ScanStart, ScanState
  <2>5. /\ ScanStart.out = <<>> /\ ScanStart.user + ScanStart.tmp = 0
        /\ ScanStart.new_pos = Len(dir.slots)
    BY DEF ScanStart
  <2> QED BY <1>1, <2>1, <2>3, <2>4, <2>5 DEF Scanned
<1> DEFINE S == {n \in Nat : n <= Len(dir.slots) => Scanned(f[n], n, size)}
<1>5. 0 \in S
  <2>1. f[0] = ScanStart
    BY <1>1, <1>3
  <2> QED BY <1>1, <1>4, <2>1
<1>6. ASSUME NEW n \in Nat, n \in S PROVE n + 1 \in S
  <2> SUFFICES ASSUME n + 1 <= Len(dir.slots) PROVE Scanned(f[n + 1], n + 1, size)
    OBVIOUS
  <2>1. n + 1 \in 0..Len(dir.slots) /\ n + 1 - 1 = n /\ n < Len(dir.slots)
    BY <1>1
  <2>2. f[n + 1] = IF n + 1 <= dir.pos THEN ScanStart ELSE OneEntry(f[n], n, size)
    BY <1>3, <2>1
  <2>3. CASE n + 1 <= dir.pos
    BY <1>4, <2>2, <2>3
  <2>4. CASE ~(n + 1 <= dir.pos)
    <3>1. dir.pos <= n /\ Scanned(f[n], n, size)
      BY <1>1, <1>6, <2>1, <2>4
    <3> QED BY <2>1, <2>2, <2>4, <3>1, ScanOne
  <2> QED BY <2>3, <2>4
<1>7. \A n \in Nat : n \in S
  <2> HIDE DEF S
  <2> QED BY <1>5, <1>6, SetInduction
<1> QED BY <1>1, <1>2, <1>7

\* A call that fails changes nothing; one that returns nothing has come to the
\* end; another moves the position behind the last entry that it returned.
LEMMA GetdentsInv ==
  ASSUME DirInv, NEW size \in BufSize, NEW copyFails \in BOOLEAN, fs_getdents(size, copyFails)
  PROVE  DirInv'
<1> DEFINE a == ScanFrom(dir.pos, size)
           n == a.user + a.tmp
           r == CASE copyFails -> "EFAULT" [] ~copyFails /\ a.done /\ n = 0 -> "EINVAL" [] OTHER -> "OK"
           L == Len(dir.slots)
           g == Got(a, L)
<1>1. size \in Nat
  BY DirAssumption
<1>2. Scanned(a, L, size)
  BY <1>1, ScanAll
<1>3. /\ ~dir.eof /\ r \in {"OK", "EFAULT", "EINVAL"} /\ (r = "OK" /\ n = 0 => ~a.done)
      /\ dir' = [dir EXCEPT
                   !.last = [r |-> r, size |-> size, nbytes |-> IF r = "OK" THEN n ELSE 0],
                   !.eof = r = "OK" /\ n = 0,
                   !.listed = IF r = "OK" THEN @ \o a.out ELSE @,
                   !.pos = IF r = "OK" /\ n > 0 THEN a.new_pos ELSE @]
  BY DEF fs_getdents
<1> HIDE DEF a, r
<1>4. dir \in DirState /\ Placed(dir) /\ Recorded(dir) /\ Awaited(dir) /\ dir.last.nbytes <= dir.last.size
  BY DEF DirInv, DirOK
<1>5. /\ dir.slots \in Seq(Entry \cup {Unused}) /\ L \in Nat /\ dir.pos \in Nat /\ dir.pos <= L
      /\ dir.listed \in Seq(Named) /\ Len(dir.listed) \in Nat /\ dir.atStart \subseteq Entry
      /\ Unused \notin Entry
  BY <1>4, DirAssumption DEF DirState, Placed, Unused
<1>6. /\ a \in ScanState /\ a.out \in Seq(Named) /\ Len(a.out) \in Nat /\ a.new_pos \in Nat
      /\ n \in Nat /\ n <= size /\ (a.out = <<>> <=> n = 0)
      /\ dir.pos <= g /\ g <= L /\ OutIs(a.out, g)
  BY <1>2 DEF Scanned, ScanState
<1>7. a.new_pos = L \/ a.new_pos = g
  BY <1>2 DEF Scanned, Got
<1>8. a.new_pos = g /\ g \in Nat
  BY <1>2, <1>5, <1>6 DEF Scanned, Got
<1> HIDE DEF n, L, g
<1>9. CASE r # "OK"
  <2>1. /\ dir'.slots = dir.slots /\ dir'.new = dir.new /\ dir'.pos = dir.pos /\ dir'.listed = dir.listed
        /\ dir'.atStart = dir.atStart /\ dir'.eof = FALSE
        /\ dir'.last = [r |-> r, size |-> size, nbytes |-> 0] /\ dir' \in DirState
    BY <1>1, <1>3, <1>4, <1>9 DEF DirState
  <2>2. Placed(dir') /\ Recorded(dir')
    BY <1>4, <2>1 DEF Placed, Recorded
  <2>3. Awaited(dir')
    <3>1. \A e : InList(dir, e) => InList(dir', e)
      BY <2>1 DEF InList
    <3> QED BY <1>3, <1>4, <2>1, <3>1 DEF Awaited
  <2> QED BY <1>1, <2>1, <2>2, <2>3 DEF DirInv, DirOK
<1>10. CASE r = "OK" /\ n = 0
  <2>1. dir.listed \o a.out = dir.listed
    <3>1. a.out = <<>>
      BY <1>6, <1>10
    <3> QED BY <1>5, <3>1
  <2>2. /\ dir'.slots = dir.slots /\ dir'.new = dir.new /\ dir'.pos = dir.pos /\ dir'.listed = dir.listed
        /\ dir'.atStart = dir.atStart /\ dir'.eof = TRUE
        /\ dir'.last = [r |-> r, size |-> size, nbytes |-> 0] /\ dir' \in DirState
    <3>1. dir' = [dir EXCEPT !.last = [r |-> r, size |-> size, nbytes |-> 0], !.eof = TRUE]
      <4>1. dir.listed \o a.out = dir.listed /\ ~(n > 0)
        BY <1>10, <2>1
      <4>2. dir = [dir EXCEPT !.listed = dir.listed, !.pos = dir.pos]
        BY <1>4 DEF DirState
      <4> QED BY <1>3, <1>4, <1>10, <4>1, <4>2 DEF DirState
    <3>2. [r |-> r, size |-> size, nbytes |-> 0] \in [r : {"OK", "EFAULT", "EINVAL"}, size : Nat, nbytes : Nat]
      BY <1>1, <1>3
    <3> QED BY <1>4, <3>1, <3>2 DEF DirState
  <2>3. Placed(dir') /\ Recorded(dir')
    BY <1>4, <2>2 DEF Placed, Recorded
  <2>4. Unlisted(g) = {} /\ g = L
    BY <1>3, <1>5, <1>6, <1>10 DEF OutIs, g, Got, L
  <2>5. Awaited(dir')
    <3> SUFFICES ASSUME NEW e \in dir.atStart
                 PROVE  \E k \in 1..Len(dir.slots) : dir.slots[k] = e /\ InList(dir, e)
      BY <2>2 DEF Awaited, InList
    <3>1. PICK k \in 1..Len(dir.slots) : dir.slots[k] = e /\ (k <= dir.pos \/ dir.eof => InList(dir, e))
      BY <1>4 DEF Awaited
    <3>2. e # Unused
      BY <1>5
    <3>3. k <= dir.pos
      BY <1>5, <2>4, <3>1, <3>2 DEF Unlisted, L
    <3> QED BY <3>1, <3>3
  <2> QED BY <1>1, <2>2, <2>3, <2>5 DEF DirInv, DirOK
<1>11. CASE r = "OK" /\ n # 0
  <2> DEFINE q == dir.listed \o a.out
  <2>1. /\ q \in Seq(Named) /\ Len(q) = Len(dir.listed) + Len(a.out)
        /\ \A i \in 1..Len(dir.listed) : q[i] = dir.listed[i]
        /\ \A i \in 1..Len(a.out) : q[Len(dir.listed) + i] = a.out[i]
    <3> DEFINE l == dir.listed
               o == a.out
    <3>1. l \in Seq(Named) /\ o \in Seq(Named)
      BY <1>5, <1>6
    <3> HIDE DEF l, o
    <3>2. /\ l \o o \in Seq(Named) /\ Len(l \o o) = Len(l) + Len(o)
          /\ \A i \in 1..Len(l) : (l \o o)[i] = l[i]
      BY <3>1
    <3>3. \A i \in 1..Len(o) : (l \o o)[Len(l) + i] = o[i]
      BY <3>1
    <3> QED BY <3>2, <3>3 DEF l, o
  <2>2. n > 0
    BY <1>6, <1>11
  <2>3. /\ dir'.slots = dir.slots /\ dir'.new = dir.new /\ dir'.pos = g /\ dir'.listed = q
        /\ dir'.atStart = dir.atStart /\ dir'.eof = FALSE
        /\ dir'.last = [r |-> r, size |-> size, nbytes |-> n] /\ dir' \in DirState
    <3> HIDE DEF q
    <3>1. dir' = [dir EXCEPT !.last = [r |-> r, size |-> size, nbytes |-> n], !.eof = FALSE,
                             !.listed = q, !.pos = g]
      BY <1>3, <1>8, <1>11, <2>2 DEF q
    <3>2. [r |-> r, size |-> size, nbytes |-> n] \in [r : {"OK", "EFAULT", "EINVAL"}, size : Nat, nbytes : Nat]
      BY <1>1, <1>3, <1>6
    <3> QED BY <1>4, <1>8, <2>1, <3>1, <3>2 DEF DirState
  <2> HIDE DEF q
  <2>p. /\ \A i \in 1..Len(q) : \/ i \in 1..Len(dir.listed)
                                \/ /\ i - Len(dir.listed) \in 1..Len(a.out)
                                   /\ i = Len(dir.listed) + (i - Len(dir.listed))
        /\ \A i \in 1..Len(dir.listed) : i \in 1..Len(q)
        /\ \A i \in 1..Len(a.out) : Len(dir.listed) + i \in 1..Len(q)
    <3> DEFINE m == Len(dir.listed)
               k == Len(a.out)
               h == Len(q)
    <3>1. m \in Nat /\ k \in Nat /\ h = m + k
      BY <1>5, <1>6, <2>1
    <3> HIDE DEF m, k, h
    <3>2. /\ \A i \in 1..h : i \in 1..m \/ (i - m \in 1..k /\ i = m + (i - m))
          /\ \A i \in 1..m : i \in 1..h
          /\ \A i \in 1..k : m + i \in 1..h
      BY <3>1, JoinedPlaces
    <3> QED BY <3>2, Zenon DEF m, k, h
  \* A place of the new listing is one of the old or of the call.
  <2>4. ASSUME NEW i \in 1..Len(q)
        PROVE  \/ i \in 1..Len(dir.listed) /\ q[i] = dir.listed[i]
               \/ \E j \in 1..Len(a.out) : i = Len(dir.listed) + j /\ q[i] = a.out[j]
    <3>1. CASE i \in 1..Len(dir.listed)
      BY <2>1, <3>1
    <3>2. CASE i - Len(dir.listed) \in 1..Len(a.out) /\ i = Len(dir.listed) + (i - Len(dir.listed))
      BY <2>1, <3>2
    <3> QED BY <2>p, <3>1, <3>2
  <2>5. \A k \in Unlisted(g) : k \in 1..Len(dir.slots) /\ dir.pos < k /\ k <= g /\ dir.slots[k] # Unused
    BY DEF Unlisted
  <2>6. Placed(dir')
    BY <1>4, <1>6, <2>3 DEF Placed, L
  <2>7. ASSUME NEW i \in 1..Len(q)
        PROVE  /\ q[i][1] \notin dir.new
               /\ \A k \in 1..Len(dir.slots) : dir.slots[k] = q[i][1] => k <= g
    <3>1. CASE i \in 1..Len(dir.listed) /\ q[i] = dir.listed[i]
      <4>1. /\ q[i][1] \notin dir.new
            /\ \A k \in 1..Len(dir.slots) : dir.slots[k] = q[i][1] => k <= dir.pos
        BY <1>4, <3>1 DEF Recorded
      <4> QED BY <1>5, <1>6, <1>8, <4>1
    <3>2. CASE \E j \in 1..Len(a.out) : i = Len(dir.listed) + j /\ q[i] = a.out[j]
      <4>1. PICK h \in Unlisted(g) : dir.slots[h] = q[i][1]
        BY <1>6, <3>2 DEF OutIs
      <4> QED BY <1>4, <2>5, <4>1 DEF Placed
    <3> QED BY <2>4, <3>1, <3>2
  <2>8. ASSUME NEW i \in 1..Len(dir.listed), NEW j \in 1..Len(a.out) PROVE dir.listed[i][1] # a.out[j][1]
    <3>1. PICK h \in Unlisted(g) : dir.slots[h] = a.out[j][1]
      BY <1>6 DEF OutIs
    <3>2. h \in 1..Len(dir.slots) /\ ~(h <= dir.pos)
      BY <1>5, <2>5
    <3> QED BY <1>4, <3>1, <3>2 DEF Recorded
  <2>9. ASSUME NEW i \in 1..Len(q), NEW j \in 1..Len(q), q[i][1] = q[j][1] PROVE i = j
    <3>0. \A k, m \in 1..Len(dir.listed) : dir.listed[k][1] = dir.listed[m][1] => k = m
      BY <1>4, Zenon DEF Recorded
    <3>1. CASE i \in 1..Len(dir.listed) /\ q[i] = dir.listed[i]
      <4>1. ASSUME NEW m \in 1..Len(a.out), q[j] = a.out[m] PROVE FALSE
        BY <2>8, <2>9, <3>1, <4>1
      <4>2. j \in 1..Len(dir.listed) /\ q[j] = dir.listed[j]
        BY <2>4, <4>1, Zenon
      <4> QED BY <2>9, <3>0, <3>1, <4>2
    <3>2. CASE j \in 1..Len(dir.listed) /\ q[j] = dir.listed[j]
      <4>1. ASSUME NEW m \in 1..Len(a.out), q[i] = a.out[m] PROVE FALSE
        BY <2>8, <2>9, <3>2, <4>1
      <4>2. i \in 1..Len(dir.listed) /\ q[i] = dir.listed[i]
        BY <2>4, <4>1, Zenon
      <4> QED BY <2>9, <3>0, <3>2, <4>2
    <3>3. CASE /\ \E m \in 1..Len(a.out) : i = Len(dir.listed) + m /\ q[i] = a.out[m]
               /\ \E m \in 1..Len(a.out) : j = Len(dir.listed) + m /\ q[j] = a.out[m]
      BY <1>6, <2>9, <3>3 DEF OutIs
    <3> QED BY <2>4, <3>1, <3>2, <3>3
  <2>10. Recorded(dir')
    BY <2>3, <2>7, <2>9 DEF Recorded
  <2>11. Awaited(dir')
    <3> SUFFICES ASSUME NEW e \in dir.atStart
                 PROVE  \E k \in 1..Len(dir.slots) :
                          dir.slots[k] = e /\ (k <= g => \E i \in 1..Len(q) : q[i][1] = e)
      BY <2>3 DEF Awaited, InList
    <3>1. PICK k \in 1..Len(dir.slots) : dir.slots[k] = e /\ (k <= dir.pos \/ dir.eof => InList(dir, e))
      BY <1>4 DEF Awaited
    <3>2. e # Unused
      BY <1>5
    <3>3. CASE k <= dir.pos
      <4>1. PICK i \in 1..Len(dir.listed) : dir.listed[i][1] = e
        BY <3>1, <3>3 DEF InList
      <4>2. i \in 1..Len(q) /\ q[i][1] = e
        BY <2>p, <2>1, <4>1
      <4> QED BY <3>1, <4>2
    <3>4. CASE dir.pos < k /\ k <= g
      <4>1. k \in Unlisted(g)
        BY <3>1, <3>2, <3>4 DEF Unlisted
      <4>2. PICK i \in 1..Len(a.out) : a.out[i][1] = e
        BY <1>6, <3>1, <4>1 DEF OutIs
      <4>3. Len(dir.listed) + i \in 1..Len(q) /\ q[Len(dir.listed) + i][1] = e
        BY <2>p, <2>1, <4>2
      <4> QED BY <3>1, <4>3
    <3> QED BY <1>5, <3>1, <3>3, <3>4
  <2> QED BY <1>1, <1>6, <2>3, <2>6, <2>10, <2>11 DEF DirInv, DirOK
<1> QED BY <1>9, <1>10, <1>11

\* The names of the listing are as many as its places.
LEMMA DirInvListed == DirInv => ListedOnce
<1> SUFFICES ASSUME DirInv PROVE ListedOnce
  OBVIOUS
<1> DEFINE q == dir.listed
           names == {q[i][1] : i \in DOMAIN q}
<1>1. dir \in DirState /\ Recorded(dir) /\ Awaited(dir) /\ dir.last.nbytes <= dir.last.size
  BY DEF DirInv, DirOK
<1>2. q \in Seq(Named) /\ Len(q) \in Nat /\ DOMAIN q = 1..Len(q)
  BY <1>1 DEF DirState
<1>3. Cardinality(names) = Len(q)
  <2> DEFINE f == [i \in 1..Len(q) |-> q[i][1]]
  <2>1. f \in Bijection(1..Len(q), names)
    <3>1. f \in [1..Len(q) -> names]
      BY <1>2
    <3>2. \A i, j \in 1..Len(q) : f[i] = f[j] => i = j
      BY <1>1 DEF Recorded
    <3>3. \A x \in names : \E i \in 1..Len(q) : f[i] = x
      BY <1>2
    <3> HIDE DEF f, names
    <3> QED BY <3>1, <3>2, <3>3 DEF Bijection, Injection, Surjection, IsInjective
  <2>2. IsFiniteSet(1..Len(q)) /\ Cardinality(1..Len(q)) = Len(q)
    <3>1. Cardinality(1..Len(q)) = IF 1 > Len(q) THEN 0 ELSE Len(q) - 1 + 1
      <4>1. 1 \in Int /\ Len(q) \in Int
        BY <1>2
      <4> QED BY <4>1, FS_Interval, Zenon
    <3> QED BY <1>2, <3>1, FS_Interval
  <2>3. ExistsBijection(1..Len(q), names)
    BY <2>1 DEF ExistsBijection
  <2> HIDE DEF names, f
  <2> QED BY <2>2, <2>3, FS_Bijection
<1>4. dir.eof => dir.atStart \subseteq names
  BY <1>1, <1>2 DEF Awaited, InList
<1>5. \A i \in DOMAIN q : q[i][2] # "abort"
  BY <1>2 DEF Named
<1> QED BY <1>1, <1>3, <1>4, <1>5 DEF ListedOnce

\* Every step keeps the invariant.
LEMMA DirStep == DirInv /\ [DirNext]_dir => DirInv'
<1> SUFFICES ASSUME DirInv, [DirNext]_dir PROVE DirInv'
  OBVIOUS
<1>1. CASE UNCHANGED dir
  BY <1>1 DEF DirInv
<1>2. CASE DirNext
  BY <1>2, AddInv, RemoveInv, GetdentsInv DEF DirNext
<1> QED BY <1>1, <1>2

\* fs_getdents and search_dir, with directories of any number of entries,
\* records of any length and buffers of any size: a listing in several calls
\* names no entry twice and misses none that was there all the time, though
\* others come and go between the calls and calls fail.
THEOREM ListedOnceHolds == DirSpec => []ListedOnce
<1>1. DirInv /\ [DirNext]_dir => DirInv'
  BY DirStep
<1> QED BY <1>1, DirInitInv, DirInvListed, PTL DEF DirSpec
-----------------------------------------------------------------------------
(* Page replacement *)

\* The variables of the three programs.
PageState ==
  [program : {"fifo", "lru", "random"}, references : Seq(Page), queue : Seq(Page),
   frameUsage : [Frame -> Page \cup {-1}], in_memory : SUBSET Page, pageFaults : Nat,
   page_hits : Nat]

Distinct(q) == \A i, j \in 1..Len(q) : q[i] = q[j] => i = j

\* A sequence is its length and its members.
LEMMA SameSeq ==
  ASSUME NEW S, NEW s \in Seq(S), NEW t \in Seq(S), Len(s) = Len(t),
         \A i \in 1..Len(s) : s[i] = t[i]
  PROVE  s = t
<1>1. s = [i \in 1..Len(s) |-> s[i]] /\ t = [i \in 1..Len(t) |-> t[i]]
  OBVIOUS
<1> QED BY <1>1

\* The members behind place i.
Since(q, i) == {q[j] : j \in i + 1..Len(q)}

\* A sequence of distinct members has as many of them as places.
LEMMA DistinctCount ==
  ASSUME NEW S, NEW q \in Seq(S), Distinct(q), NEW a \in Nat, a <= Len(q)
  PROVE  IsFiniteSet(Since(q, a)) /\ Cardinality(Since(q, a)) = Len(q) - a
<1> DEFINE D == a + 1..Len(q)
           names == {q[k] : k \in D}
           f == [k \in D |-> q[k]]
<1>1. Len(q) \in Nat /\ D \subseteq 1..Len(q)
  OBVIOUS
<1>2. f \in Bijection(D, names)
  <2>1. f \in [D -> names]
    OBVIOUS
  <2>2. \A i, j \in D : f[i] = f[j] => i = j
    BY <1>1 DEF Distinct
  <2>3. \A x \in names : \E i \in D : f[i] = x
    OBVIOUS
  <2> HIDE DEF f, names, D
  <2> QED BY <2>1, <2>2, <2>3 DEF Bijection, Injection, Surjection, IsInjective
<1>3. IsFiniteSet(D) /\ Cardinality(D) = Len(q) - a
  <2>1. a + 1 \in Int /\ Len(q) \in Int
    BY <1>1
  <2>2. IsFiniteSet(D) /\ Cardinality(D) = IF a + 1 > Len(q) THEN 0 ELSE Len(q) - (a + 1) + 1
    BY <2>1, FS_Interval, Zenon
  <2> HIDE DEF D
  <2> QED BY <1>1, <2>2
<1>4. ExistsBijection(D, names)
  BY <1>2 DEF ExistsBijection
<1>5. IsFiniteSet(names) /\ Cardinality(names) = Len(q) - a
  <2> HIDE DEF D, names, f
  <2> QED BY <1>3, <1>4, FS_Bijection
<1> QED BY <1>5 DEF Since

\* In a sequence without repetition, members are places.
LEMMA CountAll ==
  ASSUME NEW S, NEW q \in Seq(S), Distinct(q)
  PROVE  Cardinality(ToSet(q)) = Len(q)
<1>1. Len(q) \in Nat /\ 0 \in Nat /\ 0 <= Len(q) /\ 0 + 1 = 1 /\ Len(q) - 0 = Len(q)
  OBVIOUS
<1>2. Cardinality(Since(q, 0)) = Len(q) - 0
  BY <1>1, DistinctCount
<1>3. Since(q, 0) = ToSet(q)
  BY <1>1 DEF Since, ToSet
<1> QED BY <1>1, <1>2, <1>3
-----------------------------------------------------------------------------
(* First in, first out *)

\* The states of the fold that Loads is, over the first n references.
LoadRun(f, s, n) == f = [i \in 0..n |-> IF i = 0 THEN <<>> ELSE Load(f[i - 1], s[i])]

\* The fold has a state after each number of references.
LEMMA LoadRunExists ==
  ASSUME NEW s
  PROVE  \A n \in Nat : \E f : LoadRun(f, s, n)
<1> DEFINE S == {n \in Nat : \E f : LoadRun(f, s, n)}
<1>1. 0 \in S
  <2>1. LoadRun([i \in 0..0 |-> <<>>], s, 0)
    BY DEF LoadRun
  <2> QED BY <2>1
<1>2. ASSUME NEW n \in Nat, n \in S PROVE n + 1 \in S
  <2>1. PICK f : LoadRun(f, s, n)
    BY <1>2
  <2> DEFINE g == [i \in 0..n + 1 |-> IF i # n + 1 THEN f[i] ELSE Load(f[n], s[n + 1])]
  <2>2. ASSUME NEW i \in 0..n + 1
        PROVE  g[i] = IF i = 0 THEN <<>> ELSE Load(g[i - 1], s[i])
    <3>1. CASE i = n + 1
      <4>1. i # 0 /\ i - 1 = n /\ n \in 0..n + 1 /\ n # n + 1
        BY <3>1
      <4>2. g[i - 1] = f[n]
        BY <4>1
      <4> QED BY <3>1, <4>1, <4>2
    <3>2. CASE i # n + 1
      <4>1. i \in 0..n
        BY <3>2
      <4>2. f[i] = IF i = 0 THEN <<>> ELSE Load(f[i - 1], s[i])
        BY <2>1, <4>1 DEF LoadRun
      <4>3. i # 0 => i - 1 \in 0..n + 1 /\ i - 1 # n + 1
        BY <4>1
      <4>4. i # 0 => g[i - 1] = f[i - 1]
        BY <4>3
      <4>5. g[i] = f[i]
        BY <3>2
      <4> QED BY <4>2, <4>4, <4>5
    <3> QED BY <3>1, <3>2
  <2>3. LoadRun(g, s, n + 1)
    BY <2>2 DEF LoadRun
  <2> QED BY <2>3
<1>3. \A n \in Nat : n \in S
  <2> HIDE DEF S
  <2> QED BY <1>1, <1>2, SetInduction
<1> QED BY <1>3

\* The result of the fold is its state after the last reference.
LEMMA LoadsIs ==
  ASSUME NEW s, Len(s) \in Nat
  PROVE  \E f : LoadRun(f, s, Len(s)) /\ Loads(s) = f[Len(s)]
<1>1. \E f : LoadRun(f, s, Len(s))
  BY LoadRunExists
<1> DEFINE F == CHOOSE f : LoadRun(f, s, Len(s))
<1>2. LoadRun(F, s, Len(s))
  BY <1>1, Zenon
<1>3. Loads(s) = F[Len(s)]
  BY DEF Loads, LoadRun
<1> QED BY <1>2, <1>3

\* A load is a page.
LEMMA LoadType ==
  ASSUME NEW l \in Seq(Page), NEW x \in Page
  PROVE  Load(l, x) \in Seq(Page)
BY DEF Load

\* The loads are pages, and one more reference is one more turn of the fold.
LEMMA LoadsStep ==
  ASSUME NEW s \in Seq(Page)
  PROVE  /\ Loads(<<>>) = <<>> /\ Loads(s) \in Seq(Page)
         /\ \A x \in Page : Loads(Append(s, x)) = Load(Loads(s), x)
<1>0. Len(s) \in Nat
  OBVIOUS
<1>1. PICK f : LoadRun(f, s, Len(s)) /\ Loads(s) = f[Len(s)]
  BY <1>0, LoadsIs
<1>2. \A i \in 0..Len(s) : f[i] = IF i = 0 THEN <<>> ELSE Load(f[i - 1], s[i])
  BY <1>1, Zenon DEF LoadRun
<1>3. Loads(<<>>) = <<>>
  <2>1. PICK g : LoadRun(g, <<>>, Len(<<>>)) /\ Loads(<<>>) = g[Len(<<>>)]
    BY LoadsIs
  <2> QED BY <2>1 DEF LoadRun
<1>4. Loads(s) \in Seq(Page)
  <2> DEFINE S == {n \in Nat : n <= Len(s) => f[n] \in Seq(Page)}
  <2>1. 0 \in S
    <3>1. 0 \in 0..Len(s)
      BY <1>0
    <3>2. f[0] = <<>>
      BY <1>2, <3>1
    <3>3. <<>> \in Seq(Page) /\ 0 \in Nat
      OBVIOUS
    <3> QED BY <3>2, <3>3, Zenon
  <2>2. ASSUME NEW n \in Nat, n \in S PROVE n + 1 \in S
    <3> SUFFICES ASSUME n + 1 <= Len(s) PROVE f[n + 1] \in Seq(Page)
      OBVIOUS
    <3>1. n + 1 \in 0..Len(s) /\ n + 1 # 0 /\ n + 1 - 1 = n /\ f[n] \in Seq(Page) /\ s[n + 1] \in Page
      BY <1>0, <2>2
    <3>2. f[n + 1] = Load(f[n], s[n + 1])
      BY <1>2, <3>1
    <3> QED BY <3>1, <3>2, LoadType
  <2>3. \A n \in Nat : n \in S
    <3> HIDE DEF S
    <3> QED BY <2>1, <2>2, SetInduction
  <2> QED BY <1>0, <1>1, <2>3
<1>5. ASSUME NEW x \in Page PROVE Loads(Append(s, x)) = Load(Loads(s), x)
  <2> DEFINE t == Append(s, x)
             m == Len(s)
  <2>1. m \in Nat /\ Len(t) = m + 1 /\ t[m + 1] = x /\ \A i \in 1..m : t[i] = s[i]
    BY <1>0
  <2> HIDE DEF t
  <2>2. PICK g : LoadRun(g, t, Len(t)) /\ Loads(t) = g[Len(t)]
    BY <2>1, LoadsIs
  <2>3. \A i \in 0..Len(t) : g[i] = IF i = 0 THEN <<>> ELSE Load(g[i - 1], t[i])
    BY <2>2, Zenon DEF LoadRun
  <2> DEFINE S == {n \in Nat : n <= m => g[n] = f[n]}
  <2>4. 0 \in S
    BY <1>2, <2>1, <2>3
  <2>5. ASSUME NEW n \in Nat, n \in S PROVE n + 1 \in S
    <3> SUFFICES ASSUME n + 1 <= m PROVE g[n + 1] = f[n + 1]
      OBVIOUS
    <3>1. /\ n + 1 \in 0..m /\ n + 1 \in 0..Len(t) /\ n + 1 # 0 /\ n + 1 - 1 = n
          /\ g[n] = f[n] /\ t[n + 1] = s[n + 1]
      BY <2>1, <2>5
    <3>2. f[n + 1] = Load(f[n], s[n + 1])
      BY <1>2, <3>1
    <3>3. g[n + 1] = Load(g[n], t[n + 1])
      BY <2>3, <3>1
    <3> QED BY <3>1, <3>2, <3>3
  <2>6. \A n \in Nat : n \in S
    <3> HIDE DEF S
    <3> QED BY <2>4, <2>5, SetInduction
  <2>7. g[m] = f[m]
    BY <2>1, <2>6
  <2>8. g[m + 1] = Load(g[m], t[m + 1])
    <3>1. m + 1 \in 0..Len(t) /\ m + 1 # 0 /\ m + 1 - 1 = m
      BY <2>1
    <3> QED BY <2>3, <3>1
  <2> QED BY <1>1, <2>1, <2>2, <2>7, <2>8 DEF t
<1> QED BY <1>3, <1>4, <1>5

\* The window of the last loads.
LEMMA LastOfIs ==
  ASSUME NEW l \in Seq(Page)
  PROVE  LET q == LastOf(l, NumFrames)
         IN /\ q \in Seq(Page) /\ Len(q) = IF Len(l) > NumFrames THEN NumFrames ELSE Len(l)
            /\ \A i \in 1..Len(q) : q[i] = l[Len(l) - Len(q) + i]
<1>1. Len(l) \in Nat /\ NumFrames \in Nat
  BY PageAssumption
<1>2. CASE Len(l) > NumFrames
  <2>1. LastOf(l, NumFrames) = SubSeq(l, Len(l) - NumFrames + 1, Len(l))
    BY <1>2 DEF LastOf
  <2> QED BY <1>1, <1>2, <2>1
<1>3. CASE ~(Len(l) > NumFrames)
  <2>1. LastOf(l, NumFrames) = SubSeq(l, 1, Len(l))
    BY <1>3 DEF LastOf
  <2>2. SubSeq(l, 1, Len(l)) = l
    <3>1. SubSeq(l, 1, Len(l)) \in Seq(Page) /\ Len(SubSeq(l, 1, Len(l))) = Len(l)
          /\ \A i \in 1..Len(l) : SubSeq(l, 1, Len(l))[i] = l[i]
      BY <1>1
    <3> QED BY <3>1, SameSeq
  <2>3. \A i \in 1..Len(l) : Len(l) - Len(l) + i = i
    BY <1>1
  <2> QED BY <1>1, <1>3, <2>1, <2>2, <2>3
<1> QED BY <1>2, <1>3

\* The places of a window at the end of a sequence, and where they are in it.
LEMMA WindowPlaces ==
  ASSUME NEW a \in Nat, NEW n \in Nat, NEW c \in Nat, c = IF a > n THEN n ELSE a
  PROVE  /\ \A i \in 1..c : a - c + i \in 1..a /\ a - c + i > a - n
         /\ \A i \in 1..a : i > a - n => i - (a - c) \in 1..c /\ a - c + (i - (a - c)) = i
OBVIOUS

\* The queue is the window of the last loads, each page once.
FifoOK(m) ==
  /\ m.queue = LastOf(Loads(m.references), NumFrames) /\ m.in_memory = ToSet(m.queue)
  /\ m.pageFaults = Len(Loads(m.references)) /\ Distinct(m.queue)

\* fifo: a page that is loaded goes to the end of the window, and the window
\* moves on when it is full.
LEMMA FifoStep ==
  ASSUME NEW mm \in PageState, FifoOK(mm), NEW x \in Page
  PROVE  LET m == [mm EXCEPT !.references = Append(@, x)]
         IN fifo(m, x) \in PageState /\ fifo(m, x).program = mm.program /\ FifoOK(fifo(m, x))
<1> DEFINE m == [mm EXCEPT !.references = Append(@, x)]
           u == fifo(m, x)
           s == mm.references
           t == Append(s, x)
           l == Loads(s)
           q == mm.queue
           N == NumFrames
<1>1. /\ s \in Seq(Page) /\ q \in Seq(Page) /\ Len(q) \in Nat /\ N \in Nat /\ N # 0 /\ t \in Seq(Page)
      /\ mm.in_memory \subseteq Page /\ mm.pageFaults \in Nat
  BY PageAssumption DEF PageState
<1>2. l \in Seq(Page) /\ Len(l) \in Nat /\ Loads(t) = Load(l, x)
  BY <1>1, LoadsStep
<1>3. q = LastOf(l, N) /\ mm.in_memory = ToSet(q) /\ mm.pageFaults = Len(l) /\ Distinct(q)
  BY DEF FifoOK
<1>4. /\ m \in PageState /\ m.references = t /\ m.queue = q /\ m.in_memory = mm.in_memory
      /\ m.pageFaults = mm.pageFaults /\ m.program = mm.program
  BY <1>1 DEF PageState
<1> HIDE DEF m, l, q
<1>5. /\ Len(q) = IF Len(l) > N THEN N ELSE Len(l)
      /\ \A i \in 1..Len(q) : q[i] = l[Len(l) - Len(q) + i]
  BY <1>2, <1>3, LastOfIs
<1>p. /\ \A i \in 1..Len(q) : Len(l) - Len(q) + i \in 1..Len(l) /\ Len(l) - Len(q) + i > Len(l) - N
      /\ \A i \in 1..Len(l) : i > Len(l) - N =>
           /\ i - (Len(l) - Len(q)) \in 1..Len(q)
           /\ Len(l) - Len(q) + (i - (Len(l) - Len(q))) = i
  <2> DEFINE a == Len(l)
             c == Len(q)
  <2>1. a \in Nat /\ c \in Nat /\ N \in Nat /\ c = IF a > N THEN N ELSE a
    BY <1>1, <1>2, <1>5
  <2> HIDE DEF a, c, N
  <2>2. /\ \A i \in 1..c : a - c + i \in 1..a /\ a - c + i > a - N
        /\ \A i \in 1..a : i > a - N => i - (a - c) \in 1..c /\ a - c + (i - (a - c)) = i
    BY <2>1, WindowPlaces
  <2> QED BY <2>2, Zenon DEF a, c
<1>6. mm.in_memory = {q[i] : i \in 1..Len(q)}
  BY <1>1, <1>3 DEF ToSet
<1>7. x \in mm.in_memory <=> \E i \in 1..Len(l) : i > Len(l) - N /\ l[i] = x
  <2>1. ASSUME x \in mm.in_memory PROVE \E i \in 1..Len(l) : i > Len(l) - N /\ l[i] = x
    <3>1. PICK i \in 1..Len(q) : q[i] = x
      BY <1>6, <2>1
    <3>2. Len(l) - Len(q) + i \in 1..Len(l) /\ Len(l) - Len(q) + i > Len(l) - N
      BY <1>p
    <3> QED BY <1>5, <3>1, <3>2
  <2>2. ASSUME NEW i \in 1..Len(l), i > Len(l) - N, l[i] = x PROVE x \in mm.in_memory
    <3> DEFINE k == i - (Len(l) - Len(q))
    <3>1. k \in 1..Len(q) /\ Len(l) - Len(q) + k = i
      BY <1>p, <2>2
    <3> HIDE DEF k
    <3>2. q[k] = l[i]
      BY <1>5, <3>1
    <3> QED BY <1>6, <2>2, <3>1, <3>2
  <2> QED BY <2>1, <2>2
<1>8. CASE x \in mm.in_memory
  <2>1. u = m
    BY <1>4, <1>8 DEF fifo
  <2>2. Load(l, x) = l
    BY <1>7, <1>8 DEF Load
  <2> QED BY <1>2, <1>3, <1>4, <2>1, <2>2 DEF FifoOK, m
<1>9. CASE x \notin mm.in_memory
  <2> DEFINE b == IF Len(q) = N THEN Tail(q) ELSE q
             n == Append(b, x)
             h == IF Len(q) = N THEN mm.in_memory \ {Head(q)} ELSE mm.in_memory
  <2>1. Load(l, x) = Append(l, x)
    BY <1>7, <1>9 DEF Load
  <2>2. u = [m EXCEPT !.pageFaults = @ + 1, !.queue = n, !.in_memory = h \cup {x}]
    BY <1>4, <1>9 DEF fifo, Full
  <2>3. /\ b \in Seq(Page) /\ Len(b) = IF Len(q) = N THEN N - 1 ELSE Len(q)
        /\ \A i \in 1..Len(b) : b[i] = IF Len(q) = N THEN q[i + 1] ELSE q[i]
    <3>1. CASE Len(q) = N
      BY <1>1, <3>1
    <3>2. CASE Len(q) # N
      BY <1>1, <3>2
    <3> QED BY <3>1, <3>2
  <2> HIDE DEF b
  <2>4. /\ n \in Seq(Page) /\ Len(n) = Len(b) + 1 /\ n[Len(n)] = x
        /\ \A i \in 1..Len(b) : n[i] = b[i]
    BY <2>3
  <2> HIDE DEF n
  <2>5. h \cup {x} = ToSet(n)
    <3>0. Len(b) \in Nat
      BY <2>3
    <3>1. ToSet(n) = {n[i] : i \in 1..Len(n)}
      BY <2>4 DEF ToSet
    <3>2. ToSet(n) = {b[i] : i \in 1..Len(b)} \cup {x}
      <4>1. \A i \in 1..Len(n) : i \in 1..Len(b) \/ i = Len(n)
        BY <2>4, <3>0
      <4>2. Len(n) \in 1..Len(n) /\ \A i \in 1..Len(b) : i \in 1..Len(n)
        BY <2>4, <3>0
      <4> QED BY <2>4, <3>1, <4>1, <4>2
    <3>3. CASE Len(q) # N
      BY <1>6, <2>3, <3>2, <3>3
    <3>4. CASE Len(q) = N
      <4>1. Head(q) = q[1] /\ 1 \in 1..Len(q) /\ Len(b) = Len(q) - 1
        BY <1>1, <2>3, <3>4
      <4>2. \A i \in 1..Len(b) : i + 1 \in 1..Len(q) /\ i + 1 # 1 /\ b[i] = q[i + 1]
        BY <1>1, <2>3, <3>4, <4>1
      <4>3. \A i \in 1..Len(q) : i # 1 => i - 1 \in 1..Len(b) /\ (i - 1) + 1 = i
        BY <1>1, <4>1
      <4>4. {b[i] : i \in 1..Len(b)} \subseteq h
        <5> SUFFICES ASSUME NEW i \in 1..Len(b) PROVE b[i] \in mm.in_memory /\ b[i] # q[1]
          BY <3>4, <4>1
        <5> QED BY <1>3, <1>6, <4>1, <4>2 DEF Distinct
      <4>5. h \subseteq {b[i] : i \in 1..Len(b)}
        <5> SUFFICES ASSUME NEW y \in mm.in_memory, y # q[1] PROVE \E i \in 1..Len(b) : b[i] = y
          BY <3>4, <4>1
        <5>1. PICK i \in 1..Len(q) : q[i] = y
          BY <1>6
        <5>2. i # 1
          BY <5>1
        <5>3. i - 1 \in 1..Len(b) /\ (i - 1) + 1 = i
          BY <4>3, <5>2
        <5>4. b[i - 1] = q[(i - 1) + 1]
          BY <4>2, <5>3
        <5> QED BY <5>1, <5>3, <5>4
      <4> QED BY <3>2, <4>4, <4>5
    <3> QED BY <3>3, <3>4
  <2>6. Distinct(n)
    <3>0. Len(b) \in Nat
      BY <2>3
    <3>1. \A i \in 1..Len(b) : \E k \in 1..Len(q) : b[i] = q[k] /\ k = IF Len(q) = N THEN i + 1 ELSE i
      BY <1>1, <2>3
    <3>2. \A i \in 1..Len(b) : b[i] # x
      BY <1>6, <1>9, <3>1
    <3>3. \A i, j \in 1..Len(b) : b[i] = b[j] => i = j
      BY <1>3, <3>1 DEF Distinct
    <3>4. \A i \in 1..Len(n) : i \in 1..Len(b) \/ i = Len(n)
      BY <2>4, <3>0
    <3> QED BY <2>4, <3>2, <3>3, <3>4 DEF Distinct
  <2>7. n = LastOf(Append(l, x), N)
    <3> DEFINE k == Append(l, x)
               w == LastOf(k, N)
    <3>1. k \in Seq(Page) /\ Len(k) = Len(l) + 1 /\ k[Len(l) + 1] = x /\ \A i \in 1..Len(l) : k[i] = l[i]
      BY <1>2
    <3> HIDE DEF k
    <3>2. /\ w \in Seq(Page) /\ Len(w) = IF Len(k) > N THEN N ELSE Len(k)
          /\ \A i \in 1..Len(w) : w[i] = k[Len(k) - Len(w) + i]
      BY <3>1, LastOfIs
    <3> HIDE DEF w
    <3>3. Len(n) = Len(w)
      BY <1>1, <1>2, <1>5, <2>3, <2>4, <3>1, <3>2
    <3>4. ASSUME NEW i \in 1..Len(w) PROVE n[i] = w[i]
      <4>1. CASE i = Len(w)
        <5>1. Len(k) - Len(w) + i = Len(l) + 1
          BY <1>2, <3>1, <3>2, <4>1
        <5>2. w[i] = x
          BY <3>1, <3>2, <5>1
        <5> QED BY <2>4, <3>3, <4>1, <5>2
      <4>2. CASE i # Len(w)
        <5>1. i \in 1..Len(b) /\ n[i] = b[i]
          BY <1>1, <2>3, <2>4, <3>3, <4>2
        <5>2. CASE Len(q) = N
          <6>1. i + 1 \in 1..Len(q) /\ b[i] = q[i + 1]
            BY <1>1, <2>3, <5>1, <5>2
          <6>2. q[i + 1] = l[Len(l) - Len(q) + (i + 1)]
            BY <1>5, <6>1
          <6>3. Len(l) - Len(q) + (i + 1) \in 1..Len(l) /\ Len(k) - Len(w) + i = Len(l) - Len(q) + (i + 1)
            <7>1. Len(l) - Len(q) + (i + 1) \in 1..Len(l)
              BY <1>p, <6>1
            <7>2. Len(k) = Len(l) + 1 /\ Len(w) = N /\ Len(q) = N
              BY <1>1, <1>2, <1>5, <3>1, <3>2, <5>2
            <7> QED BY <1>1, <1>2, <7>1, <7>2
          <6> QED BY <3>1, <3>2, <5>1, <6>1, <6>2, <6>3
        <5>3. CASE Len(q) # N
          <6>1. i \in 1..Len(q) /\ b[i] = q[i] /\ Len(q) = Len(l) /\ Len(w) = Len(k)
            BY <1>1, <1>2, <1>5, <2>3, <3>1, <3>2, <5>1, <5>3
          <6>2. q[i] = l[i]
            <7>1. Len(l) - Len(q) + i = i
              BY <1>2, <6>1
            <7> QED BY <1>5, <6>1, <7>1
          <6>3. w[i] = k[i] /\ k[i] = l[i]
            <7>1. Len(k) - Len(w) + i = i
              BY <1>2, <3>1, <6>1
            <7> QED BY <3>1, <3>2, <6>1, <7>1
          <6> QED BY <5>1, <6>1, <6>2, <6>3
        <5> QED BY <5>2, <5>3
      <4> QED BY <4>1, <4>2
    <3>5. n = w
      BY <2>4, <3>2, <3>3, <3>4, SameSeq
    <3> QED BY <3>5 DEF w, k
  <2>8. Len(Append(l, x)) = Len(l) + 1
    BY <1>2
  <2>9. h \cup {x} \subseteq Page
    BY <1>1
  <2> HIDE DEF h, u
  <2>10. /\ u \in PageState /\ u.references = t /\ u.queue = n /\ u.in_memory = h \cup {x}
         /\ u.pageFaults = mm.pageFaults + 1 /\ u.program = mm.program
    <3>1. m.pageFaults + 1 \in Nat /\ m.pageFaults + 1 = mm.pageFaults + 1
      BY <1>1, <1>4
    <3> QED BY <1>4, <2>2, <2>4, <2>9, <3>1 DEF PageState
  <2> QED BY <1>2, <1>3, <2>1, <2>5, <2>6, <2>7, <2>8, <2>10 DEF FifoOK, u, m
<1> QED BY <1>8, <1>9
-----------------------------------------------------------------------------
(* Least recently used *)

\* In s, r has been used after the last use of p.
UsedAfter(s, p, r) == \E i \in 1..Len(s) : s[i] = r /\ \A j \in i..Len(s) : s[j] # p
Used(s, p) == \E i \in 1..Len(s) : s[i] = p

\* The queue has the pages in the order of their last use, and those that are
\* not in it were used before.
InUseOrder(s, q) ==
  /\ Len(q) <= NumFrames
  /\ \A j \in 1..Len(q) : Used(s, q[j])
  /\ \A j, k \in 1..Len(q) : j < k => UsedAfter(s, q[j], q[k])
  /\ \A p \in Page : Used(s, p) /\ (\A k \in 1..Len(q) : q[k] # p) =>
       Len(q) = NumFrames /\ \A k \in 1..Len(q) : UsedAfter(s, p, q[k])

\* The references to pages that the policy does not hold then.
Misses(s) == {i \in DOMAIN s : s[i] \notin LatelyUsed(SubSeq(s, 1, i - 1), NumFrames)}

LruOK(m) ==
  /\ InUseOrder(m.references, m.queue) /\ m.in_memory = ToSet(m.queue)
  /\ IsFiniteSet(Misses(m.references)) /\ m.pageFaults = Cardinality(Misses(m.references))

\* A page that has been used has been used last at some place.
LEMMA LastUse ==
  ASSUME NEW s \in Seq(Page), NEW p, Used(s, p)
  PROVE  \E i \in 1..Len(s) : s[i] = p /\ \A j \in i + 1..Len(s) : s[j] # p
<1> DEFINE S == {n \in 0..Len(s) : Len(s) - n \in 1..Len(s) /\ s[Len(s) - n] = p}
<1>0. Len(s) \in Nat
  OBVIOUS
<1>1. S # {} /\ S \subseteq Nat
  <2>1. PICK i \in 1..Len(s) : s[i] = p
    BY DEF Used
  <2>2. Len(s) - i \in 0..Len(s) /\ Len(s) - (Len(s) - i) = i
    BY <1>0
  <2>3. Len(s) - i \in S
    BY <2>1, <2>2
  <2>4. S \subseteq Nat
    BY <1>0
  <2> HIDE DEF S
  <2> QED BY <2>3, <2>4
<1> DEFINE m == Min(S)
<1>2. m \in S /\ \A n \in S : m <= n
  <2> HIDE DEF S
  <2> QED BY <1>1, MinNat
<1> HIDE DEF m
<1> DEFINE i == Len(s) - m
<1>3. i \in 1..Len(s) /\ s[i] = p /\ m \in Nat
  BY <1>2
<1>4. ASSUME NEW j \in i + 1..Len(s), s[j] = p PROVE FALSE
  <2>1. Len(s) - j \in 0..Len(s) /\ Len(s) - (Len(s) - j) = j /\ j \in 1..Len(s) /\ Len(s) - j < m
    BY <1>0, <1>3
  <2>2. Len(s) - j \in S
    BY <1>4, <2>1
  <2>3. m <= Len(s) - j
    BY <1>2, <2>2
  <2> HIDE DEF i, S
  <2> QED BY <1>0, <1>3, <2>1, <2>3
<1> QED BY <1>3, <1>4

\* No page is used after its own last use.
LEMMA NotAfterItself ==
  ASSUME NEW s \in Seq(Page), NEW p
  PROVE  ~UsedAfter(s, p, p)
<1> SUFFICES ASSUME NEW i \in 1..Len(s), s[i] = p, \A j \in i..Len(s) : s[j] # p PROVE FALSE
  BY DEF UsedAfter
<1>1. i \in i..Len(s)
  OBVIOUS
<1> QED BY <1>1

\* A queue in the order of last use has no page twice.
LEMMA OrderDistinct ==
  ASSUME NEW s \in Seq(Page), NEW q \in Seq(Page), InUseOrder(s, q)
  PROVE  Distinct(q)
<1> SUFFICES ASSUME NEW i \in 1..Len(q), NEW j \in 1..Len(q), q[i] = q[j], i # j PROVE FALSE
  BY DEF Distinct
<1>1. i < j \/ j < i
  OBVIOUS
<1>2. UsedAfter(s, q[i], q[j]) \/ UsedAfter(s, q[j], q[i])
  BY <1>1 DEF InUseOrder
<1> QED BY <1>2, NotAfterItself

\* The pages used after the last use, at i, of one in the queue are those
\* behind it.
LEMMA BehindInQueue ==
  ASSUME NEW s \in Seq(Page), NEW q \in Seq(Page), InUseOrder(s, q), NEW a \in 1..Len(q),
         NEW i \in 1..Len(s), s[i] = q[a], \A j \in i + 1..Len(s) : s[j] # q[a]
  PROVE  Since(s, i) = Since(q, a)
<1>0. Len(s) \in Nat /\ Len(q) \in Nat
  OBVIOUS
\* What q[a] is used after has not been used since.
<1>1. ASSUME NEW p, UsedAfter(s, p, q[a]), NEW j \in i + 1..Len(s) PROVE s[j] # p
  <2>1. PICK h \in 1..Len(s) : s[h] = q[a] /\ \A g \in h..Len(s) : s[g] # p
    BY <1>1 DEF UsedAfter
  <2>2. h <= i
    <3>1. h > i => h \in i + 1..Len(s)
      OBVIOUS
    <3> QED BY <2>1, <3>1
  <2>3. j \in h..Len(s)
    BY <2>2
  <2> QED BY <2>1, <2>3
<1>2. ASSUME NEW j \in i + 1..Len(s) PROVE \E k \in a + 1..Len(q) : q[k] = s[j]
  <2>1. j \in 1..Len(s) /\ s[j] \in Page /\ s[j] # q[a]
    OBVIOUS
  <2>2. \E k \in 1..Len(q) : q[k] = s[j]
    <3> SUFFICES ASSUME \A k \in 1..Len(q) : q[k] # s[j] PROVE FALSE
      OBVIOUS
    <3>1. Used(s, s[j])
      BY <2>1 DEF Used
    <3>2. UsedAfter(s, s[j], q[a])
      BY <2>1, <3>1 DEF InUseOrder
    <3> QED BY <1>1, <3>2
  <2>3. PICK k \in 1..Len(q) : q[k] = s[j]
    BY <2>2
  <2>4. ~(k < a)
    <3> SUFFICES ASSUME k < a PROVE FALSE
      OBVIOUS
    <3>1. UsedAfter(s, q[k], q[a])
      BY DEF InUseOrder
    <3> QED BY <1>1, <2>3, <3>1
  <2>5. k # a
    BY <2>1, <2>3
  <2>6. k \in a + 1..Len(q)
    BY <2>4, <2>5
  <2> QED BY <2>3, <2>6
<1>3. ASSUME NEW k \in a + 1..Len(q) PROVE \E j \in i + 1..Len(s) : s[j] = q[k]
  <2>1. a < k /\ k \in 1..Len(q)
    OBVIOUS
  <2>2. UsedAfter(s, q[a], q[k])
    BY <2>1 DEF InUseOrder
  <2>3. PICK h \in 1..Len(s) : s[h] = q[k] /\ \A g \in h..Len(s) : s[g] # q[a]
    BY <2>2 DEF UsedAfter
  <2>4. i < h
    <3>1. ~(i < h) => i \in h..Len(s)
      OBVIOUS
    <3> QED BY <2>3, <3>1
  <2>5. h \in i + 1..Len(s)
    BY <2>4
  <2> QED BY <2>3, <2>5
<1> DEFINE X == i + 1..Len(s)
           Y == a + 1..Len(q)
<1>4. (\A j \in X : \E k \in Y : q[k] = s[j]) /\ (\A k \in Y : \E j \in X : s[j] = q[k])
  BY <1>2, <1>3
<1> HIDE DEF X, Y
<1>5. {s[j] : j \in X} = {q[k] : k \in Y}
  BY <1>4
<1> QED BY <1>5 DEF Since, X, Y

\* What the queue holds is what the policy says.
LEMMA QueueIsLately ==
  ASSUME NEW s \in Seq(Page), NEW q \in Seq(Page), InUseOrder(s, q)
  PROVE  LatelyUsed(s, NumFrames) = ToSet(q)
<1>0. /\ Len(s) \in Nat /\ Len(q) \in Nat /\ Len(q) <= NumFrames /\ NumFrames \in Nat
      /\ DOMAIN s = 1..Len(s) /\ ToSet(q) = {q[k] : k \in 1..Len(q)}
  BY PageAssumption DEF InUseOrder, ToSet
<1>1. Distinct(q)
  BY OrderDistinct
<1> DEFINE Final(i) == \A j \in i + 1..Len(s) : s[j] # s[i]
<1>2. LatelyUsed(s, NumFrames) =
        {s[i] : i \in {i \in 1..Len(s) : Final(i) /\ Cardinality(Since(s, i)) < NumFrames}}
  BY <1>0 DEF LatelyUsed, Since
<1>3. ASSUME NEW a \in 1..Len(q) PROVE q[a] \in LatelyUsed(s, NumFrames)
  <2>1. Used(s, q[a])
    BY DEF InUseOrder
  <2>2. PICK i \in 1..Len(s) : s[i] = q[a] /\ \A j \in i + 1..Len(s) : s[j] # q[a]
    BY <2>1, LastUse
  <2>3. Since(s, i) = Since(q, a)
    BY <2>2, BehindInQueue
  <2>4. a \in Nat /\ a <= Len(q) /\ a >= 1
    BY <1>0
  <2>5. Cardinality(Since(q, a)) = Len(q) - a
    BY <1>1, <2>4, DistinctCount
  <2>6. Final(i)
    BY <2>2
  <2> HIDE DEF Final
  <2>7. Cardinality(Since(s, i)) < NumFrames
    BY <1>0, <2>3, <2>4, <2>5
  <2> QED BY <1>2, <2>2, <2>6, <2>7
<1>4. ASSUME NEW i \in 1..Len(s), Final(i), Cardinality(Since(s, i)) < NumFrames PROVE s[i] \in ToSet(q)
  <2> SUFFICES ASSUME \A k \in 1..Len(q) : q[k] # s[i] PROVE FALSE
    BY <1>0
  <2>1. Used(s, s[i]) /\ s[i] \in Page
    BY DEF Used
  <2>2. Len(q) = NumFrames /\ \A k \in 1..Len(q) : UsedAfter(s, s[i], q[k])
    BY <2>1 DEF InUseOrder
  <2>3. ASSUME NEW k \in 1..Len(q) PROVE q[k] \in Since(s, i)
    <3>1. PICK h \in 1..Len(s) : s[h] = q[k] /\ \A g \in h..Len(s) : s[g] # s[i]
      BY <2>2 DEF UsedAfter
    <3>2. i < h
      <4>1. ~(i < h) => i \in h..Len(s)
        OBVIOUS
      <4> QED BY <3>1, <4>1
    <3>3. h \in i + 1..Len(s)
      BY <3>2
    <3> QED BY <3>1, <3>3 DEF Since
  <2>4. ToSet(q) \subseteq Since(s, i)
    BY <1>0, <2>3
  <2>5. IsFiniteSet(Since(s, i))
    <3>1. i + 1 \in Int /\ Len(s) \in Int
      BY <1>0
    <3>2. IsFiniteSet(i + 1..Len(s))
      BY <3>1, FS_Interval, Zenon
    <3> DEFINE D == i + 1..Len(s)
               f == [j \in D |-> s[j]]
    <3>3. f \in Surjection(D, Since(s, i))
      BY DEF Surjection, Since
    <3>4. IsFiniteSet(D)
      BY <3>2
    <3> HIDE DEF D, f
    <3> QED BY <3>3, <3>4, FS_Surjection
  <2>6. Cardinality(ToSet(q)) = Len(q)
    BY <1>1, CountAll
  <2>7. Cardinality(ToSet(q)) <= Cardinality(Since(s, i))
    <3> QED BY <2>4, <2>5, FS_Subset
  <2>8. Cardinality(Since(s, i)) \in Nat
    <3> QED BY <2>5, FS_CardinalityType
  <2> HIDE DEF Final
  <2> QED BY <1>0, <1>4, <2>2, <2>6, <2>7, <2>8
<1> HIDE DEF Final
<1> QED BY <1>0, <1>2, <1>3, <1>4

\* One more reference, to x.
LEMMA UsedStep ==
  ASSUME NEW s \in Seq(Page), NEW x \in Page
  PROVE  LET t == Append(s, x)
         IN /\ \A p : Used(t, p) <=> Used(s, p) \/ p = x
            /\ \A p, r : p # x /\ UsedAfter(s, p, r) => UsedAfter(t, p, r)
            /\ \A p : p # x => UsedAfter(t, p, x)
<1> DEFINE t == Append(s, x)
           m == Len(s)
<1>1. m \in Nat /\ t \in Seq(Page) /\ Len(t) = m + 1 /\ t[m + 1] = x /\ \A i \in 1..m : t[i] = s[i]
  OBVIOUS
<1>2. /\ \A i \in 1..m : i \in 1..m + 1
      /\ m + 1 \in 1..m + 1
      /\ \A i \in 1..m + 1 : i = m + 1 \/ i \in 1..m
  BY <1>1
<1> HIDE DEF t, m
<1>3. ASSUME NEW p PROVE Used(t, p) <=> Used(s, p) \/ p = x
  BY <1>1, <1>2 DEF Used, m
<1>4. ASSUME NEW p, NEW r, p # x, UsedAfter(s, p, r) PROVE UsedAfter(t, p, r)
  <2>1. PICK i \in 1..m : s[i] = r /\ \A j \in i..m : s[j] # p
    BY <1>4 DEF UsedAfter, m
  <2>2. i \in 1..m + 1 /\ t[i] = r
    BY <1>1, <1>2, <2>1
  <2>3. ASSUME NEW j \in i..m + 1 PROVE t[j] # p
    <3>1. j = m + 1 \/ (j \in i..m /\ j \in 1..m)
      BY <1>1
    <3> QED BY <1>1, <1>4, <2>1, <3>1
  <2> QED BY <1>1, <2>2, <2>3 DEF UsedAfter
<1>5. ASSUME NEW p, p # x PROVE UsedAfter(t, p, x)
  <2>1. \A j \in m + 1..m + 1 : j = m + 1
    BY <1>1
  <2> QED BY <1>1, <1>2, <1>5, <2>1 DEF UsedAfter
<1> QED BY <1>3, <1>4, <1>5 DEF t

\* The misses so far stay, and x is one more if it is not among the pages that
\* were used lately.
LEMMA MissesStep ==
  ASSUME NEW s \in Seq(Page), NEW x \in Page, IsFiniteSet(Misses(s))
  PROVE  LET t == Append(s, x)
         IN /\ IsFiniteSet(Misses(t))
            /\ Cardinality(Misses(t)) = IF x \in LatelyUsed(s, NumFrames) THEN Cardinality(Misses(s))
                                        ELSE Cardinality(Misses(s)) + 1
<1> DEFINE t == Append(s, x)
           m == Len(s)
<1>1. m \in Nat /\ t \in Seq(Page) /\ Len(t) = m + 1 /\ t[m + 1] = x /\ \A i \in 1..m : t[i] = s[i]
  OBVIOUS
<1>2. DOMAIN t = 1..m + 1 /\ DOMAIN s = 1..m
  BY <1>1
<1>3. ASSUME NEW i \in 1..m + 1 PROVE SubSeq(t, 1, i - 1) = SubSeq(s, 1, i - 1)
  <2>0. i - 1 \in Nat /\ i - 1 <= m /\ i - 1 <= m + 1
    BY <1>1
  <2> DEFINE a == SubSeq(t, 1, i - 1)
             b == SubSeq(s, 1, i - 1)
  <2> HIDE DEF t
  <2>1. a \in Seq(Page) /\ Len(a) = i - 1 /\ \A j \in 1..i - 1 : a[j] = t[j]
    BY <1>1, <2>0
  <2>2. b \in Seq(Page) /\ Len(b) = i - 1 /\ \A j \in 1..i - 1 : b[j] = s[j]
    BY <1>1, <2>0
  <2>3. \A j \in 1..i - 1 : j \in 1..m
    BY <1>1, <2>0
  <2> HIDE DEF a, b
  <2>4. a = b
    BY <1>1, <2>1, <2>2, <2>3, SameSeq
  <2> QED BY <2>4 DEF a, b
<1>4. SubSeq(s, 1, (m + 1) - 1) = s
  <2>1. (m + 1) - 1 = Len(s)
    BY <1>1
  <2>2. SubSeq(s, 1, Len(s)) \in Seq(Page) /\ Len(SubSeq(s, 1, Len(s))) = Len(s)
        /\ \A i \in 1..Len(s) : SubSeq(s, 1, Len(s))[i] = s[i]
    BY <1>1
  <2>3. SubSeq(s, 1, Len(s)) = s
    BY <2>2, SameSeq
  <2> QED BY <2>1, <2>3
<1> HIDE DEF t, m
<1>5. \A i \in 1..m : i \in 1..m + 1 /\ i # m + 1
  BY <1>1
<1>6. m + 1 \in 1..m + 1 /\ \A i \in 1..m + 1 : i \in 1..m \/ i = m + 1
  BY <1>1
<1>7. \A i \in 1..m : i \in Misses(t) <=> i \in Misses(s)
  BY <1>1, <1>2, <1>3, <1>5 DEF Misses
<1>8. m + 1 \in Misses(t) <=> x \notin LatelyUsed(s, NumFrames)
  <2>1. SubSeq(t, 1, (m + 1) - 1) = s
    BY <1>3, <1>4, <1>6
  <2> QED BY <1>1, <1>2, <1>6, <2>1 DEF Misses
<1>9. Misses(s) \subseteq 1..m /\ Misses(t) \subseteq 1..m + 1
  BY <1>2 DEF Misses
<1>10. CASE x \in LatelyUsed(s, NumFrames)
  <2>1. Misses(t) = Misses(s)
    BY <1>5, <1>6, <1>7, <1>8, <1>9, <1>10
  <2> QED BY <1>10, <2>1 DEF t
<1>11. CASE x \notin LatelyUsed(s, NumFrames)
  <2>1. Misses(t) = Misses(s) \cup {m + 1} /\ m + 1 \notin Misses(s)
    BY <1>5, <1>6, <1>7, <1>8, <1>9, <1>11
  <2>2. /\ IsFiniteSet(Misses(s) \cup {m + 1})
        /\ Cardinality(Misses(s) \cup {m + 1}) = Cardinality(Misses(s)) + 1
    BY <2>1, FS_AddElement
  <2> QED BY <1>11, <2>1, <2>2 DEF t
<1> QED BY <1>10, <1>11

\* RemoveFirst takes the one place of x out of a queue without repetition: the
\* others keep their order.
LEMMA RemoveIs ==
  ASSUME NEW q \in Seq(Page), Distinct(q), NEW a \in 1..Len(q)
  PROVE  LET b == RemoveFirst(q, q[a])
         IN /\ b \in Seq(Page) /\ Len(b) = Len(q) - 1
            /\ \A i \in 1..Len(b) : b[i] = IF i < a THEN q[i] ELSE q[i + 1]
<1> DEFINE I == {i \in 1..Len(q) : q[i] = q[a]}
<1>0. Len(q) \in Nat
  OBVIOUS
<1>1. I = {a}
  BY DEF Distinct
<1>2. Min(I) = a
  <2>1. Min({a}) \in {a}
    <3>1. {a} \subseteq Nat /\ {a} # {}
      BY <1>0
    <3> QED BY <3>1, MinNat
  <2> QED BY <1>1, <2>1
<1>3. RemoveFirst(q, q[a]) = RemoveAt(q, a)
  <2>1. \E i \in 1..Len(q) : q[i] = q[a]
    OBVIOUS
  <2>2. SelectInSeq(q, LAMBDA v : v = q[a]) = a
    BY <1>1, <1>2 DEF SelectInSeq
  <2> QED BY <2>1, <2>2 DEF RemoveFirst
<1> DEFINE c == SubSeq(q, 1, a - 1)
           d == SubSeq(q, a + 1, Len(q))
<1>4. c \in Seq(Page) /\ Len(c) = a - 1 /\ \A i \in 1..a - 1 : c[i] = q[i]
  BY <1>0
<1>5. d \in Seq(Page) /\ Len(d) = Len(q) - a /\ \A i \in 1..Len(q) - a : d[i] = q[a + i]
  BY <1>0
<1> HIDE DEF c, d
<1> DEFINE b == c \o d
<1>6. b \in Seq(Page) /\ Len(b) = Len(q) - 1
  <2>1. b \in Seq(Page) /\ Len(b) = Len(c) + Len(d)
    <3>1. c \in Seq(Page) /\ d \in Seq(Page)
      BY <1>4, <1>5
    <3> QED BY <3>1
  <2> HIDE DEF b
  <2> QED BY <1>0, <1>4, <1>5, <2>1
<1>7. ASSUME NEW i \in 1..Len(b) PROVE b[i] = IF i < a THEN q[i] ELSE q[i + 1]
  <2>1. CASE i < a
    <3>1. i \in 1..Len(c) /\ i \in 1..a - 1
      BY <1>4, <1>6, <2>1
    <3> QED BY <1>4, <1>5, <2>1, <3>1
  <2>2. CASE ~(i < a)
    <3> DEFINE k == i - Len(c)
    <3>1. k \in 1..Len(d) /\ Len(c) + k = i /\ a + k = i + 1 /\ k \in 1..Len(q) - a
      BY <1>0, <1>4, <1>5, <1>6, <2>2
    <3> HIDE DEF k
    <3>2. b[Len(c) + k] = d[k]
      <4>1. c \in Seq(Page) /\ d \in Seq(Page) /\ k \in 1..Len(d)
        BY <1>4, <1>5, <3>1
      <4> QED BY <4>1
    <3> HIDE DEF b
    <3> QED BY <1>5, <2>2, <3>1, <3>2
  <2> QED BY <2>1, <2>2
<1>8. RemoveAt(q, a) = b
  BY DEF RemoveAt, c, d
<1> QED BY <1>3, <1>6, <1>7, <1>8

\* A page goes to the end: b is the queue before, without that page or without
\* its first.  was[i] is the place in it of b's i-th.
LEMMA MoveToEnd ==
  ASSUME NEW s \in Seq(Page), NEW q \in Seq(Page), InUseOrder(s, q), NEW x \in Page,
         NEW b \in Seq(Page), Len(b) < NumFrames, NEW was \in [1..Len(b) -> 1..Len(q)],
         \A i, j \in 1..Len(b) : i < j => was[i] < was[j],
         \A i \in 1..Len(b) : b[i] = q[was[i]] /\ b[i] # x,
         \A k \in 1..Len(q) : q[k] = x \/ (\E i \in 1..Len(b) : was[i] = k)
                                       \/ (k = 1 /\ Len(b) = NumFrames - 1
                                             /\ \A i \in 1..Len(b) : was[i] > 1),
         Len(q) = NumFrames => Len(b) = NumFrames - 1
  PROVE  InUseOrder(Append(s, x), Append(b, x))
<1> DEFINE t == Append(s, x)
           n == Append(b, x)
           m == Len(b)
<1>0. m \in Nat /\ NumFrames \in Nat /\ Len(q) \in Nat
  BY PageAssumption
<1>1. n \in Seq(Page) /\ Len(n) = m + 1 /\ n[m + 1] = x /\ \A i \in 1..m : n[i] = b[i]
  OBVIOUS
<1>2. /\ \A p : Used(t, p) <=> Used(s, p) \/ p = x
      /\ \A p, r : p # x /\ UsedAfter(s, p, r) => UsedAfter(t, p, r)
      /\ \A p : p # x => UsedAfter(t, p, x)
  BY UsedStep
<1>3. \A i \in 1..m + 1 : i = m + 1 \/ i \in 1..m
  BY <1>0
<1>4. \A i, j \in 1..m + 1 : i < j => i \in 1..m
  BY <1>0
<1> HIDE DEF t, n, m
<1>5. Len(n) <= NumFrames
  BY <1>0, <1>1 DEF m
<1>6. \A i \in 1..m : was[i] \in 1..Len(q) /\ b[i] = q[was[i]] /\ b[i] # x
  BY DEF m
<1>7. ASSUME NEW j \in 1..m + 1 PROVE Used(t, n[j])
  <2>1. CASE j = m + 1
    BY <1>1, <1>2, <2>1
  <2>2. CASE j \in 1..m
    <3>1. Used(s, q[was[j]])
      BY <1>6, <2>2 DEF InUseOrder
    <3> QED BY <1>1, <1>2, <1>6, <2>2, <3>1
  <2> QED BY <1>3, <2>1, <2>2
<1>8. ASSUME NEW j \in 1..m + 1, NEW k \in 1..m + 1, j < k PROVE UsedAfter(t, n[j], n[k])
  <2>1. j \in 1..m /\ n[j] = b[j] /\ b[j] # x
    BY <1>1, <1>4, <1>6, <1>8
  <2>2. CASE k = m + 1
    BY <1>1, <1>2, <2>1, <2>2
  <2>3. CASE k \in 1..m
    <3>1. was[j] < was[k]
      BY <1>8, <2>1, <2>3 DEF m
    <3>2. UsedAfter(s, q[was[j]], q[was[k]])
      BY <1>6, <2>1, <2>3, <3>1 DEF InUseOrder
    <3> QED BY <1>1, <1>2, <1>6, <2>1, <2>3, <3>2
  <2> QED BY <1>3, <2>2, <2>3
<1>9. ASSUME NEW p \in Page, Used(t, p), \A k \in 1..m + 1 : n[k] # p
      PROVE  m + 1 = NumFrames /\ \A k \in 1..m + 1 : UsedAfter(t, p, n[k])
  <2>0. m + 1 \in 1..m + 1 /\ \A k \in 1..m : k \in 1..m + 1
    BY <1>0
  <2>1. p # x /\ \A k \in 1..m : b[k] # p
    BY <1>1, <1>9, <2>0
  <2>2. Used(s, p)
    BY <1>2, <1>9, <2>1
  <2>3. m + 1 = NumFrames /\ \A k \in 1..m : UsedAfter(s, p, b[k])
    <3>1. CASE \A k \in 1..Len(q) : q[k] # p
      <4>1. Len(q) = NumFrames /\ \A k \in 1..Len(q) : UsedAfter(s, p, q[k])
        BY <2>2, <3>1 DEF InUseOrder
      <4> QED BY <1>0, <1>6, <4>1 DEF m
    <3>2. ASSUME NEW k \in 1..Len(q), q[k] = p
          PROVE  m + 1 = NumFrames /\ \A j \in 1..m : UsedAfter(s, p, b[j])
      <4>1. \A i \in 1..m : was[i] # k
        BY <1>6, <2>1, <3>2
      <4>2. k = 1 /\ m = NumFrames - 1 /\ \A i \in 1..m : was[i] > 1
        BY <2>1, <3>2, <4>1 DEF m
      <4>3. ASSUME NEW j \in 1..m PROVE UsedAfter(s, p, b[j])
        <5>1. 1 < was[j] /\ was[j] \in 1..Len(q) /\ b[j] = q[was[j]]
          BY <1>6, <4>2
        <5> QED BY <3>2, <4>2, <5>1 DEF InUseOrder
      <4> QED BY <1>0, <4>2, <4>3
    <3> QED BY <3>1, <3>2
  <2>4. ASSUME NEW k \in 1..m + 1 PROVE UsedAfter(t, p, n[k])
    BY <1>1, <1>2, <1>3, <2>1, <2>3
  <2> QED BY <2>3, <2>4
<1> QED BY <1>1, <1>5, <1>7, <1>8, <1>9 DEF InUseOrder, t, n

\* lru: the page goes to the end, from its place, as one more, or for the first.
LEMMA LruStep ==
  ASSUME NEW mm \in PageState, LruOK(mm), NEW x \in Page
  PROVE  LET m == [mm EXCEPT !.references = Append(@, x)]
         IN lru(m, x) \in PageState /\ lru(m, x).program = mm.program /\ LruOK(lru(m, x))
<1> DEFINE m == [mm EXCEPT !.references = Append(@, x)]
           u == lru(m, x)
           s == mm.references
           t == Append(s, x)
           q == mm.queue
           N == NumFrames
<1>1. /\ s \in Seq(Page) /\ q \in Seq(Page) /\ Len(q) \in Nat /\ N \in Nat /\ N # 0 /\ t \in Seq(Page)
      /\ mm.in_memory \subseteq Page /\ mm.pageFaults \in Nat
  BY PageAssumption DEF PageState
<1>2. /\ InUseOrder(s, q) /\ mm.in_memory = ToSet(q) /\ IsFiniteSet(Misses(s))
      /\ mm.pageFaults = Cardinality(Misses(s))
  BY DEF LruOK
<1>3. /\ m \in PageState /\ m.references = t /\ m.queue = q /\ m.in_memory = mm.in_memory
      /\ m.pageFaults = mm.pageFaults /\ m.program = mm.program
  BY <1>1 DEF PageState
<1>4. mm.in_memory = LatelyUsed(s, N)
  BY <1>1, <1>2, QueueIsLately
<1>5. /\ IsFiniteSet(Misses(t))
      /\ Cardinality(Misses(t)) = IF x \in mm.in_memory THEN mm.pageFaults ELSE mm.pageFaults + 1
  BY <1>1, <1>2, <1>4, MissesStep
<1>6. Distinct(q) /\ Len(q) <= N
  BY <1>1, <1>2, OrderDistinct DEF InUseOrder
<1>7. mm.in_memory = {q[i] : i \in 1..Len(q)}
  BY <1>1, <1>2 DEF ToSet
<1>8. Cardinality(mm.in_memory) = Len(q)
  BY <1>1, <1>2, <1>6, CountAll
<1> HIDE DEF m, u, t, q, s
\* The queue behind the step is b with x at the end; in_memory agrees.
<1>9. ASSUME NEW b \in Seq(Page), InUseOrder(t, Append(b, x)), NEW M, M = {b[i] : i \in 1..Len(b)} \cup {x},
             u = [m EXCEPT !.queue = Append(b, x), !.in_memory = M, !.pageFaults = Cardinality(Misses(t))]
      PROVE  u \in PageState /\ u.program = mm.program /\ LruOK(u)
  <2>1. /\ Append(b, x) \in Seq(Page) /\ Len(Append(b, x)) = Len(b) + 1 /\ Append(b, x)[Len(b) + 1] = x
        /\ \A i \in 1..Len(b) : Append(b, x)[i] = b[i]
    OBVIOUS
  <2>2. Len(b) \in Nat /\ \A i \in 1..Len(b) : b[i] \in Page
    OBVIOUS
  <2>3. ToSet(Append(b, x)) = M
    <3>1. ToSet(Append(b, x)) = {Append(b, x)[i] : i \in 1..Len(b) + 1}
      BY <2>1 DEF ToSet
    <3>2. Len(b) + 1 \in 1..Len(b) + 1 /\ \A i \in 1..Len(b) + 1 : i \in 1..Len(b) \/ i = Len(b) + 1
      BY <2>2
    <3>3. \A i \in 1..Len(b) : i \in 1..Len(b) + 1
      BY <2>2
    <3> QED BY <1>9, <2>1, <3>1, <3>2, <3>3
  <2>4. M \subseteq Page
    BY <1>9, <2>2
  <2>5. Cardinality(Misses(t)) \in Nat
    BY <1>5, FS_CardinalityType
  <2>6. /\ u \in PageState /\ u.program = mm.program /\ u.queue = Append(b, x) /\ u.in_memory = M
        /\ u.pageFaults = Cardinality(Misses(t)) /\ u.references = t
    BY <1>3, <1>9, <2>1, <2>4, <2>5 DEF PageState
  <2> QED BY <1>5, <1>9, <2>3, <2>6 DEF LruOK
<1>10. CASE x \in mm.in_memory
  <2>1. PICK a \in 1..Len(q) : q[a] = x
    BY <1>7, <1>10
  <2> DEFINE b == RemoveFirst(q, x)
             was == [i \in 1..Len(b) |-> IF i < a THEN i ELSE i + 1]
  <2>2. /\ b \in Seq(Page) /\ Len(b) = Len(q) - 1
        /\ \A i \in 1..Len(b) : b[i] = IF i < a THEN q[i] ELSE q[i + 1]
    BY <1>1, <1>6, <2>1, RemoveIs
  <2>3. u = [m EXCEPT !.queue = Append(b, x)]
    BY <1>3, <1>10 DEF lru, u
  <2> HIDE DEF b
  <2>4. /\ was \in [1..Len(b) -> 1..Len(q)]
        /\ \A i, j \in 1..Len(b) : i < j => was[i] < was[j]
        /\ \A i \in 1..Len(b) : was[i] # a
        /\ \A k \in 1..Len(q) : k # a => \E i \in 1..Len(b) : was[i] = k
    <3>1. \A i \in 1..Len(b) : (IF i < a THEN i ELSE i + 1) \in 1..Len(q)
      BY <1>1, <2>1, <2>2
    <3>2. ASSUME NEW k \in 1..Len(q), k # a PROVE \E i \in 1..Len(b) : was[i] = k
      <4>1. CASE k < a
        <5>1. k \in 1..Len(b)
          BY <1>1, <2>1, <2>2, <4>1
        <5> QED BY <4>1, <5>1
      <4>2. CASE ~(k < a)
        <5>1. k - 1 \in 1..Len(b) /\ ~(k - 1 < a) /\ (k - 1) + 1 = k
          BY <1>1, <2>1, <2>2, <3>2, <4>2
        <5> QED BY <5>1
      <4> QED BY <4>1, <4>2
    <3>3. \A i, j \in 1..Len(b) : i < j => was[i] < was[j]
      BY <1>1, <2>1, <2>2
    <3>4. \A i \in 1..Len(b) : was[i] # a
      BY <1>1, <2>1, <2>2
    <3> QED BY <3>1, <3>2, <3>3, <3>4
  <2>5. \A i \in 1..Len(b) : b[i] = q[was[i]]
    BY <2>2
  <2> HIDE DEF was
  <2>6. \A i \in 1..Len(b) : b[i] # x
    BY <1>6, <2>1, <2>4, <2>5 DEF Distinct
  <2>7. Len(b) < N /\ (Len(q) = N => Len(b) = N - 1)
    BY <1>1, <1>6, <2>2
  <2>a. \A k \in 1..Len(q) : q[k] = x \/ (\E i \in 1..Len(b) : was[i] = k)
    BY <2>1, <2>4
  <2>b. \A k \in 1..Len(q) : q[k] = x \/ (\E i \in 1..Len(b) : was[i] = k)
                                      \/ (k = 1 /\ Len(b) = N - 1 /\ \A i \in 1..Len(b) : was[i] > 1)
    BY <2>a, Zenon
  <2>c. \A i \in 1..Len(b) : b[i] = q[was[i]] /\ b[i] # x
    BY <2>5, <2>6
  <2>8. InUseOrder(t, Append(b, x))
    BY <1>1, <1>2, <2>2, <2>4, <2>7, <2>b, <2>c, MoveToEnd, Zenon DEF t
  <2>9. mm.in_memory = {b[i] : i \in 1..Len(b)} \cup {x}
    <3>1. ASSUME NEW y \in mm.in_memory PROVE y = x \/ \E i \in 1..Len(b) : b[i] = y
      BY <1>7, <2>5, <2>a
    <3>2. ASSUME NEW i \in 1..Len(b) PROVE b[i] \in mm.in_memory
      BY <1>7, <2>4, <2>5
    <3> QED BY <1>10, <3>1, <3>2
  <2>10. u = [m EXCEPT !.queue = Append(b, x), !.in_memory = mm.in_memory,
                       !.pageFaults = Cardinality(Misses(t))]
    BY <1>3, <1>5, <1>10, <2>3 DEF PageState
  <2>z. u \in PageState /\ u.program = mm.program /\ LruOK(u)
    BY <1>9, <2>2, <2>8, <2>9, <2>10, Zenon
  <2> QED BY <2>z DEF u, m
<1>11. CASE x \notin mm.in_memory /\ Len(q) < N
  <2> DEFINE was == [i \in 1..Len(q) |-> i]
  <2>1. InUseOrder(t, Append(q, x))
    <3>1. /\ was \in [1..Len(q) -> 1..Len(q)]
          /\ \A i, j \in 1..Len(q) : i < j => was[i] < was[j]
          /\ \A i \in 1..Len(q) : q[i] = q[was[i]] /\ was[i] = i
      OBVIOUS
    <3>2. \A i \in 1..Len(q) : q[i] # x
      BY <1>7, <1>11
    <3>3. Len(q) = N => Len(q) = N - 1
      BY <1>1, <1>11
    <3> HIDE DEF was
    <3> QED BY <1>1, <1>2, <1>11, <3>1, <3>2, <3>3, MoveToEnd DEF t
  <2>2. u = [m EXCEPT !.queue = Append(q, x), !.in_memory = mm.in_memory \cup {x},
                      !.pageFaults = Cardinality(Misses(t))]
    BY <1>3, <1>5, <1>8, <1>11 DEF lru, u
  <2>3. mm.in_memory \cup {x} = {q[i] : i \in 1..Len(q)} \cup {x}
    BY <1>7
  <2>z. u \in PageState /\ u.program = mm.program /\ LruOK(u)
    BY <1>1, <1>9, <2>1, <2>2, <2>3, Zenon
  <2> QED BY <2>z DEF u, m
<1>12. CASE x \notin mm.in_memory /\ ~(Len(q) < N)
  <2> DEFINE b == Tail(q)
             was == [i \in 1..Len(b) |-> i + 1]
  <2>0. Len(q) = N /\ q # <<>>
    BY <1>1, <1>6, <1>12
  <2>1. b \in Seq(Page) /\ Len(b) = N - 1 /\ Head(q) = q[1] /\ \A i \in 1..Len(b) : b[i] = q[i + 1]
    BY <1>1, <2>0
  <2>2. u = [m EXCEPT !.queue = Append(b, x), !.in_memory = (mm.in_memory \ {q[1]}) \cup {x},
                      !.pageFaults = Cardinality(Misses(t))]
    BY <1>3, <1>5, <1>8, <1>12, <2>1 DEF lru, u
  <2> HIDE DEF b
  <2>3. /\ was \in [1..Len(b) -> 1..Len(q)]
        /\ \A i, j \in 1..Len(b) : i < j => was[i] < was[j]
        /\ \A i \in 1..Len(b) : b[i] = q[was[i]] /\ was[i] > 1
    BY <1>1, <2>0, <2>1
  <2>4. \A k \in 1..Len(q) : k # 1 => \E i \in 1..Len(b) : was[i] = k
    <3> SUFFICES ASSUME NEW k \in 1..Len(q), k # 1 PROVE \E i \in 1..Len(b) : was[i] = k
      OBVIOUS
    <3>1. k - 1 \in 1..Len(b) /\ (k - 1) + 1 = k
      BY <1>1, <2>0, <2>1
    <3> QED BY <3>1
  <2> HIDE DEF was
  <2>5. \A i \in 1..Len(b) : was[i] \in 1..Len(q) /\ b[i] # x
    BY <1>7, <1>12, <2>3
  <2>c. \A i \in 1..Len(b) : b[i] = q[was[i]] /\ b[i] # x
    BY <2>3, <2>5
  <2>6. Len(b) < N
    BY <1>1, <2>1
  <2>7. \A k \in 1..Len(q) : q[k] = x \/ (\E i \in 1..Len(b) : was[i] = k)
                                      \/ (k = 1 /\ Len(b) = N - 1 /\ \A i \in 1..Len(b) : was[i] > 1)
    BY <2>1, <2>3, <2>4
  <2>8. InUseOrder(t, Append(b, x))
    BY <1>1, <1>2, <2>1, <2>3, <2>6, <2>7, <2>c, MoveToEnd, Zenon DEF t
  <2>9. mm.in_memory \ {q[1]} = {b[i] : i \in 1..Len(b)}
    <3>0. 1 \in 1..Len(q)
      BY <1>1, <2>0
    <3>1. ASSUME NEW y \in mm.in_memory, y # q[1] PROVE \E i \in 1..Len(b) : b[i] = y
      BY <1>7, <2>3, <2>4, <3>1
    <3>2. ASSUME NEW i \in 1..Len(b) PROVE b[i] \in mm.in_memory /\ b[i] # q[1]
      <4>1. was[i] \in 1..Len(q) /\ was[i] # 1 /\ b[i] = q[was[i]]
        BY <2>3, <2>5
      <4> QED BY <1>6, <1>7, <3>0, <4>1 DEF Distinct
    <3> QED BY <3>1, <3>2
  <2>10. (mm.in_memory \ {q[1]}) \cup {x} = {b[i] : i \in 1..Len(b)} \cup {x}
    BY <2>9
  <2>z. u \in PageState /\ u.program = mm.program /\ LruOK(u)
    BY <1>9, <2>1, <2>2, <2>8, <2>10, Zenon
  <2> QED BY <2>z DEF u, m
<1> QED BY <1>10, <1>11, <1>12 DEF u, m
-----------------------------------------------------------------------------
(* Random *)

\* A page in memory is in one frame, a frame is unused or has a page in memory.
RandomOK(m) ==
  /\ \A p \in m.in_memory : \E f \in Frame : m.frameUsage[f] = p
  /\ \A f \in Frame : m.frameUsage[f] # -1 => m.frameUsage[f] \in m.in_memory
  /\ \A f, g \in Frame : m.frameUsage[f] = m.frameUsage[g] /\ m.frameUsage[f] # -1 => f = g
  /\ m.pageFaults + m.page_hits = Len(m.references)

\* random: the victim's frame changes its page, whoever has been in it.
LEMMA RandomStep ==
  ASSUME NEW mm \in PageState, RandomOK(mm), NEW x \in Page, NEW v \in Frame
  PROVE  LET m == [mm EXCEPT !.references = Append(@, x)]
         IN /\ random(m, x, v) \in PageState /\ random(m, x, v).program = mm.program
            /\ RandomOK(random(m, x, v))
<1> DEFINE m == [mm EXCEPT !.references = Append(@, x)]
           u == random(m, x, v)
           s == mm.references
           t == Append(s, x)
           w == mm.frameUsage
<1>1. /\ s \in Seq(Page) /\ Len(s) \in Nat /\ t \in Seq(Page) /\ Len(t) = Len(s) + 1
      /\ mm.in_memory \subseteq Page /\ mm.pageFaults \in Nat /\ mm.page_hits \in Nat
      /\ w \in [Frame -> Page \cup {-1}] /\ -1 \notin Page /\ x # -1
  BY PageAssumption DEF PageState
<1>2. /\ m \in PageState /\ m.references = t /\ m.frameUsage = w /\ m.in_memory = mm.in_memory
      /\ m.pageFaults = mm.pageFaults /\ m.page_hits = mm.page_hits /\ m.program = mm.program
  BY <1>1 DEF PageState
<1>r. mm.pageFaults + mm.page_hits = Len(s)
  BY DEF RandomOK
<1>n. Len(t) = Len(s) + 1
  BY <1>1
<1> HIDE DEF m, t, u, w, s
<1>5. /\ \A p \in mm.in_memory : \E f \in Frame : w[f] = p
      /\ \A f \in Frame : w[f] # -1 => w[f] \in mm.in_memory
      /\ \A f, g \in Frame : w[f] = w[g] /\ w[f] # -1 => f = g
  BY DEF RandomOK, w
<1>3. CASE x \in mm.in_memory
  <2>1. u = [m EXCEPT !.page_hits = mm.page_hits + 1]
    BY <1>2, <1>3 DEF random, u
  <2>2. mm.page_hits + 1 \in Nat /\ mm.pageFaults + (mm.page_hits + 1) = Len(t)
    BY <1>1, <1>r, <1>n
  <2>3. /\ u \in PageState /\ u.program = mm.program /\ u.frameUsage = w /\ u.in_memory = mm.in_memory
        /\ u.references = t /\ u.pageFaults = mm.pageFaults /\ u.page_hits = mm.page_hits + 1
    BY <1>2, <2>1, <2>2 DEF PageState
  <2>4. RandomOK(u)
    BY <1>5, <2>2, <2>3 DEF RandomOK
  <2> QED BY <2>3, <2>4 DEF u, m
<1>4. CASE x \notin mm.in_memory
  <2> DEFINE n == [w EXCEPT ![v] = x]
             M == (mm.in_memory \ {w[v]}) \cup {x}
  <2>1. u = [m EXCEPT !.in_memory = M, !.frameUsage = n, !.pageFaults = mm.pageFaults + 1]
    BY <1>2, <1>4 DEF random, u
  <2>2. mm.pageFaults + 1 \in Nat /\ (mm.pageFaults + 1) + mm.page_hits = Len(t)
    <3>1. mm.pageFaults \in Nat /\ mm.page_hits \in Nat /\ Len(t) = (mm.pageFaults + mm.page_hits) + 1
      BY <1>1, <1>r, <1>n
    <3> QED BY <3>1
  <2>3. n \in [Frame -> Page \cup {-1}] /\ n[v] = x /\ (\A f \in Frame : f # v => n[f] = w[f])
        /\ M \subseteq Page
    BY <1>1
  <2> HIDE DEF n
  <2>4. /\ u \in PageState /\ u.program = mm.program /\ u.frameUsage = n /\ u.in_memory = M
        /\ u.references = t /\ u.pageFaults = mm.pageFaults + 1 /\ u.page_hits = mm.page_hits
    <3> HIDE DEF M
    <3> QED BY <1>2, <2>1, <2>2, <2>3 DEF PageState
  <2>6. \A p \in M : \E f \in Frame : n[f] = p
    BY <1>5, <2>3
  <2>7. \A f \in Frame : n[f] # -1 => n[f] \in M
    BY <1>5, <2>3
  <2>8. \A f, g \in Frame : n[f] = n[g] /\ n[f] # -1 => f = g
    BY <1>1, <1>4, <1>5, <2>3
  <2> HIDE DEF M
  <2>9. RandomOK(u)
    BY <2>2, <2>4, <2>6, <2>7, <2>8 DEF RandomOK
  <2> QED BY <2>4, <2>9 DEF u, m
<1> QED BY <1>3, <1>4
-----------------------------------------------------------------------------
(* The three programs *)

PageOK(m) == /\ m \in PageState
             /\ m.program = "fifo" => FifoOK(m)
             /\ m.program = "lru" => LruOK(m)
             /\ m.program = "random" => RandomOK(m)
PageInv == PageOK(mem)

\* Memory is empty.
LEMMA PageInitInv == PageInit => PageInv
<1> SUFFICES ASSUME NEW p \in {"fifo", "lru", "random"}, mem = PageStart(p) PROVE PageOK(mem)
  BY DEF PageInit, PageInv
<1>1. /\ mem.program = p /\ mem.references = <<>> /\ mem.queue = <<>> /\ mem.in_memory = {}
      /\ mem.frameUsage = [f \in Frame |-> -1] /\ mem.pageFaults = 0 /\ mem.page_hits = 0
  BY DEF PageStart
<1>2. mem \in PageState
  <2>1. <<>> \in Seq(Page) /\ {} \in SUBSET Page /\ [f \in Frame |-> -1] \in [Frame -> Page \cup {-1}]
    OBVIOUS
  <2> QED BY <2>1 DEF PageState, PageStart
<1>0. <<>> \in Seq(Page) /\ NumFrames \in Nat
  BY PageAssumption
<1>3. FifoOK(mem)
  <2>1. Loads(<<>>) = <<>>
    BY <1>0, LoadsStep
  <2>2. LET q == LastOf(<<>>, NumFrames)
        IN q \in Seq(Page) /\ Len(q) = IF Len(<<>>) > NumFrames THEN NumFrames ELSE Len(<<>>)
    BY <1>0, LastOfIs
  <2>3. LastOf(<<>>, NumFrames) = <<>>
    <3> DEFINE q == LastOf(<<>>, NumFrames)
    <3>1. q \in Seq(Page) /\ Len(q) = 0
      BY <1>0, <2>2
    <3> HIDE DEF q
    <3>2. q = <<>>
      BY <3>1
    <3> QED BY <3>2 DEF q
  <2>4. ToSet(<<>>) = {} /\ Distinct(<<>>)
    BY DEF ToSet, Distinct
  <2> QED BY <1>1, <2>1, <2>3, <2>4 DEF FifoOK
<1>4. LruOK(mem)
  <2>1. InUseOrder(<<>>, <<>>)
    BY <1>0 DEF InUseOrder, Used
  <2>2. Misses(<<>>) = {}
    BY DEF Misses
  <2>3. ToSet(<<>>) = {}
    BY DEF ToSet
  <2> QED BY <1>1, <2>1, <2>2, <2>3, FS_EmptySet DEF LruOK
<1>5. RandomOK(mem)
  BY <1>1 DEF RandomOK
<1> QED BY <1>2, <1>3, <1>4, <1>5 DEF PageOK

\* Every turn of each program keeps its invariant.
LEMMA PageStep == PageInv /\ [PageNext]_mem => PageInv'
<1> SUFFICES ASSUME PageInv, [PageNext]_mem PROVE PageInv'
  OBVIOUS
<1>1. CASE UNCHANGED mem
  BY <1>1 DEF PageInv
<1>2. CASE PageNext
  <2>1. PICK page \in Page :
          LET m == [mem EXCEPT !.references = Append(@, page)]
          IN \/ mem.program = "fifo" /\ mem' = fifo(m, page)
             \/ mem.program = "lru" /\ mem' = lru(m, page)
             \/ mem.program = "random" /\ \E f \in Frame : mem' = random(m, page, f)
    BY <1>2 DEF PageNext
  <2> DEFINE m == [mem EXCEPT !.references = Append(@, page)]
  <2>2. PageOK(mem) /\ mem \in PageState
    BY DEF PageInv, PageOK
  <2>3. CASE mem.program = "fifo" /\ mem' = fifo(m, page)
    <3>1. mem' \in PageState /\ mem'.program = "fifo" /\ FifoOK(mem')
      BY <2>2, <2>3, FifoStep DEF PageOK
    <3> QED BY <3>1 DEF PageInv, PageOK
  <2>4. CASE mem.program = "lru" /\ mem' = lru(m, page)
    <3>1. mem' \in PageState /\ mem'.program = "lru" /\ LruOK(mem')
      BY <2>2, <2>4, LruStep DEF PageOK
    <3> QED BY <3>1 DEF PageInv, PageOK
  <2>5. CASE mem.program = "random" /\ \E f \in Frame : mem' = random(m, page, f)
    <3>1. mem' \in PageState /\ mem'.program = "random" /\ RandomOK(mem')
      BY <2>2, <2>5, RandomStep DEF PageOK
    <3> QED BY <3>1 DEF PageInv, PageOK
  <2> QED BY <2>1, <2>3, <2>4, <2>5
<1> QED BY <1>1, <1>2

\* What the invariants say is what the policies mean.
LEMMA PageInvImplies == PageInv => PagesResident
<1> SUFFICES ASSUME PageInv PROVE PagesResident
  OBVIOUS
<1> DEFINE s == mem.references
           q == mem.queue
<1>1. mem \in PageState /\ s \in Seq(Page) /\ q \in Seq(Page) /\ -1 \notin Page /\ mem.in_memory \subseteq Page
  BY PageAssumption DEF PageInv, PageOK, PageState
<1>2. CASE mem.program = "fifo"
  <2>1. FifoOK(mem)
    BY <1>2 DEF PageInv, PageOK
  <2> QED BY <1>2, <2>1 DEF FifoOK, PagesResident
<1>3. CASE mem.program = "lru"
  <2>1. LruOK(mem)
    BY <1>3 DEF PageInv, PageOK
  <2>2. InUseOrder(s, q) /\ mem.in_memory = ToSet(q)
    BY <2>1 DEF LruOK
  <2>3. mem.in_memory = LatelyUsed(s, NumFrames)
    BY <1>1, <2>2, QueueIsLately
  <2>4. Len(q) = Cardinality(mem.in_memory)
    <3>1. Distinct(q)
      BY <1>1, <2>2, OrderDistinct
    <3> QED BY <1>1, <2>2, <3>1, CountAll
  <2>5. mem.pageFaults = Cardinality({i \in DOMAIN s : s[i] \notin LatelyUsed(SubSeq(s, 1, i - 1), NumFrames)})
    BY <2>1 DEF LruOK, Misses
  <2> QED BY <1>3, <2>2, <2>3, <2>4, <2>5, Zenon DEF PagesResident
<1>4. CASE mem.program = "random"
  <2>1. RandomOK(mem)
    BY <1>4 DEF PageInv, PageOK
  <2>2. ASSUME NEW p \in mem.in_memory
        PROVE  \E f \in Frame : {g \in Frame : mem.frameUsage[g] = p} = {f}
    <3>1. PICK f \in Frame : mem.frameUsage[f] = p
      BY <2>1 DEF RandomOK
    <3>2. \A g \in Frame : mem.frameUsage[g] = p => g = f
      BY <1>1, <2>1, <3>1 DEF RandomOK
    <3> QED BY <3>1, <3>2
  <2> QED BY <1>4, <2>1, <2>2 DEF RandomOK, PagesResident
<1> QED BY <1>1, <1>2, <1>3, <1>4 DEF PageState

\* The programs of Lab-08 with any number of frames, any pages and reference
\* strings of any length: memory holds what first in, first out or least
\* recently used says, queue and table agree, and the faults reported are the
\* loads that the policy needs; with random victims no page is in two frames.
THEOREM PagesAreResident == PageSpec => []PagesResident
<1>1. PageInv /\ [PageNext]_mem => PageInv'
  BY PageStep
<1> QED BY <1>1, PageInitInv, PageInvImplies, PTL DEF PageSpec
-----------------------------------------------------------------------------
(* The exec chain *)

\* The values of number while the programs of line run.
MadeRun(f, line, n, m) == f = [k \in 0..m |-> IF k = 0 THEN n ELSE Compute(line[k], f[k - 1])]
Made(line, n) == CHOOSE f : MadeRun(f, line, n, Len(line))

ExecState(l, a, g, n, f, o) ==
  [program |-> "exec", line |-> l, argv |-> a, given |-> g, number |-> n, first |-> f, over |-> o]

\* What is left of the command line is its end, and number is what the
\* programs before it have made.
ExecParts(l, a, g, n, f, o) ==
  /\ l \in Seq(Program) /\ a \in Seq(Program) /\ g \in BOOLEAN /\ o \in BOOLEAN
  /\ Len(a) <= Len(l)
  /\ \A j \in 1..Len(a) : a[j] = l[Len(l) - Len(a) + j]
  /\ n = IF g THEN Made(l, f)[Len(l) - Len(a)] ELSE f
  /\ o /\ g => a = <<>>

ExecOK(c) == \E l, a, g, n, f, o : c = ExecState(l, a, g, n, f, o) /\ ExecParts(l, a, g, n, f, o)

LEMMA MadeExists ==
  ASSUME NEW line, NEW n
  PROVE  \A m \in Nat : \E f : MadeRun(f, line, n, m)
<1> DEFINE S == {m \in Nat : \E f : MadeRun(f, line, n, m)}
<1>1. 0 \in S
  <2>1. MadeRun([k \in 0..0 |-> n], line, n, 0)
    BY DEF MadeRun
  <2> QED BY <2>1
<1>2. ASSUME NEW m \in Nat, m \in S PROVE m + 1 \in S
  <2>1. PICK f : MadeRun(f, line, n, m)
    BY <1>2
  <2> DEFINE g == [k \in 0..m + 1 |-> IF k # m + 1 THEN f[k] ELSE Compute(line[m + 1], f[m])]
  <2>2. ASSUME NEW k \in 0..m + 1
        PROVE  g[k] = IF k = 0 THEN n ELSE Compute(line[k], g[k - 1])
    <3>1. CASE k = m + 1
      <4>1. k # 0 /\ k - 1 = m /\ m \in 0..m + 1 /\ m # m + 1
        BY <3>1
      <4>2. g[k - 1] = f[m]
        BY <4>1
      <4> QED BY <3>1, <4>1, <4>2
    <3>2. CASE k # m + 1
      <4>1. k \in 0..m
        BY <3>2
      <4>2. f[k] = IF k = 0 THEN n ELSE Compute(line[k], f[k - 1])
        BY <2>1, <4>1 DEF MadeRun
      <4>3. k # 0 => k - 1 \in 0..m + 1 /\ k - 1 # m + 1
        BY <4>1
      <4>4. k # 0 => g[k - 1] = f[k - 1]
        BY <4>3
      <4>5. g[k] = f[k]
        BY <3>2
      <4> QED BY <4>2, <4>4, <4>5
    <3> QED BY <3>1, <3>2
  <2>3. MadeRun(g, line, n, m + 1)
    BY <2>2 DEF MadeRun
  <2> QED BY <2>3
<1>3. \A m \in Nat : m \in S
  <2> HIDE DEF S
  <2> QED BY <1>1, <1>2, SetInduction
<1> QED BY <1>3

LEMMA MadeIs ==
  ASSUME NEW line \in Seq(Program), NEW n
  PROVE  /\ \A k \in 0..Len(line) :
              Made(line, n)[k] = IF k = 0 THEN n ELSE Compute(line[k], Made(line, n)[k - 1])
         /\ Result(line, n) = Made(line, n)[Len(line)]
<1>1. \E f : MadeRun(f, line, n, Len(line))
  BY MadeExists
<1>2. MadeRun(Made(line, n), line, n, Len(line))
  BY <1>1, Zenon DEF Made
<1>3. Result(line, n) = Made(line, n)[Len(line)]
  BY DEF Result, Made, MadeRun
<1>4. \A k \in 0..Len(line) :
        Made(line, n)[k] = IF k = 0 THEN n ELSE Compute(line[k], Made(line, n)[k - 1])
  <2> HIDE DEF Made
  <2> QED BY <1>2, Zenon DEF MadeRun
<1> QED BY <1>3, <1>4

LEMMA ExecInitOK ==
  ASSUME NEW argv \in Seq(Program), NEW n, NEW given \in BOOLEAN
  PROVE  ExecOK(ExecInit(argv, n, given))
<1>1. ExecInit(argv, n, given) = ExecState(argv, argv, given, n, n, FALSE)
  BY DEF ExecInit, ExecState
<1>2. Len(argv) \in Nat /\ Len(argv) <= Len(argv) /\ Len(argv) - Len(argv) = 0 /\ 0 \in 0..Len(argv)
  OBVIOUS
<1>3. Made(argv, n)[0] = n
  BY <1>2, MadeIs
<1>4. \A j \in 1..Len(argv) : Len(argv) - Len(argv) + j = j
  BY <1>2
<1>5. \A j \in 1..Len(argv) : argv[j] = argv[Len(argv) - Len(argv) + j]
  BY <1>4
<1>6. n = IF given THEN Made(argv, n)[Len(argv) - Len(argv)] ELSE n
  BY <1>2, <1>3
<1>7. ExecParts(argv, argv, given, n, n, FALSE)
  BY <1>2, <1>5, <1>6, Zenon DEF ExecParts
<1> QED BY <1>1, <1>7, Zenon DEF ExecOK

LEMMA ExecuteOK ==
  ASSUME ExecOK(chain), Execute
  PROVE  ExecOK(chain')
<1> PICK l, a, g, n, f, o : chain = ExecState(l, a, g, n, f, o) /\ ExecParts(l, a, g, n, f, o)
  BY Zenon DEF ExecOK
<1>1. /\ l \in Seq(Program) /\ a \in Seq(Program) /\ g \in BOOLEAN /\ o \in BOOLEAN
      /\ Len(a) <= Len(l)
      /\ \A j \in 1..Len(a) : a[j] = l[Len(l) - Len(a) + j]
      /\ n = IF g THEN Made(l, f)[Len(l) - Len(a)] ELSE f
  BY Zenon DEF ExecParts
<1>2. Len(a) \in Nat /\ Len(l) \in Nat
  BY <1>1
<1>3. chain.argv = a /\ chain.given = g /\ chain.number = n /\ chain.over = o
  BY DEF ExecState
<1>4. CASE a = <<>> \/ ~g
  <2>1. chain' = [chain EXCEPT !.over = TRUE]
    BY <1>3, <1>4 DEF Execute
  <2>2. chain' = ExecState(l, a, g, n, f, TRUE)
    BY <2>1 DEF ExecState
  <2>3. ExecParts(l, a, g, n, f, TRUE)
    BY <1>1, <1>4, Zenon DEF ExecParts
  <2> QED BY <2>2, <2>3, Zenon DEF ExecOK
<1>5. CASE ~(a = <<>> \/ ~g)
  <2> DEFINE m == Compute(Head(a), n)
             b == Tail(a)
             k == Len(l) - Len(a)
             M == Made(l, f)
  <2>1. chain' = [chain EXCEPT !.number = m, !.argv = b] /\ ~o
    BY <1>3, <1>5 DEF Execute
  <2>2. /\ b \in Seq(Program) /\ Len(b) = Len(a) - 1 /\ Head(a) = a[1] /\ 1 \in 1..Len(a)
        /\ \A j \in 1..Len(b) : b[j] = a[j + 1] /\ j + 1 \in 1..Len(a)
    BY <1>1, <1>5
  <2> HIDE DEF b, M
  <2>3. k + 1 \in 0..Len(l) /\ k + 1 # 0 /\ (k + 1) - 1 = k /\ Len(l) - Len(b) = k + 1 /\ Len(b) <= Len(l)
    BY <1>1, <1>2, <2>2
  <2>4. a[1] = l[k + 1] /\ n = M[k]
    BY <1>1, <1>5, <2>2 DEF M
  <2>5. M[k + 1] = Compute(l[k + 1], M[k])
    <3>1. M[k + 1] = IF k + 1 = 0 THEN f ELSE Compute(l[k + 1], M[(k + 1) - 1])
      <4>1. \A h \in 0..Len(l) : M[h] = IF h = 0 THEN f ELSE Compute(l[h], M[h - 1])
        BY <1>1, MadeIs, Zenon DEF M
      <4> QED BY <2>3, <4>1
    <3> QED BY <2>3, <3>1
  <2>6. m = M[k + 1]
    BY <2>2, <2>4, <2>5
  <2>7. ASSUME NEW j \in 1..Len(b) PROVE b[j] = l[(k + 1) + j]
    <3>1. b[j] = a[j + 1] /\ j + 1 \in 1..Len(a)
      BY <2>2
    <3>2. a[j + 1] = l[k + (j + 1)]
      BY <1>1, <3>1
    <3>3. k + (j + 1) = (k + 1) + j
      BY <1>2
    <3> QED BY <3>1, <3>2, <3>3
  <2> HIDE DEF k, m
  <2>8. chain' = ExecState(l, b, g, m, f, o)
    BY <2>1 DEF ExecState
  <2>9. \A j \in 1..Len(b) : b[j] = l[Len(l) - Len(b) + j]
    BY <2>3, <2>7
  <2>10. g /\ m = Made(l, f)[Len(l) - Len(b)]
    BY <1>5, <2>3, <2>6 DEF M
  <2>11. ExecParts(l, b, g, m, f, o)
    BY <1>1, <2>1, <2>2, <2>3, <2>9, <2>10, Zenon DEF ExecParts
  <2> QED BY <2>8, <2>11, Zenon DEF ExecOK
<1> QED BY <1>4, <1>5
-----------------------------------------------------------------------------
(* The fork chain *)

ProcRec == [i : Nat, p_id : {"none", "zero", "child of mine", "failed"}, buf : Seq(Nat), alive : BOOLEAN]
ForkState(tty, out, q) == [program |-> "fork", tty |-> tty, out |-> out, proc |-> q]

\* The letters that process k of q has seen printed: each child goes on behind
\* the letter of its parent.
Printed(q, k) == IF q[k].p_id = "zero" THEN k - 2 ELSE k - 1

\* All but the newest process have a child; while it lives they stay where they
\* forked it, and a process is gone only when its loop is over.
Procs(tty, q) ==
  /\ q \in Seq(ProcRec) /\ Len(q) >= 1
  /\ \A k \in 1..Len(q) :
       /\ q[k].p_id = "child of mine" <=> k < Len(q)
       /\ q[k].p_id = "none" => k = 1 /\ q[k].alive
       /\ q[k].p_id = "zero" => k >= 2 /\ q[k].i = k - 2
       /\ q[k].i <= StrLen /\ q[k].i >= Printed(q, k)
       /\ ~q[k].alive => q[k].i = StrLen
       /\ k < Len(q) /\ q[k + 1].alive => q[k].i = k - 1
       /\ tty => q[k].buf = <<>>
       /\ ~tty /\ q[k].alive => q[k].buf = Upto(Printed(q, k))

\* The places of letter j in out, and the processes that have written it.
LetterPlaces(out, j) == {n \in 1..Len(out) : out[n] = j}
Wrote(q, j) == {k \in 1..Len(q) : ~q[k].alive /\ j < Printed(q, k)}

Outs(tty, q, out) ==
  /\ tty => out = Upto(Printed(q, Len(q)))
  /\ ~tty => \A j \in 0..StrLen - 1 :
       /\ IsFiniteSet(LetterPlaces(out, j)) /\ IsFiniteSet(Wrote(q, j))
       /\ Cardinality(LetterPlaces(out, j)) = Cardinality(Wrote(q, j))

ForkOK(c) == \E tty \in BOOLEAN, out \in Seq(Nat), q \in Seq(ProcRec) :
               c = ForkState(tty, out, q) /\ Procs(tty, q) /\ Outs(tty, q, out)

LEMMA UptoIs ==
  ASSUME NEW n \in Nat
  PROVE  /\ Upto(n) \in Seq(Nat) /\ Len(Upto(n)) = n
         /\ \A j \in 1..n : Upto(n)[j] = j - 1
         /\ Append(Upto(n), n) = Upto(n + 1)
<1>1. Upto(n) \in Seq(Nat) /\ Len(Upto(n)) = n /\ \A j \in 1..n : Upto(n)[j] = j - 1
  BY DEF Upto
<1>2. Upto(n + 1) \in Seq(Nat) /\ Len(Upto(n + 1)) = n + 1 /\ \A j \in 1..n + 1 : Upto(n + 1)[j] = j - 1
  BY DEF Upto
<1>3. Append(Upto(n), n) = Upto(n + 1)
  <2> DEFINE a == Append(Upto(n), n)
  <2>1. a \in Seq(Nat) /\ Len(a) = n + 1 /\ a[n + 1] = n /\ \A j \in 1..n : a[j] = Upto(n)[j]
    BY <1>1
  <2>2. \A j \in 1..n + 1 : j \in 1..n \/ j = n + 1
    OBVIOUS
  <2>3. (n + 1) - 1 = n
    OBVIOUS
  <2> HIDE DEF a
  <2>4. \A j \in 1..n + 1 : a[j] = Upto(n + 1)[j]
    BY <1>1, <1>2, <2>1, <2>2, <2>3
  <2>5. a = Upto(n + 1)
    BY <1>2, <2>1, <2>4, SameSeq
  <2> QED BY <2>5 DEF a
<1> QED BY <1>1, <1>3

\* Fields of a process.
LEMMA ProcFields ==
  ASSUME NEW tty, NEW q, Procs(tty, q), NEW k \in 1..Len(q)
  PROVE  /\ Len(q) \in Nat /\ q[k] \in ProcRec /\ q[k].i \in Nat /\ q[k].alive \in BOOLEAN
         /\ q[k].buf \in Seq(Nat) /\ q[k].p_id \in {"none", "zero", "child of mine", "failed"}
         /\ Printed(q, k) \in Nat /\ Printed(q, k) <= StrLen
<1>1. q \in Seq(ProcRec) /\ Len(q) \in Nat /\ q[k] \in ProcRec
  <2>1. q \in Seq(ProcRec)
    BY Zenon DEF Procs
  <2> QED BY <2>1
<1>2. /\ q[k].i \in Nat /\ q[k].alive \in BOOLEAN /\ q[k].buf \in Seq(Nat)
      /\ q[k].p_id \in {"none", "zero", "child of mine", "failed"}
  BY <1>1 DEF ProcRec
<1>3. q[k].p_id = "zero" => k >= 2
  BY DEF Procs
<1>4. Printed(q, k) \in Nat
  BY <1>1, <1>3 DEF Printed
<1>5. q[k].i <= StrLen /\ q[k].i >= Printed(q, k)
  BY DEF Procs
<1>6. Printed(q, k) <= StrLen
  <2>1. \A x, y, z \in Nat : x <= z /\ x >= y => y <= z
    OBVIOUS
  <2>2. StrLen \in Nat
    BY ChainAssumption
  <2> QED BY <1>2, <1>4, <1>5, <2>1, <2>2, Zenon
<1> QED BY <1>1, <1>2, <1>4, <1>6

\* A process goes on to its next index (Wait, NoChild) or exits.
LEMMA OneProc ==
  ASSUME NEW tty \in BOOLEAN, NEW q, Procs(tty, q), NEW k \in 1..Len(q), NEW r \in ProcRec,
         r.p_id = q[k].p_id, r.p_id # "none", r.i <= StrLen, q[k].i <= r.i,
         r.i = q[k].i \/ (r.p_id # "zero" /\ ~(k < Len(q) /\ q[k + 1].alive)),
         ~r.alive => r.i = StrLen,
         r.alive => q[k].alive,
         r.alive => r.buf = q[k].buf,
         ~r.alive => r.buf = <<>>
  PROVE  Procs(tty, [q EXCEPT ![k] = r]) /\ \A h \in 1..Len(q) : Printed([q EXCEPT ![k] = r], h) = Printed(q, h)
<1> DEFINE p == [q EXCEPT ![k] = r]
<1>1. q \in Seq(ProcRec) /\ Len(q) \in Nat /\ Len(q) >= 1
  <2>1. q \in Seq(ProcRec) /\ Len(q) >= 1
    BY Zenon DEF Procs
  <2> QED BY <2>1
<1>2. p \in Seq(ProcRec) /\ Len(p) = Len(q) /\ p[k] = r /\ \A h \in 1..Len(q) : h # k => p[h] = q[h]
  BY <1>1
<1> HIDE DEF p
<1>3. \A h \in 1..Len(q) : p[h].p_id = q[h].p_id
  BY <1>2
<1>4. \A h \in 1..Len(q) : Printed(p, h) = Printed(q, h)
  BY <1>3 DEF Printed
<1>5. ASSUME NEW h \in 1..Len(q)
      PROVE  /\ p[h].p_id = "child of mine" <=> h < Len(q)
             /\ p[h].p_id = "none" => h = 1 /\ p[h].alive
             /\ p[h].p_id = "zero" => h >= 2 /\ p[h].i = h - 2
             /\ p[h].i <= StrLen /\ p[h].i >= Printed(p, h)
             /\ ~p[h].alive => p[h].i = StrLen
             /\ h < Len(q) /\ p[h + 1].alive => p[h].i = h - 1
             /\ tty => p[h].buf = <<>>
             /\ ~tty /\ p[h].alive => p[h].buf = Upto(Printed(p, h))
  <2>0. /\ q[h].p_id = "child of mine" <=> h < Len(q)
        /\ q[h].p_id = "none" => h = 1 /\ q[h].alive
        /\ q[h].p_id = "zero" => h >= 2 /\ q[h].i = h - 2
        /\ q[h].i <= StrLen /\ q[h].i >= Printed(q, h)
        /\ ~q[h].alive => q[h].i = StrLen
        /\ h < Len(q) /\ q[h + 1].alive => q[h].i = h - 1
        /\ tty => q[h].buf = <<>>
        /\ ~tty /\ q[h].alive => q[h].buf = Upto(Printed(q, h))
    BY DEF Procs
  <2>1. h < Len(q) => h + 1 \in 1..Len(q) /\ h + 1 # h
    BY <1>1
  <2>2. h < Len(q) /\ p[h + 1].alive => q[h + 1].alive
    BY <1>2, <2>1
  <2>3. CASE h # k
    <3>1. p[h] = q[h]
      BY <1>2, <2>3
    <3> QED BY <1>4, <2>0, <2>2, <3>1
  <2>4. CASE h = k
    <3>1. p[h] = r /\ q[h].i \in Nat /\ r.i \in Nat /\ Printed(q, h) \in Nat
      BY <1>2, <2>4, ProcFields DEF ProcRec
    <3>2. r.i >= Printed(q, h)
      <4>1. \A x, y, z \in Nat : x <= z /\ x >= y => z >= y
        OBVIOUS
      <4>2. q[h].i <= r.i /\ q[h].i >= Printed(q, h)
        BY <2>0, <2>4, Zenon
      <4> QED BY <3>1, <4>1, <4>2, Zenon
    <3>3. r.p_id = "zero" => r.i = q[h].i
      BY <2>4
    <3>4. h < Len(q) /\ p[h + 1].alive => r.i = h - 1
      BY <2>0, <2>2, <2>4
    <3>5. tty => r.buf = <<>>
      BY <2>0, <2>4, <3>1 DEF ProcRec
    <3>6. ~tty /\ r.alive => r.buf = Upto(Printed(q, h))
      BY <2>0, <2>4
    <3> QED BY <1>4, <2>0, <2>4, <3>1, <3>2, <3>3, <3>4, <3>5, <3>6
  <2> QED BY <2>3, <2>4
<1>6. Procs(tty, p)
  BY <1>1, <1>2, <1>5 DEF Procs
<1> QED BY <1>4, <1>6 DEF p

\* The newest process of q, the n-th, forks, or fails to; e is what it has in
\* its buffer then.
Child(r, n, e) == r.i = n - 1 /\ r.buf = e /\ r.alive
Forked(tty, q, n, e, p) ==
  /\ tty => e = <<>>
  /\ ~tty => e = Upto(n - 1)
  /\ Child(p[n], n, e)
  /\ \/ Len(p) = n /\ p[n].p_id = "failed"
     \/ Len(p) = n + 1 /\ p[n].p_id = "child of mine" /\ p[n + 1].p_id = "zero" /\ Child(p[n + 1], n, e)
  /\ \A h \in 1..n - 1 : p[h] = q[h]
ForkKept(tty, q, n, p) ==
  Procs(tty, p) /\ Printed(p, Len(p)) = n - 1 /\ \A j : Wrote(p, j) = Wrote(q, j)

LEMMA ForkProcs ==
  ASSUME NEW tty \in BOOLEAN, NEW q \in Seq(ProcRec), Procs(tty, q), NEW n \in Nat, n = Len(q),
         q[n].alive, n - 1 <= StrLen,
         NEW e \in Seq(Nat), NEW p \in Seq(ProcRec), Forked(tty, q, n, e, p)
  PROVE  ForkKept(tty, q, n, p)
<1>0. n >= 1
  BY Zenon DEF Procs
<1>1. n \in Nat /\ n >= 1 /\ n \in 1..Len(q) /\ q[n] \in ProcRec
  BY <1>0
<1>a. \/ Len(p) = n /\ p[n].p_id = "failed"
      \/ Len(p) = n + 1 /\ p[n].p_id = "child of mine" /\ p[n + 1].p_id = "zero" /\ Child(p[n + 1], n, e)
  BY Zenon DEF Forked
<1>b. (tty => e = <<>>) /\ (~tty => e = Upto(n - 1)) /\ \A h \in 1..n - 1 : p[h] = q[h]
  BY Zenon DEF Forked
<1>c. (Len(p) = n \/ Len(p) = n + 1) /\ Len(p) \in Nat
  <2>1. Len(p) = n \/ Len(p) = n + 1
    BY <1>a, Zenon
  <2>2. Len(p) \in Nat
    OBVIOUS
  <2> QED BY <2>1, <2>2
<1>2. /\ p[n].p_id \in {"child of mine", "failed"} /\ p[n].i = n - 1 /\ p[n].buf = e /\ p[n].alive
      /\ p[n].p_id = "child of mine" <=> n < Len(p)
      /\ Len(p) = n \/ Len(p) = n + 1
  <2>1. p[n].i = n - 1 /\ p[n].buf = e /\ p[n].alive
    BY Zenon DEF Forked, Child
  <2>2. \A x \in Nat : ~(x < x) /\ x < x + 1
    OBVIOUS
  <2>3. Len(p) = n => ~(n < Len(p))
    BY <2>2, Zenon
  <2>4. Len(p) = n + 1 => n < Len(p)
    BY <2>2, Zenon
  <2>5. CASE Len(p) = n /\ p[n].p_id = "failed"
    BY <2>1, <2>3, <2>5
  <2>6. CASE Len(p) = n + 1 /\ p[n].p_id = "child of mine"
    BY <2>1, <2>4, <2>6
  <2> QED BY <1>a, <2>5, <2>6, Zenon
<1>3. Len(p) = n + 1 => p[n + 1].p_id = "zero" /\ p[n + 1].i = n - 1 /\ p[n + 1].buf = e /\ p[n + 1].alive
  <2>1. n # n + 1
    OBVIOUS
  <2> QED BY <1>a, <2>1, Zenon DEF Child
<1>4. ASSUME NEW h \in 1..n - 1
      PROVE  /\ h \in 1..Len(q) /\ p[h] = q[h] /\ h < Len(p) /\ h < Len(q)
             /\ Printed(p, h) = Printed(q, h)
             /\ p[h + 1].alive => q[h + 1].alive
  <2>1. h \in 1..Len(q) /\ p[h] = q[h] /\ h < Len(p) /\ h < Len(q)
    <3>1. h \in 1..Len(q) /\ h < Len(p) /\ h < Len(q)
      BY <1>1, <1>c
    <3> QED BY <1>b, <3>1
  <2>2. h + 1 = n \/ h + 1 \in 1..n - 1
    BY <1>1
  <2>3. p[h + 1].alive => q[h + 1].alive
    <3>1. CASE h + 1 = n
      BY <3>1
    <3>2. CASE h + 1 \in 1..n - 1
      BY <1>b, <3>2, Zenon
    <3> QED BY <2>2, <3>1, <3>2
  <2> QED BY <2>1, <2>3 DEF Printed
<1>5. Printed(p, n) = n - 1 /\ (Len(p) = n + 1 => Printed(p, n + 1) = n - 1)
  <2>1. p[n].p_id # "zero"
    BY <1>2
  <2>2. (n + 1) - 2 = n - 1
    BY <1>1
  <2> QED BY <1>3, <2>1, <2>2 DEF Printed
<1>6. \A h \in 1..Len(p) : h \in 1..n - 1 \/ h = n \/ (h = n + 1 /\ Len(p) = n + 1)
  BY <1>1, <1>c
<1>7. ASSUME NEW h \in 1..Len(p)
      PROVE  /\ p[h].p_id = "child of mine" <=> h < Len(p)
             /\ p[h].p_id = "none" => h = 1 /\ p[h].alive
             /\ p[h].p_id = "zero" => h >= 2 /\ p[h].i = h - 2
             /\ p[h].i <= StrLen /\ p[h].i >= Printed(p, h)
             /\ ~p[h].alive => p[h].i = StrLen
             /\ h < Len(p) /\ p[h + 1].alive => p[h].i = h - 1
             /\ tty => p[h].buf = <<>>
             /\ ~tty /\ p[h].alive => p[h].buf = Upto(Printed(p, h))
  <2>1. CASE h \in 1..n - 1
    <3>1. /\ h \in 1..Len(q) /\ p[h] = q[h] /\ h < Len(p) /\ h < Len(q)
          /\ Printed(p, h) = Printed(q, h)
          /\ p[h + 1].alive => q[h + 1].alive
      BY <1>4, <2>1
    <3>2. /\ q[h].p_id = "child of mine" <=> h < Len(q)
          /\ q[h].p_id = "none" => h = 1 /\ q[h].alive
          /\ q[h].p_id = "zero" => h >= 2 /\ q[h].i = h - 2
          /\ q[h].i <= StrLen /\ q[h].i >= Printed(q, h)
          /\ ~q[h].alive => q[h].i = StrLen
          /\ h < Len(q) /\ q[h + 1].alive => q[h].i = h - 1
          /\ tty => q[h].buf = <<>>
          /\ ~tty /\ q[h].alive => q[h].buf = Upto(Printed(q, h))
      BY <3>1 DEF Procs
    <3> QED BY <3>1, <3>2
  <2>2. CASE h = n
    <3>1. n - 1 \in Nat /\ n - 1 >= n - 1
      BY <1>1
    <3>2. p[n].p_id # "none" /\ p[n].p_id # "zero"
      BY <1>2
    <3> QED BY <1>2, <1>5, <1>b, <2>2, <3>1, <3>2, Zenon
  <2>3. CASE h = n + 1 /\ Len(p) = n + 1
    <3>1. h - 2 = n - 1 /\ h >= 2 /\ ~(h < Len(p)) /\ n - 1 >= n - 1
      BY <1>1, <2>3
    <3> QED BY <1>3, <1>5, <1>b, <2>3, <3>1
  <2> QED BY <1>6, <2>1, <2>2, <2>3
<1>8. Procs(tty, p)
  <2>1. Len(p) >= 1
    BY <1>1, <1>c
  <2> QED BY <1>7, <2>1 DEF Procs
<1>9. Printed(p, Len(p)) = n - 1
  BY <1>2, <1>5
<1>10. ASSUME NEW j PROVE Wrote(p, j) = Wrote(q, j)
  <2>1. \A h \in 1..n - 1 : (~p[h].alive /\ j < Printed(p, h)) <=> (~q[h].alive /\ j < Printed(q, h))
    BY <1>4
  <2>2. \A h \in 1..Len(q) : h \in 1..n - 1 \/ h = n
    BY <1>1
  <2>3. \A h \in 1..n - 1 : h \in 1..Len(p) /\ h \in 1..Len(q)
    BY <1>1, <1>c
  <2> QED BY <1>2, <1>3, <1>6, <2>1, <2>2, <2>3 DEF Wrote
<1> QED BY <1>8, <1>9, <1>10, Zenon DEF ForkKept

LEMMA ForkInitOK ==
  ASSUME NEW tty \in BOOLEAN
  PROVE  ForkOK(ForkInit(tty))
<1> DEFINE r == [i |-> 0, p_id |-> "none", buf |-> <<>>, alive |-> TRUE]
           q == <<r>>
<1>1. r \in ProcRec /\ r.i = 0 /\ r.p_id = "none" /\ r.buf = <<>> /\ r.alive
  BY DEF ProcRec
<1> HIDE DEF r
<1>2. q \in Seq(ProcRec) /\ Len(q) = 1 /\ q[1] = r
  BY <1>1
<1>3. ForkInit(tty) = ForkState(tty, <<>>, q)
  BY DEF ForkInit, ForkState, r
<1> HIDE DEF q
<1>4. \A k \in 1..Len(q) : k = 1 /\ q[k] = r
  BY <1>2
<1>5. Printed(q, 1) = 0
  BY <1>1, <1>2 DEF Printed
<1>6. <<>> \in Seq(Nat) /\ <<>> = Upto(0)
  <2>1. Upto(0) \in Seq(Nat) /\ Len(Upto(0)) = 0
    BY UptoIs
  <2> QED BY <2>1
<1>7. StrLen \in Nat
  BY ChainAssumption
<1>8. Procs(tty, q)
  <2>1. ASSUME NEW k \in 1..Len(q)
        PROVE  /\ q[k].p_id = "child of mine" <=> k < Len(q)
               /\ q[k].p_id = "none" => k = 1 /\ q[k].alive
               /\ q[k].p_id = "zero" => k >= 2 /\ q[k].i = k - 2
               /\ q[k].i <= StrLen /\ q[k].i >= Printed(q, k)
               /\ ~q[k].alive => q[k].i = StrLen
               /\ k < Len(q) /\ q[k + 1].alive => q[k].i = k - 1
               /\ tty => q[k].buf = <<>>
               /\ ~tty /\ q[k].alive => q[k].buf = Upto(Printed(q, k))
    <3>1. k = 1 /\ q[k] = r
      BY <1>4
    <3>2. ~(k < Len(q)) /\ 0 <= StrLen /\ 0 >= 0
      BY <1>2, <1>7, <3>1
    <3>3. r.p_id # "child of mine" /\ r.p_id # "zero"
      BY <1>1
    <3> QED BY <1>1, <1>5, <1>6, <3>1, <3>2, <3>3, Zenon
  <2>2. Len(q) >= 1
    BY <1>2
  <2> QED BY <1>2, <2>1, <2>2, Zenon DEF Procs
<1>9. Outs(tty, q, <<>>)
  <2>1. ASSUME NEW j PROVE LetterPlaces(<<>>, j) = {} /\ Wrote(q, j) = {}
    <3>1. LetterPlaces(<<>>, j) = {}
      BY DEF LetterPlaces
    <3>2. Wrote(q, j) = {}
      BY <1>1, <1>4, Zenon DEF Wrote
    <3> QED BY <3>1, <3>2
  <2>2. IsFiniteSet({})
    BY FS_EmptySet
  <2>3. tty => <<>> = Upto(Printed(q, Len(q)))
    BY <1>2, <1>5, <1>6
  <2> QED BY <2>1, <2>2, <2>3, Zenon DEF Outs
<1> QED BY <1>2, <1>3, <1>6, <1>8, <1>9, Zenon DEF ForkOK

\* What Fork makes of a state.
Forks(tty, out, q, n, i, d) ==
  \E p \in Seq(ProcRec) :
    /\ d = ForkState(tty, out, p)
    /\ p[n].i = i /\ p[n].buf = q[n].buf /\ p[n].alive = q[n].alive
    /\ \/ Len(p) = n /\ p[n].p_id = "failed"
       \/ /\ Len(p) = n + 1 /\ p[n].p_id = "child of mine" /\ p[n + 1].p_id = "zero"
          /\ p[n + 1].i = i /\ p[n + 1].buf = q[n].buf /\ p[n + 1].alive = q[n].alive
    /\ \A h \in 1..n - 1 : p[h] = q[h]

LEMMA ForkIs ==
  ASSUME NEW tty, NEW out, NEW q \in Seq(ProcRec), NEW n \in Nat, n = Len(q), n >= 1, NEW i \in Nat,
         NEW d \in Fork(ForkState(tty, out, q), n, i)
  PROVE  Forks(tty, out, q, n, i, d)
<1> DEFINE c == ForkState(tty, out, q)
           r == [q[n] EXCEPT !.p_id = "child of mine", !.i = i]
           z == [q[n] EXCEPT !.p_id = "zero", !.i = i]
           f == [q[n] EXCEPT !.p_id = "failed", !.i = i]
           qr == [q EXCEPT ![n] = r]
           p1 == Append(qr, z)
           p2 == [q EXCEPT ![n] = f]
<1>1. n \in 1..Len(q) /\ q[n] \in ProcRec /\ n + 1 # n
  OBVIOUS
<1>2. /\ r \in ProcRec /\ r.i = i /\ r.p_id = "child of mine" /\ r.buf = q[n].buf /\ r.alive = q[n].alive
      /\ z \in ProcRec /\ z.i = i /\ z.p_id = "zero" /\ z.buf = q[n].buf /\ z.alive = q[n].alive
      /\ f \in ProcRec /\ f.i = i /\ f.p_id = "failed" /\ f.buf = q[n].buf /\ f.alive = q[n].alive
  BY <1>1 DEF ProcRec
<1>3. /\ d = ForkState(tty, out, p1) \/ d = ForkState(tty, out, p2)
  <2>1. c.proc = q
    BY DEF ForkState
  <2>2. \/ d = [c EXCEPT !.proc = Append([@ EXCEPT ![n].p_id = "child of mine", ![n].i = i],
                                         [c.proc[n] EXCEPT !.p_id = "zero", !.i = i])]
        \/ d = [c EXCEPT !.proc[n].p_id = "failed", !.proc[n].i = i]
    BY Zenon DEF Fork
  <2>3. [q EXCEPT ![n].p_id = "child of mine", ![n].i = i] = qr
    BY <1>1
  <2>4. CASE d = [c EXCEPT !.proc = Append([@ EXCEPT ![n].p_id = "child of mine", ![n].i = i],
                                         [c.proc[n] EXCEPT !.p_id = "zero", !.i = i])]
    <3>1. d = [c EXCEPT !.proc = Append([q EXCEPT ![n].p_id = "child of mine", ![n].i = i], z)]
      BY <2>1, <2>4
    <3>2. d = [c EXCEPT !.proc = p1]
      BY <2>3, <3>1
    <3> HIDE DEF p1
    <3> QED BY <3>2 DEF ForkState
  <2>5. CASE d = [c EXCEPT !.proc[n].p_id = "failed", !.proc[n].i = i]
    <3>1. d = [c EXCEPT !.proc = p2]
      BY <1>1, <2>1, <2>5
    <3> HIDE DEF p2
    <3> QED BY <3>1 DEF ForkState
  <2> QED BY <2>2, <2>4, <2>5
<1> HIDE DEF r, z, f
<1>r. r \in ProcRec /\ z \in ProcRec /\ f \in ProcRec
  BY <1>2, Zenon
<1>4. qr \in Seq(ProcRec) /\ Len(qr) = n /\ qr[n] = r /\ \A h \in 1..n - 1 : qr[h] = q[h]
  BY <1>1, <1>r
<1>5. p2 \in Seq(ProcRec) /\ Len(p2) = n /\ p2[n] = f /\ \A h \in 1..n - 1 : p2[h] = q[h]
  BY <1>1, <1>r
<1> HIDE DEF qr
<1>6. p1 \in Seq(ProcRec) /\ Len(p1) = n + 1 /\ p1[n] = r /\ p1[n + 1] = z /\ \A h \in 1..n - 1 : p1[h] = q[h]
  <2>1. /\ p1 \in Seq(ProcRec) /\ Len(p1) = n + 1 /\ p1[n + 1] = z
        /\ \A h \in 1..n : p1[h] = qr[h]
    BY <1>r, <1>4
  <2>2. n \in 1..n /\ \A h \in 1..n - 1 : h \in 1..n
    BY <1>1
  <2> HIDE DEF p1
  <2> QED BY <1>4, <2>1, <2>2
<1> HIDE DEF p1, p2
<1>7. CASE d = ForkState(tty, out, p1)
  BY <1>2, <1>6, <1>7, Zenon DEF Forks
<1>8. CASE d = ForkState(tty, out, p2)
  BY <1>2, <1>5, <1>8, Zenon DEF Forks
<1> QED BY <1>3, <1>7, <1>8

\* The newest process forks, with q and out as they are after it has printed.
LEMMA ForkStepOK ==
  ASSUME NEW tty \in BOOLEAN, NEW q \in Seq(ProcRec), NEW out \in Seq(Nat),
         Procs(tty, q), Outs(tty, q, out), NEW n \in Nat, n = Len(q), q[n].alive, n - 1 <= StrLen,
         NEW s \in Seq(ProcRec), Len(s) = n, s[n].alive, \A h \in 1..n - 1 : s[h] = q[h],
         tty => s[n].buf = <<>>, ~tty => s[n].buf = Upto(n - 1),
         NEW o \in Seq(Nat), tty => o = Upto(n - 1), ~tty => o = out,
         NEW d \in Fork(ForkState(tty, o, s), n, n - 1)
  PROVE  ForkOK(d)
<1>1. n >= 1
  BY Zenon DEF Procs
<1>2. n - 1 \in Nat /\ n \in 1..Len(s)
  BY <1>1
<1>3. PICK p \in Seq(ProcRec) :
           /\ d = ForkState(tty, o, p)
           /\ p[n].i = n - 1 /\ p[n].buf = s[n].buf /\ p[n].alive = s[n].alive
           /\ \/ Len(p) = n /\ p[n].p_id = "failed"
              \/ /\ Len(p) = n + 1 /\ p[n].p_id = "child of mine" /\ p[n + 1].p_id = "zero"
                 /\ p[n + 1].i = n - 1 /\ p[n + 1].buf = s[n].buf /\ p[n + 1].alive = s[n].alive
           /\ \A h \in 1..n - 1 : p[h] = s[h]
  <2>1. n = Len(s)
    OBVIOUS
  <2>2. Forks(tty, o, s, n, n - 1, d)
    BY <1>1, <1>2, <2>1, ForkIs, Zenon
  <2> QED BY <2>2, Zenon DEF Forks
<1>4. Forked(tty, q, n, s[n].buf, p)
  BY <1>3, Zenon DEF Forked, Child
<1>5. s[n].buf \in Seq(Nat)
  <2>1. s[n] \in ProcRec
    BY <1>2
  <2> QED BY <2>1 DEF ProcRec
<1>6. Procs(tty, p) /\ Printed(p, Len(p)) = n - 1 /\ \A j : Wrote(p, j) = Wrote(q, j)
  <2>1. ForkKept(tty, q, n, p)
    BY <1>4, <1>5, ForkProcs, Zenon
  <2> QED BY <2>1, Zenon DEF ForkKept
<1>7. Outs(tty, p, o)
  BY <1>6, Zenon DEF Outs
<1> QED BY <1>3, <1>6, <1>7, Zenon DEF ForkOK

LEMMA StartOK ==
  ASSUME NEW tty \in BOOLEAN, NEW q \in Seq(ProcRec), NEW out \in Seq(Nat),
         chain = ForkState(tty, out, q), Procs(tty, q), Outs(tty, q, out), Start
  PROVE  ForkOK(chain')
<1>1. q[1].p_id = "none" /\ chain' \in Fork(ForkState(tty, out, q), 1, 0)
  <2>1. chain.proc = q
    BY DEF ForkState
  <2> QED BY <2>1, Zenon DEF Start
<1>2. Len(q) >= 1 /\ Len(q) \in Nat
  <2>1. Len(q) >= 1
    BY Zenon DEF Procs
  <2> QED BY <2>1
<1>3. 1 \in 1..Len(q) /\ 1 - 1 = 0 /\ 1 - 1 <= StrLen
  BY <1>2, ChainAssumption
<1>4. /\ q[1].p_id = "child of mine" <=> 1 < Len(q)
      /\ q[1].p_id = "none" => q[1].alive
      /\ tty => q[1].buf = <<>>
      /\ ~tty /\ q[1].alive => q[1].buf = Upto(Printed(q, 1))
  BY <1>3, Zenon DEF Procs
<1>5. Len(q) = 1
  <2>1. ~(1 < Len(q))
    BY <1>1, <1>4
  <2>2. \A x \in Nat : x >= 1 /\ ~(1 < x) => x = 1
    OBVIOUS
  <2> QED BY <1>2, <2>1, <2>2, Zenon
<1>6. Printed(q, 1) = 0
  BY <1>1, <1>3 DEF Printed
<1>7. tty => out = Upto(0)
  BY <1>5, <1>6, Zenon DEF Outs
<1>8. chain' \in Fork(ForkState(tty, out, q), 1, 1 - 1) /\ 1 \in Nat
  BY <1>1, <1>3
<1>9. /\ q[1].alive
      /\ tty => q[1].buf = <<>>
      /\ ~tty => q[1].buf = Upto(1 - 1)
      /\ tty => out = Upto(1 - 1)
  BY <1>1, <1>3, <1>4, <1>6, <1>7
<1>10. \A h \in 1..1 - 1 : q[h] = q[h]
  OBVIOUS
<1> QED BY <1>3, <1>5, <1>8, <1>9, <1>10, ForkStepOK, Zenon

LEMMA LetterOK ==
  ASSUME NEW tty \in BOOLEAN, NEW q \in Seq(ProcRec), NEW out \in Seq(Nat),
         chain = ForkState(tty, out, q), Procs(tty, q), Outs(tty, q, out),
         NEW n \in 1..Len(q), Letter(n)
  PROVE  ForkOK(chain')
<1> DEFINE r == [q[n] EXCEPT !.buf = Append(@, n - 2)]
           s == [q EXCEPT ![n] = r]
<1>0. chain.proc = q /\ chain.tty = tty /\ chain.out = out
  BY DEF ForkState
<1>1. q[n].p_id = "zero" /\ q[n].i < StrLen /\ q[n].alive
  BY <1>0, Zenon DEF Letter
<1>2. /\ q[n].p_id = "child of mine" <=> n < Len(q)
      /\ q[n].p_id = "zero" => n >= 2 /\ q[n].i = n - 2
      /\ tty => q[n].buf = <<>>
      /\ ~tty /\ q[n].alive => q[n].buf = Upto(Printed(q, n))
  BY Zenon DEF Procs
<1>3. q[n].i = n - 2 /\ n >= 2
  BY <1>1, <1>2
<1>4. n = Len(q) /\ n \in Nat /\ Len(q) \in Nat
  <2>1. ~(n < Len(q))
    BY <1>1, <1>2
  <2> QED BY <2>1
<1>5. n - 2 \in Nat /\ (n - 2) + 1 = n - 1 /\ n - 1 <= StrLen
  <2>1. n - 2 < StrLen /\ StrLen \in Nat
    BY <1>1, <1>3, ChainAssumption
  <2> QED BY <1>3, <1>4, <2>1
<1>6. Printed(q, n) = n - 2
  BY <1>1 DEF Printed
<1>7. Append(Upto(n - 2), n - 2) = Upto(n - 1) /\ Upto(n - 2) \in Seq(Nat)
  BY <1>5, UptoIs
<1>8. tty => out = Upto(n - 2)
  BY <1>4, <1>6, Zenon DEF Outs
<1>9. CASE tty
  <2>1. chain' \in Fork([chain EXCEPT !.out = Append(@, q[n].i)], n, q[n].i + 1)
    BY <1>0, <1>9, Zenon DEF Letter
  <2>2. [chain EXCEPT !.out = Append(@, q[n].i)] = ForkState(tty, Upto(n - 1), q)
    <3>1. Append(out, q[n].i) = Upto(n - 1)
      BY <1>3, <1>7, <1>8, <1>9
    <3>2. [chain EXCEPT !.out = Append(@, q[n].i)] = [chain EXCEPT !.out = Append(out, q[n].i)]
      BY <1>0, Zenon
    <3>3. [chain EXCEPT !.out = Upto(n - 1)] = ForkState(tty, Upto(n - 1), q)
      BY DEF ForkState
    <3> QED BY <3>1, <3>2, <3>3, Zenon
  <2>3. chain' \in Fork(ForkState(tty, Upto(n - 1), q), n, n - 1)
    BY <1>3, <1>5, <2>1, <2>2
  <2>4. Upto(n - 1) \in Seq(Nat)
    <3>1. n - 1 \in Nat
      BY <1>5
    <3> QED BY <3>1, UptoIs
  <2>5. Len(q) = n /\ q[n].buf = <<>> /\ \A h \in 1..n - 1 : q[h] = q[h]
    BY <1>2, <1>4, <1>9
  <2> QED BY <1>1, <1>4, <1>5, <1>9, <2>3, <2>4, <2>5, ForkStepOK, Zenon
<1>10. CASE ~tty
  <2>1. chain' \in Fork([chain EXCEPT !.proc[n].buf = Append(@, q[n].i)], n, q[n].i + 1)
    BY <1>0, <1>10, Zenon DEF Letter
  <2>2. [chain EXCEPT !.proc[n].buf = Append(@, q[n].i)] = ForkState(tty, out, s)
    <3>1. [chain EXCEPT !.proc[n].buf = Append(@, q[n].i)] = [chain EXCEPT !.proc = s]
      BY <1>0, <1>3
    <3> HIDE DEF s
    <3>2. [chain EXCEPT !.proc = s] = ForkState(tty, out, s)
      BY DEF ForkState
    <3> QED BY <3>1, <3>2, Zenon
  <2>3. chain' \in Fork(ForkState(tty, out, s), n, n - 1)
    <3> HIDE DEF s
    <3> QED BY <1>3, <1>5, <2>1, <2>2
  <2>4. r \in ProcRec /\ r.alive /\ r.buf = Upto(n - 1)
    <3>1. q[n] \in ProcRec /\ q[n].buf = Upto(n - 2)
      BY <1>1, <1>2, <1>6, <1>10
    <3>2. q[n].buf \in Seq(Nat)
      BY <1>7, <3>1
    <3>3. Append(q[n].buf, n - 2) \in Seq(Nat)
      BY <1>5, <3>2
    <3>4. r = [q[n] EXCEPT !.buf = Append(q[n].buf, n - 2)] /\ Append(q[n].buf, n - 2) = Upto(n - 1)
      BY <1>7, <3>1
    <3> HIDE DEF r
    <3>5. Upto(n - 1) \in Seq(Nat) /\ r = [q[n] EXCEPT !.buf = Upto(n - 1)]
      BY <3>3, <3>4, Zenon
    <3> QED BY <1>1, <3>1, <3>5 DEF ProcRec
  <2> HIDE DEF r
  <2>5. s \in Seq(ProcRec) /\ Len(s) = n /\ s[n] = r /\ \A h \in 1..n - 1 : s[h] = q[h]
    <3>1. r \in ProcRec
      BY <2>4
    <3> QED BY <1>4, <3>1
  <2> HIDE DEF s
  <2>6. s[n].alive /\ s[n].buf = Upto(n - 1)
    BY <2>4, <2>5
  <2> QED BY <1>1, <1>4, <1>5, <1>10, <2>3, <2>5, <2>6, ForkStepOK, Zenon
<1> QED BY <1>9, <1>10

LEMMA ProcTypes ==
  ASSUME NEW q \in Seq(ProcRec), NEW k \in 1..Len(q)
  PROVE  q[k] \in ProcRec /\ q[k].i \in Nat /\ q[k].buf \in Seq(Nat) /\ Len(q) \in 1..Len(q)
<1>1. q[k] \in ProcRec
  OBVIOUS
<1>2. Len(q) \in 1..Len(q)
  OBVIOUS
<1> QED BY <1>1, <1>2 DEF ProcRec

\* The record of a process that goes on and of one that exits, and the state
\* around it.
Put(q, k, r) == [q EXCEPT ![k] = r]
GoneOn(r) == [r EXCEPT !.i = @ + 1]
Gone(r) == [r EXCEPT !.alive = FALSE, !.buf = <<>>]
StateOn(c, k) == [c EXCEPT !.proc[k].i = @ + 1]
StateGone(c, k, w) == [c EXCEPT !.proc[k].alive = FALSE, !.proc[k].buf = <<>>, !.out = w]

LEMMA PutProc ==
  ASSUME NEW q \in Seq(ProcRec), NEW k \in 1..Len(q), NEW r \in ProcRec
  PROVE  /\ Put(q, k, r) \in Seq(ProcRec) /\ Len(Put(q, k, r)) = Len(q) /\ Put(q, k, r)[k] = r
         /\ \A h \in 1..Len(q) : h # k => Put(q, k, r)[h] = q[h]
BY DEF Put

LEMMA GoneOnRec ==
  ASSUME NEW q \in ProcRec
  PROVE  /\ GoneOn(q) \in ProcRec /\ GoneOn(q).i = q.i + 1 /\ GoneOn(q).p_id = q.p_id
         /\ GoneOn(q).buf = q.buf /\ GoneOn(q).alive = q.alive
<1>1. q.i \in Nat /\ q.i + 1 \in Nat
  <2>1. q.i \in Nat
    BY DEF ProcRec
  <2> QED BY <2>1
<1>2. ASSUME NEW n \in Nat, NEW r, r = [q EXCEPT !.i = n]
      PROVE  r \in ProcRec /\ r.i = n /\ r.p_id = q.p_id /\ r.buf = q.buf /\ r.alive = q.alive
  BY <1>2 DEF ProcRec
<1>3. GoneOn(q) = [q EXCEPT !.i = q.i + 1]
  BY Zenon DEF GoneOn
<1> QED BY <1>1, <1>2, <1>3, Zenon

LEMMA GoneRec ==
  ASSUME NEW q \in ProcRec
  PROVE  /\ Gone(q) \in ProcRec /\ Gone(q).i = q.i /\ Gone(q).p_id = q.p_id
         /\ Gone(q).buf = <<>> /\ Gone(q).alive = FALSE
<1>1. ASSUME NEW e \in Seq(Nat), NEW s, s = [q EXCEPT !.alive = FALSE, !.buf = e]
      PROVE  s \in ProcRec /\ s.i = q.i /\ s.p_id = q.p_id /\ s.buf = e /\ s.alive = FALSE
  BY <1>1 DEF ProcRec
<1>2. <<>> \in Seq(Nat)
  OBVIOUS
<1> QED BY <1>1, <1>2, Zenon DEF Gone

LEMMA StateOnIs ==
  ASSUME NEW tty, NEW out, NEW q \in Seq(ProcRec), NEW k \in 1..Len(q)
  PROVE  StateOn(ForkState(tty, out, q), k) = ForkState(tty, out, Put(q, k, GoneOn(q[k])))
<1> DEFINE d == StateOn(ForkState(tty, out, q), k)
           p == Put(q, k, GoneOn(q[k]))
<1>1. d = [ForkState(tty, out, q) EXCEPT !.proc = p]
  BY DEF ForkState, StateOn, Put, GoneOn
<1> HIDE DEF d, p
<1>2. d = ForkState(tty, out, p)
  BY <1>1 DEF ForkState
<1> QED BY <1>2, Zenon DEF d, p

LEMMA StateGoneIs ==
  ASSUME NEW tty, NEW out, NEW q \in Seq(ProcRec), NEW k \in 1..Len(q), NEW w
  PROVE  StateGone(ForkState(tty, out, q), k, w) = ForkState(tty, w, Put(q, k, Gone(q[k])))
<1> DEFINE d == StateGone(ForkState(tty, out, q), k, w)
           p == Put(q, k, Gone(q[k]))
<1>1. d = [ForkState(tty, out, q) EXCEPT !.proc = p, !.out = w]
  BY DEF ForkState, StateGone, Put, Gone
<1> HIDE DEF d, p
<1>2. d = ForkState(tty, w, p)
  BY <1>1 DEF ForkState
<1> QED BY <1>2, Zenon DEF d, p

\* A process goes on, without a word: who is gone and what was printed stays.
GoesOn(q, k) ==
  /\ q[k].p_id \in {"child of mine", "failed"} /\ q[k].i < StrLen /\ q[k].alive
  /\ ~(k < Len(q) /\ q[k + 1].alive)

LEMMA GoesOnOK ==
  ASSUME NEW tty \in BOOLEAN, NEW q \in Seq(ProcRec), NEW out \in Seq(Nat),
         Procs(tty, q), Outs(tty, q, out), NEW k \in 1..Len(q), GoesOn(q, k)
  PROVE  ForkOK(StateOn(ForkState(tty, out, q), k))
<1> DEFINE r == GoneOn(q[k])
           p == Put(q, k, r)
<1>1. q[k] \in ProcRec /\ q[k].i \in Nat /\ Len(q) \in 1..Len(q) /\ StrLen \in Nat
  BY ProcTypes, ChainAssumption
<1>2. /\ r \in ProcRec /\ r.i = q[k].i + 1 /\ r.p_id = q[k].p_id /\ r.buf = q[k].buf
      /\ r.alive = q[k].alive
  BY <1>1, GoneOnRec, Zenon
<1>3. StateOn(ForkState(tty, out, q), k) = ForkState(tty, out, p)
  BY StateOnIs, Zenon
<1> HIDE DEF r
<1>4. r \in ProcRec /\ p = [q EXCEPT ![k] = r]
  BY <1>2, Zenon DEF Put
<1>5. p \in Seq(ProcRec) /\ Len(p) = Len(q) /\ p[k] = r /\ \A h \in 1..Len(q) : h # k => p[h] = q[h]
  BY <1>4, PutProc, Zenon
<1> HIDE DEF p
<1>6. q[k].i <= r.i /\ r.i <= StrLen
  <2>1. \A x, y \in Nat : x < y => x <= x + 1 /\ x + 1 <= y
    OBVIOUS
  <2> QED BY <1>1, <1>2, <2>1, Zenon DEF GoesOn
<1>7. r.p_id # "none" /\ r.p_id # "zero" /\ r.alive /\ q[k].alive /\ ~(k < Len(q) /\ q[k + 1].alive)
  <2>1. q[k].p_id \in {"child of mine", "failed"} /\ q[k].alive /\ ~(k < Len(q) /\ q[k + 1].alive)
    BY Zenon DEF GoesOn
  <2> QED BY <1>2, <2>1
<1>8. Procs(tty, p) /\ \A h \in 1..Len(q) : Printed(p, h) = Printed(q, h)
  BY <1>2, <1>4, <1>6, <1>7, OneProc, Zenon
<1>9. \A j : Wrote(p, j) = Wrote(q, j)
  <2>1. \A h \in 1..Len(q) : p[h].alive = q[h].alive
    BY <1>2, <1>5, Zenon
  <2> QED BY <1>5, <1>8, <2>1, Zenon DEF Wrote
<1>10. Printed(p, Len(p)) = Printed(q, Len(q))
  BY <1>1, <1>5, <1>8, Zenon
<1>11. Outs(tty, p, out)
  BY <1>9, <1>10, Zenon DEF Outs
<1> QED BY <1>3, <1>5, <1>8, <1>11, Zenon DEF ForkOK

LEMMA WaitOK ==
  ASSUME NEW tty \in BOOLEAN, NEW q \in Seq(ProcRec), NEW out \in Seq(Nat),
         chain = ForkState(tty, out, q), Procs(tty, q), Outs(tty, q, out),
         NEW k \in 1..Len(q), Wait(k) \/ NoChild(k)
  PROVE  ForkOK(chain')
<1>0. chain.proc = q
  BY DEF ForkState
<1>1. /\ q[k].p_id \in {"child of mine", "failed"} /\ q[k].i < StrLen /\ q[k].alive
      /\ chain' = StateOn(ForkState(tty, out, q), k)
  BY <1>0, Zenon DEF Wait, NoChild, StateOn
<1>2. ~(k < Len(q) /\ q[k + 1].alive)
  <2>1. CASE Wait(k)
    BY <1>0, <2>1, Zenon DEF Wait, ChildAlive, Newest
  <2>2. CASE NoChild(k)
    <3>1. q[k].p_id = "failed"
      BY <1>0, <2>2, Zenon DEF NoChild
    <3>2. q[k].p_id = "child of mine" <=> k < Len(q)
      BY Zenon DEF Procs
    <3> QED BY <3>1, <3>2
  <2> QED BY <2>1, <2>2
<1>3. GoesOn(q, k)
  BY <1>1, <1>2, Zenon DEF GoesOn
<1> QED BY <1>1, <1>3, GoesOnOK, Zenon

\* A process that exits writes each letter of its buffer once.
LEMMA PlacesOf ==
  ASSUME NEW out \in Seq(Nat), NEW m \in Nat, NEW j \in Nat
  PROVE  LetterPlaces(out \o Upto(m), j) =
           IF j < m THEN LetterPlaces(out, j) \cup {Len(out) + j + 1} ELSE LetterPlaces(out, j)
<1> DEFINE u == Upto(m)
           w == out \o u
           L == Len(out)
<1>1. u \in Seq(Nat) /\ Len(u) = m /\ \A h \in 1..m : u[h] = h - 1
  BY UptoIs
<1> HIDE DEF u
<1>2. L \in Nat /\ Len(w) = L + m /\ (\A h \in 1..L : w[h] = out[h]) /\ \A h \in 1..m : w[L + h] = u[h]
  <2>1. u \in Seq(Nat) /\ Len(u) = m
    BY <1>1
  <2>2. L \in Nat
    OBVIOUS
  <2>3. Len(w) = L + Len(u) /\ \A h \in 1..L : w[h] = out[h]
    BY <2>1
  <2>4. \A h \in 1..Len(u) : w[L + h] = u[h]
    BY <2>1
  <2> QED BY <2>1, <2>2, <2>3, <2>4, Zenon
<1> HIDE DEF w
<1>4. ASSUME NEW h \in L + 1..L + m PROVE w[h] = j <=> h = L + j + 1
  <2>1. h - L \in 1..m /\ L + (h - L) = h
    BY <1>2
  <2>2. w[h] = u[h - L]
    BY <1>2, <2>1
  <2>3. u[h - L] = (h - L) - 1
    BY <1>1, <2>1
  <2> QED BY <1>2, <2>2, <2>3
<1>5. \A h : h \in 1..L + m <=> h \in 1..L \/ h \in L + 1..L + m
  BY <1>2
<1>6. L + j + 1 \in L + 1..L + m <=> j < m
  BY <1>2
<1>7. ASSUME NEW h PROVE h \in LetterPlaces(w, j) <=> h \in LetterPlaces(out, j) \/ (j < m /\ h = L + j + 1)
  <2>1. h \in LetterPlaces(w, j) <=> h \in 1..L + m /\ w[h] = j
    BY <1>2 DEF LetterPlaces
  <2>2. h \in LetterPlaces(out, j) <=> h \in 1..L /\ out[h] = j
    BY DEF LetterPlaces
  <2>3. h \in 1..L => w[h] = out[h]
    BY <1>2
  <2>4. h \in 1..L => h # L + j + 1
    BY <1>2
  <2>5. CASE h \in 1..L
    BY <1>5, <2>1, <2>2, <2>3, <2>4, <2>5, Zenon
  <2>6. CASE h \in L + 1..L + m
    <3>1. h \notin 1..L
      BY <1>2, <2>6
    <3>2. w[h] = j <=> h = L + j + 1
      BY <1>4, <2>6
    <3>3. h = L + j + 1 => j < m
      BY <1>6, <2>6
    <3> QED BY <1>5, <2>1, <2>2, <2>6, <3>1, <3>2, <3>3, Zenon
  <2>7. CASE h \notin 1..L /\ h \notin L + 1..L + m
    BY <1>5, <1>6, <2>1, <2>2, <2>7, Zenon
  <2> QED BY <2>5, <2>6, <2>7
<1>8. CASE j < m
  <2>1. LetterPlaces(w, j) = LetterPlaces(out, j) \cup {L + j + 1}
    BY <1>7, <1>8, Zenon
  <2> QED BY <1>8, <2>1 DEF w, u
<1>9. CASE ~(j < m)
  <2>1. LetterPlaces(w, j) = LetterPlaces(out, j)
    BY <1>7, <1>9, Zenon
  <2> QED BY <1>9, <2>1 DEF w, u
<1> QED BY <1>8, <1>9

LEMMA ExitOK ==
  ASSUME NEW tty \in BOOLEAN, NEW q \in Seq(ProcRec), NEW out \in Seq(Nat),
         chain = ForkState(tty, out, q), Procs(tty, q), Outs(tty, q, out),
         NEW k \in 1..Len(q), Exit(k)
  PROVE  ForkOK(chain')
<1> DEFINE r == Gone(q[k])
           p == Put(q, k, r)
           w == out \o q[k].buf
           m == Printed(q, k)
<1>0. chain.proc = q /\ chain.out = out
  BY DEF ForkState
<1>1. q[k].p_id # "none" /\ q[k].i = StrLen /\ q[k].alive
  BY <1>0, Zenon DEF Exit
<1>2. chain' = StateGone(ForkState(tty, out, q), k, w)
  BY <1>0, Zenon DEF Exit, StateGone
<1>3. chain' = ForkState(tty, w, p)
  BY <1>2, StateGoneIs, Zenon
<1>4. q[k] \in ProcRec /\ q[k].i \in Nat /\ q[k].buf \in Seq(Nat) /\ Len(q) \in 1..Len(q) /\ StrLen \in Nat
  BY ProcTypes, ChainAssumption
<1>5. r \in ProcRec /\ r.i = q[k].i /\ r.p_id = q[k].p_id /\ r.buf = <<>> /\ r.alive = FALSE
  BY <1>4, GoneRec, Zenon
<1> HIDE DEF r
<1>6. r \in ProcRec /\ p = [q EXCEPT ![k] = r]
  BY <1>5, Zenon DEF Put
<1>7. p \in Seq(ProcRec) /\ Len(p) = Len(q) /\ p[k] = r /\ \A h \in 1..Len(q) : h # k => p[h] = q[h]
  BY <1>6, PutProc, Zenon
<1> HIDE DEF p
<1>8. q[k].i <= r.i /\ r.i <= StrLen /\ ~r.alive
  BY <1>1, <1>4, <1>5
<1>9. Procs(tty, p) /\ \A h \in 1..Len(q) : Printed(p, h) = Printed(q, h)
  BY <1>1, <1>5, <1>6, <1>8, OneProc, Zenon
<1>10. w \in Seq(Nat)
  BY <1>4
<1>11. Printed(p, Len(p)) = Printed(q, Len(q))
  BY <1>4, <1>7, <1>9, Zenon
<1>12. m \in Nat
  BY ProcFields, Zenon
<1>13. (tty => q[k].buf = <<>>) /\ (~tty => q[k].buf = Upto(m))
  BY <1>1, Zenon DEF Procs
<1> HIDE DEF m
<1>14. ASSUME tty PROVE w = Upto(Printed(p, Len(p)))
  <2>1. q[k].buf = <<>>
    BY <1>13, <1>14
  <2>2. w = out
    BY <2>1
  <2> QED BY <1>11, <1>14, <2>2, Zenon DEF Outs
<1>15. ASSUME ~tty, NEW j \in 0..StrLen - 1
       PROVE  /\ IsFiniteSet(LetterPlaces(w, j)) /\ IsFiniteSet(Wrote(p, j))
              /\ Cardinality(LetterPlaces(w, j)) = Cardinality(Wrote(p, j))
  <2>1. /\ IsFiniteSet(LetterPlaces(out, j)) /\ IsFiniteSet(Wrote(q, j))
        /\ Cardinality(LetterPlaces(out, j)) = Cardinality(Wrote(q, j))
    BY <1>15, Zenon DEF Outs
  <2>2. w = out \o Upto(m) /\ j \in Nat
    BY <1>13, <1>15
  <2>3. LetterPlaces(w, j) = IF j < m THEN LetterPlaces(out, j) \cup {Len(out) + j + 1} ELSE LetterPlaces(out, j)
    BY <1>12, <2>2, PlacesOf
  <2>4. \A h : h \in Wrote(p, j) <=> h \in Wrote(q, j) \/ (h = k /\ j < m)
    <3>1. \A h : h \in Wrote(q, j) <=> h \in 1..Len(q) /\ ~q[h].alive /\ j < Printed(q, h)
      BY Zenon DEF Wrote
    <3>2. \A h : h \in Wrote(p, j) <=> h \in 1..Len(q) /\ ~p[h].alive /\ j < Printed(q, h)
      BY <1>7, <1>9, Zenon DEF Wrote
    <3>3. \A h \in 1..Len(q) : ~p[h].alive <=> ~q[h].alive \/ h = k
      BY <1>5, <1>7
    <3> QED BY <3>1, <3>2, <3>3, Zenon DEF m
  <2>5. CASE j < m
    <3>1. Wrote(p, j) = Wrote(q, j) \cup {k}
      BY <2>4, <2>5, Zenon
    <3>2. k \notin Wrote(q, j)
      BY <1>1, Zenon DEF Wrote
    <3>3. LetterPlaces(w, j) = LetterPlaces(out, j) \cup {Len(out) + j + 1}
      BY <2>3, <2>5
    <3>4. Len(out) + j + 1 \notin LetterPlaces(out, j)
      <4>1. Len(out) + j + 1 \notin 1..Len(out)
        BY <2>2
      <4> QED BY <4>1, Zenon DEF LetterPlaces
    <3>5. /\ IsFiniteSet(Wrote(q, j) \cup {k})
          /\ Cardinality(Wrote(q, j) \cup {k}) = Cardinality(Wrote(q, j)) + 1
      BY <2>1, <3>2, FS_AddElement
    <3>6. /\ IsFiniteSet(LetterPlaces(out, j) \cup {Len(out) + j + 1})
          /\ Cardinality(LetterPlaces(out, j) \cup {Len(out) + j + 1}) = Cardinality(LetterPlaces(out, j)) + 1
      BY <2>1, <3>4, FS_AddElement
    <3> QED BY <2>1, <3>1, <3>3, <3>5, <3>6
  <2>6. CASE ~(j < m)
    <3>1. Wrote(p, j) = Wrote(q, j)
      BY <2>4, <2>6, Zenon
    <3>2. LetterPlaces(w, j) = LetterPlaces(out, j)
      BY <2>3, <2>6
    <3> QED BY <2>1, <3>1, <3>2
  <2> QED BY <2>5, <2>6
<1> HIDE DEF w
<1>16. Outs(tty, p, w)
  BY <1>14, <1>15, Zenon DEF Outs
<1> QED BY <1>3, <1>7, <1>9, <1>10, <1>16, Zenon DEF ForkOK

LEMMA ChildFirst ==
  ASSUME NEW tty \in BOOLEAN, NEW q \in Seq(ProcRec), Procs(tty, q), NEW k \in 1..Len(q) - 1,
         q[k + 1].alive, ~q[k].alive
  PROVE  q[k + 1].i = StrLen
<1>1. k \in 1..Len(q) /\ k + 1 \in 1..Len(q) /\ k < Len(q) /\ k \in Nat
  OBVIOUS
<1>2. (~q[k].alive => q[k].i = StrLen) /\ (k < Len(q) /\ q[k + 1].alive => q[k].i = k - 1)
  BY <1>1, Zenon DEF Procs
<1>3. q[k + 1].i <= StrLen /\ q[k + 1].i >= Printed(q, k + 1)
  BY <1>1, Zenon DEF Procs
<1>4. k - 1 = StrLen
  BY <1>1, <1>2, Zenon
<1>5. Printed(q, k + 1) = k - 1 \/ Printed(q, k + 1) = k
  <2>1. (k + 1) - 2 = k - 1 /\ (k + 1) - 1 = k
    BY <1>1
  <2> QED BY <2>1, Zenon DEF Printed
<1>6. q[k + 1].i \in Nat
  BY <1>1, ProcTypes
<1>7. \A x, y, z \in Nat : x <= z /\ x >= y /\ (y = z \/ y = z + 1) => x = z
  OBVIOUS
<1>8. k = StrLen + 1 /\ StrLen \in Nat /\ k \in Nat
  <2>1. StrLen \in Nat
    BY ChainAssumption
  <2>2. \A x, y \in Nat : x - 1 = y => x = y + 1
    OBVIOUS
  <2> QED BY <1>1, <1>4, <2>1, <2>2, Zenon
<1>9. Printed(q, k + 1) \in Nat /\ (Printed(q, k + 1) = StrLen \/ Printed(q, k + 1) = StrLen + 1)
  BY <1>4, <1>5, <1>8, Zenon
<1> QED BY <1>3, <1>6, <1>7, <1>8, <1>9, Zenon

\* When all are gone and no fork has failed, there were StrLen + 2 of them.
LEMMA AllOfThem ==
  ASSUME NEW tty \in BOOLEAN, NEW q \in Seq(ProcRec), Procs(tty, q),
         \A k \in 1..Len(q) : ~q[k].alive, \A k \in 1..Len(q) : q[k].p_id # "failed"
  PROVE  /\ Len(q) = StrLen + 2 /\ Printed(q, Len(q)) = StrLen
         /\ \A k \in 1..StrLen + 1 : Printed(q, k) = k - 1
<1> DEFINE n == Len(q)
<1>1. n >= 1 /\ n \in Nat /\ StrLen \in Nat
  <2>1. n >= 1
    BY Zenon DEF Procs
  <2>2. n \in Nat
    OBVIOUS
  <2> QED BY <2>1, <2>2, ChainAssumption
<1>2. n \in 1..n /\ ~(n < n)
  BY <1>1
<1>3. /\ q[n].p_id = "child of mine" <=> n < n
      /\ q[n].p_id = "none" => q[n].alive
      /\ q[n].p_id = "zero" => n >= 2 /\ q[n].i = n - 2
      /\ ~q[n].alive => q[n].i = StrLen
  BY <1>2, Zenon DEF Procs
<1>4. q[n].p_id \in {"none", "zero", "child of mine", "failed"}
  BY <1>2, ProcFields
<1>5. q[n].p_id = "zero"
  BY <1>2, <1>3, <1>4
<1>6. n - 2 = StrLen
  BY <1>2, <1>3, <1>5, Zenon
<1>7. n = StrLen + 2
  <2>1. \A x, y \in Nat : x - 2 = y => x = y + 2
    OBVIOUS
  <2> QED BY <1>1, <1>6, <2>1, Zenon
<1>8. Printed(q, n) = StrLen
  BY <1>5, <1>6, Zenon DEF Printed
<1>9. ASSUME NEW k \in 1..StrLen + 1 PROVE Printed(q, k) = k - 1
  <2>1. k \in 1..n /\ k < n
    BY <1>1, <1>7
  <2>2. q[k].p_id = "child of mine" <=> k < n
    BY <2>1, Zenon DEF Procs
  <2>3. q[k].p_id # "zero"
    BY <2>1, <2>2
  <2> QED BY <2>3, Zenon DEF Printed
<1> QED BY <1>7, <1>8, <1>9

LEMMA AllWrote ==
  ASSUME NEW tty \in BOOLEAN, NEW q \in Seq(ProcRec), Procs(tty, q),
         \A k \in 1..Len(q) : ~q[k].alive, \A k \in 1..Len(q) : q[k].p_id # "failed",
         NEW j \in 0..StrLen - 1
  PROVE  Cardinality(Wrote(q, j)) = StrLen - j + 1
<1>1. /\ Len(q) = StrLen + 2 /\ Printed(q, Len(q)) = StrLen
      /\ \A k \in 1..StrLen + 1 : Printed(q, k) = k - 1
  BY AllOfThem, Zenon
<1>2. StrLen \in Nat /\ j \in Nat /\ j < StrLen
  BY ChainAssumption
<1>3. ASSUME NEW k PROVE k \in Wrote(q, j) <=> k \in j + 2..StrLen + 2
  <2>1. k \in Wrote(q, j) <=> k \in 1..StrLen + 2 /\ j < Printed(q, k)
    BY <1>1, Zenon DEF Wrote
  <2>2. CASE k \in 1..StrLen + 1
    <3>1. Printed(q, k) = k - 1
      BY <1>1, <2>2
    <3>2. j < k - 1 <=> k \in j + 2..StrLen + 2
      BY <1>2, <2>2
    <3>3. k \in 1..StrLen + 2
      BY <1>2, <2>2
    <3> QED BY <2>1, <3>1, <3>2, <3>3, Zenon
  <2>3. CASE k = StrLen + 2
    <3>1. k \in 1..StrLen + 2 /\ k \in j + 2..StrLen + 2
      BY <1>2, <2>3
    <3>2. Printed(q, k) = StrLen
      BY <1>1, <2>3
    <3> QED BY <1>2, <2>1, <3>1, <3>2, Zenon
  <2>4. CASE k \notin 1..StrLen + 2
    <3>1. k \notin j + 2..StrLen + 2
      BY <1>2, <2>4
    <3> QED BY <2>1, <2>4, <3>1, Zenon
  <2>5. k \in 1..StrLen + 2 => k \in 1..StrLen + 1 \/ k = StrLen + 2
    BY <1>2
  <2> QED BY <2>2, <2>3, <2>4, <2>5, Zenon
<1>4. Wrote(q, j) = j + 2..StrLen + 2
  BY <1>3, Zenon
<1>5. Cardinality(j + 2..StrLen + 2) = (StrLen + 2) - (j + 2) + 1
  <2>1. j + 2 \in Int /\ StrLen + 2 \in Int /\ ~(j + 2 > StrLen + 2)
    BY <1>2
  <2> QED BY <2>1, FS_Interval
<1> QED BY <1>2, <1>4, <1>5

LEMMA ForkInOrder ==
  ASSUME ForkOK(chain)
  PROVE  ChainInOrder
<1> PICK tty \in BOOLEAN, out \in Seq(Nat), q \in Seq(ProcRec) :
      chain = ForkState(tty, out, q) /\ Procs(tty, q) /\ Outs(tty, q, out)
  BY Zenon DEF ForkOK
<1>1. chain.program = "fork" /\ chain.tty = tty /\ chain.out = out /\ chain.proc = q
  BY DEF ForkState
<1>2. Newest = Len(q) /\ Len(q) \in 1..Len(q)
  <2>1. Len(q) >= 1
    BY Zenon DEF Procs
  <2>2. Len(q) \in 1..Len(q)
    BY <2>1
  <2> QED BY <1>1, <2>2, Zenon DEF Newest
<1>3. /\ AllGone => \A k \in 1..Len(q) : ~q[k].alive
      /\ ~Failed => \A k \in 1..Len(q) : q[k].p_id # "failed"
  BY <1>1, <1>2, Zenon DEF AllGone, Failed
<1>4. tty => out = Upto(Printed(q, Len(q)))
  BY Zenon DEF Outs
<1>5. Printed(q, Len(q)) \in Nat
  BY <1>2, ProcFields, Zenon
<1>6. tty => Len(out) = Printed(q, Len(q))
  BY <1>4, <1>5, UptoIs, Zenon
<1>7. tty => out = Upto(Len(out))
  BY <1>4, <1>6, Zenon
<1>8. tty /\ AllGone /\ ~Failed => Len(out) = StrLen
  BY <1>3, <1>6, AllOfThem, Zenon
<1>9. \A k \in 1..Len(q) - 1 : q[k + 1].alive /\ ~q[k].alive => q[k + 1].i = StrLen
  BY ChildFirst, Zenon
<1>10. ASSUME ~tty, AllGone, ~Failed, NEW j \in 0..StrLen - 1
       PROVE  Cardinality({n \in DOMAIN out : out[n] = j}) = StrLen - j + 1
  <2>1. Cardinality(Wrote(q, j)) = StrLen - j + 1
    BY <1>3, <1>10, AllWrote, Zenon
  <2>2. Cardinality(LetterPlaces(out, j)) = Cardinality(Wrote(q, j))
    BY <1>10, Zenon DEF Outs
  <2>3. DOMAIN out = 1..Len(out)
    OBVIOUS
  <2> QED BY <2>1, <2>2, <2>3, Zenon DEF LetterPlaces
<1>11. chain.program # "exec"
  BY <1>1
<1> QED BY <1>1, <1>2, <1>7, <1>8, <1>9, <1>10, <1>11, Zenon DEF ChainInOrder

LEMMA ExecInOrder ==
  ASSUME ExecOK(chain)
  PROVE  ChainInOrder
<1> PICK l, a, g, n, f, o : chain = ExecState(l, a, g, n, f, o) /\ ExecParts(l, a, g, n, f, o)
  BY Zenon DEF ExecOK
<1>1. /\ chain.program = "exec" /\ chain.line = l /\ chain.given = g /\ chain.number = n
      /\ chain.first = f /\ chain.over = o
  BY DEF ExecState
<1>2. /\ l \in Seq(Program) /\ g \in BOOLEAN
      /\ n = IF g THEN Made(l, f)[Len(l) - Len(a)] ELSE f
      /\ o /\ g => a = <<>>
  BY Zenon DEF ExecParts
<1>3. ASSUME o, g PROVE n = Result(l, f)
  <2>1. Len(a) = 0
    <3>1. a = <<>>
      BY <1>2, <1>3
    <3> QED BY <3>1
  <2>2. Len(l) - 0 = Len(l)
    <3>1. Len(l) \in Nat
      BY <1>2
    <3> QED BY <3>1
  <2>3. n = Made(l, f)[Len(l)]
    BY <1>2, <1>3, <2>1, <2>2, Zenon
  <2>4. Result(l, f) = Made(l, f)[Len(l)]
    BY <1>2, MadeIs, Zenon
  <2> QED BY <2>3, <2>4
<1>4. ASSUME o PROVE n = IF g THEN Result(l, f) ELSE f
  BY <1>2, <1>3, <1>4, Zenon
<1>5. chain.program # "fork"
  BY <1>1
<1> QED BY <1>1, <1>4, <1>5, Zenon DEF ChainInOrder

LEMMA ChainInitOK ==
  ASSUME ChainInit
  PROVE  ForkOK(chain) \/ ExecOK(chain)
<1>1. CASE \E tty \in BOOLEAN : chain = ForkInit(tty)
  BY <1>1, ForkInitOK, Zenon
<1>2. CASE \E argv \in Lines, n \in Arg : chain = ExecInit(argv, n, TRUE)
  <2>1. PICK argv \in Lines, n \in Arg : chain = ExecInit(argv, n, TRUE)
    BY <1>2
  <2>2. PICK m \in 1..MaxArgs : argv \in [1..m -> Program]
    BY <2>1, Zenon DEF Lines
  <2>3. m \in Nat
    BY ChainAssumption
  <2>4. argv \in Seq(Program)
    BY <2>2, <2>3
  <2> QED BY <2>1, <2>4, ExecInitOK, Zenon
<1>3. CASE \E p \in Program : chain = ExecInit(<<p>>, 0, FALSE)
  <2>1. PICK p \in Program : chain = ExecInit(<<p>>, 0, FALSE)
    BY <1>3
  <2>2. <<p>> \in Seq(Program)
    OBVIOUS
  <2> QED BY <2>1, <2>2, ExecInitOK, Zenon
<1> QED BY <1>1, <1>2, <1>3, Zenon DEF ChainInit

LEMMA ChainNextOK ==
  ASSUME ForkOK(chain) \/ ExecOK(chain), [ChainNext]_chain
  PROVE  (ForkOK(chain) \/ ExecOK(chain))'
<1>1. CASE UNCHANGED chain
  BY <1>1 DEF ForkOK, ExecOK
<1>2. ASSUME ChainNext, ForkOK(chain) PROVE ForkOK(chain')
  <2> PICK tty \in BOOLEAN, out \in Seq(Nat), q \in Seq(ProcRec) :
        chain = ForkState(tty, out, q) /\ Procs(tty, q) /\ Outs(tty, q, out)
    BY <1>2, Zenon DEF ForkOK
  <2>1. chain.program = "fork" /\ chain.proc = q
    BY DEF ForkState
  <2>2. chain.program # "exec"
    BY <2>1
  <2>3. Start \/ \E k \in 1..Len(q) : Letter(k) \/ Wait(k) \/ NoChild(k) \/ Exit(k)
    BY <1>2, <2>1, <2>2, Zenon DEF ChainNext, Execute, Newest
  <2>4. CASE Start
    BY <2>4, StartOK, Zenon
  <2>5. ASSUME NEW k \in 1..Len(q), Letter(k) \/ Wait(k) \/ NoChild(k) \/ Exit(k) PROVE ForkOK(chain')
    BY <2>5, LetterOK, WaitOK, ExitOK, Zenon
  <2> QED BY <2>3, <2>4, <2>5, Zenon
<1>3. ASSUME ChainNext, ExecOK(chain) PROVE ExecOK(chain')
  <2>1. chain.program = "exec"
    <3>1. PICK l, a, g, n, f, o : chain = ExecState(l, a, g, n, f, o)
      BY <1>3, Zenon DEF ExecOK
    <3> QED BY <3>1 DEF ExecState
  <2>2. chain.program # "fork"
    BY <2>1
  <2>3. Execute
    BY <1>3, <2>2, Zenon DEF ChainNext
  <2> QED BY <1>3, <2>3, ExecuteOK, Zenon
<1>4. ASSUME ForkOK(chain') \/ ExecOK(chain') PROVE (ForkOK(chain) \/ ExecOK(chain))'
  BY <1>4
<1> QED BY <1>1, <1>2, <1>3, <1>4, Zenon

\* Lab-02, parts 1 and 2: the letters come in the order of the string, a process
\* outlives its child, the copies in a file are as many as there are processes
\* behind the letter, and the exec chain computes what its command line says.
THEOREM ChainsInOrder == ChainSpec => []ChainInOrder
<1>1. ChainInit => ForkOK(chain) \/ ExecOK(chain)
  BY ChainInitOK
<1>2. (ForkOK(chain) \/ ExecOK(chain)) /\ [ChainNext]_chain => (ForkOK(chain) \/ ExecOK(chain))'
  BY ChainNextOK
<1>3. ForkOK(chain) \/ ExecOK(chain) => ChainInOrder
  BY ForkInOrder, ExecInOrder
<1> QED BY <1>1, <1>2, <1>3, PTL DEF ChainSpec
-----------------------------------------------------------------------------
(* The buddy allocator: the inductive invariant *)

Within(c, b) == b.start <= c.start /\ c.start + c.size <= b.start + b.size
Apart(b, c) == b.start + b.size <= c.start \/ c.start + c.size <= b.start

\* c lies under one of the children of b.
Below(c, b) == /\ left(b) \in nodes /\ right(b) \in nodes
               /\ Within(c, left(b)) \/ Within(c, right(b))

\* The blocks form a tree: of two that overlap, one lies under a child of the
\* other.
Nested == \A b, c \in nodes : b = c \/ Apart(b, c) \/ Below(b, c) \/ Below(c, b)

Covered == \A x \in Address : \E b \in Leaves : x \in Cells(b)

FreeAreLeaves == free \subseteq Leaves

\* No two buddies are in the free list, in the middle of a loop either.
NoFreePair == \A q \in nodes : ~(left(q) \in freeList /\ right(q) \in freeList)

\* What a loop works on: a free leaf that is large enough, or a leaf that its
\* process has given back.
CurInv ==
  /\ cur.op = "idle" => cur = Idle
  /\ cur.op = "split" => /\ cur.block \in Leaves /\ cur.block \in free
                         /\ cur.pid \in Pid /\ cur.size \in Request
                         /\ cur.block.size >= cur.size
  /\ cur.op = "merge" => /\ cur.block \in Leaves
                         /\ \A p \in Pid : blockMap[p] # cur.block

BuddyIInv == /\ TypeOK /\ Nested /\ Covered /\ FreeAreLeaves /\ FreeListExact
             /\ HeldIsNamed /\ NoFreePair /\ CurInv
-----------------------------------------------------------------------------
(* Blocks and their halves *)

LEMMA BlockFacts ==
  ASSUME NEW b \in Block
  PROVE  /\ b.start \in Nat /\ b.size \in Nat /\ b.size > 0 /\ b.size \in Size
         /\ b.start + b.size <= Upper
         /\ b = [start |-> b.start, size |-> b.size]
<1>1. b \in [start : 0 .. Upper - 1, size : Size] /\ b.start + b.size <= Upper
  BY DEF Block
<1>2. b.start \in 0 .. Upper - 1 /\ b.size \in Size /\ b = [start |-> b.start, size |-> b.size]
  BY <1>1
<1>3. b.size \in Lower .. Upper
  BY <1>2, BuddyAssumption
<1> QED BY <1>1, <1>2, <1>3, BuddyAssumption

LEMMA BlockEq ==
  ASSUME NEW b \in Block, NEW c \in Block, b.start = c.start, b.size = c.size
  PROVE  b = c
  BY BlockFacts

LEMMA NullNoBlock == NULL \notin Block
  BY BlockFacts DEF NULL

\* The numbers of b's halves.
Halved(b) ==
  /\ left(b) \in Block /\ right(b) \in Block
  /\ left(b).size \in Nat /\ left(b).size > 0 /\ b.size = 2 * left(b).size
  /\ right(b).size = left(b).size
  /\ left(b).start = b.start /\ right(b).start = b.start + left(b).size

LEMMA HalvedSize ==
  ASSUME NEW b \in Block, b.size \div 2 \in Size
  PROVE  Halved(b)
<1>1. /\ b.start \in Nat /\ b.size \in Nat /\ b.size \in Size /\ b.start + b.size <= Upper
      /\ Upper \in Nat /\ Lower \in Nat
  BY BlockFacts, BuddyAssumption
<1>2. b.size >= Lower /\ b.size \div 2 >= Lower /\ Lower > 0
  BY <1>1, BuddyAssumption
<1>3. b.size > Lower
  BY <1>1, <1>2
<1>4. b.size = 2 * (b.size \div 2)
  BY <1>1, <1>3, BuddyAssumption
<1> DEFINE h == b.size \div 2
<1>5. h \in Nat /\ h > 0 /\ h \in Size /\ b.size = 2 * h
  BY <1>1, <1>2, <1>4
<1>6. left(b) = [start |-> b.start, size |-> h] /\ right(b) = [start |-> b.start + h, size |-> h]
  BY DEF left, right
<1> HIDE DEF h
<1>7. left(b) \in Block /\ right(b) \in Block
  BY <1>1, <1>5, <1>6 DEF Block
<1> QED BY <1>1, <1>5, <1>6, <1>7 DEF Halved

LEMMA HalvedChild ==
  ASSUME NEW b \in Block, left(b) \in Block \/ right(b) \in Block
  PROVE  Halved(b)
<1>1. left(b).size = b.size \div 2 /\ right(b).size = b.size \div 2
  BY DEF left, right
<1> QED BY <1>1, BlockFacts, HalvedSize

\* A child names its place under its parent: blocks of equal halves are apart or
\* equal.
LEMMA BelowFacts ==
  ASSUME nodes \subseteq Block, NEW b \in nodes, NEW c \in nodes, Below(c, b)
  PROVE  Halved(b) /\ Within(c, b) /\ c.size < b.size /\ ~Apart(b, c) /\ b \notin Leaves
<1>1. Halved(b) /\ b \notin Leaves
  BY HalvedChild DEF Below, Leaves, Inner
<1>2. b \in Block /\ c \in Block
  OBVIOUS
<1> QED BY <1>1, <1>2, BlockFacts DEF Below, Within, Apart, Halved

\* What overlaps a leaf is the leaf or lies above it.
LEMMA LeafAlone ==
  ASSUME nodes \subseteq Block, Nested, NEW b \in Leaves, NEW c \in nodes
  PROVE  c = b \/ Apart(b, c) \/ Below(b, c)
  BY BelowFacts DEF Nested, Leaves

\* A child has one parent.
LEMMA OneParent ==
  ASSUME nodes \subseteq Block, Nested, NEW q \in nodes, NEW r \in nodes,
         Halved(q), Halved(r), {left(q), right(q)} \cap {left(r), right(r)} # {}
  PROVE  q = r
<1>1. q.size = r.size /\ ~Apart(q, r)
  <2>1. q \in Block /\ r \in Block
    OBVIOUS
  <2>2. \E x \in {left(q), right(q)} : x \in {left(r), right(r)}
    OBVIOUS
  <2>3. PICK x \in {left(q), right(q)} : x \in {left(r), right(r)}
    BY <2>2
  <2>4. x.size = left(q).size /\ x.size = left(r).size
    BY <2>3 DEF Halved
  <2>5. q.start <= x.start /\ x.start + x.size <= q.start + q.size
    BY <2>1, <2>3, <2>4, BlockFacts DEF Halved
  <2>6. r.start <= x.start /\ x.start + x.size <= r.start + r.size
    BY <2>1, <2>3, <2>4, BlockFacts DEF Halved
  <2>7. x \in Block
    BY <2>3 DEF Halved
  <2> QED BY <2>1, <2>4, <2>5, <2>6, <2>7, BlockFacts DEF Halved, Apart
<1>2. ~Below(q, r) /\ ~Below(r, q)
  <2>1. q \in Block /\ r \in Block
    OBVIOUS
  <2> QED BY <1>1, <2>1, BelowFacts, BlockFacts
<1> QED BY <1>1, <1>2 DEF Nested
-----------------------------------------------------------------------------
(* The tree grows and shrinks *)

\* A leaf is split: its halves are the leaves in its place.
LEMMA SplitTree ==
  ASSUME nodes \subseteq Block, Nested, NEW b \in Leaves, Halved(b),
         nodes' = nodes \cup {left(b), right(b)}
  PROVE  /\ nodes' \subseteq Block /\ Nested'
         /\ Leaves' = (Leaves \ {b}) \cup {left(b), right(b)}
         /\ left(b) \notin nodes /\ right(b) \notin nodes /\ left(b) # right(b)
<1> DEFINE h == {left(b), right(b)}
<1>1. b \in nodes /\ b \in Block /\ h \subseteq Block /\ nodes' \subseteq Block /\ left(b) \notin nodes
  BY DEF Leaves, Inner, Halved
<1>2. ASSUME NEW x \in h
      PROVE  /\ x \in Block /\ Within(x, b) /\ x.size < b.size /\ ~Apart(b, x)
             /\ x.size = left(b).size
  BY <1>1, BlockFacts DEF Halved, Within, Apart
<1>3. ASSUME NEW x \in h, NEW c \in nodes
      PROVE  x # c
  <2>1. x = c => x = b \/ Apart(b, x) \/ Below(b, x)
    BY <1>3, LeafAlone
  <2>2. x = c => ~Below(b, x)
    BY <1>1, <1>2, <1>3, BelowFacts, BlockFacts
  <2> QED BY <2>1, <2>2, <1>1, <1>2, BlockFacts
<1>4. left(b) # right(b) /\ Apart(left(b), right(b)) /\ Apart(right(b), left(b))
  BY <1>1, BlockFacts DEF Halved, Apart
<1>5. ASSUME NEW c \in nodes, NEW d \in nodes, Below(c, d) PROVE Below(c, d)'
  BY <1>5 DEF Below, Within
<1>6. ASSUME NEW x \in h PROVE Below(x, b)'
  BY <1>1, <1>2, BlockFacts DEF Below, Within, Halved
<1>7. ASSUME NEW x \in h, NEW c \in nodes
      PROVE  (Apart(c, x) /\ Apart(x, c)) \/ Below(x, c)'
  <2>1. c \in Block /\ x \in Block
    BY <1>1, <1>7
  <2>2. CASE c = b
    BY <2>2, <1>6
  <2>3. CASE Apart(b, c)
    BY <2>1, <2>3, <1>1, <1>2, BlockFacts DEF Apart, Within
  <2>4. CASE Below(b, c)
    <3>1. Halved(c)
      BY <1>1, <2>4, BelowFacts
    <3>2. left(c) \in Block /\ right(c) \in Block
      BY <3>1 DEF Halved
    <3>3. Within(x, left(c)) \/ Within(x, right(c))
      BY <2>1, <2>4, <3>2, <1>1, <1>2, BlockFacts DEF Below, Within
    <3> QED BY <2>4, <3>3 DEF Below
  <2> QED BY <2>2, <2>3, <2>4, LeafAlone
<1>8. Nested'
  <2>1. ASSUME NEW c \in nodes', NEW d \in nodes'
        PROVE  c = d \/ Apart(c, d) \/ Below(c, d)' \/ Below(d, c)'
    <3>1. CASE c \in nodes /\ d \in nodes
      BY <3>1, <1>5 DEF Nested
    <3>2. CASE c \in h /\ d \in nodes
      BY <3>2, <1>7
    <3>3. CASE c \in nodes /\ d \in h
      BY <3>3, <1>7
    <3>4. CASE c \in h /\ d \in h
      BY <3>4, <1>4
    <3> QED BY <2>1, <3>1, <3>2, <3>3, <3>4
  <2> QED BY <2>1 DEF Nested, Apart
<1>9. ASSUME NEW x \in h PROVE left(x) \notin nodes'
  <2>1. SUFFICES ASSUME left(x) \in nodes' PROVE FALSE
    OBVIOUS
  <2>2. left(x) \in Block /\ x \in Block /\ Halved(x)
    BY <1>1, <1>2, <1>9, <2>1, HalvedChild
  <2>3. left(x) \notin h
    BY <2>2, <1>2, <1>9, BlockFacts DEF Halved
  <2>4. left(x) \in nodes
    BY <2>1, <2>3
  <2>5. Within(left(x), b) /\ left(x).size < b.size
    BY <2>2, <1>1, <1>2, <1>9, BlockFacts DEF Halved, Within
  <2>6. ~Apart(b, left(x)) /\ left(x) # b
    BY <2>2, <2>5, <1>1, BlockFacts DEF Within, Apart
  <2>7. ~Below(b, left(x))
    BY <2>2, <2>4, <2>5, <1>1, BelowFacts, BlockFacts
  <2> QED BY <2>4, <2>6, <2>7, LeafAlone
<1>10. ASSUME NEW c \in nodes, left(c) \in h PROVE c = b
  <2>1. c \in Block /\ Halved(c)
    BY <1>1, <1>10, HalvedChild
  <2> QED BY <2>1, <1>1, <1>10, OneParent
<1>11. ASSUME NEW c PROVE c \in Leaves' <=> c \in (Leaves \ {b}) \cup h
  <2>1. CASE c \in h
    BY <2>1, <1>9 DEF Leaves, Inner
  <2>2. CASE c \notin h
    BY <2>2, <1>1, <1>10 DEF Leaves, Inner
  <2> QED BY <2>1, <2>2
<1> QED BY <1>1, <1>3, <1>4, <1>8, <1>11

\* Two leaves that are buddies are joined: their parent is the leaf in their place.
LEMMA JoinTree ==
  ASSUME nodes \subseteq Block, Nested, NEW q \in nodes,
         left(q) \in Leaves, right(q) \in Leaves,
         nodes' = nodes \ {left(q), right(q)}
  PROVE  /\ nodes' \subseteq Block /\ Nested' /\ Halved(q)
         /\ Leaves' = (Leaves \ {left(q), right(q)}) \cup {q}
         /\ q \notin Leaves /\ q \notin {left(q), right(q)}
<1> DEFINE h == {left(q), right(q)}
<1>1. h \subseteq nodes /\ q \in Block /\ Halved(q) /\ q \notin Leaves /\ nodes' \subseteq Block
  BY HalvedChild DEF Leaves, Inner
<1>2. ASSUME NEW x \in h PROVE x \in Block /\ x \in Leaves /\ x.size < q.size
  BY <1>1, BlockFacts DEF Halved
<1>3. q \notin h /\ q \in nodes'
  BY <1>1, <1>2, BlockFacts
<1>4. ASSUME NEW r \in nodes, left(r) \in h \/ right(r) \in h PROVE r = q
  <2>1. r \in Block /\ Halved(r)
    BY <1>1, <1>4, HalvedChild
  <2>2. {left(q), right(q)} \cap {left(r), right(r)} # {}
    BY <1>4
  <2> QED BY <2>1, <2>2, <1>1, OneParent
<1>5. ASSUME NEW c \in nodes', Below(c, q) PROVE FALSE
  <2>1. PICK x \in h : Within(c, x)
    BY <1>5 DEF Below
  <2>2. c \in Block /\ x \in Block /\ c # x /\ c \in nodes
    BY <1>1, <1>2, <1>5
  <2>3. ~Apart(x, c) /\ ~(x.size < c.size)
    BY <2>1, <2>2, BlockFacts DEF Within, Apart
  <2>4. ~Below(x, c)
    BY <2>2, <2>3, <1>1, BelowFacts
  <2> QED BY <2>2, <2>3, <2>4, <1>2, LeafAlone
<1>6. ASSUME NEW c \in nodes', NEW d \in nodes', Below(c, d) PROVE Below(c, d)'
  <2>1. d # q
    BY <1>5, <1>6
  <2>2. d \in nodes
    BY <1>6
  <2>3. left(d) \notin h /\ right(d) \notin h
    BY <2>1, <2>2, <1>4
  <2> QED BY <2>3, <1>6 DEF Below, Within
<1>7. Nested'
  <2>1. ASSUME NEW c \in nodes', NEW d \in nodes'
        PROVE  c = d \/ Apart(c, d) \/ Below(c, d)' \/ Below(d, c)'
    BY <2>1, <1>6 DEF Nested
  <2> QED BY <2>1 DEF Nested, Apart
<1>8. ASSUME NEW c PROVE c \in Leaves' <=> c \in (Leaves \ h) \cup {q}
  BY <1>3, <1>4 DEF Leaves, Inner
<1> QED BY <1>1, <1>3, <1>7, <1>8
-----------------------------------------------------------------------------
(* The steps *)

LEMMA InitInv ==
  ASSUME Init
  PROVE  BuddyIInv
<1>1. root \in Block
  BY BuddyAssumption DEF root, Block
<1>2. left(root) # root /\ right(root) # root
  BY BuddyAssumption DEF left, right, root
<1>3. Leaves = {root}
  BY <1>2 DEF Init, Leaves, Inner
<1>4. TypeOK
  BY <1>1 DEF Init, TypeOK, Idle, None
<1>5. Nested
  BY DEF Init, Nested
<1>6. Covered
  BY <1>3, BuddyAssumption DEF Covered, Address, Cells, root
<1>7. root # NULL
  BY <1>1, NullNoBlock
<1>8. FreeAreLeaves /\ FreeListExact /\ HeldIsNamed
  BY <1>3, <1>7 DEF Init, FreeAreLeaves, FreeListExact, HeldIsNamed, Idle
<1>9. NoFreePair /\ CurInv
  BY <1>2 DEF Init, NoFreePair, CurInv, Idle
<1> QED BY <1>4, <1>5, <1>6, <1>8, <1>9 DEF BuddyIInv

\* The first block that fits leaves the free list.
LEMMA AllocateStep ==
  ASSUME BuddyIInv, NEW p \in Pid, NEW n \in Request, allocateMemory(p, n)
  PROVE  BuddyIInv'
<1>1. PICK b \in freeList : /\ b.size >= n /\ freeList' = freeList \ {b}
                            /\ cur' = [op |-> "split", block |-> b, pid |-> p, size |-> n]
  BY DEF allocateMemory
<1>2. cur = Idle /\ UNCHANGED <<nodes, free, blockMap, p_id>>
  BY DEF allocateMemory
<1>3. b \in Leaves /\ b \in free /\ b \in Block
  BY <1>1 DEF BuddyIInv, FreeListExact, TypeOK
<1>4. TypeOK'
  BY <1>1, <1>2, <1>3 DEF BuddyIInv, TypeOK
<1>5. Leaves' = Leaves
  BY <1>2 DEF Leaves, Inner
<1>6. Nested' /\ Covered' /\ FreeAreLeaves' /\ HeldIsNamed'
  BY <1>2, <1>5 DEF BuddyIInv, Nested, Covered, FreeAreLeaves, HeldIsNamed, Apart, Below, Within, Cells
<1>7. NULL \notin Leaves
  BY NullNoBlock DEF BuddyIInv, TypeOK, Leaves
<1>8. FreeListExact'
  BY <1>1, <1>2, <1>5, <1>7 DEF BuddyIInv, FreeListExact, Idle
<1>9. NoFreePair'
  BY <1>1, <1>2 DEF BuddyIInv, NoFreePair
<1>10. CurInv'
  BY <1>1, <1>2, <1>3, <1>5 DEF CurInv
<1> QED BY <1>4, <1>6, <1>8, <1>9, <1>10 DEF BuddyIInv

\* A block is split: one half goes on, the other is free.
LEMMA SplitStep ==
  ASSUME BuddyIInv, split
  PROVE  BuddyIInv'
<1> DEFINE b == cur.block
           l == left(b)
           r == right(b)
<1>1. /\ cur.op = "split" /\ TooLarge(b, cur.size)
      /\ nodes' = nodes \cup {l, r} /\ free' = (free \ {b}) \cup {l, r}
      /\ freeList' = freeList \cup {r} /\ cur' = [cur EXCEPT !.block = l]
      /\ UNCHANGED <<blockMap, p_id>>
  BY DEF split
<1>2. b \in Leaves /\ b \in free /\ b \in nodes /\ b \in Block /\ nodes \subseteq Block /\ Nested
  BY <1>1 DEF BuddyIInv, CurInv, Leaves, TypeOK
<1>3. cur.size \in Nat /\ cur.size \in Request /\ cur.pid \in Pid
  BY <1>1, BuddyAssumption DEF BuddyIInv, CurInv
<1>4. Halved(b)
  <2>1. b.size \div 2 \in Size
    BY <1>1, <1>2, BlockFacts, BuddyAssumption DEF TooLarge
  <2> QED BY <2>1, <1>2, HalvedSize
<1>5. l.size > cur.size
  BY <1>1 DEF TooLarge, left
<1>6. l \in Block /\ r \in Block
  BY <1>4 DEF Halved
<1>7. /\ nodes' \subseteq Block /\ Nested' /\ Leaves' = (Leaves \ {b}) \cup {l, r}
      /\ l \notin nodes /\ r \notin nodes /\ l # r
  BY <1>1, <1>2, <1>4, SplitTree
<1>8. cur' \in [op : {"idle", "split", "merge"}, block : Block \cup {NULL},
              pid : Pid \cup {None}, size : Request \cup {0}]
      /\ cur'.block = l /\ cur'.op = "split" /\ cur'.pid = cur.pid /\ cur'.size = cur.size
  BY <1>1, <1>6 DEF BuddyIInv, TypeOK
<1>9. TypeOK'
  BY <1>1, <1>7, <1>8 DEF BuddyIInv, TypeOK
<1>10. Covered'
  <2>1. ASSUME NEW x \in Address PROVE \E c \in Leaves' : x \in Cells(c)
    <3>1. PICK c \in Leaves : x \in Cells(c)
      BY DEF BuddyIInv, Covered
    <3>2. CASE c = b
      <4>1. x \in Cells(l) \/ x \in Cells(r)
        BY <3>1, <3>2, <1>2, <1>4, <1>6, BlockFacts DEF Cells, Halved
      <4> QED BY <4>1, <1>7
    <3>3. CASE c # b
      BY <3>1, <3>3, <1>7
    <3> QED BY <3>2, <3>3
  <2> QED BY <2>1 DEF Covered, Cells
<1>11. FreeAreLeaves'
  BY <1>1, <1>7 DEF BuddyIInv, FreeAreLeaves
<1>12. FreeListExact'
  <2>1. freeList = {c \in Leaves : c \in free} \ {b}
    BY DEF BuddyIInv, FreeListExact
  <2>2. Leaves \subseteq nodes
    BY DEF Leaves
  <2>3. freeList' = {c \in Leaves' : c \in free'} \ {l}
    BY <2>1, <2>2, <1>1, <1>2, <1>7
  <2> QED BY <2>3, <1>8 DEF FreeListExact
<1>13. HeldIsNamed'
  <2>1. ASSUME NEW p \in Pid, blockMap[p] # NULL
        PROVE  blockMap[p] \in Leaves' \ free' /\ p_id[blockMap[p]] = p
    <3>1. blockMap[p] \in Leaves \ free /\ p_id[blockMap[p]] = p /\ blockMap[p] \in nodes
      BY <2>1 DEF BuddyIInv, HeldIsNamed, Leaves
    <3> QED BY <3>1, <1>1, <1>2, <1>7
  <2> QED BY <2>1, <1>1 DEF HeldIsNamed
<1>14. NoFreePair'
  <2>1. ASSUME NEW q \in nodes', left(q) \in freeList', right(q) \in freeList' PROVE FALSE
    <3>1. left(q) \in nodes' /\ right(q) \in nodes' /\ freeList \subseteq nodes
      BY <2>1, <1>9 DEF TypeOK, BuddyIInv
    <3>2. q \in nodes
      <4>1. q \notin {l, r}
        BY <3>1, <1>7 DEF Leaves, Inner
      <4> QED BY <4>1, <1>1
    <3>3. CASE left(q) \in freeList /\ right(q) \in freeList
      BY <3>2, <3>3 DEF BuddyIInv, NoFreePair
    <3>4. CASE left(q) = r \/ right(q) = r
      <4>1. q \in Block /\ Halved(q)
        BY <3>2, <3>4, <1>2, <1>6, HalvedChild
      <4>2. q = b
        BY <3>2, <3>4, <4>1, <1>2, <1>4, OneParent
      <4>3. l \notin freeList'
        BY <3>1, <1>1, <1>7
      <4> QED BY <4>2, <4>3, <2>1
    <3> QED BY <3>3, <3>4, <2>1, <1>1
  <2> QED BY <2>1 DEF NoFreePair
<1>15. CurInv'
  <2>1. l.size >= cur.size /\ l \in Leaves' /\ l \in free'
    BY <1>1, <1>3, <1>5, <1>6, <1>7, BlockFacts
  <2> QED BY <2>1, <1>3, <1>8 DEF CurInv
<1> QED BY <1>7, <1>9, <1>10, <1>11, <1>12, <1>13, <1>14, <1>15 DEF BuddyIInv

\* What lies above a leaf is not a leaf: marking it changes no entry of the
\* free list.
LEMMA AboveLeaf ==
  ASSUME nodes \subseteq Block, Nested, NEW b \in Leaves, NEW q \in nodes,
         Cells(b) \subseteq Cells(q)
  PROVE  q = b \/ q \notin Leaves
<1>1. b \in Block /\ q \in Block /\ b \in nodes
  BY DEF Leaves
<1>2. b.start \in Cells(b)
  BY <1>1, BlockFacts DEF Cells
<1>3. ~Apart(b, q)
  BY <1>1, <1>2, BlockFacts DEF Cells, Apart
<1> QED BY <1>1, <1>3, LeafAlone, BelowFacts

\* The block is given to the process.
LEMMA BuddyGiveStep ==
  ASSUME BuddyIInv, allocateProcess
  PROVE  BuddyIInv'
<1> DEFINE b == cur.block
           above == {q \in nodes : Cells(b) \subseteq Cells(q)}
<1>1. /\ cur.op = "split" /\ free' = free \ above
      /\ blockMap' = [blockMap EXCEPT ![cur.pid] = b] /\ p_id' = [p_id EXCEPT ![b] = cur.pid]
      /\ cur' = Idle /\ UNCHANGED <<nodes, freeList>>
  BY DEF allocateProcess
<1>2. b \in Leaves /\ b \in free /\ b \in nodes /\ b \in Block /\ nodes \subseteq Block /\ Nested
      /\ cur.pid \in Pid
  BY <1>1 DEF BuddyIInv, CurInv, Leaves, TypeOK
<1>3. Leaves' = Leaves /\ b \in above
  BY <1>1, <1>2 DEF Leaves, Inner
<1>4. ASSUME NEW q \in Leaves, q # b PROVE q \notin above
  BY <1>2, <1>4, AboveLeaf
<1> HIDE DEF above
<1>5. TypeOK'
  BY <1>1, <1>2 DEF BuddyIInv, TypeOK, Idle
<1>6. Nested' /\ Covered' /\ FreeAreLeaves' /\ NoFreePair'
  BY <1>1, <1>3 DEF BuddyIInv, Nested, Covered, FreeAreLeaves, NoFreePair, Apart, Below, Within, Cells
<1>7. FreeListExact'
  <2>1. freeList = {c \in Leaves : c \in free} \ {b}
    BY DEF BuddyIInv, FreeListExact
  <2>2. NULL \notin Leaves
    BY <1>2, NullNoBlock DEF Leaves
  <2>3. freeList' = {c \in Leaves' : c \in free'} \ {NULL}
    BY <2>1, <2>2, <1>1, <1>3, <1>4
  <2> QED BY <2>3, <1>1 DEF FreeListExact, Idle
<1>8. HeldIsNamed'
  <2>1. ASSUME NEW p \in Pid, blockMap'[p] # NULL
        PROVE  blockMap'[p] \in Leaves' \ free' /\ p_id'[blockMap'[p]] = p
    <3>1. CASE p = cur.pid
      <4>1. blockMap'[p] = b
        BY <3>1, <1>1, <1>2 DEF BuddyIInv, TypeOK
      <4>2. p_id'[b] = p
        BY <3>1, <1>1, <1>2 DEF BuddyIInv, TypeOK
      <4> QED BY <4>1, <4>2, <1>1, <1>2, <1>3
    <3>2. CASE p # cur.pid
      <4>1. blockMap'[p] = blockMap[p]
        BY <3>2, <1>1 DEF BuddyIInv, TypeOK
      <4>2. blockMap[p] \in Leaves \ free /\ p_id[blockMap[p]] = p /\ blockMap[p] \in Block
        BY <2>1, <4>1, <1>2 DEF BuddyIInv, HeldIsNamed, Leaves
      <4>3. blockMap[p] # b
        BY <4>2, <1>2
      <4>4. p_id'[blockMap[p]] = p
        BY <4>2, <4>3, <1>1 DEF BuddyIInv, TypeOK
      <4> QED BY <4>1, <4>2, <4>4, <1>1, <1>3
    <3> QED BY <3>1, <3>2
  <2> QED BY <2>1 DEF HeldIsNamed
<1>9. CurInv'
  BY <1>1 DEF CurInv, Idle
<1> QED BY <1>5, <1>6, <1>7, <1>8, <1>9 DEF BuddyIInv

\* A process gives its block back.
LEMMA BuddyReleaseStep ==
  ASSUME BuddyIInv, NEW p \in Pid, releaseProcess(p)
  PROVE  BuddyIInv'
<1> DEFINE b == blockMap[p]
<1>1. /\ cur = Idle /\ b # NULL /\ free' = free \cup {b}
      /\ blockMap' = [blockMap EXCEPT ![p] = NULL]
      /\ cur' = [op |-> "merge", block |-> b, pid |-> p, size |-> 0]
      /\ p_id' = [p_id EXCEPT ![b] = None] /\ UNCHANGED <<nodes, freeList>>
  BY DEF releaseProcess
<1>2. b \in Leaves /\ b \notin free /\ p_id[b] = p /\ b \in nodes /\ b \in Block
  BY <1>1 DEF BuddyIInv, HeldIsNamed, Leaves, TypeOK
<1>3. Leaves' = Leaves
  BY <1>1 DEF Leaves, Inner
<1>4. TypeOK'
  BY <1>1, <1>2 DEF BuddyIInv, TypeOK
<1>5. Nested' /\ Covered' /\ FreeAreLeaves' /\ NoFreePair'
  BY <1>1, <1>2, <1>3 DEF BuddyIInv, Nested, Covered, FreeAreLeaves, NoFreePair, Apart, Below,
                          Within, Cells
<1>6. FreeListExact'
  <2>1. freeList = {c \in Leaves : c \in free} \ {NULL} /\ NULL \notin Leaves
    BY <1>1, NullNoBlock DEF BuddyIInv, FreeListExact, Idle, Leaves, TypeOK
  <2>2. freeList' = {c \in Leaves' : c \in free'} \ {b}
    BY <2>1, <1>1, <1>2, <1>3
  <2> QED BY <2>2, <1>1 DEF FreeListExact
<1>7. ASSUME NEW o \in Pid, blockMap'[o] # NULL
      PROVE  /\ blockMap'[o] \in Leaves' \ free' /\ p_id'[blockMap'[o]] = o
             /\ blockMap'[o] # b
  <2>1. o # p /\ blockMap'[o] = blockMap[o]
    BY <1>1, <1>7 DEF BuddyIInv, TypeOK
  <2>2. blockMap[o] \in Leaves \ free /\ p_id[blockMap[o]] = o /\ blockMap[o] \in Block
    BY <2>1, <1>7 DEF BuddyIInv, HeldIsNamed, TypeOK, Leaves
  <2>3. blockMap[o] # b
    BY <2>1, <2>2, <1>2
  <2>4. p_id'[blockMap[o]] = o
    BY <2>2, <2>3, <1>1 DEF BuddyIInv, TypeOK
  <2> QED BY <2>1, <2>2, <2>3, <2>4, <1>1, <1>3
<1>8. CurInv'
  <2>1. \A o \in Pid : blockMap'[o] # b
    BY <1>1, <1>7
  <2> QED BY <2>1, <1>1, <1>2, <1>3 DEF CurInv
<1> QED BY <1>4, <1>5, <1>6, <1>7, <1>8 DEF BuddyIInv, HeldIsNamed

\* A block and its free buddy are joined.
LEMMA JoinStep ==
  ASSUME BuddyIInv, merge
  PROVE  BuddyIInv'
<1> DEFINE b == cur.block
<1>1. PICK q \in nodes :
        /\ cur.op = "merge" /\ IsParent(q, b) /\ buddy(b, q) \in free
        /\ freeList' = freeList \ {buddy(b, q)}
        /\ nodes' = nodes \ {b, buddy(b, q)} /\ free' = free \ {b, buddy(b, q)}
        /\ cur' = [cur EXCEPT !.block = q] /\ UNCHANGED <<blockMap, p_id>>
  BY DEF merge
<1> DEFINE c == buddy(b, q)
           h == {left(q), right(q)}
<1>2. b \in Leaves /\ nodes \subseteq Block /\ Nested /\ q \in Block /\ b \in nodes
  BY <1>1 DEF BuddyIInv, CurInv, TypeOK, Leaves
<1>3. c \in Leaves /\ c \in free
  BY <1>1 DEF BuddyIInv, FreeAreLeaves
<1>4. {b, c} = h /\ left(q) \in Leaves /\ right(q) \in Leaves
  BY <1>1, <1>2, <1>3 DEF IsParent, buddy
<1>5. /\ nodes' = nodes \ h /\ free' = free \ h
      /\ freeList' = freeList \ {c} /\ cur' = [cur EXCEPT !.block = q]
  BY <1>1, <1>4
<1> HIDE DEF c
<1>6. /\ nodes' \subseteq Block /\ Nested' /\ Halved(q)
      /\ Leaves' = (Leaves \ h) \cup {q} /\ q \notin Leaves /\ q \notin h
  BY <1>2, <1>4, <1>5, JoinTree
<1>7. /\ cur' \in [op : {"idle", "split", "merge"}, block : Block \cup {NULL},
                   pid : Pid \cup {None}, size : Request \cup {0}]
      /\ cur'.block = q /\ cur'.op = "merge"
  BY <1>1, <1>2 DEF BuddyIInv, TypeOK
<1>8. freeList = {d \in Leaves : d \in free} \ {b}
  BY DEF BuddyIInv, FreeListExact
<1>9. TypeOK'
  BY <1>1, <1>4, <1>5, <1>6, <1>7, <1>8 DEF BuddyIInv, TypeOK
<1>10. Covered'
  <2>1. ASSUME NEW x \in Address PROVE \E d \in Leaves' : x \in Cells(d)
    <3>1. PICK d \in Leaves : x \in Cells(d)
      BY DEF BuddyIInv, Covered
    <3>2. CASE d \in h
      <4>1. x \in Cells(q)
        <5>1. left(q) \in Block /\ right(q) \in Block
          BY <1>6 DEF Halved
        <5> QED BY <3>1, <3>2, <1>2, <1>6, <5>1, BlockFacts DEF Cells, Halved
      <4> QED BY <4>1, <1>6
    <3>3. CASE d \notin h
      BY <3>1, <3>3, <1>6
    <3> QED BY <3>2, <3>3
  <2> QED BY <2>1 DEF Covered, Cells
<1>11. FreeAreLeaves'
  BY <1>5, <1>6 DEF BuddyIInv, FreeAreLeaves
<1>12. FreeListExact'
  <2>1. q \notin free
    BY <1>6 DEF BuddyIInv, FreeAreLeaves
  <2>2. freeList' = {d \in Leaves' : d \in free'} \ {q}
    BY <2>1, <1>4, <1>5, <1>6, <1>8
  <2> QED BY <2>2, <1>7 DEF FreeListExact
<1>13. ASSUME NEW p \in Pid, blockMap[p] # NULL
       PROVE  blockMap[p] \in Leaves' \ free' /\ p_id[blockMap[p]] = p /\ blockMap[p] # q
  <2>1. blockMap[p] \in Leaves \ free /\ p_id[blockMap[p]] = p
    BY <1>13 DEF BuddyIInv, HeldIsNamed
  <2>2. blockMap[p] # b
    BY <1>1 DEF BuddyIInv, CurInv
  <2> QED BY <2>1, <2>2, <1>3, <1>4, <1>5, <1>6
<1>14. NoFreePair'
  BY <1>5 DEF BuddyIInv, NoFreePair
<1>15. CurInv'
  <2>1. q # NULL
    BY <1>2, NullNoBlock
  <2>2. \A p \in Pid : blockMap'[p] # q
    BY <2>1, <1>1, <1>13
  <2> QED BY <2>2, <1>6, <1>7 DEF CurInv
<1> QED BY <1>1, <1>6, <1>9, <1>10, <1>11, <1>12, <1>13, <1>14, <1>15 DEF BuddyIInv, HeldIsNamed

\* A block whose buddy is in use goes into the free list.
LEMMA SettleStep ==
  ASSUME BuddyIInv, settle
  PROVE  BuddyIInv'
<1> DEFINE b == cur.block
<1>1. /\ cur.op = "merge" /\ free' = free \cup {b} /\ freeList' = freeList \cup {b} /\ cur' = Idle
      /\ \A q \in nodes : IsParent(q, b) => buddy(b, q) \notin free
      /\ UNCHANGED <<nodes, blockMap, p_id>>
  BY DEF settle
<1>2. b \in Leaves /\ nodes \subseteq Block /\ b \in nodes /\ \A p \in Pid : blockMap[p] # b
  BY <1>1 DEF BuddyIInv, CurInv, TypeOK, Leaves
<1>3. Leaves' = Leaves
  BY <1>1 DEF Leaves, Inner
<1>4. TypeOK'
  BY <1>1, <1>2 DEF BuddyIInv, TypeOK, Idle
<1>5. Nested' /\ Covered' /\ FreeAreLeaves'
  BY <1>1, <1>2, <1>3 DEF BuddyIInv, Nested, Covered, FreeAreLeaves, Apart, Below, Within, Cells
<1>6. FreeListExact'
  <2>1. freeList = {c \in Leaves : c \in free} \ {b} /\ NULL \notin Leaves
    BY <1>2, NullNoBlock DEF BuddyIInv, FreeListExact, Leaves
  <2>2. freeList' = {c \in Leaves' : c \in free'} \ {NULL}
    BY <2>1, <1>1, <1>2, <1>3
  <2> QED BY <2>2, <1>1 DEF FreeListExact, Idle
<1>7. HeldIsNamed'
  BY <1>1, <1>2, <1>3 DEF BuddyIInv, HeldIsNamed
<1>8. NoFreePair'
  <2>1. ASSUME NEW q \in nodes, left(q) \in freeList', right(q) \in freeList' PROVE FALSE
    <3>1. CASE left(q) \in freeList /\ right(q) \in freeList
      BY <3>1 DEF BuddyIInv, NoFreePair
    <3>2. CASE left(q) = b \/ right(q) = b
      <4>1. IsParent(q, b)
        BY <3>2 DEF IsParent
      <4>2. left(q) \in Block /\ right(q) \in Block
        BY <2>1, <1>1, <1>4 DEF TypeOK
      <4>3. left(q) # right(q)
        <5>1. q \in Block
          BY <1>2
        <5>2. Halved(q)
          BY <4>2, <5>1, HalvedChild
        <5> QED BY <5>1, <5>2, BlockFacts DEF Halved
      <4>4. buddy(b, q) \in freeList
        BY <2>1, <3>2, <4>3, <1>1 DEF buddy
      <4>5. freeList \subseteq free
        BY DEF BuddyIInv, FreeListExact
      <4> QED BY <4>1, <4>4, <4>5, <1>1
    <3> QED BY <3>1, <3>2, <2>1, <1>1
  <2> QED BY <2>1, <1>1 DEF NoFreePair
<1>9. CurInv'
  BY <1>1 DEF CurInv, Idle
<1> QED BY <1>4, <1>5, <1>6, <1>7, <1>8, <1>9 DEF BuddyIInv

LEMMA BuddyStep ==
  ASSUME BuddyIInv, Next
  PROVE  BuddyIInv'
  BY AllocateStep, SplitStep, BuddyGiveStep, BuddyReleaseStep, JoinStep, SettleStep DEF Next, Step

LEMMA BuddyIInvHolds == Spec => []BuddyIInv
<1>1. Init => BuddyIInv
  BY InitInv
<1>2. ASSUME BuddyIInv, UNCHANGED vars PROVE BuddyIInv'
  <2>1. Leaves' = Leaves
    BY <1>2 DEF vars, Leaves, Inner
  <2> QED BY <1>2, <2>1 DEF vars, BuddyIInv, TypeOK, Nested, Covered, FreeAreLeaves, FreeListExact,
             HeldIsNamed, NoFreePair, CurInv, Below
<1> QED BY <1>1, <1>2, BuddyStep, PTL DEF Spec

\* For every memory size and smallest block, and whatever is asked for and
\* released: in every state, in the middle of a loop too, the free list is exactly
\* the free leaves, the leaves tile the memory, a process's block is in use and
\* bears its name, and between requests no two buddies are both free.
THEOREM BuddyCorrect == Spec => []BuddyInv
<1>1. BuddyIInv => BuddyInv
  <2> SUFFICES ASSUME BuddyIInv PROVE BuddyInv
    OBVIOUS
  <2>1. nodes \subseteq Block /\ Nested /\ Leaves \subseteq nodes
    BY DEF BuddyIInv, TypeOK, Leaves
  <2>2. ASSUME NEW x \in Address, NEW b \in Leaves, NEW c \in Leaves,
               x \in Cells(b), x \in Cells(c)
        PROVE  b = c
    <3>1. b \in Block /\ c \in Block
      BY <2>1
    <3>2. ~Apart(b, c)
      BY <2>2, <3>1, BlockFacts DEF Cells, Apart, Address
    <3> QED BY <2>1, <3>2, LeafAlone, BelowFacts
  <2>3. MemoryTiled
    BY <2>2 DEF BuddyIInv, Covered, MemoryTiled
  <2> QED BY <2>3 DEF BuddyIInv, BuddyInv, Consistent, Coalesced, NoFreePair
<1> QED BY <1>1, BuddyIInvHolds, PTL
-----------------------------------------------------------------------------
(* What the clients see *)

Want == [p \in Pid |-> IF cur.op = "split" /\ cur.pid = p THEN cur.size ELSE 0]
Owned == [p \in Pid |-> IF blockMap[p] = NULL THEN {} ELSE Cells(blockMap[p])]

\* Leaves do not overlap.
LEMMA LeavesApart ==
  ASSUME BuddyIInv, NEW b \in Leaves, NEW c \in Leaves, b # c
  PROVE  Cells(b) \cap Cells(c) = {}
<1>1. nodes \subseteq Block /\ Nested /\ b \in nodes /\ c \in nodes /\ b \in Block /\ c \in Block
  BY DEF BuddyIInv, TypeOK, Leaves
<1>2. Apart(b, c)
  BY <1>1, LeafAlone, BelowFacts
<1> QED BY <1>1, <1>2, BlockFacts DEF Cells, Apart

LEMMA AskStep ==
  ASSUME BuddyIInv, NEW p \in Pid, NEW n \in Request, allocateMemory(p, n)
  PROVE  Pool!Ask(p, n)
<1>1. cur = Idle /\ cur'.op = "split" /\ cur'.pid = p /\ cur'.size = n /\ blockMap' = blockMap
  BY DEF allocateMemory
<1>2. Want = [o \in Pid |-> 0]
  BY <1>1 DEF Want, Idle
<1>3. Want' = [Want EXCEPT ![p] = n]
  BY <1>1, <1>2 DEF Want
<1>4. Want[p] = 0 /\ Owned' = Owned
  BY <1>1, <1>2 DEF Owned
<1> QED BY <1>3, <1>4 DEF Pool!Ask, Want, Owned

LEMMA ObtainStep ==
  ASSUME BuddyIInv, allocateProcess
  PROVE  \E p \in Pid : Pool!Obtain(p, Owned'[p])
<1> DEFINE b == cur.block
           p == cur.pid
<1>1. /\ cur.op = "split" /\ blockMap' = [blockMap EXCEPT ![p] = b] /\ cur' = Idle
  BY DEF allocateProcess
<1>2. b \in Leaves /\ b \in free /\ p \in Pid /\ cur.size \in Nat /\ cur.size # 0
      /\ b.size >= cur.size /\ b \in Block
  BY <1>1, BuddyAssumption DEF BuddyIInv, CurInv, Leaves, TypeOK
<1>3. b # NULL
  BY <1>2, NullNoBlock
<1>4. Owned' = [Owned EXCEPT ![p] = Cells(b)]
  BY <1>1, <1>2, <1>3 DEF Owned, BuddyIInv, TypeOK, Cells
<1>5. Owned'[p] = Cells(b)
  BY <1>2, <1>4 DEF Owned
<1>6. Want[p] = cur.size /\ Want' = [Want EXCEPT ![p] = 0]
  BY <1>1, <1>2 DEF Want, Idle
<1>7. ASSUME NEW o \in Pid PROVE Cells(b) \cap Owned[o] = {}
  <2>1. CASE blockMap[o] = NULL
    BY <2>1 DEF Owned
  <2>2. CASE blockMap[o] # NULL
    <3>1. blockMap[o] \in Leaves \ free
      BY <2>2 DEF BuddyIInv, HeldIsNamed
    <3>2. blockMap[o] # b
      BY <3>1, <1>2
    <3>3. Cells(b) \cap Cells(blockMap[o]) = {}
      BY <3>1, <3>2, <1>2, LeavesApart
    <3> QED BY <2>2, <3>3 DEF Owned
  <2> QED BY <2>1, <2>2
<1>8. Cells(b) \cap UNION {Owned[o] : o \in Pid} = {}
  BY <1>7
<1>9. \E first, last \in Address : Cells(b) = first .. last /\ last - first + 1 >= Want[p]
  <2>1. b.start \in Nat /\ b.size \in Nat /\ b.size > 0 /\ b.start + b.size <= Upper /\ Upper \in Nat
    BY <1>2, BlockFacts, BuddyAssumption
  <2>2. b.start \in Address /\ b.start + b.size - 1 \in Address
    BY <2>1 DEF Address
  <2>3. (b.start + b.size - 1) - b.start + 1 >= Want[p]
    BY <2>1, <1>2, <1>6
  <2> DEFINE lo == b.start
             hi == b.start + b.size - 1
  <2>4. Cells(b) = lo .. hi
    BY DEF Cells
  <2>5. lo \in Address /\ hi \in Address
    BY <2>2
  <2>6. hi - lo + 1 >= Want[p]
    BY <2>3
  <2> HIDE DEF lo, hi
  <2> QED BY <2>4, <2>5, <2>6, Zenon
<1>10. Pool!Obtain(p, Owned'[p])
  <2> HIDE DEF b, p
  <2>1. Want[p] # 0
    BY <1>2, <1>6 DEF b, p
  <2>2. \E first, last \in Address : Owned'[p] = first .. last /\ last - first + 1 >= Want[p]
    BY <1>5, <1>9, Zenon
  <2>3. Owned'[p] \cap UNION {Owned[o] : o \in Pid} = {}
    BY <1>5, <1>8, Zenon
  <2>4. Owned' = [Owned EXCEPT ![p] = Owned'[p]] /\ Want' = [Want EXCEPT ![p] = 0]
    BY <1>4, <1>5, <1>6, Zenon
  <2> QED BY <2>1, <2>2, <2>3, <2>4, Zenon DEF Pool!Obtain, Pool!Held, Want, Owned
<1> HIDE DEF p
<1> QED BY <1>2, <1>10

LEMMA GiveBackStep ==
  ASSUME BuddyIInv, NEW p \in Pid, releaseProcess(p)
  PROVE  Pool!GiveBack(p)
<1>1. cur = Idle /\ cur'.op = "merge" /\ blockMap' = [blockMap EXCEPT ![p] = NULL]
  BY DEF releaseProcess
<1>2. Owned' = [Owned EXCEPT ![p] = {}]
  BY <1>1 DEF Owned, BuddyIInv, TypeOK, Cells
<1>3. Want' = Want
  BY <1>1 DEF Want, Idle
<1> QED BY <1>2, <1>3 DEF Pool!GiveBack, Want, Owned

\* The rounds of the loops show nothing to the clients.
LEMMA LoopStep ==
  ASSUME BuddyIInv, split \/ merge \/ settle
  PROVE  Want' = Want /\ Owned' = Owned
<1>1. blockMap' = blockMap
  BY DEF split, merge, settle
<1>2. cur'.op = "split" <=> cur.op = "split"
  BY DEF split, merge, settle, Idle, BuddyIInv, TypeOK
<1>3. cur.op = "split" => cur'.pid = cur.pid /\ cur'.size = cur.size
  BY DEF split, merge, settle, Idle, BuddyIInv, TypeOK
<1> QED BY <1>1, <1>2, <1>3 DEF Want, Owned, Cells

\* The allocator implements a pool of memory: what a client gets is at least what
\* it asked for, is memory, and belongs to nobody, though the block was cut out
\* of a larger one and may be joined with others when it comes back.
THEOREM BuddyIsPool == Spec => IsPool
<1>1. Init => Pool!PInit
  BY DEF Init, Pool!PInit, Idle
<1>2. ASSUME BuddyIInv, [Next]_vars PROVE [Pool!PNext]_(Pool!pvars)
  <2>1. ASSUME NEW p \in Pid, NEW n \in Request, allocateMemory(p, n) PROVE Pool!PNext
    BY <1>2, <2>1, AskStep DEF Pool!PNext
  <2>2. ASSUME allocateProcess PROVE Pool!PNext
    BY <1>2, <2>2, ObtainStep DEF Pool!PNext, Owned
  <2>3. ASSUME NEW p \in Pid, releaseProcess(p) PROVE Pool!PNext
    BY <1>2, <2>3, GiveBackStep DEF Pool!PNext
  <2>4. ASSUME split \/ merge \/ settle PROVE UNCHANGED Pool!pvars
    BY <1>2, <2>4, LoopStep DEF Pool!pvars, Want, Owned
  <2>5. ASSUME UNCHANGED vars PROVE UNCHANGED Pool!pvars
    BY <2>5 DEF Pool!pvars, vars
  <2> QED BY <1>2, <2>1, <2>2, <2>3, <2>4, <2>5 DEF Next, Step
<1> QED BY <1>1, <1>2, BuddyIInvHolds, PTL DEF Spec, IsPool, Pool!PSpec
-----------------------------------------------------------------------------
(* Shared memory: the inductive invariant *)

Early(p)  == pc[p] \in {"unborn", "attach"}
Inside(p) == pc[p] \in {"blur", "read", "write", "sem_post"}
Ended(p)  == pc[p] \in {"open", "close", "remove", "exited"}

\* B has not finished to blur; B has copied everything back.
Blurring == pc["B"] \in {"unborn", "attach", "sem_wait", "blur", "sem_post"}
Copied   == pc["B"] \in {"fork H", "wait", "open", "close", "remove", "exited"}

\* What each process is made of.
Types ==
  /\ pc \in [Process -> Label] /\ key \in 0 .. 2 /\ at \in [Process -> 0 .. 2]
  /\ sem \in 0 .. 1 /\ pos \in [Process -> Pixel \cup {NoPixel}]
  /\ DOMAIN colour = Process /\ DOMAIN tmatrix = Pixel
  /\ DOMAIN seg = 1 .. 2 /\ DOMAIN seg[1] = Pixel /\ DOMAIN seg[2] = Pixel

\* Where its loop is when it is at each label.
Where(p) ==
  /\ Early(p) <=> at[p] = 0
  /\ Early(p) => pos[p] = Origin
  /\ pc[p] = "sem_wait" => pos[p] # NoPixel /\ pos[p][2] = 0
  /\ pc[p] \in {"blur", "read", "write", "copy"} => pos[p] # NoPixel
  /\ pc[p] = "sem_post" => pos[p][2] = 0
  /\ (p # "B" /\ Ended(p)) => pos[p] = NoPixel

Places ==
  /\ pc["P"] \in {"fork B", "fork G", "wait", "open", "close", "remove", "exited"}
  /\ pc["B"] \notin {"fork B", "fork G", "read", "write"}
  /\ \A p \in {"G", "H"} : pc[p] \notin {"fork B", "fork G", "fork H", "blur", "copy", "wait"}
  /\ \A p \in Worker : Where(p)

\* Who has been forked, and who has been waited for.
Family ==
  /\ pc["P"] = "fork B" => pc["B"] = "unborn"
  /\ pc["P"] \in {"fork B", "fork G"} => pc["G"] = "unborn"
  /\ Ended("P") => pc["B"] = "exited" /\ pc["G"] = "exited"
  /\ pc["H"] = "unborn" <=> (Blurring \/ pc["B"] \in {"copy", "fork H"})
  /\ Ended("B") => pc["H"] = "exited"

Semaphore ==
  /\ sem = 1 <=> \A p \in Worker : ~Inside(p)
  /\ \A p \in Worker, o \in Worker : (Inside(p) /\ Inside(o)) => p = o

Output == pc["P"] \in {"remove", "exited"} => file = "whole"

\* Which segment G and B work on: at least one of them on the first.
Segments ==
  /\ key # 1 => pc["G"] = "exited" \/ Copied
  /\ at["G"] = 2 => at["B"] = 1 /\ Copied
  /\ at["B"] = 2 => at["G"] = 1 /\ pc["G"] = "exited"

\* The pixels before y in the loops over the rows, and in the copy back.
Before(x, y)     == x[1] < y[1] \/ (x[1] = y[1] /\ x[2] < y[2])
BeforeBack(x, y) == x[1] > y[1] \/ (x[1] = y[1] /\ x[2] < y[2])

Transformed(c) == IsGray(c) \/ IsBlurred(c)
Touched(x) == Transformed(seg[1][x])

\* What G has converted, what B has blurred, and what it has copied back.
Progress ==
  /\ at["G"] = 1 => \A x \in Pixel : Before(x, pos["G"]) => Touched(x)
  /\ \A x \in Pixel : (Blurring => Before(x, pos["B"])) => IsBlurred(tmatrix[x])
  /\ (at["B"] = 1 /\ pc["B"] = "copy") => \A x \in Pixel : BeforeBack(x, pos["B"]) => Touched(x)
  /\ (at["B"] = 1 /\ Copied) => \A x \in Pixel : Touched(x)

\* While B blurs, the first segment is what G makes of the input and the second
\* is as it was created.
Fresh ==
  Blurring =>
    /\ \A x \in Pixel : seg[2][x] = Zero
    /\ \A x \in Pixel : seg[1][x] = IF Before(x, pos["G"]) THEN grey_value(input[x]) ELSE input[x]
    /\ pc["G"] = "write" => colour["G"] = input[pos["G"]]

\* A row that B has seen as a whole, and the part of the row it is in.
SeenWhole(p) ==
  \E img \in {<<input>>, <<Gray(input)>>, <<Zeros>>} :
    \A q \in Cols : tmatrix[<<p, q>>] = blur_value(Colours(img[1], p, q))

RowsSeen ==
  /\ Blurring => \A p \in Rows : p < pos["B"][1] => SeenWhole(p)
  /\ pc["B"] \in {"copy", "fork H"} => \A p \in Rows : SeenWhole(p)
  /\ pc["B"] = "blur" =>
       \A q \in Cols : q < pos["B"][2] =>
         tmatrix[<<pos["B"][1], q>>] = blur_value(Colours(seg[at["B"]], pos["B"][1], q))

Places3 == Types /\ Places /\ Family
IInv == Places3 /\ Semaphore /\ Output /\ Segments /\ Progress /\ Fresh /\ RowsSeen
-----------------------------------------------------------------------------
(* Pixels *)

LEMMA Sizes ==
  /\ Height \in Nat /\ Height > 0 /\ Width \in Nat /\ Width > 0
  /\ Origin \in Pixel /\ Origin[1] = 0 /\ Origin[2] = 0
  /\ NoPixel[1] = Height /\ NoPixel[2] = 0 /\ NoPixel \notin Pixel
BY ImageAssumption DEF Pixel, Rows, Cols, Origin, NoPixel

LEMMA PixelIs ==
  ASSUME NEW x \in Pixel
  PROVE  /\ x[1] \in Nat /\ x[1] < Height /\ x[2] \in Nat /\ x[2] < Width
         /\ x[1] \in Rows /\ x[2] \in Cols /\ x = <<x[1], x[2]>>
BY ImageAssumption DEF Pixel, Rows, Cols

LEMMA PlaceIs ==
  ASSUME NEW y \in Pixel \cup {NoPixel}
  PROVE  /\ y[1] \in Nat /\ y[1] <= Height /\ y[2] \in Nat /\ y[2] < Width /\ y = <<y[1], y[2]>>
         /\ y[1] = Height <=> y = NoPixel
<1>1. CASE y \in Pixel
  BY <1>1, PixelIs, Sizes
<1>2. CASE y = NoPixel
  BY <1>2, Sizes DEF NoPixel
<1> QED BY <1>1, <1>2

LEMMA SamePixel ==
  ASSUME NEW x \in Pixel, NEW y \in Pixel, x[1] = y[1], x[2] = y[2]
  PROVE  x = y
BY PixelIs

LEMMA AfterIs ==
  ASSUME NEW y \in Pixel
  PROVE  /\ After(y) \in Pixel \cup {NoPixel}
         /\ \A x \in Pixel : Before(x, After(y)) <=> (Before(x, y) \/ x = y)
         /\ y[2] = Width - 1 => After(y)[1] = y[1] + 1 /\ After(y)[2] = 0
         /\ y[2] # Width - 1 => After(y) \in Pixel /\ After(y)[1] = y[1] /\ After(y)[2] = y[2] + 1
<1>0. y[1] \in Nat /\ y[1] < Height /\ y[2] \in Nat /\ y[2] < Width
  BY PixelIs
<1>1. CASE y[2] < Width - 1
  <2>1. After(y) = <<y[1], y[2] + 1>>
    BY <1>1 DEF After
  <2>2. After(y) \in Pixel
    BY <2>1, <1>0, <1>1, Sizes DEF Pixel, Rows, Cols
  <2>3. ASSUME NEW x \in Pixel PROVE Before(x, After(y)) <=> (Before(x, y) \/ x = y)
    <3>1. x[1] \in Nat /\ x[2] \in Nat
      BY PixelIs
    <3> QED BY <2>1, <1>0, <3>1, SamePixel DEF Before
  <2> QED BY <2>1, <2>2, <2>3, <1>0, <1>1, Sizes
<1>2. CASE y[2] = Width - 1
  <2>1. After(y) = <<y[1] + 1, 0>>
    BY <1>0, <1>2, Sizes DEF After
  <2>2. After(y) \in Pixel \cup {NoPixel}
    <3>1. CASE y[1] + 1 = Height
      BY <2>1, <3>1 DEF NoPixel
    <3>2. CASE y[1] + 1 # Height
      BY <2>1, <3>2, <1>0, Sizes DEF Pixel, Rows, Cols
    <3> QED BY <3>1, <3>2
  <2>3. ASSUME NEW x \in Pixel PROVE Before(x, After(y)) <=> (Before(x, y) \/ x = y)
    <3>1. x[1] \in Nat /\ x[2] \in Nat /\ x[2] < Width
      BY PixelIs
    <3> QED BY <2>1, <1>0, <1>2, <3>1, SamePixel, Sizes DEF Before
  <2> QED BY <2>1, <2>2, <2>3, <1>0, <1>2
<1> QED BY <1>0, <1>1, <1>2, Sizes

LEMMA BackIs ==
  ASSUME NEW y \in Pixel
  PROVE  /\ AfterBack(y) \in Pixel \cup {NoPixel}
         /\ AfterBack(y) # NoPixel =>
              \A x \in Pixel : BeforeBack(x, AfterBack(y)) => (BeforeBack(x, y) \/ x = y)
         /\ AfterBack(y) = NoPixel => \A x \in Pixel : BeforeBack(x, y) \/ x = y
<1>0. y[1] \in Nat /\ y[1] < Height /\ y[2] \in Nat /\ y[2] < Width
  BY PixelIs
<1>a. \A x \in Pixel : x[1] \in Nat /\ x[2] \in Nat /\ x[2] < Width
  BY PixelIs
<1>1. CASE y[2] < Width - 1
  <2>1. AfterBack(y) = <<y[1], y[2] + 1>>
    BY <1>1 DEF AfterBack
  <2>2. AfterBack(y) \in Pixel
    BY <2>1, <1>0, <1>1, Sizes DEF Pixel, Rows, Cols
  <2>3. ASSUME NEW x \in Pixel, BeforeBack(x, AfterBack(y)) PROVE BeforeBack(x, y) \/ x = y
    BY <2>1, <2>3, <1>0, <1>a, SamePixel DEF BeforeBack
  <2> QED BY <2>2, <2>3, Sizes
<1>2. CASE y[2] = Width - 1 /\ y[1] > 0
  <2>1. AfterBack(y) = <<y[1] - 1, 0>>
    BY <1>0, <1>2, Sizes DEF AfterBack
  <2>2. AfterBack(y) \in Pixel
    BY <2>1, <1>0, <1>2, Sizes DEF Pixel, Rows, Cols
  <2>3. ASSUME NEW x \in Pixel, BeforeBack(x, AfterBack(y)) PROVE BeforeBack(x, y) \/ x = y
    BY <2>1, <2>3, <1>0, <1>2, <1>a, SamePixel, Sizes DEF BeforeBack
  <2> QED BY <2>2, <2>3, Sizes
<1>3. CASE y[2] = Width - 1 /\ y[1] = 0
  <2>1. AfterBack(y) = NoPixel
    BY <1>0, <1>3, Sizes DEF AfterBack
  <2>2. ASSUME NEW x \in Pixel PROVE BeforeBack(x, y) \/ x = y
    BY <1>0, <1>3, <1>a, SamePixel, Sizes DEF BeforeBack
  <2> QED BY <2>1, <2>2
<1> QED BY <1>0, <1>1, <1>2, <1>3, Sizes

\* T2 reads a pixel's window from its own row.
LEMMA WindowInRow ==
  ASSUME NEW img, NEW other, NEW p \in Rows, NEW q \in Cols,
         \A c \in Cols : img[<<p, c>>] = other[<<p, c>>]
  PROVE  Colours(img, p, q) = Colours(other, p, q)
<1>1. q \in Nat /\ Window(q) \in Nat /\ q + Window(q) <= Width
  BY ImageAssumption DEF Cols, Window
<1>2. ASSUME NEW k \in 1 .. Window(q) PROVE img[<<p, q + k - 1>>] = other[<<p, q + k - 1>>]
  <2>1. q + k - 1 \in Cols
    BY <1>1, Sizes DEF Cols
  <2> QED BY <2>1
<1> QED BY <1>2 DEF Colours

LEMMA Terms ==
  ASSUME NEW c
  PROVE  IsGray(grey_value(c)) /\ IsBlurred(blur_value(c))
BY DEF IsGray, IsBlurred, grey_value, blur_value
-----------------------------------------------------------------------------
(* Parts of the invariant that every step of one process treats alike *)

\* Nobody but p moves.
OnlyMoves(p) ==
  \A o \in Process : o # p => (pc'[o] = pc[o] /\ at'[o] = at[o] /\ pos'[o] = pos[o])

LEMMA PlacesStep ==
  ASSUME IInv, NEW p \in Worker, OnlyMoves(p), Where(p)',
         p = "B" => pc'[p] \notin {"fork B", "fork G", "read", "write"},
         p # "B" => pc'[p] \notin {"fork B", "fork G", "fork H", "blur", "copy", "wait"}
  PROVE  Places'
<1>1. Places
  BY DEF IInv, Places3
<1>2. pc'["P"] = pc["P"]
  BY DEF OnlyMoves, Worker, Process
<1>3. pc'["B"] \notin {"fork B", "fork G", "read", "write"}
  BY <1>1 DEF OnlyMoves, Worker, Process, Places
<1>4. ASSUME NEW o \in {"G", "H"}
      PROVE  pc'[o] \notin {"fork B", "fork G", "fork H", "blur", "copy", "wait"}
  <2>1. CASE o = p
    BY <2>1
  <2>2. CASE o # p
    BY <2>2, <1>1 DEF OnlyMoves, Process, Places
  <2> QED BY <2>1, <2>2
<1>5. ASSUME NEW o \in Worker PROVE Where(o)'
  <2>1. CASE o = p
    BY <2>1
  <2>2. CASE o # p
    <3>0. o \in Process
      BY DEF Worker, Process
    <3>1. pc'[o] = pc[o] /\ at'[o] = at[o] /\ pos'[o] = pos[o]
      BY <2>2, <3>0 DEF OnlyMoves
    <3>2. Where(o)
      BY <1>1 DEF Places
    <3> QED BY <3>1, <3>2 DEF Where, Early, Ended
  <2> QED BY <2>1, <2>2
<1> QED BY <1>1, <1>2, <1>3, <1>4, <1>5 DEF Places

\* A process that stays inside or outside leaves the semaphore alone.
LEMMA SemaphoreStep ==
  ASSUME IInv, NEW p \in Process, OnlyMoves(p), p \in Worker => (Inside(p)' <=> Inside(p)), sem' = sem
  PROVE  Semaphore'
<1>1. ASSUME NEW o \in Worker PROVE Inside(o)' <=> Inside(o)
  BY DEF OnlyMoves, Inside, Worker, Process
<1> HIDE DEF Inside
<1> QED BY <1>1 DEF IInv, Semaphore

\* What a worker's place says of it.
LEMMA WorkerIs ==
  ASSUME IInv, NEW p \in Worker
  PROVE  /\ p \in Process /\ p # "P" /\ pc[p] \in Label /\ at[p] \in 0 .. 2
         /\ pos[p] \in Pixel \cup {NoPixel} /\ Where(p)
         /\ p = "B" => pc[p] \notin {"fork B", "fork G", "read", "write"}
         /\ p # "B" => pc[p] \notin {"fork B", "fork G", "fork H", "blur", "copy", "wait"}
<1>1. p \in Process /\ p # "P" /\ (p = "B" \/ p = "G" \/ p = "H")
  BY DEF Worker, Process
<1>2. pc[p] \in Label /\ at[p] \in 0 .. 2 /\ pos[p] \in Pixel \cup {NoPixel}
  BY <1>1 DEF IInv, Places3, Types
<1>3. Where(p)
  BY DEF IInv, Places3, Places
<1> QED BY <1>1, <1>2, <1>3 DEF IInv, Places3, Places

\* While B blurs, H is not born and a G that works is on the first segment.
LEMMA WhileBlurring ==
  ASSUME IInv, Blurring
  PROVE  /\ pc["H"] = "unborn" /\ ~Copied
         /\ at["G"] \in 0 .. 1
<1>1. ~Copied
  BY DEF Blurring, Copied
<1>2. at["G"] \in 0 .. 2
  BY DEF IInv, Places3, Types, Process
<1>3. at["G"] # 2
  BY <1>1 DEF IInv, Segments
<1>4. pc["H"] = "unborn"
  BY DEF IInv, Places3, Family
<1> QED BY <1>1, <1>2, <1>3, <1>4
-----------------------------------------------------------------------------
(* One lemma for each action *)

LEMMA ShmInitInv == ShmInit => IInv
<1> SUFFICES ASSUME ShmInit PROVE IInv
  OBVIOUS
<1>0. /\ pc = [p \in Process |-> IF p = "P" THEN "fork B" ELSE "unborn"]
      /\ DOMAIN colour = Process /\ DOMAIN tmatrix = Pixel
  BY DEF ShmInit
<1>a. at = [p \in Process |-> 0] /\ key = 1 /\ sem = 1
  BY DEF ShmInit
<1>b. pos = [p \in Process |-> Origin]
  BY DEF ShmInit
<1>1. /\ pc["P"] = "fork B" /\ pc["B"] = "unborn" /\ pc["G"] = "unborn" /\ pc["H"] = "unborn"
  BY <1>0 DEF Process
<1>c. at["G"] = 0 /\ at["B"] = 0 /\ at["H"] = 0
  BY <1>a DEF Process
<1>d. pos["B"] = Origin /\ pos["G"] = Origin /\ pos["H"] = Origin
  BY <1>b DEF Process
<1>2. seg[1] = input /\ seg[2] = [x \in Pixel |-> Zero] /\ DOMAIN seg = 1 .. 2
  <2> DEFINE a == input  b == [x \in Pixel |-> Zero]
  <2>1. seg = <<a, b>>
    BY DEF ShmInit
  <2> HIDE DEF a, b
  <2>2. seg[1] = a /\ seg[2] = b /\ DOMAIN seg = 1 .. 2
    BY <2>1
  <2> QED BY <2>2 DEF a, b
<1>3. Types
  <2>1. DOMAIN seg[1] = Pixel /\ DOMAIN seg[2] = Pixel /\ DOMAIN seg = 1 .. 2
    BY <1>2 DEF input
  <2>2. pc \in [Process -> Label]
    BY <1>0 DEF Label
  <2>3. at \in [Process -> 0 .. 2] /\ key \in 0 .. 2 /\ sem \in 0 .. 1
    BY <1>a
  <2>4. pos \in [Process -> Pixel \cup {NoPixel}]
    BY <1>b, Sizes
  <2>5. DOMAIN colour = Process /\ DOMAIN tmatrix = Pixel
    BY <1>0
  <2> QED BY <2>1, <2>2, <2>3, <2>4, <2>5 DEF Types
<1>4. Places /\ Family /\ Semaphore /\ Output /\ Segments
  <2>1. Places
    BY <1>1, <1>c, <1>d DEF Places, Where, Early, Ended, Worker
  <2>2. Family /\ Output
    BY <1>1 DEF Family, Output, Ended, Blurring
  <2>3. Semaphore
    BY <1>1, <1>a DEF Semaphore, Inside, Worker
  <2>4. Segments
    BY <1>a, <1>c DEF Segments
  <2> QED BY <2>1, <2>2, <2>3, <2>4
<1>5. \A x \in Pixel : ~Before(x, Origin)
  BY PixelIs, Sizes DEF Before
<1>6. Progress
  BY <1>1, <1>c, <1>d, <1>5 DEF Progress, Blurring, Copied
<1>7. Fresh
  BY <1>1, <1>d, <1>2, <1>5 DEF Fresh
<1>8. RowsSeen
  <2>1. pos["B"][1] = 0
    BY <1>d, Sizes
  <2>2. \A p \in Rows : ~(p < pos["B"][1])
    BY <2>1 DEF Rows
  <2> QED BY <2>2, <1>1 DEF RowsSeen
<1> QED BY <1>3, <1>4, <1>6, <1>7, <1>8 DEF IInv, Places3

\* fork moves two processes, and nothing else.
LEMMA ForkInv ==
  ASSUME IInv, forks
  PROVE  IInv'
<1>1. CASE fork("P", "fork B", "B", "fork G")
  <2> USE <1>1 DEF fork
  <2>1. Types'
    BY DEF IInv, Places3, Types, Label, Process
  <2>2. /\ pc'["P"] = "fork G" /\ pc'["B"] = "attach" /\ pc'["G"] = pc["G"] /\ pc'["H"] = pc["H"]
        /\ pc["B"] = "unborn" /\ pc["P"] = "fork B"
    BY DEF IInv, Places3, Types, Process, Family
  <2>3. Places' /\ Family' /\ Semaphore' /\ Output'
    <3>1. Places'
      BY <2>2 DEF IInv, Places3, Places, Where, Early, Ended, Worker
    <3>2. Family' /\ Output'
      BY <2>2 DEF IInv, Places3, Places, Family, Output, Ended, Blurring
    <3>3. Semaphore'
      BY <2>2 DEF IInv, Semaphore, Inside, Worker
    <3> QED BY <3>1, <3>2, <3>3
  <2>4. Segments' /\ Progress' /\ Fresh' /\ RowsSeen'
    BY <2>2 DEF IInv, Segments, Progress, Fresh, RowsSeen, SeenWhole, Blurring, Copied, Touched
  <2> QED BY <2>1, <2>3, <2>4 DEF IInv, Places3
<1>2. CASE fork("P", "fork G", "G", "wait")
  <2> USE <1>2 DEF fork
  <2>1. Types'
    BY DEF IInv, Places3, Types, Label, Process
  <2>2. /\ pc'["P"] = "wait" /\ pc'["G"] = "attach" /\ pc'["B"] = pc["B"] /\ pc'["H"] = pc["H"]
        /\ pc["G"] = "unborn" /\ pc["P"] = "fork G"
    BY DEF IInv, Places3, Types, Process, Family
  <2>3. Places' /\ Family' /\ Semaphore' /\ Output'
    <3>1. Places'
      BY <2>2 DEF IInv, Places3, Places, Where, Early, Ended, Worker
    <3>2. Family' /\ Output'
      BY <2>2 DEF IInv, Places3, Places, Family, Output, Ended, Blurring
    <3>3. Semaphore'
      BY <2>2 DEF IInv, Semaphore, Inside, Worker
    <3> QED BY <3>1, <3>2, <3>3
  <2>4. Segments' /\ Progress' /\ Fresh' /\ RowsSeen'
    BY <2>2 DEF IInv, Segments, Progress, Fresh, RowsSeen, SeenWhole, Blurring, Copied, Touched
  <2> QED BY <2>1, <2>3, <2>4 DEF IInv, Places3
<1>3. CASE fork("B", "fork H", "H", "wait")
  <2> USE <1>3 DEF fork
  <2>1. Types'
    BY DEF IInv, Places3, Types, Label, Process
  <2>2. /\ pc'["B"] = "wait" /\ pc'["H"] = "attach" /\ pc'["P"] = pc["P"] /\ pc'["G"] = pc["G"]
        /\ pc["H"] = "unborn" /\ pc["B"] = "fork H"
    BY DEF IInv, Places3, Types, Process, Family
  <2>3. Places' /\ Family' /\ Semaphore' /\ Output'
    <3>1. Places'
      BY <2>2 DEF IInv, Places3, Places, Where, Early, Ended, Worker
    <3>2. Family' /\ Output'
      BY <2>2 DEF IInv, Places3, Places, Family, Output, Ended, Blurring
    <3>3. Semaphore'
      BY <2>2 DEF IInv, Semaphore, Inside, Worker
    <3> QED BY <3>1, <3>2, <3>3
  <2>4. Segments' /\ Progress' /\ Fresh' /\ RowsSeen'
    BY <2>2 DEF IInv, Segments, Progress, Fresh, RowsSeen, SeenWhole, Blurring, Copied, Touched
  <2> QED BY <2>1, <2>3, <2>4 DEF IInv, Places3
<1> QED BY <1>1, <1>2, <1>3 DEF forks

LEMMA AttachInv ==
  ASSUME IInv, NEW p \in Process, attach(p)
  PROVE  IInv'
<1>1. /\ pc[p] = "attach" /\ pc' = [pc EXCEPT ![p] = "sem_wait"]
      /\ key' = (IF key = 0 THEN 2 ELSE key) /\ at' = [at EXCEPT ![p] = key']
      /\ UNCHANGED <<seg, sem, pos, colour, tmatrix, file>>
  BY DEF attach, Go
<1>2. p \in Worker /\ pos[p] = Origin
  <2>1. p # "P"
    BY <1>1 DEF IInv, Places3, Places
  <2>2. p \in Worker
    BY <2>1 DEF Process, Worker
  <2> QED BY <2>2, <1>1, WorkerIs DEF Where, Early
<1>a. key \in 0 .. 2 /\ key' \in 1 .. 2 /\ (key' = 1 <=> key = 1)
  <2>1. key \in 0 .. 2
    BY DEF IInv, Places3, Types
  <2> QED BY <1>1, <2>1
<1>3. Types'
  <2>1. pc' \in [Process -> Label]
    BY <1>1 DEF IInv, Places3, Types, Label
  <2>2. at' \in [Process -> 0 .. 2] /\ key' \in 0 .. 2
    BY <1>1, <1>a DEF IInv, Places3, Types
  <2> QED BY <1>1, <2>1, <2>2 DEF IInv, Places3, Types
<1>4. /\ \A o \in Process : o # p => pc'[o] = pc[o] /\ at'[o] = at[o]
      /\ pc'[p] = "sem_wait" /\ at'[p] = key' /\ at'[p] # 0
      /\ OnlyMoves(p)
  BY <1>1, <1>a DEF IInv, Places3, Types, OnlyMoves
<1>5. Places'
  <2>1. Origin # NoPixel /\ Origin[2] = 0
    BY Sizes
  <2>2. Where(p)'
    BY <2>1, <1>1, <1>2, <1>4 DEF Where, Early, Ended
  <2> QED BY <2>2, <1>2, <1>4, PlacesStep
<1>b. Family' /\ Output'
  BY <1>1, <1>2, <1>4 DEF IInv, Places3, Family, Output, Ended, Blurring, Worker, Process
<1>c. Semaphore'
  BY <1>1, <1>4, SemaphoreStep DEF Inside
<1>6. Segments'
  <2>0. /\ key # 1 => pc["G"] = "exited" \/ Copied
        /\ at["G"] = 2 => at["B"] = 1 /\ Copied
        /\ at["B"] = 2 => at["G"] = 1 /\ pc["G"] = "exited"
        /\ at["G"] \in 0 .. 2 /\ at["B"] \in 0 .. 2
        /\ pc["G"] \in {"unborn", "attach"} <=> at["G"] = 0
        /\ pc["B"] \in {"unborn", "attach"} <=> at["B"] = 0
    BY DEF IInv, Places3, Places, Where, Types, Segments, Early, Worker, Process
  <2>a. "G" \in Process /\ "B" \in Process /\ "H" \in Process
    BY DEF Process
  <2>1. CASE p = "G"
    <3>1. pc'["B"] = pc["B"] /\ at'["B"] = at["B"] /\ pc'["G"] = "sem_wait" /\ at'["G"] = key'
          /\ pc["G"] = "attach"
      BY <2>1, <1>1, <1>4, <2>a
    <3>2. at["G"] = 0 /\ at["B"] # 2
      BY <3>1, <2>0
    <3>3. Copied' = Copied
      BY <3>1 DEF Copied
    <3>4. key # 1 => Copied
      BY <3>1, <2>0
    <3>5. Copied => at["B"] # 0
      BY <2>0 DEF Copied
    <3>6. key # 1 => at["B"] = 1
      BY <3>4, <3>5, <3>2, <2>0
    <3> QED BY <3>1, <3>2, <3>3, <3>4, <3>6, <1>a DEF Segments
  <2>2. CASE p = "B"
    <3>1. pc'["G"] = pc["G"] /\ at'["G"] = at["G"] /\ pc'["B"] = "sem_wait" /\ at'["B"] = key'
          /\ pc["B"] = "attach"
      BY <2>2, <1>1, <1>4, <2>a
    <3>2. at["B"] = 0 /\ at["G"] # 2 /\ ~Copied
      BY <3>1, <2>0 DEF Copied
    <3>3. key # 1 => pc["G"] = "exited" /\ at["G"] = 1
      BY <3>1, <3>2, <2>0
    <3> QED BY <3>1, <3>2, <3>3, <1>a DEF Segments
  <2>3. CASE p = "H"
    <3>1. pc'["G"] = pc["G"] /\ at'["G"] = at["G"] /\ pc'["B"] = pc["B"] /\ at'["B"] = at["B"]
      BY <2>3, <1>4, <2>a
    <3> QED BY <3>1, <2>0, <1>a DEF Segments, Copied
  <2> QED BY <2>1, <2>2, <2>3, <1>2 DEF Worker
<1>7. \A x \in Pixel : ~Before(x, Origin)
  BY PixelIs, Sizes DEF Before
<1>8. Progress'
  BY <1>1, <1>2, <1>4, <1>7 DEF IInv, Progress, Blurring, Copied, Touched, Worker, Process
<1>9. Fresh' /\ RowsSeen'
  BY <1>1, <1>2, <1>4 DEF IInv, Fresh, RowsSeen, SeenWhole, Blurring, Worker, Process
<1> QED BY <1>3, <1>5, <1>b, <1>c, <1>6, <1>8, <1>9 DEF IInv, Places3

\* A step of p that changes only pc[p], and leaves all of IInv that is not
\* about the place of p alone.
LEMMA QuietInv ==
  ASSUME IInv, NEW p \in Process, NEW next \in Label, pc' = [pc EXCEPT ![p] = next],
         UNCHANGED <<seg, at, sem, pos, colour, tmatrix>>,
         key' \in 0 .. 2, key' # key => pc[p] = "remove",
         \/ pc[p] = "wait" /\ next = "open" /\ \A c \in Children(p) : pc[c] = "exited"
         \/ pc[p] = "open" /\ next = "close"
         \/ pc[p] = "close" /\ next = "remove" /\ file' = IF Alone(p) THEN "whole" ELSE "torn"
         \/ pc[p] = "remove" /\ next = "exited" /\ file' = file
  PROVE  IInv'
<1>1. /\ \A o \in Process : o # p => pc'[o] = pc[o]
      /\ pc'[p] = next /\ OnlyMoves(p)
      /\ next \in {"open", "close", "remove", "exited"}
      /\ pc[p] \in {"wait", "open", "close", "remove"}
  BY DEF IInv, Places3, Types, OnlyMoves
<1>2. Types'
  BY DEF IInv, Places3, Types
<1>3. pc[p] = "wait" => (p = "P" /\ Children(p) = {"B", "G"}) \/ (p = "B" /\ Children(p) = {"H"})
  BY DEF IInv, Places3, Places, Children, Process
<1>4. Places' /\ Family'
  <2>1. Places'
    <3>1. CASE p = "P"
      <4>1. pc'["B"] = pc["B"] /\ pc'["G"] = pc["G"] /\ pc'["H"] = pc["H"]
            /\ pc'["P"] \in {"open", "close", "remove", "exited"}
        BY <3>1, <1>1 DEF Process
      <4>2. ASSUME NEW o \in Worker PROVE Where(o)'
        <5>1. pc'[o] = pc[o] /\ Where(o)
          BY <4>1, WorkerIs DEF Worker
        <5> QED BY <5>1 DEF Where, Early, Ended
      <4>3. Places
        BY DEF IInv, Places3
      <4> QED BY <4>1, <4>2, <4>3 DEF Places
    <3>2. CASE p # "P"
      <4>1. p \in Worker
        BY <3>2 DEF Process, Worker
      <4>2. Where(p) /\ (p # "B" => pc[p] # "wait")
        BY <4>1, WorkerIs
      <4>3. Where(p)'
        BY <4>2, <1>1 DEF Where, Early, Ended
      <4> QED BY <4>1, <4>3, <1>1, PlacesStep
    <3> QED BY <3>1, <3>2
  <2>2. CASE p = "P"
    BY <1>1, <1>3, <2>1, <2>2 DEF IInv, Places3, Family, Ended, Blurring, Process
  <2>3. CASE p = "B"
    BY <1>1, <1>3, <2>1, <2>3 DEF IInv, Places3, Family, Ended, Blurring, Process
  <2>4. CASE p = "G"
    BY <1>1, <1>3, <2>1, <2>4 DEF IInv, Places3, Family, Ended, Blurring, Process
  <2>5. CASE p = "H"
    BY <1>1, <1>3, <2>1, <2>5 DEF IInv, Places3, Family, Ended, Blurring, Process
  <2> QED BY <2>1, <2>2, <2>3, <2>4, <2>5 DEF Process
<1>5. Semaphore'
  BY <1>1, SemaphoreStep DEF Inside
<1>6. Output'
  <2>1. CASE p = "P"
    <3>1. pc["P"] = "close" => Alone("P")
      BY DEF IInv, Places3, Family, Ended, Alone, Process
    <3> QED BY <2>1, <3>1, <1>1 DEF IInv, Output
  <2>2. CASE p # "P"
    <3>1. ~Ended("P")
      BY <2>2 DEF IInv, Places3, Family, Places, Ended, Process
    <3> QED BY <2>2, <3>1, <1>1 DEF Output, Ended, Process
  <2> QED BY <2>1, <2>2
<1>7. Segments'
  <2>1. Copied => Copied'
    BY <1>1 DEF Copied, Process
  <2>2. pc["G"] = "exited" => pc'["G"] = "exited"
    BY <1>1 DEF Process
  <2>3. pc[p] = "remove" => pc'["G"] = "exited" \/ Copied'
    <3>1. p = "P" /\ pc[p] = "remove" => pc["G"] = "exited"
      BY DEF IInv, Places3, Family, Ended
    <3>2. p = "H" /\ pc[p] = "remove" => Copied
      BY DEF IInv, Places3, Family, Blurring, Places, Copied, Types, Process, Label
    <3> QED BY <1>1, <2>1, <2>2, <3>1, <3>2 DEF Process, Copied
  <2> QED BY <2>1, <2>2, <2>3 DEF IInv, Segments
<1>8. Progress' /\ Fresh' /\ RowsSeen'
  BY <1>1, <1>3 DEF IInv, Progress, Fresh, RowsSeen, SeenWhole, Blurring, Copied, Touched, Process
<1> QED BY <1>2, <1>4, <1>5, <1>6, <1>7, <1>8 DEF IInv, Places3

\* wait, open, close and remove.
LEMMA EndInv ==
  ASSUME IInv, NEW p \in Process, wait(p) \/ open(p) \/ close(p) \/ remove(p)
  PROVE  IInv'
<1>0. key \in 0 .. 2
  BY DEF IInv, Places3, Types
<1>1. CASE wait(p)
  <2>1. pc[p] = "wait" /\ (\A c \in Children(p) : pc[c] = "exited") /\ pc' = [pc EXCEPT ![p] = "open"]
        /\ UNCHANGED <<seg, key, at, sem, pos, colour, tmatrix, file>>
    BY <1>1 DEF wait, wait_for, Go
  <2>2. "open" \in Label
    BY DEF Label
  <2> QED BY <1>0, <2>1, <2>2, QuietInv
<1>2. CASE open(p)
  <2>1. pc[p] = "open" /\ pc' = [pc EXCEPT ![p] = "close"]
        /\ UNCHANGED <<seg, key, at, sem, pos, colour, tmatrix>>
    BY <1>2 DEF open, Go
  <2>2. "close" \in Label
    BY DEF Label
  <2> QED BY <1>0, <2>1, <2>2, QuietInv
<1>3. CASE close(p)
  <2>1. pc[p] = "close" /\ pc' = [pc EXCEPT ![p] = "remove"]
        /\ file' = (IF Alone(p) THEN "whole" ELSE "torn")
        /\ UNCHANGED <<seg, key, at, sem, pos, colour, tmatrix>>
    BY <1>3 DEF close, Go
  <2>2. "remove" \in Label
    BY DEF Label
  <2> QED BY <1>0, <2>1, <2>2, QuietInv
<1>4. CASE remove(p)
  <2>1. pc[p] = "remove" /\ pc' = [pc EXCEPT ![p] = "exited"]
        /\ UNCHANGED <<seg, at, sem, pos, colour, tmatrix, file>>
    BY <1>4 DEF remove, Go
  <2>2. "exited" \in Label
    BY DEF Label
  <2>3. key' \in 0 .. 2
    BY <1>0, <1>4 DEF remove
  <2> QED BY <2>1, <2>2, <2>3, QuietInv
<1> QED BY <1>1, <1>2, <1>3, <1>4

\* A T1 at work, and B while it blurs: what their steps leave alone.
LEMMA GrayFamily ==
  ASSUME IInv, NEW p \in {"G", "H"}, OnlyMoves(p),
         pc[p] \in {"sem_wait", "read", "write", "sem_post"},
         pc'[p] \in {"sem_wait", "read", "write", "sem_post", "open"},
         at' = at, key' = key, file' = file
  PROVE  /\ Family' /\ Output' /\ Segments'
         /\ Copied' = Copied /\ Blurring' = Blurring /\ pc'["B"] = pc["B"] /\ pos'["B"] = pos["B"]
<1>1. pc'["P"] = pc["P"] /\ pc'["B"] = pc["B"] /\ pos'["B"] = pos["B"]
  BY DEF OnlyMoves, Process
<1>2. Family /\ Output /\ Segments
  BY DEF IInv, Places3
<1>3. Copied' = Copied /\ Blurring' = Blurring
  BY <1>1 DEF Copied, Blurring
<1>4. CASE p = "G"
  <2>1. pc'["H"] = pc["H"] /\ pc["G"] \notin {"unborn", "exited"} /\ pc'["G"] \notin {"unborn", "exited"}
    BY <1>4 DEF OnlyMoves, Process
  <2>2. ~Ended("P") /\ pc["P"] \notin {"fork B", "fork G"}
    BY <2>1, <1>2 DEF Family
  <2>3. Family' /\ Output'
    BY <1>1, <1>2, <1>3, <2>1, <2>2 DEF Family, Output, Ended
  <2>4. Segments'
    BY <1>2, <1>3, <2>1 DEF Segments
  <2> QED BY <1>1, <1>3, <2>3, <2>4
<1>5. CASE p = "H"
  <2>1. pc'["G"] = pc["G"] /\ pc["H"] \notin {"unborn", "exited"} /\ pc'["H"] \notin {"unborn", "exited"}
    BY <1>5 DEF OnlyMoves, Process
  <2>2. ~Ended("B")
    BY <2>1, <1>2 DEF Family
  <2>3. Family' /\ Output'
    BY <1>1, <1>2, <1>3, <2>1, <2>2 DEF Family, Output, Ended
  <2>4. Segments'
    BY <1>2, <1>3, <2>1 DEF Segments
  <2> QED BY <1>1, <1>3, <2>3, <2>4
<1> QED BY <1>4, <1>5

LEMMA BlurFamily ==
  ASSUME IInv, OnlyMoves("B"),
         pc["B"] \in {"sem_wait", "blur", "sem_post", "copy"},
         pc'["B"] \in {"sem_wait", "blur", "sem_post", "copy", "fork H"},
         at' = at, key' = key, file' = file
  PROVE  Family' /\ Output' /\ Segments'
<1>1. pc'["P"] = pc["P"] /\ pc'["G"] = pc["G"] /\ pc'["H"] = pc["H"]
  BY DEF OnlyMoves, Process
<1>2. Family /\ Output /\ Segments
  BY DEF IInv, Places3
<1>3. pc["H"] = "unborn" /\ ~Ended("B")
  BY <1>2 DEF Family, Blurring, Ended
<1>4. ~Ended("P") /\ pc["P"] # "fork B"
  BY <1>2 DEF Family
<1>5. Blurring' \/ pc'["B"] \in {"copy", "fork H"}
  BY DEF Blurring
<1>6. ~Ended("B")'
  BY DEF Ended
<1>7. Family'
  BY <1>1, <1>2, <1>3, <1>4, <1>5, <1>6 DEF Family, Ended
<1>8. Output'
  BY <1>1, <1>2 DEF Output
<1>9. Segments'
  <2>1. ~Copied
    BY DEF Copied
  <2> QED BY <1>1, <1>2, <2>1 DEF Segments
<1> QED BY <1>7, <1>8, <1>9

LEMMA SemWaitInv ==
  ASSUME IInv, NEW p \in Process, sem_wait(p)
  PROVE  IInv'
<1> DEFINE next == IF p = "B" THEN "blur" ELSE "read"
<1>1. /\ pc[p] = "sem_wait" /\ pc' = [pc EXCEPT ![p] = next]
      /\ UNCHANGED <<seg, key, at, pos, colour, tmatrix, file>>
  BY DEF sem_wait, Go
<1>2. sem > 0 /\ sem' = sem - 1
  BY DEF sem_wait
<1>3. sem = 1 /\ sem' = 0
  <2>1. sem \in 0 .. 1
    BY DEF IInv, Places3, Types
  <2> QED BY <1>2, <2>1
<1>4. p \in Worker
  <2>1. p # "P"
    BY <1>1 DEF IInv, Places3, Places
  <2> QED BY <2>1 DEF Process, Worker
<1>5. next \in Label
  BY DEF Label
<1>6. pc'[p] = next /\ OnlyMoves(p)
  BY <1>1 DEF IInv, Places3, Types, OnlyMoves
<1>7. Types'
  <2>1. pc' \in [Process -> Label]
    BY <1>1, <1>5 DEF IInv, Places3, Types
  <2>2. sem' \in 0 .. 1
    BY <1>3
  <2> QED BY <1>1, <2>1, <2>2 DEF IInv, Places3, Types
<1>8. Places'
  <2>1. Where(p)
    BY <1>4, WorkerIs
  <2>2. pos'[p] = pos[p] /\ at'[p] = at[p]
    BY <1>1
  <2>3. Where(p)'
    BY <2>1, <2>2, <1>1, <1>6 DEF Where, Early, Ended
  <2> QED BY <1>4, <1>6, <2>3, PlacesStep
<1>9. Semaphore'
  <2>1. \A o \in Worker : ~Inside(o)
    BY <1>3 DEF IInv, Semaphore
  <2>2. ASSUME NEW o \in Worker PROVE Inside(o)' <=> o = p
    <3>1. CASE o = p
      BY <3>1, <1>6 DEF Inside
    <3>2. CASE o # p
      <4>1. o \in Process
        BY DEF Worker, Process
      <4>2. pc'[o] = pc[o]
        BY <3>2, <4>1, <1>6 DEF OnlyMoves
      <4>3. ~Inside(o)
        BY <2>1
      <4> QED BY <3>2, <4>2, <4>3 DEF Inside
    <3> QED BY <3>1, <3>2
  <2>3. sem' # 1
    BY <1>3
  <2> QED BY <1>4, <2>2, <2>3 DEF Semaphore
<1>10. CASE p = "B"
  <2>1. pc'["B"] = "blur" /\ pc["B"] = "sem_wait" /\ pc'["G"] = pc["G"]
    BY <1>10, <1>1, <1>6 DEF OnlyMoves, Process
  <2>2. Family' /\ Output' /\ Segments'
    BY <1>1, <1>6, <1>10, <2>1, BlurFamily
  <2>3. Blurring /\ Blurring' /\ ~Copied /\ ~Copied'
    BY <2>1 DEF Blurring, Copied
  <2>4. Progress' /\ Fresh'
    BY <1>1, <2>1, <2>3 DEF IInv, Progress, Fresh, Touched
  <2>5. RowsSeen'
    <3>1. pos["B"][2] = 0
      BY <1>10, <1>4, <2>1, WorkerIs DEF Where
    <3>2. \A q \in Cols : ~(q < pos["B"][2])
      BY <3>1 DEF Cols
    <3> QED BY <1>1, <2>1, <2>3, <3>2 DEF IInv, RowsSeen, SeenWhole
  <2> QED BY <1>7, <1>8, <1>9, <2>2, <2>4, <2>5 DEF IInv, Places3
<1>11. CASE p # "B"
  <2>1. p \in {"G", "H"}
    BY <1>4, <1>11 DEF Worker
  <2>2. Family' /\ Output' /\ Segments' /\ Copied' = Copied /\ Blurring' = Blurring /\ pc'["B"] = pc["B"]
    BY <1>1, <1>6, <1>11, <2>1, GrayFamily
  <2>3. pc'["G"] = pc["G"] \/ pc'["G"] = "read"
    BY <1>6, <1>11, <2>1 DEF OnlyMoves, Process
  <2>4. Progress' /\ RowsSeen'
    BY <1>1, <2>2 DEF IInv, Progress, RowsSeen, SeenWhole, Touched
  <2>5. Fresh'
    BY <1>1, <2>2, <2>3 DEF IInv, Fresh
  <2> QED BY <1>7, <1>8, <1>9, <2>2, <2>4, <2>5 DEF IInv, Places3
<1> QED BY <1>10, <1>11

LEMMA SemPostInv ==
  ASSUME IInv, NEW p \in Process, sem_post(p)
  PROVE  IInv'
<1> DEFINE next == IF pos[p][1] < Height THEN "sem_wait" ELSE IF p = "B" THEN "copy" ELSE "open"
           back == pos[p][1] >= Height /\ p = "B"
           last == <<Height - 1, 0>>
<1>1. p \in Worker
  <2>1. p # "P"
    BY DEF IInv, Places3, Places, sem_post
  <2> QED BY <2>1 DEF Process, Worker
<1>2. pos[p] \in Pixel \cup {NoPixel} /\ Where(p) /\ p \in Process
  BY <1>1, WorkerIs
<1>3. pos[p][1] \in Nat /\ pos[p][1] <= Height /\ (pos[p][1] = Height <=> pos[p] = NoPixel) /\ Height \in Nat
  BY <1>2, PlaceIs, Sizes
<1>4. /\ pc[p] = "sem_post" /\ pc' = [pc EXCEPT ![p] = next]
      /\ pos' = (IF back THEN [pos EXCEPT ![p] = last] ELSE pos)
      /\ sem' = sem + 1
      /\ UNCHANGED <<seg, key, at, colour, tmatrix, file>>
  BY <1>3 DEF sem_post, Go
<1>5. last \in Pixel /\ last # NoPixel /\ last[1] = Height - 1 /\ last[2] = 0
  <2>1. last \in Pixel
    BY Sizes DEF Pixel, Rows, Cols
  <2> QED BY <2>1, Sizes
<1>a. next \in Label /\ next \in {"sem_wait", "copy", "open"}
  BY DEF Label
<1>b. next = "sem_wait" => pos[p] # NoPixel /\ ~back
  BY <1>3, Sizes
<1>c. next # "sem_wait" => pos[p] = NoPixel /\ (p = "B" => next = "copy" /\ back) /\ (p # "B" => next = "open" /\ ~back)
  BY <1>3
<1> HIDE DEF next, back, last
<1>6. pc'[p] = next /\ OnlyMoves(p) /\ at'[p] = at[p] /\ pos'[p] = (IF back THEN last ELSE pos[p])
  BY <1>2, <1>4 DEF IInv, Places3, Types, OnlyMoves
<1>7. Semaphore' /\ sem' = 1
  <2>1. Inside(p) /\ ~Inside(p)'
    BY <1>4, <1>6, <1>a DEF Inside
  <2>2. sem \in 0 .. 1 /\ sem # 1
    BY <2>1, <1>1 DEF IInv, Places3, Types, Semaphore
  <2>3. sem' = 1
    BY <2>2, <1>4
  <2>4. ASSUME NEW o \in Worker PROVE ~Inside(o)'
    <3>1. CASE o = p
      BY <3>1, <2>1
    <3>2. CASE o # p
      <4>1. ~Inside(o)
        BY <1>1, <2>1, <3>2 DEF IInv, Semaphore
      <4>2. pc'[o] = pc[o]
        BY <3>2, <1>6 DEF OnlyMoves, Worker, Process
      <4> QED BY <4>1, <4>2 DEF Inside
    <3> QED BY <3>1, <3>2
  <2> QED BY <2>3, <2>4 DEF Semaphore
<1>8. Types'
  <2>1. pc' \in [Process -> Label]
    BY <1>4, <1>a DEF IInv, Places3, Types
  <2>2. pos' \in [Process -> Pixel \cup {NoPixel}]
    BY <1>4, <1>5 DEF IInv, Places3, Types
  <2>3. sem' \in 0 .. 1
    BY <1>7
  <2> QED BY <1>4, <2>1, <2>2, <2>3 DEF IInv, Places3, Types
<1>9. Places'
  <2>1. pos[p][2] = 0 /\ at[p] # 0
    BY <1>2, <1>4 DEF Where, Early
  <2>2. CASE next = "sem_wait"
    <3>1. Where(p)'
      BY <2>1, <2>2, <1>6, <1>b DEF Where, Early, Ended
    <3> QED BY <3>1, <2>2, <1>1, <1>6, PlacesStep
  <2>3. CASE next = "copy"
    <3>1. p = "B"
      BY <2>3, <1>c
    <3>2. Where(p)'
      BY <2>1, <2>3, <3>1, <1>5, <1>6, <1>c DEF Where, Early, Ended
    <3> QED BY <3>1, <3>2, <2>3, <1>1, <1>6, PlacesStep
  <2>4. CASE next = "open"
    <3>1. p # "B"
      BY <2>4, <1>c
    <3>2. Where(p)'
      BY <2>1, <2>4, <3>1, <1>6, <1>c DEF Where, Early, Ended
    <3> QED BY <3>1, <3>2, <2>4, <1>1, <1>6, PlacesStep
  <2> QED BY <1>a, <2>2, <2>3, <2>4
<1>10. CASE p # "B"
  <2>1. p \in {"G", "H"} /\ pos' = pos
    BY <1>1, <1>10, <1>4 DEF Worker, back
  <2>2. next \in {"sem_wait", "open"}
    BY <1>10, <1>a, <1>c
  <2>3. Family' /\ Output' /\ Segments' /\ Copied' = Copied /\ Blurring' = Blurring /\ pc'["B"] = pc["B"]
    BY <1>4, <1>6, <2>1, <2>2, GrayFamily
  <2>4. pc'["G"] = pc["G"] \/ pc'["G"] # "write"
    BY <1>6, <2>1, <2>2 DEF OnlyMoves, Process
  <2>5. Progress' /\ RowsSeen'
    BY <1>4, <2>1, <2>3 DEF IInv, Progress, RowsSeen, SeenWhole, Touched
  <2>6. Fresh'
    BY <1>4, <2>1, <2>3, <2>4 DEF IInv, Fresh
  <2> QED BY <1>7, <1>8, <1>9, <2>3, <2>5, <2>6 DEF IInv, Places3
<1>11. CASE p = "B"
  <2>1. pc["B"] = "sem_post" /\ pc'["B"] = next /\ pc'["G"] = pc["G"] /\ pos'["G"] = pos["G"]
    BY <1>4, <1>6, <1>11 DEF OnlyMoves, Process
  <2>2. next \in {"sem_wait", "copy"}
    BY <1>11, <1>a, <1>c
  <2>3. Family' /\ Output' /\ Segments'
    BY <1>4, <1>6, <1>11, <2>1, <2>2, BlurFamily
  <2>4. Blurring /\ ~Copied /\ ~Copied'
    BY <2>1, <2>2 DEF Blurring, Copied
  <2>5. CASE next = "sem_wait"
    <3>1. Blurring' /\ pos' = pos /\ pc'["B"] = "sem_wait"
      BY <2>1, <2>5, <1>4, <1>b DEF Blurring
    <3>2. Progress' /\ Fresh' /\ RowsSeen'
      BY <1>4, <2>1, <2>4, <3>1 DEF IInv, Progress, Fresh, RowsSeen, SeenWhole, Touched
    <3> QED BY <1>7, <1>8, <1>9, <2>3, <3>2 DEF IInv, Places3
  <2>6. CASE next = "copy"
    <3>1. pc'["B"] = "copy" /\ ~Blurring' /\ pos["B"] = NoPixel /\ pos'["B"] = last
      BY <2>1, <2>6, <1>6, <1>11, <1>c DEF Blurring
    <3>2. \A x \in Pixel : Before(x, pos["B"]) /\ ~BeforeBack(x, last)
      <4>1. \A x \in Pixel : x[1] \in Nat /\ x[1] < Height /\ x[2] \in Nat
        BY PixelIs
      <4> QED BY <3>1, <4>1, <1>5, Sizes DEF Before, BeforeBack
    <3>3. Fresh'
      BY <3>1 DEF Fresh
    <3>4. RowsSeen'
      <4>1. \A r \in Rows : r < pos["B"][1]
        BY <3>1, Sizes DEF Rows
      <4>2. \A r \in Rows : SeenWhole(r)
        BY <4>1, <2>4 DEF IInv, RowsSeen
      <4>3. \A r \in Rows : SeenWhole(r)'
        BY <4>2, <1>4 DEF SeenWhole
      <4> QED BY <4>3, <3>1 DEF RowsSeen
    <3>5. Progress'
      <4>1. at["G"] = 1 => \A x \in Pixel : Before(x, pos["G"]) => Touched(x)
        BY DEF IInv, Progress
      <4>2. \A x \in Pixel : IsBlurred(tmatrix[x])
        BY <2>4, <3>2 DEF IInv, Progress
      <4> QED BY <1>4, <2>1, <2>4, <3>1, <3>2, <4>1, <4>2 DEF Progress, Touched
    <3> QED BY <1>7, <1>8, <1>9, <2>3, <3>3, <3>4, <3>5 DEF IInv, Places3
  <2> QED BY <2>2, <2>5, <2>6
<1> QED BY <1>10, <1>11

\* A T1 that is inside works on a segment, at a pixel of it.
LEMMA GrayAtWork ==
  ASSUME IInv, NEW p \in Process, pc[p] \in {"read", "write"}
  PROVE  /\ p \in Worker /\ p \in {"G", "H"} /\ pos[p] \in Pixel /\ at[p] \in 1 .. 2
         /\ Where(p) /\ Inside(p) /\ ~Inside("B")
         /\ Blurring => p = "G" /\ at["G"] = 1
<1>1. p \in {"G", "H"}
  BY DEF IInv, Places3, Places, Process
<1>2. p \in Worker
  BY <1>1 DEF Worker
<1>3. pos[p] \in Pixel \cup {NoPixel} /\ at[p] \in 0 .. 2 /\ Where(p)
  BY <1>2, WorkerIs
<1>4. pos[p] # NoPixel /\ at[p] # 0
  BY <1>3 DEF Where, Early
<1>5. Inside(p)
  BY DEF Inside
<1>6. ~Inside("B")
  BY <1>1, <1>2, <1>5 DEF IInv, Semaphore, Worker
<1>7. Blurring => p = "G" /\ at["G"] = 1
  <2> SUFFICES ASSUME Blurring PROVE p = "G" /\ at["G"] = 1
    OBVIOUS
  <2>1. pc["H"] = "unborn" /\ at["G"] \in 0 .. 1
    BY WhileBlurring
  <2>2. p = "G"
    BY <2>1, <1>1
  <2> QED BY <2>1, <2>2, <1>4
<1> QED BY <1>1, <1>2, <1>3, <1>4, <1>5, <1>6, <1>7

LEMMA GrayReadInv ==
  ASSUME IInv, NEW p \in Process, GrayRead(p)
  PROVE  IInv'
<1>1. /\ pc[p] = "read" /\ pc' = [pc EXCEPT ![p] = "write"]
      /\ UNCHANGED <<seg, key, at, sem, pos, tmatrix, file>>
      /\ colour' = [colour EXCEPT ![p] = seg[at[p]][pos[p]]]
  BY DEF GrayRead, Go
<1>2. /\ p \in Worker /\ p \in {"G", "H"} /\ pos[p] \in Pixel
      /\ Where(p) /\ Blurring => p = "G" /\ at["G"] = 1
  BY <1>1, GrayAtWork
<1>a. Where(p)
  BY <1>1, GrayAtWork
<1>3. pc'[p] = "write" /\ OnlyMoves(p)
  BY <1>1 DEF IInv, Places3, Types, OnlyMoves
<1>4. Types'
  <2>1. pc' \in [Process -> Label]
    BY <1>1 DEF IInv, Places3, Types, Label
  <2>2. DOMAIN colour' = Process
    BY <1>1 DEF IInv, Places3, Types
  <2> QED BY <1>1, <2>1, <2>2 DEF IInv, Places3, Types
<1>5. Places'
  <2>1. Where(p)'
    BY <1>a, <1>1, <1>3 DEF Where, Early, Ended
  <2> QED BY <2>1, <1>2, <1>3, PlacesStep
<1>6. Semaphore'
  BY <1>1, <1>3, SemaphoreStep DEF Inside
<1>7. Family' /\ Output' /\ Segments' /\ Copied' = Copied /\ Blurring' = Blurring /\ pc'["B"] = pc["B"]
  BY <1>1, <1>2, <1>3, GrayFamily
<1>8. Progress' /\ RowsSeen'
  BY <1>1, <1>7 DEF IInv, Progress, RowsSeen, SeenWhole, Touched
<1>9. Fresh'
  <2> SUFFICES ASSUME Blurring PROVE Fresh'
    BY <1>7 DEF Fresh
  <2>1. p = "G" /\ at[p] = 1
    BY <1>1, GrayAtWork
  <2>2. ~Before(pos[p], pos[p])
    BY <1>2, PixelIs DEF Before
  <2>3. seg[1][pos[p]] = input[pos[p]]
    BY <1>2, <2>1, <2>2 DEF IInv, Fresh
  <2>4. colour'["G"] = input[pos["G"]]
    BY <1>1, <2>1, <2>3 DEF IInv, Places3, Types
  <2> QED BY <1>1, <2>4 DEF IInv, Fresh
<1> QED BY <1>4, <1>5, <1>6, <1>7, <1>8, <1>9 DEF IInv, Places3

\* A pixel that is written in one of the segments.
Writes(k, y, c) == seg' = [seg EXCEPT ![k][y] = c]

LEMMA SegmentWrite ==
  ASSUME IInv, NEW k \in 1 .. 2, NEW y \in Pixel, NEW c, Writes(k, y, c)
  PROVE  /\ DOMAIN seg' = 1 .. 2 /\ DOMAIN seg'[1] = Pixel /\ DOMAIN seg'[2] = Pixel
         /\ seg'[k][y] = c
         /\ \A j \in 1 .. 2, x \in Pixel : (j # k \/ x # y) => seg'[j][x] = seg[j][x]
         /\ Transformed(c) =>
              /\ \A x \in Pixel : Transformed(seg[1][x]) => Transformed(seg'[1][x])
              /\ k = 1 => Transformed(seg'[1][y])
<1>1. DOMAIN seg = 1 .. 2 /\ DOMAIN seg[1] = Pixel /\ DOMAIN seg[2] = Pixel
  BY DEF IInv, Places3, Types
<1>2. DOMAIN seg' = 1 .. 2 /\ seg'[k] = [seg[k] EXCEPT ![y] = c]
      /\ \A j \in 1 .. 2 : j # k => seg'[j] = seg[j]
  BY <1>1 DEF Writes
<1>3. DOMAIN seg[k] = Pixel
  BY <1>1
<1>4. DOMAIN seg'[k] = Pixel /\ seg'[k][y] = c /\ \A x \in Pixel : x # y => seg'[k][x] = seg[k][x]
  BY <1>2, <1>3
<1>5. DOMAIN seg'[1] = Pixel /\ DOMAIN seg'[2] = Pixel
  BY <1>1, <1>2, <1>4
<1>6. \A j \in 1 .. 2, x \in Pixel : (j # k \/ x # y) => seg'[j][x] = seg[j][x]
  BY <1>2, <1>4
<1>7. ASSUME Transformed(c)
      PROVE  (\A x \in Pixel : Transformed(seg[1][x]) => Transformed(seg'[1][x]))
             /\ (k = 1 => Transformed(seg'[1][y]))
  <2>1. k = 1 => Transformed(seg'[1][y])
    BY <1>4, <1>7
  <2>2. ASSUME NEW x \in Pixel, Transformed(seg[1][x]) PROVE Transformed(seg'[1][x])
    <3>1. CASE k = 1 /\ x = y
      BY <2>1, <3>1
    <3>2. CASE ~(k = 1 /\ x = y)
      <4>1. seg'[1][x] = seg[1][x]
        BY <1>6, <3>2
      <4> QED BY <4>1, <2>2
    <3> QED BY <3>1, <3>2
  <2> QED BY <2>1, <2>2
<1> QED BY <1>2, <1>4, <1>5, <1>6, <1>7

LEMMA GrayWriteInv ==
  ASSUME IInv, NEW p \in Process, GrayWrite(p)
  PROVE  IInv'
<1> DEFINE next == IF pos[p][2] = Width - 1 THEN "sem_post" ELSE "read"
           k == at[p]
           y == pos[p]
           c == grey_value(colour[p])
<1>1. /\ pc[p] = "write" /\ pc' = [pc EXCEPT ![p] = next]
      /\ pos' = [pos EXCEPT ![p] = After(pos[p])]
      /\ colour' = [colour EXCEPT ![p] = Zero]
      /\ UNCHANGED <<key, at, sem, tmatrix, file>>
  BY DEF GrayWrite, Advance, Go
<1>w. Writes(k, y, c)
  BY DEF GrayWrite, Writes
<1>2. /\ p \in Worker /\ p \in {"G", "H"} /\ y \in Pixel /\ k \in 1 .. 2 /\ Where(p)
      /\ pc["B"] # "blur"
  BY <1>1, GrayAtWork DEF Inside
<1>g. Transformed(c)
  BY Terms DEF Transformed
<1>n. next \in {"sem_post", "read"} /\ next \in Label
      /\ (next = "sem_post" <=> pos[p][2] = Width - 1)
  BY DEF Label
<1> HIDE DEF next
<1>3. pc'[p] = next /\ OnlyMoves(p) /\ pos'[p] = After(pos[p])
  BY <1>1 DEF IInv, Places3, Types, OnlyMoves
<1>4. /\ After(y) \in Pixel \cup {NoPixel}
      /\ \A x \in Pixel : Before(x, After(y)) <=> (Before(x, y) \/ x = y)
      /\ next = "sem_post" => After(y)[2] = 0
      /\ next = "read" => After(y) # NoPixel
  BY <1>2, <1>n, AfterIs, Sizes
<1>5. /\ DOMAIN seg' = 1 .. 2 /\ DOMAIN seg'[1] = Pixel /\ DOMAIN seg'[2] = Pixel
      /\ seg'[k][y] = c
      /\ \A j \in 1 .. 2, x \in Pixel : (j # k \/ x # y) => seg'[j][x] = seg[j][x]
      /\ \A x \in Pixel : Transformed(seg[1][x]) => Transformed(seg'[1][x])
      /\ k = 1 => Transformed(seg'[1][y])
  <2>1. k \in 1 .. 2 /\ y \in Pixel
    BY <1>2
  <2> HIDE DEF k, y, c
  <2>2. /\ DOMAIN seg' = 1 .. 2 /\ DOMAIN seg'[1] = Pixel /\ DOMAIN seg'[2] = Pixel
        /\ seg'[k][y] = c
        /\ \A j \in 1 .. 2, x \in Pixel : (j # k \/ x # y) => seg'[j][x] = seg[j][x]
    BY <1>w, <2>1, SegmentWrite
  <2>3. /\ \A x \in Pixel : Transformed(seg[1][x]) => Transformed(seg'[1][x])
        /\ k = 1 => Transformed(seg'[1][y])
    BY <1>w, <1>g, <2>1, SegmentWrite
  <2> QED BY <2>2, <2>3
<1>6. Types'
  <2>1. pc' \in [Process -> Label]
    BY <1>1, <1>n DEF IInv, Places3, Types
  <2>2. pos' \in [Process -> Pixel \cup {NoPixel}]
    BY <1>1, <1>4 DEF IInv, Places3, Types
  <2>3. DOMAIN colour' = Process
    BY <1>1 DEF IInv, Places3, Types
  <2> QED BY <1>1, <1>5, <2>1, <2>2, <2>3 DEF IInv, Places3, Types
<1>7. Places'
  <2>1. at[p] # 0
    BY <1>1, <1>2 DEF Where, Early
  <2>2. Where(p)'
    BY <2>1, <1>1, <1>3, <1>4, <1>n DEF Where, Early, Ended
  <2> QED BY <2>2, <1>2, <1>3, <1>n, PlacesStep
<1>8. Semaphore'
  BY <1>1, <1>3, <1>n, SemaphoreStep DEF Inside
<1>9. Family' /\ Output' /\ Segments' /\ Copied' = Copied /\ Blurring' = Blurring
      /\ pc'["B"] = pc["B"] /\ pos'["B"] = pos["B"]
  BY <1>1, <1>2, <1>3, <1>n, GrayFamily
<1>10. Progress'
  <2>1. ASSUME at["G"] = 1, NEW x \in Pixel, Before(x, pos'["G"]) PROVE Transformed(seg'[1][x])
    <3>1. CASE p = "G"
      <4>1. Before(x, y) \/ x = y
        BY <2>1, <3>1, <1>3, <1>4
      <4>2. Before(x, y) => Transformed(seg[1][x])
        BY <2>1, <3>1 DEF IInv, Progress, Touched
      <4>3. k = 1
        BY <2>1, <3>1
      <4> QED BY <4>1, <4>2, <4>3, <1>5
    <3>2. CASE p # "G"
      <4>1. pos'["G"] = pos["G"]
        BY <3>2, <1>3 DEF OnlyMoves, Process
      <4>2. Transformed(seg[1][x])
        BY <2>1, <4>1 DEF IInv, Progress, Touched
      <4> QED BY <4>2, <1>5
    <3> QED BY <3>1, <3>2
  <2>2. \A x \in Pixel : (Blurring => Before(x, pos["B"])) => IsBlurred(tmatrix[x])
    BY DEF IInv, Progress
  <2>3. (at["B"] = 1 /\ pc["B"] = "copy") => \A x \in Pixel : BeforeBack(x, pos["B"]) => Transformed(seg'[1][x])
    BY <1>5 DEF IInv, Progress, Touched
  <2>4. (at["B"] = 1 /\ Copied) => \A x \in Pixel : Transformed(seg'[1][x])
    BY <1>5 DEF IInv, Progress, Touched
  <2> QED BY <1>1, <1>9, <2>1, <2>2, <2>3, <2>4 DEF Progress, Touched
<1>11. Fresh'
  <2> SUFFICES ASSUME Blurring PROVE Fresh'
    BY <1>9 DEF Fresh
  <2>1. p = "G" /\ k = 1
    BY <1>1, GrayAtWork
  <2>2. c = grey_value(input[y])
    BY <1>1, <2>1 DEF IInv, Fresh
  <2>3. \A x \in Pixel : seg'[2][x] = Zero
    BY <2>1, <1>5 DEF IInv, Fresh
  <2>4. ASSUME NEW x \in Pixel
        PROVE  seg'[1][x] = IF Before(x, pos'["G"]) THEN grey_value(input[x]) ELSE input[x]
    <3>1. Before(x, pos'["G"]) <=> (Before(x, y) \/ x = y)
      BY <2>1, <1>3, <1>4
    <3>2. CASE x = y
      BY <3>1, <3>2, <2>1, <2>2, <1>5
    <3>3. CASE x # y
      <4>1. seg'[1][x] = seg[1][x]
        BY <3>3, <1>5
      <4>2. seg[1][x] = IF Before(x, y) THEN grey_value(input[x]) ELSE input[x]
        BY <2>1 DEF IInv, Fresh
      <4> HIDE DEF y
      <4> QED BY <3>1, <3>3, <4>1, <4>2
    <3> QED BY <3>2, <3>3
  <2>5. pc'["G"] # "write"
    BY <2>1, <1>3, <1>n
  <2> QED BY <2>3, <2>4, <2>5 DEF Fresh
<1>12. RowsSeen'
  BY <1>1, <1>2, <1>9 DEF IInv, RowsSeen, SeenWhole
<1> QED BY <1>6, <1>7, <1>8, <1>9, <1>10, <1>11, <1>12 DEF IInv, Places3

\* While B is inside a row, G is between two rows: the row of B, and any other,
\* is the input's or the converted one, or is of the new segment.
LEMMA RowIsWhole ==
  ASSUME IInv, Blurring, Inside("B"), NEW r \in Rows
  PROVE  \E img \in {<<input>>, <<Gray(input)>>, <<Zeros>>} :
           \A c \in Cols : seg[at["B"]][<<r, c>>] = img[1][<<r, c>>]
<1>0. "B" \in Worker /\ "G" \in Worker
  BY DEF Worker
<1>1. at["B"] \in 1 .. 2
  <2>1. Where("B") /\ at["B"] \in 0 .. 2
    BY <1>0, WorkerIs
  <2> QED BY <2>1 DEF Where, Early, Inside
<1>a. \A c \in Cols : <<r, c>> \in Pixel /\ <<r, c>>[1] = r /\ <<r, c>>[2] = c
  BY DEF Pixel
<1>b. r \in Nat /\ \A c \in Cols : c \in Nat
  BY Sizes DEF Rows, Cols
<1>2. CASE at["B"] = 2
  <2>1. \A x \in Pixel : seg[2][x] = Zero
    BY DEF IInv, Fresh
  <2>2. \A c \in Cols : seg[at["B"]][<<r, c>>] = Zeros[<<r, c>>]
    BY <1>2, <1>a, <2>1 DEF Zeros
  <2>3. <<Zeros>>[1] = Zeros
    OBVIOUS
  <2> QED BY <2>2, <2>3
<1>3. CASE at["B"] = 1
  <2>1. pos["G"][2] = 0 /\ pos["G"][1] \in Nat
    <3>1. Where("G") /\ pos["G"] \in Pixel \cup {NoPixel} /\ pc["G"] \in Label
          /\ pc["G"] \notin {"fork B", "fork G", "fork H", "blur", "copy", "wait"}
      BY <1>0, WorkerIs
    <3>2. ~Inside("G")
      BY <1>0 DEF IInv, Semaphore
    <3>3. pc["G"] \in {"unborn", "attach", "sem_wait", "open", "close", "remove", "exited"}
      BY <3>1, <3>2 DEF Inside, Label
    <3>4. pos["G"] = Origin \/ pos["G"][2] = 0 \/ pos["G"] = NoPixel
      BY <3>1, <3>3 DEF Where, Early, Ended
    <3> QED BY <3>1, <3>4, PlaceIs, Sizes
  <2>2. ASSUME NEW c \in Cols PROVE Before(<<r, c>>, pos["G"]) <=> r < pos["G"][1]
    BY <2>1, <1>a, <1>b DEF Before
  <2>3. ASSUME NEW c \in Cols
        PROVE  seg[1][<<r, c>>] = IF r < pos["G"][1] THEN grey_value(input[<<r, c>>]) ELSE input[<<r, c>>]
    BY <2>2, <1>a DEF IInv, Fresh
  <2>4. CASE r < pos["G"][1]
    <3>1. \A c \in Cols : seg[at["B"]][<<r, c>>] = Gray(input)[<<r, c>>]
      BY <1>3, <1>a, <2>3, <2>4 DEF Gray
    <3>2. <<Gray(input)>>[1] = Gray(input)
      OBVIOUS
    <3> QED BY <3>1, <3>2
  <2>5. CASE ~(r < pos["G"][1])
    <3>1. \A c \in Cols : seg[at["B"]][<<r, c>>] = input[<<r, c>>]
      BY <1>3, <2>3, <2>5
    <3>2. <<input>>[1] = input
      OBVIOUS
    <3> QED BY <3>1, <3>2
  <2> QED BY <2>4, <2>5
<1> QED BY <1>1, <1>2, <1>3

LEMMA BlurPixelInv ==
  ASSUME IInv, BlurPixel
  PROVE  IInv'
<1> DEFINE y == pos["B"]
           next == IF pos["B"][2] = Width - 1 THEN "sem_post" ELSE "blur"
           old == seg[at["B"]]
           c == blur_value(Colours(old, y[1], y[2]))
<1>0. "B" \in Worker /\ "B" \in Process
  BY DEF Worker, Process
<1>1. /\ pc["B"] = "blur" /\ pc' = [pc EXCEPT !["B"] = next]
      /\ pos' = [pos EXCEPT !["B"] = After(y)]
      /\ UNCHANGED <<seg, key, at, sem, colour, file>>
  BY DEF BlurPixel, Advance, Go
<1>t. tmatrix' = [tmatrix EXCEPT ![y] = c]
  BY DEF BlurPixel
<1>n. next \in {"sem_post", "blur"} /\ next \in Label /\ (next = "sem_post" <=> y[2] = Width - 1)
  BY DEF Label
<1> HIDE DEF next
<1>2. y \in Pixel /\ at["B"] # 0
  <2>1. y \in Pixel \cup {NoPixel} /\ Where("B")
    BY <1>0, WorkerIs
  <2>2. y # NoPixel /\ at["B"] # 0
    BY <1>1, <2>1 DEF Where, Early
  <2> QED BY <2>1, <2>2
<1>3. pc'["B"] = next /\ OnlyMoves("B") /\ pos'["B"] = After(y)
  BY <1>0, <1>1 DEF IInv, Places3, Types, OnlyMoves
<1>4. /\ After(y) \in Pixel \cup {NoPixel}
      /\ \A x \in Pixel : Before(x, After(y)) <=> (Before(x, y) \/ x = y)
      /\ next = "sem_post" => After(y)[1] = y[1] + 1 /\ After(y)[2] = 0
      /\ next = "blur" => After(y) # NoPixel /\ After(y)[1] = y[1] /\ After(y)[2] = y[2] + 1
  BY <1>2, <1>n, AfterIs, Sizes
<1>5. DOMAIN tmatrix' = Pixel /\ tmatrix'[y] = c /\ \A x \in Pixel : x # y => tmatrix'[x] = tmatrix[x]
  <2>1. DOMAIN tmatrix = Pixel
    BY DEF IInv, Places3, Types
  <2> HIDE DEF y, c
  <2> QED BY <1>t, <1>2, <2>1
<1>6. Types'
  <2>1. pc' \in [Process -> Label]
    BY <1>1, <1>n DEF IInv, Places3, Types
  <2>2. pos' \in [Process -> Pixel \cup {NoPixel}]
    BY <1>1, <1>4 DEF IInv, Places3, Types
  <2> QED BY <1>1, <1>5, <2>1, <2>2 DEF IInv, Places3, Types
<1>7. Places'
  <2>1. Where("B")'
    BY <1>1, <1>2, <1>3, <1>4, <1>n DEF Where, Early, Ended
  <2> QED BY <2>1, <1>0, <1>3, <1>n, PlacesStep
<1>8. Semaphore'
  BY <1>0, <1>1, <1>3, <1>n, SemaphoreStep DEF Inside
<1>9. Family' /\ Output' /\ Segments'
  BY <1>1, <1>3, <1>n, BlurFamily
<1>10. Blurring /\ Blurring' /\ ~Copied /\ ~Copied' /\ Inside("B")
       /\ pc'["G"] = pc["G"] /\ pos'["G"] = pos["G"] /\ pc'["B"] \notin {"copy", "fork H"}
  BY <1>1, <1>3, <1>n DEF Blurring, Copied, Inside, OnlyMoves, Process
<1>11. Progress'
  <2>1. ASSUME NEW x \in Pixel, Before(x, pos'["B"]) PROVE IsBlurred(tmatrix'[x])
    <3>1. CASE x = y
      <4>1. IsBlurred(c)
        BY Terms
      <4> QED BY <3>1, <4>1, <1>5
    <3>2. CASE x # y
      <4>1. Before(x, y)
        BY <2>1, <3>2, <1>3, <1>4
      <4>2. IsBlurred(tmatrix[x])
        BY <4>1, <1>10 DEF IInv, Progress
      <4> QED BY <3>2, <4>2, <1>5
    <3> QED BY <3>1, <3>2
  <2>2. at["G"] = 1 => \A x \in Pixel : Before(x, pos["G"]) => Touched(x)
    BY DEF IInv, Progress
  <2> QED BY <1>1, <1>10, <2>1, <2>2 DEF Progress, Touched
<1>12. Fresh'
  BY <1>1, <1>10 DEF IInv, Fresh
<1>13. RowsSeen'
  <2>0. y[1] \in Rows /\ y[2] \in Cols /\ y = <<y[1], y[2]>> /\ y[1] \in Nat /\ y[2] \in Nat /\ Width \in Nat
    BY <1>2, PixelIs, Sizes
  <2>a. \A r \in Rows, q \in Cols : <<r, q>> \in Pixel /\ <<r, q>>[1] = r /\ <<r, q>>[2] = q
    BY DEF Pixel
  <2>b. (\A r \in Rows : r \in Nat) /\ (\A q \in Cols : q \in Nat /\ q < Width)
    BY Sizes DEF Rows, Cols
  <2>1. ASSUME NEW q \in Cols, q <= y[2] PROVE tmatrix'[<<y[1], q>>] = blur_value(Colours(old, y[1], q))
    <3>1. CASE q = y[2]
      <4>1. <<y[1], q>> = y
        BY <3>1, <2>0
      <4> QED BY <3>1, <4>1, <1>5
    <3>2. CASE q # y[2]
      <4>1. q < y[2]
        BY <2>0, <2>1, <2>b, <3>2
      <4>2. tmatrix[<<y[1], q>>] = blur_value(Colours(old, y[1], q))
        BY <4>1, <1>1 DEF IInv, RowsSeen
      <4>3. <<y[1], q>> # y /\ <<y[1], q>> \in Pixel
        BY <3>2, <2>0, <2>a
      <4> QED BY <4>2, <4>3, <1>5
    <3> QED BY <3>1, <3>2
  <2>2. ASSUME NEW r \in Rows, r < y[1] PROVE SeenWhole(r)'
    <3>1. SeenWhole(r)
      BY <2>2, <1>10 DEF IInv, RowsSeen
    <3>2. \A q \in Cols : tmatrix'[<<r, q>>] = tmatrix[<<r, q>>]
      BY <2>0, <2>2, <2>a, <2>b, <1>5
    <3> QED BY <3>1, <3>2 DEF SeenWhole
  <2>3. CASE next = "blur"
    <3>1. pos'["B"][1] = y[1] /\ pos'["B"][2] = y[2] + 1 /\ pc'["B"] = "blur"
      BY <2>3, <1>3, <1>4
    <3>2. ASSUME NEW q \in Cols, q < pos'["B"][2]
          PROVE  tmatrix'[<<pos'["B"][1], q>>] = blur_value(Colours(seg'[at'["B"]], pos'["B"][1], q))
      <4>1. q <= y[2]
        BY <3>1, <3>2, <2>0, <2>b
      <4> QED BY <3>1, <4>1, <2>1, <1>1
    <3>3. \A r \in Rows : r < pos'["B"][1] => SeenWhole(r)'
      BY <3>1, <2>2
    <3> QED BY <3>2, <3>3, <1>10 DEF RowsSeen
  <2>4. CASE next = "sem_post"
    <3>1. pos'["B"][1] = y[1] + 1 /\ pc'["B"] = "sem_post" /\ y[2] = Width - 1
      BY <2>4, <1>3, <1>4, <1>n
    <3>2. \A q \in Cols : tmatrix'[<<y[1], q>>] = blur_value(Colours(old, y[1], q))
      BY <2>1, <3>1, <2>b, <2>0
    <3>4. ASSUME NEW r \in Rows, r < pos'["B"][1] PROVE SeenWhole(r)'
      <4>1. CASE r = y[1]
        <5>1. PICK img \in {<<input>>, <<Gray(input)>>, <<Zeros>>} :
                \A k \in Cols : old[<<r, k>>] = img[1][<<r, k>>]
          BY <1>10, RowIsWhole
        <5>2. ASSUME NEW q \in Cols PROVE tmatrix'[<<r, q>>] = blur_value(Colours(img[1], r, q))
          <6>1. tmatrix'[<<r, q>>] = blur_value(Colours(old, r, q))
            BY <3>2, <4>1
          <6> HIDE DEF old
          <6>2. Colours(old, r, q) = Colours(img[1], r, q)
            BY <5>1, WindowInRow
          <6> QED BY <6>1, <6>2
        <5> QED BY <5>2 DEF SeenWhole
      <4>2. CASE r # y[1]
        BY <4>2, <3>1, <3>4, <2>0, <2>b, <2>2
      <4> QED BY <4>1, <4>2
    <3> QED BY <3>1, <3>4, <1>10 DEF RowsSeen
  <2> QED BY <2>3, <2>4, <1>n
<1> QED BY <1>6, <1>7, <1>8, <1>9, <1>11, <1>12, <1>13 DEF IInv, Places3

LEMMA CopyBackInv ==
  ASSUME IInv, CopyBack
  PROVE  IInv'
<1> DEFINE y == pos["B"]
           next == IF AfterBack(y) = NoPixel THEN "fork H" ELSE "copy"
           k == at["B"]
           c == tmatrix[y]
<1>0. "B" \in Worker /\ "B" \in Process
  BY DEF Worker, Process
<1>1. /\ pc["B"] = "copy"
      /\ pos' = [pos EXCEPT !["B"] = AfterBack(y)]
      /\ UNCHANGED <<key, at, sem, colour, tmatrix, file>>
  BY DEF CopyBack
<1>w. Writes(k, y, c)
  BY DEF CopyBack, Writes
<1>a. pos'["B"] = AfterBack(y)
  BY <1>0, <1>1 DEF IInv, Places3, Types
<1>b. pc' = [pc EXCEPT !["B"] = next]
  BY <1>a DEF CopyBack, Go
<1>n. next \in {"fork H", "copy"} /\ next \in Label /\ (next = "fork H" <=> AfterBack(y) = NoPixel)
  BY DEF Label
<1> HIDE DEF next
<1>2. y \in Pixel /\ k \in 1 .. 2
  <2>1. y \in Pixel \cup {NoPixel} /\ Where("B") /\ k \in 0 .. 2
    BY <1>0, WorkerIs
  <2>2. y # NoPixel /\ k # 0
    BY <1>1, <2>1 DEF Where, Early
  <2> QED BY <2>1, <2>2
<1>3. pc'["B"] = next /\ OnlyMoves("B")
  BY <1>0, <1>1, <1>b DEF IInv, Places3, Types, OnlyMoves
<1>4. /\ AfterBack(y) \in Pixel \cup {NoPixel}
      /\ next = "copy" => \A x \in Pixel : BeforeBack(x, AfterBack(y)) => (BeforeBack(x, y) \/ x = y)
      /\ next = "fork H" => \A x \in Pixel : BeforeBack(x, y) \/ x = y
  BY <1>2, <1>n, BackIs
<1>5. ~Blurring /\ ~Blurring' /\ ~Copied /\ (Copied' <=> next = "fork H")
      /\ pc'["G"] = pc["G"] /\ pos'["G"] = pos["G"]
  BY <1>1, <1>3, <1>n DEF Blurring, Copied, OnlyMoves, Process
<1>g. Transformed(c)
  <2>1. IsBlurred(c)
    BY <1>2, <1>5 DEF IInv, Progress
  <2> QED BY <2>1 DEF Transformed
<1>6. /\ DOMAIN seg' = 1 .. 2 /\ DOMAIN seg'[1] = Pixel /\ DOMAIN seg'[2] = Pixel
      /\ \A x \in Pixel : Transformed(seg[1][x]) => Transformed(seg'[1][x])
      /\ k = 1 => Transformed(seg'[1][y])
  <2> HIDE DEF k, y, c
  <2>1. DOMAIN seg' = 1 .. 2 /\ DOMAIN seg'[1] = Pixel /\ DOMAIN seg'[2] = Pixel
    BY <1>w, <1>2, SegmentWrite
  <2>2. /\ \A x \in Pixel : Transformed(seg[1][x]) => Transformed(seg'[1][x])
        /\ k = 1 => Transformed(seg'[1][y])
    BY <1>w, <1>g, <1>2, SegmentWrite
  <2> QED BY <2>1, <2>2
<1>7. Types'
  <2>1. pc' \in [Process -> Label]
    BY <1>b, <1>n DEF IInv, Places3, Types
  <2>2. pos' \in [Process -> Pixel \cup {NoPixel}]
    BY <1>1, <1>4 DEF IInv, Places3, Types
  <2> QED BY <1>1, <1>6, <2>1, <2>2 DEF IInv, Places3, Types
<1>8. Places'
  <2>1. Where("B")'
    <3>1. at'["B"] # 0
      BY <1>1, <1>2
    <3>2. pc'["B"] = "copy" => pos'["B"] # NoPixel
      BY <1>3, <1>a, <1>n
    <3>3. pc'["B"] \in {"fork H", "copy"}
      BY <1>3, <1>n
    <3> QED BY <3>1, <3>2, <3>3 DEF Where, Early, Ended
  <2> QED BY <2>1, <1>0, <1>3, <1>n, PlacesStep
<1>9. Semaphore'
  BY <1>0, <1>1, <1>3, <1>n, SemaphoreStep DEF Inside
<1>10. Family' /\ Output' /\ Segments'
  BY <1>1, <1>3, <1>n, BlurFamily
<1>11. Progress'
  <2>1. at["G"] = 1 => \A x \in Pixel : Before(x, pos["G"]) => Transformed(seg'[1][x])
    BY <1>6 DEF IInv, Progress, Touched
  <2>2. \A x \in Pixel : IsBlurred(tmatrix[x])
    BY <1>5 DEF IInv, Progress
  <2>3. k = 1 => \A x \in Pixel : (BeforeBack(x, y) \/ x = y) => Transformed(seg'[1][x])
    <3>1. k = 1 => \A x \in Pixel : BeforeBack(x, y) => Transformed(seg[1][x])
      BY <1>1 DEF IInv, Progress, Touched
    <3> HIDE DEF k, y
    <3> QED BY <3>1, <1>6
  <2>4. k = 1 /\ next = "copy" => \A x \in Pixel : BeforeBack(x, pos'["B"]) => Transformed(seg'[1][x])
    BY <2>3, <1>4, <1>a
  <2>5. k = 1 /\ next = "fork H" => \A x \in Pixel : Transformed(seg'[1][x])
    BY <2>3, <1>4
  <2> QED BY <1>1, <1>3, <1>5, <2>1, <2>2, <2>4, <2>5 DEF Progress, Touched
<1>12. Fresh'
  BY <1>5 DEF Fresh
<1>13. RowsSeen'
  BY <1>1, <1>3, <1>5, <1>n DEF IInv, RowsSeen, SeenWhole
<1> QED BY <1>7, <1>8, <1>9, <1>10, <1>11, <1>12, <1>13 DEF IInv, Places3
-----------------------------------------------------------------------------
(* The theorem *)

LEMMA NextInv == IInv /\ [ShmNext]_shmVars => IInv'
<1>1. ASSUME IInv, NEW p \in Process, ShmStep(p) PROVE IInv'
  BY <1>1, AttachInv, SemWaitInv, SemPostInv, GrayReadInv, GrayWriteInv, EndInv DEF ShmStep
<1>2. ASSUME IInv, BStep PROVE IInv'
  BY <1>2, BlurPixelInv, CopyBackInv DEF BStep
<1>3. ASSUME IInv, forks PROVE IInv'
  BY <1>3, ForkInv
<1>4. ASSUME IInv, UNCHANGED shmVars PROVE IInv'
  <2>1. UNCHANGED <<pc, seg, key, at, sem, pos, colour, tmatrix, file>>
    BY <1>4 DEF shmVars
  <2>2. Types' /\ Family' /\ Output' /\ Segments'
    BY <1>4, <2>1 DEF IInv, Places3, Types, Family, Output, Segments, Ended, Blurring, Copied
  <2>3. Places'
    BY <1>4, <2>1 DEF IInv, Places3, Places, Where, Early, Ended
  <2>4. Semaphore'
    BY <1>4, <2>1 DEF IInv, Semaphore, Inside
  <2>5. Progress' /\ Fresh' /\ RowsSeen'
    BY <1>4, <2>1 DEF IInv, Progress, Fresh, RowsSeen, SeenWhole, Blurring, Copied, Touched
  <2> QED BY <2>2, <2>3, <2>4, <2>5 DEF IInv, Places3
<1> QED BY <1>1, <1>2, <1>3, <1>4 DEF ShmNext

LEMMA InvImplies == IInv => SharedMemoryInv
<1> SUFFICES ASSUME IInv PROVE SharedMemoryInv
  OBVIOUS
<1>1. \A p \in Worker : (p \in Holders <=> Inside(p))
  BY DEF Holders, Inside
<1>2. ShmTypeOK
  <2>1. \A p \in Holders : at[p] # 0
    <3> TAKE p \in Holders
    <3>1. p \in Worker /\ Inside(p)
      BY DEF Holders, Inside
    <3>2. Where(p)
      BY <3>1, WorkerIs
    <3> QED BY <3>1, <3>2 DEF Where, Early, Inside
  <2>2. \A p \in Process : pos[p] \in Pixel \cup {NoPixel}
    BY DEF IInv, Places3, Types
  <2> QED BY <2>1, <2>2 DEF ShmTypeOK, IInv, Places3, Types
<1>3. SemaphoreExact
  <2>1. sem \in 0 .. 1 /\ Semaphore
    BY DEF IInv, Places3, Types
  <2>2. CASE Holders = {}
    <3>1. \A p \in Worker : ~Inside(p)
      BY <1>1, <2>2
    <3> QED BY <3>1, <2>1, <2>2 DEF SemaphoreExact, Semaphore
  <2>3. CASE Holders # {}
    <3>1. PICK p \in Holders : TRUE
      BY <2>3
    <3>2. p \in Worker /\ Inside(p)
      BY DEF Holders, Inside
    <3>3. sem # 1
      BY <3>2, <2>1 DEF Semaphore
    <3>4. sem = 0
      BY <3>3, <2>1
    <3>5. \A o, u \in Holders : o = u
      <4> TAKE o, u \in Holders
      <4>1. o \in Worker /\ u \in Worker /\ Inside(o) /\ Inside(u)
        BY DEF Holders, Inside
      <4> QED BY <4>1, <2>1 DEF Semaphore
    <3> QED BY <2>3, <3>4, <3>5 DEF SemaphoreExact
  <2> QED BY <2>2, <2>3
<1>4. RowsSeenWhole
  BY DEF IInv, RowsSeen, SeenWhole, RowsSeenWhole
<1>5. pc["P"] = "exited" => file = "whole" /\ pc["B"] = "exited" /\ pc["G"] = "exited" /\ pc["H"] = "exited"
  BY DEF IInv, Places3, Family, Output, Ended
<1>6. OutputIsFinal
  BY <1>5 DEF OutputIsFinal, Worker
<1>7. NoPixelUntouched
  <2> SUFFICES ASSUME pc["P"] = "exited", NEW x \in Pixel PROVE Transformed(seg[1][x])
    BY DEF NoPixelUntouched, Outcome, Transformed
  <2>1. Copied /\ Ended("G") /\ at["B"] # 0 /\ at["B"] \in 0 .. 2 /\ Where("G") /\ ~Early("G")
    <3>1. "B" \in Worker /\ "G" \in Worker
      BY DEF Worker
    <3>2. Where("B") /\ at["B"] \in 0 .. 2 /\ Where("G")
      BY <3>1, WorkerIs
    <3> QED BY <3>2, <1>5 DEF Where, Early, Ended, Copied
  <2>2. CASE at["B"] = 1
    BY <2>1, <2>2 DEF IInv, Progress, Touched
  <2>3. CASE at["B"] = 2
    <3>1. at["G"] = 1
      BY <2>3 DEF IInv, Segments
    <3>2. pos["G"] = NoPixel
      BY <2>1 DEF Where
    <3>3. Before(x, NoPixel)
      BY PixelIs, Sizes DEF Before
    <3> QED BY <3>1, <3>2, <3>3 DEF IInv, Progress, Touched
  <2> QED BY <2>1, <2>2, <2>3
<1> QED BY <1>2, <1>3, <1>4, <1>6, <1>7 DEF SharedMemoryInv, SemaphoreInv

\* In part2_2.cpp, for images and blur windows of every size: at most one
\* process is inside a row, and the semaphore counts it; T2 reads every row
\* converted as a whole or not at all; and when main has ended, the file is
\* whole, and every pixel in it has been through T1 or T2, whichever process
\* found or removed the segment first.
THEOREM SharedMemoryCorrect == ShmSpec => []SharedMemoryInv
<1>1. ShmInit => IInv
  BY ShmInitInv
<1>2. IInv /\ [ShmNext]_shmVars => IInv'
  BY NextInv
<1>3. IInv => SharedMemoryInv
  BY InvImplies
<1> QED BY <1>1, <1>2, <1>3, PTL DEF ShmSpec
=============================================================================
