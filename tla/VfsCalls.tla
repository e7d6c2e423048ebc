------------------------------ MODULE VfsCalls ------------------------------
(***************************************************************************)
(* The calls of VFS that work on names and descriptors: Lab-09/open.c,     *)
(* link.c and the entry points of read.c, as far as locks and references   *)
(* are concerned.  Worker threads of VFS serve the calls of different      *)
(* processes at the same time; a thread gives up the processor only where  *)
(* it waits for a lock or for the answer of a file system.                 *)
(*                                                                         *)
(* What a handler does depends on names, modes and the answers of file     *)
(* systems, which are not modelled: a handler is the set of the scripts it *)
(* may follow, one for each path through its code.  A script is the        *)
(* sequence of its lock, reference and file table operations.  Looking up  *)
(* a path (path.c), the locks themselves (tll.c), vnode.c, filedes.c and   *)
(* fcntl locks are external.                                               *)
(***************************************************************************)
EXTENDS Integers, Sequences, FiniteSets, SequencesExt

CONSTANTS
  Thread,      \* a worker, and the process it works for
  Vnode, Vmnt, \* vnodes and mounted file systems
  Kind,        \* Kind[v]: "dir", "reg", "lnk", "fifo", "blk" or "chr"
  Mount,       \* Mount[v]: where v is
  Entry,       \* the pairs <<d, v>> such that d may have an entry for v
  Fresh,       \* Fresh[t]: the free vnode that t gets for a new file
  Home,        \* the file system mounted on /home
  Load,        \* the sets of calls that a process may be making
  BSF,         \* the lock for block special files
  NULL

Lock == Vmnt \cup Vnode \cup {BSF}
File == Vnode \ {Fresh[t] : t \in Thread}
Dirs == {v \in File : Kind[v] = "dir"}

ASSUME VfsAssumption ==
  /\ Kind \in [Vnode -> {"dir", "reg", "lnk", "fifo", "blk", "chr"}]
  /\ Mount \in [Vnode -> Vmnt] /\ Home \in Vmnt
  /\ \A x \in Entry : x[1] \in Dirs /\ x[2] \in File \ {x[1]} /\ Mount[x[1]] = Mount[x[2]]
  /\ Fresh \in [Thread -> Vnode] /\ \A t \in Thread : Kind[Fresh[t]] = "reg"
  /\ \A t, u \in Thread : t # u => Fresh[t] # Fresh[u]

VARIABLES
  line,  \* the threads that wait for a lock, in the order they came
  todo,  \* todo[t]: the rest of the script that t follows
  s,     \* the tables of VFS, a record
  calls  \* calls[t]: the calls that the process of t makes

vars == <<line, todo, s, calls>>

Free == [vno |-> NULL, count |-> 0, bits |-> "R"]

Init ==
  /\ line = <<>>
  /\ todo = [t \in Thread |-> <<>>]
  /\ s = [owner   |-> [l \in Lock |-> NULL],    \* who has l read-serialized or
          excl    |-> {},                       \* exclusively
          readers |-> [l \in Lock |-> [t \in Thread |-> 0]],
          refs    |-> [t \in Thread |-> [v \in Vnode |-> 0]],
                                  \* references the call of t has to give up
          filp    |-> [t \in Thread |-> Free],  \* the slots, one per thread
          fd      |-> [t \in Thread |-> NULL],  \* the slot t's descriptor names
          flock   |-> {},                       \* file locks: <<v, t>>
          waits   |-> [t \in Thread |-> NULL],  \* the file t's fcntl waits for
          ret     |-> [t \in Thread |-> <<>>],  \* what new_node returned to t
          hard    |-> [t \in Thread |-> {}],    \* see Hard
          fault   |-> <<>>]       \* what VFS died of, and in which thread
  /\ calls \in [Thread -> Load]
-----------------------------------------------------------------------------
(* The operations of scripts.  VMNT_READ and VNODE_READ are READ, the      *)
(* read-serialized VMNT_WRITE and VNODE_OPCL are SER, VNODE_WRITE is       *)
(* WRITE.  A lookup takes a vnode read-serialized before it has it READ.   *)

Acq(l, level) == [op |-> "acq", arg |-> l, level |-> level]
Op(op, x)     == [op |-> op, arg |-> x, level |-> ""]
Rel(l)  == Op("rel", l)
Up(l)   == Op("up", l)
Down(l) == Op("down", l)
Dup(v)  == Op("dup", v)
Put(v)  == Op("put", v)
Claim(v, bits) == [op |-> "claim", arg |-> v, level |-> bits]
Drop(v) == Op("drop", v)
Use(v)  == Op("use", v)        \* v is dereferenced
Held(v) == Op("held", v)       \* assert(tll_locked_by_me())
Req     == Op("req", NULL)     \* a request to a file system or driver
Alt(S)  == Op("alt", S)        \* one of the scripts of S
Hard(how) == Op("hard", how)    \* the path of t takes a turn the code is not made for
Ret(vp, r) == [op |-> "ret", arg |-> vp, level |-> r]

MayReq == Alt({<<>>, <<Req>>})
When(c, script) == IF c THEN script ELSE <<>>
If(c, script)   == IF c THEN {script} ELSE {}     \* an alternative there may be

\* eat_path() and last_dir(): the mount is locked, then the vnode.
Lookup(v, ml, vl) == <<Acq(Mount[v], ml), Req, Acq(v, vl), Dup(v)>>
NoLookup(m, ml)   == <<Acq(m, ml), Req, Rel(m)>>

\* advance() from d, which is locked, to its entry v or to nothing.  A lock
\* that the caller owns is not taken again.
Advance(d, v, vl) == <<Req>> \o When(v \notin {NULL, d}, <<Acq(v, vl)>>)
                     \o When(v # NULL, <<Dup(v)>>)
Forget(v) == When(v # NULL, <<Rel(v), Put(v)>>)
\* The same for an entry that may be the directory, which is locked once.
ForgetEntry(d, v, how) == When(v = d, <<Hard(how)>>) \o Forget(v)

\* How every call that has looked up v ends.
Release(v) == <<Rel(v), Rel(Mount[v]), Put(v)>>
\* A path is given by the directory and the entry it leads to, itself or none.
Name == {x \in Dirs \X (File \cup {NULL}) : x[2] \in {NULL, x[1]} \/ x \in Entry}
Bits(v) == IF v # NULL /\ Kind[v] = "fifo" THEN {"R", "W"} ELSE {"R"}

-----------------------------------------------------------------------------
(* link.c *)

truncate_vnode(v) == <<Held(v)>> \o When(Kind[v] \in {"reg", "fifo"}, <<Req>>)

\* The lookup of the second name of link and rename: a mount that the call
\* has locked already is not locked again, which leaves newvmp NULL.
Second(m1, m2) == When(m2 # m1, <<Acq(m2, "READ")>>) \o <<Req>>
Undo(m1, m2)   == When(m2 # m1, <<Rel(m2)>>)

do_link(v, d) ==
  LET m1 == Mount[v]
      m2 == Mount[d]
  IN Lookup(v, "SER", "LOOKUP") \o Second(m1, m2) \o
     <<Alt({Undo(m1, m2) \o Release(v),
            When(v = d, <<Hard("self")>>) \o <<Acq(d, "WRITE"), Dup(d), MayReq, Rel(v), Rel(d)>>
            \o Undo(m1, m2) \o <<Rel(m1), Put(v), Put(d)>>})>>

\* The sticky bit of d: the owner of the entry v is looked at first.
Sticky(d, v, fails, goesOn) ==
  LET check == Advance(d, v, "LOOKUP") \o ForgetEntry(d, v, "dot")
  IN Alt({goesOn, check \o fails} \cup If(v # NULL, check \o goesOn))

\* Mutant of do_unlink: the mount is locked for reading only.
do_unlink_read(d, v) ==
  Lookup(d, "READ", "WRITE") \o Advance(d, v, "LOOKUP") \o ForgetEntry(d, v, "dot")
  \o <<Req>> \o Release(d)

\* v is what the second lookup finds; its number is printed before the test.
do_unlink(d, v) ==
  Lookup(d, "SER", "WRITE") \o
  <<Alt({Release(d),         \* not a directory, or no permission
         <<Sticky(d, v, Release(d),
                  <<Up(Mount[d])>> \o Advance(d, v, "LOOKUP")
                  \o When(Mount[d] = Home, When(v = NULL, <<Hard("missing")>>) \o <<Use(v)>>)
                  \o ForgetEntry(d, v, "dot")
                  \o <<Req>> \o Release(d))>>})>>

\* Mutant of do_rename: the mount of the new directory stays locked.
do_rename_locked(d1, v, d2) ==
  Lookup(d1, "SER", "WRITE") \o Second(Mount[d1], Mount[d2])
  \o When(d2 # d1, <<Acq(d2, "WRITE")>>) \o <<Dup(d2)>>
  \o <<Rel(d1), Rel(Mount[d1])>> \o When(d2 # d1, <<Rel(d2)>>) \o <<Put(d1), Put(d2)>>

\* new_dirp_l stays NULL when both directories are the same.
do_rename(d1, v, d2) ==
  LET m1 == Mount[d1]
      m2 == Mount[d2]
      got   == When(d2 # d1, <<Acq(d2, "WRITE")>>) \o <<Dup(d2)>>
      final == <<Rel(d1), Rel(m1)>> \o When(d2 # d1, <<Rel(d2)>>)
               \o Undo(m1, m2) \o <<Put(d1), Put(d2)>>
  IN Lookup(d1, "SER", "WRITE") \o
     <<Sticky(d1, v, Release(d1),
              <<Alt({Release(d1),
                     Second(m1, m2) \o
                     <<Alt({Undo(m1, m2) \o Release(d1),
                            got \o <<Alt({<<>>, When(m1 = m2, <<Up(m1), Req>>)})>>
                                \o final})>>})>>)>>

do_truncate(v) == Lookup(v, "READ", "WRITE") \o
                  <<Alt({<<>>, truncate_vnode(v)})>> \o Release(v)

do_ftruncate(v) == <<Acq(v, "WRITE"), Alt({<<>>, truncate_vnode(v)}), Rel(v)>>

do_slink(d) == Lookup(d, "SER", "WRITE") \o <<MayReq>> \o Release(d)

rdlink_direct(v) == Lookup(v, "READ", "LOOKUP") \o When(Kind[v] = "lnk", <<Req>>)
                    \o Release(v)
do_rdlink(v) == rdlink_direct(v)
-----------------------------------------------------------------------------
(* open.c *)

lock_bsf   == Acq(BSF, "WRITE")
unlock_bsf == Rel(BSF)

\* Mutant of Found: the directory is always unlocked.
Found_same(d, vp, r) == <<Rel(d), Rel(Mount[d]), Put(d), Ret(vp, r)>>

\* The end of new_node: vp is locked only once when it is the directory.
Found(d, vp, r) == When(vp # d, <<Rel(d)>>) \o <<Rel(Mount[d]), Put(d), Ret(vp, r)>>

\* new_node calls itself, because its path turned out to be absolute or to
\* end in a symbolic link to no file.
Again(vl, how) == [op |-> "again", arg |-> how, level |-> vl]

\* After req_create has said EEXIST: a symbolic link slp to no file, whose
\* target new_node calls itself for.
Dangling(t, d, slp, vl) ==
  LET m == Mount[d]
  IN <<Down(m), Req, Acq(slp, "LOOKUP"), Dup(slp), Req,
       Alt({<<Rel(slp), Put(slp), Rel(d), Rel(Fresh[t]), Rel(m), Again(vl, "link"),
              Op("linked", d)>>,
            <<Hard("unreadable"), Rel(slp), Rel(d), Rel(m), Put(slp), Put(d), Ret(NULL, "EIO")>>})>>

\* When new_node has called itself.
Linked(d, vp) == IF vp # NULL THEN <<Put(d)>>
                 ELSE <<Hard("dangling"), Rel(Mount[d]), Rel(d), Use(NULL), Put(d)>>

\* new_node for the entry v of d, vl the lock for v; how it was called: by
\* common_open, or by itself.
new_node(t, d, v, vl, how) ==
  LET m     == Mount[d]
      vp    == Fresh[t]
      first == how = "open"
      abs   == If(first, <<Rel(d), Rel(m), Put(d)>> \o ForgetEntry(d, v, "own")
                         \o <<Again(vl, "abs")>>)
      new   == <<Acq(vp, "SER"), Up(m), Req,
                 Alt({<<Dup(vp)>> \o Found(d, vp, "OK"),
                      <<Down(m), Rel(m), Rel(d), Rel(vp), Put(d), Ret(NULL, "EACCES")>>}
                     \cup {Dangling(t, d, x, vl) : x \in {y \in File : first /\ <<d, y>> \in Entry /\ Kind[y] = "lnk"}})>>
  IN Lookup(d, "SER", "WRITE") \o Advance(d, v, vl) \o
     <<Alt(abs \cup If(v # NULL, Found(d, v, "EEXIST")) \cup If(v = NULL, new)
               \cup If(v = NULL, Release(d) \o <<Ret(NULL, "ENFILE")>>)
               \cup If(v = NULL, Found(d, NULL, "EACCES")))>>

\* The tail of common_open: unlock_filp, and the vnode given back on error.
Opened(v)  == <<Rel(v)>>
OpenErr(v) == <<Rel(v), Drop(v), Put(v)>>

\* pipe_open: ENXIO, or the open succeeds or is suspended, and the search for
\* a filp to share follows.
pipe_open(v) == Alt({<<Op("share", v)>>, OpenErr(v)})

\* A FIFO that is open is mapped already: mapping fails for nobody but the
\* first, who may have to truncate it.
OpenFifo(v) ==
  <<Up(v), Req, Alt({<<pipe_open(v)>>, truncate_vnode(v) \o <<pipe_open(v)>>,
                     <<Op("mapfail", v)>>})>>

OpenBlock(v) ==
  <<lock_bsf, Req,
    Alt({<<unlock_bsf>> \o Opened(v), <<unlock_bsf>> \o OpenErr(v),
         <<Req, unlock_bsf>> \o Opened(v), <<Req, Req, unlock_bsf>> \o OpenErr(v)})>>

\* common_open from the point where descriptor and filp slot are claimed.
OpenExisting(v, bits) ==
  <<Claim(v, bits),
    Alt({OpenErr(v),
         CASE Kind[v] = "reg"  -> <<Alt({<<>>, <<Up(v)>> \o truncate_vnode(v)})>> \o Opened(v)
           [] Kind[v] = "chr"  -> <<Req, Alt({Opened(v), OpenErr(v)})>>
           [] Kind[v] = "blk"  -> OpenBlock(v)
           [] Kind[v] = "fifo" -> OpenFifo(v)
           [] OTHER            -> Opened(v)})>>

\* common_open with O_CREAT, when new_node has returned vp and r.
Created(vp, r, bits) ==
  CASE r = "OK"     -> <<Use(vp), Claim(vp, bits)>> \o Opened(vp)
    [] r = "EEXIST" -> <<Alt({OpenExisting(vp, bits), <<Claim(vp, bits)>> \o OpenErr(vp)})>>
    [] OTHER        -> When(vp # NULL, <<Rel(vp)>>)

common_open(v, bits) == Lookup(v, "READ", "SER") \o <<Rel(Mount[v])>> \o OpenExisting(v, bits)

do_open(v, bits) == common_open(v, bits)

\* do_creat: new_node, through at most one symbolic link.
do_creat(t, d, v, vl, bits) ==
  new_node(t, d, v, vl, "open") \o <<[op |-> "created", arg |-> NULL, level |-> bits]>>

do_mknod(d) == Lookup(d, "SER", "WRITE") \o <<MayReq>> \o Release(d)
do_mkdir(d) == Lookup(d, "SER", "WRITE") \o <<MayReq>> \o Release(d)

actual_lseek(v) == <<Acq(v, "READ")>> \o When(Kind[v] # "fifo", <<MayReq>>) \o <<Rel(v)>>

\* Mutant of close_fd: file locks stay.
close_fd_locked(v) == <<Acq(v, "SER"), Op("close", v)>>

\* close_fd: the descriptor goes first, file locks last.
close_fd(v) == <<Acq(v, "SER"), Op("close", v), Op("unlockfile", v)>>
-----------------------------------------------------------------------------
(* read.c *)

read_write(v) == IF Kind[v] = "blk" THEN <<lock_bsf, Req, unlock_bsf>> ELSE <<MayReq>>

actual_read_write_peek(v, level) == <<Acq(v, level), Alt({<<>>, read_write(v)}), Rel(v)>>

do_getdents(v) == <<Acq(v, "READ")>> \o When(Kind[v] = "dir", <<MayReq>>) \o <<Rel(v)>>
-----------------------------------------------------------------------------
(* The threads *)

\* Locks: readers go with readers and one read-serialized holder, until it
\* waits to become exclusive.
Unread(x, l)  == \A t \in Thread : x.readers[l][t] = 0
Upgrades(t, l) == \E u \in Thread \ {t} : todo[u] # <<>> /\ Head(todo[u]) = Up(l)
Fits(x, t, l, level) ==
  CASE level = "READ"  -> x.owner[l] = NULL \/ ~(l \in x.excl \/ Upgrades(t, l))
    [] level = "WRITE" -> x.owner[l] = NULL /\ Unread(x, l)
    [] OTHER           -> x.owner[l] = NULL

\* o of t need not wait.
Goes(x, t, o) == CASE o.op = "acq" -> Fits(x, t, o.arg, o.level)
                   [] o.op = "up"  -> Unread(x, o.arg)
                   [] o.op = "put" -> x.owner[o.arg] \in {t, NULL}
                   [] OTHER        -> TRUE

\* A lock that is given up goes to the thread that has waited longest: o of t
\* may not have it before those of q.
Served(x, t, o, q) ==
  /\ Goes(x, t, o)
  /\ o.op \in {"acq", "put"} =>
       \A i \in DOMAIN q : LET p == Head(todo[q[i]]) IN p.arg = o.arg => ~Goes(x, q[i], p)

Acquire(x, t, l, level) ==
  IF level \in {"READ", "LOOKUP"} THEN [x EXCEPT !.readers[l][t] = @ + 1]
  ELSE [x EXCEPT !.owner[l] = t, !.excl = IF level = "WRITE" THEN @ \cup {l} ELSE @]
Unlock(x, t, l) ==
  IF x.owner[l] = t THEN [x EXCEPT !.owner[l] = NULL, !.excl = @ \ {l}]
  ELSE IF x.readers[l][t] > 0 THEN [x EXCEPT !.readers[l][t] = @ - 1]
  ELSE [x EXCEPT !.fault = <<"unlock", t>>]
Holds(x, t, l) == x.owner[l] = t \/ x.readers[l][t] > 0

\* The tables after an operation that takes none of the branches of Step.
Exec(x, t, o) ==
  LET v == o.arg
  IN CASE o.op = "acq"   -> Acquire(x, t, v, o.level)
       [] o.op = "up"    -> [x EXCEPT !.excl = @ \cup {v}]
       [] o.op = "put"   -> [x EXCEPT !.refs[t][v] = @ - 1]
       [] o.op = "rel"   -> Unlock(x, t, v)
       [] o.op = "down"  -> [x EXCEPT !.excl = @ \ {v}]
       [] o.op = "dup"   -> [x EXCEPT !.refs[t][v] = @ + 1]
       [] o.op = "use"   -> IF v = NULL THEN [x EXCEPT !.fault = <<"null", t>>] ELSE x
       [] o.op = "held"  -> IF Holds(x, t, v) THEN x ELSE [x EXCEPT !.fault = <<"assert", t>>]
       [] o.op = "claim" ->
            LET u == IF x.filp[t].count = 0 THEN t     \* get_fd()
                     ELSE CHOOSE u \in Thread : x.filp[u].count = 0
            IN [x EXCEPT !.filp[u] = [vno |-> v, count |-> 1, bits |-> o.level],
                         !.fd[t] = u, !.refs[t][v] = @ - 1]
       [] o.op = "drop"  -> [x EXCEPT !.filp[x.fd[t]] = Free, !.fd[t] = NULL, !.refs[t][v] = @ + 1]
       [] o.op = "hard"  -> [x EXCEPT !.hard[t] = @ \cup {v}]
       [] o.op = "ret"   -> [x EXCEPT !.ret[t] = <<v, o.level>>]
       [] o.op = "unlockfile" ->    \* and lock_revive: everyone tries again
            [x EXCEPT !.flock = @ \ {<<v, t>>},
                      !.waits = IF <<v, t>> \in x.flock THEN [u \in Thread |-> NULL] ELSE @]
       [] OTHER          -> x

\* A FIFO: the slot of someone else with the same access is shared
\* (find_filp); without one the slot that was claimed stays.
Others(x, t, v) == {u \in Thread \ {x.fd[t]} : x.filp[u].vno = v /\ x.filp[u].count > 0}
Share(x, t, v) ==
  LET co == {u \in Others(x, t, v) : x.filp[u].bits = x.filp[x.fd[t]].bits}
  IN IF co = {} THEN {<<x, Opened(v)>>}
     ELSE {<<[x EXCEPT !.filp[x.fd[t]] = Free, !.fd[t] = u, !.filp[u].count = @ + 1,
                       !.refs[t][v] = @ + 1], <<Rel(v), Put(v)>> >> : u \in co}

\* close_filp(): the last one to close gives the vnode back.
Close(x, t, v) ==
  LET u == x.fd[t]
      y == [x EXCEPT !.fd[t] = NULL, !.filp[u].count = @ - 1]
  IN IF x.filp[u].count > 1 THEN {<<y, <<Rel(v)>> >>}
     ELSE {<<[y EXCEPT !.filp[u] = Free, !.refs[t][v] = @ + 1], <<Rel(v), Put(v)>> >>}

\* The outcomes of one operation: the tables, and what the script goes on with.
Step(x, t, o) ==
  CASE o.op = "alt"     -> {<<x, r>> : r \in o.arg}
    [] o.op = "share"   -> Share(x, t, o.arg)
    [] o.op = "mapfail" -> \* a FIFO that is open is mapped already
         IF Others(x, t, o.arg) # {} THEN Share(x, t, o.arg) ELSE {<<x, OpenErr(o.arg)>>}
    [] o.op = "close"   -> Close(x, t, o.arg)
    [] o.op = "again"   -> {<<x, new_node(t, y[1], y[2], o.level, o.arg)>> : y \in Name}
                           \cup {<<x, NoLookup(m, "SER") \o <<Ret(NULL, "ENOENT")>> >> : m \in Vmnt}
    [] o.op = "linked"  -> {<<x, Linked(o.arg, x.ret[t][1])>>}
    [] o.op = "created" -> {<<[x EXCEPT !.ret[t] = <<>>], Created(x.ret[t][1], x.ret[t][2], o.level)>>}
    [] OTHER            -> {<<Exec(x, t, o), <<>> >>}

\* Where t may get with the script r in x before it has to wait again, for
\* an answer or for a lock.
RECURSIVE Settle(_, _, _)
Stops(t, x, r) == \/ r = <<>> \/ x.fault # <<>> \/ Head(r).op = "req"
                  \/ ~Served(x, t, Head(r), Remove(line, t))
Follow(t, x, r) == UNION {Settle(t, y[1], y[2] \o Tail(r)) : y \in Step(x, t, Head(r))}
Settle(t, x, r) == IF Stops(t, x, r) THEN {<<x, r>>} ELSE Follow(t, x, r)

Runs(t, outcomes) ==
  \E y \in outcomes :
    /\ s' = y[1]
    /\ todo' = [todo EXCEPT ![t] = y[2]]
    /\ line' = IF y[2] = <<>> \/ y[1].fault # <<>> \/ Head(y[2]).op = "req"
               THEN Remove(line, t) ELSE Append(Remove(line, t), t)
    /\ UNCHANGED calls

Answer(t) == todo[t] # <<>> /\ Head(todo[t]).op = "req" /\ Runs(t, Settle(t, s, Tail(todo[t])))

Before(t) == SubSeq(line, 1, (CHOOSE i \in DOMAIN line : line[i] = t) - 1)
Granted(t) == /\ Contains(line, t) /\ Served(s, t, Head(todo[t]), Before(t))
              /\ Runs(t, Follow(t, s, todo[t]))

\* After an unreadable link a vnode is locked for ever: t makes no further call.
Begin(t) ==
  LET Start(r) == Runs(t, Settle(t, s, r))
      v == s.filp[s.fd[t]].vno
  IN /\ todo[t] = <<>> /\ s.waits[t] = NULL /\ s.hard[t] = {}
     /\ \/ s.fd[t] = NULL /\ "open" \in calls[t]
           /\ \/ \E m \in Vmnt, l \in {"READ", "SER"} : Start(NoLookup(m, l))
              \/ \E w \in File : \E b \in Bits(w) : Start(do_open(w, b))
              \/ \E x \in Name, vl \in {"SER", "WRITE"} :
                   \E b \in Bits(x[2]) : Start(do_creat(t, x[1], x[2], vl, b))
        \/ s.fd[t] # NULL
           /\ \/ Start(close_fd(v)) \/ Start(do_ftruncate(v)) \/ Start(actual_lseek(v))
              \/ \E l \in {"READ", "WRITE"} : Start(actual_read_write_peek(v, l))
              \/ Start(do_getdents(v))
        \/ "link" \in calls[t]
           /\ \/ \E w \in File, d \in Dirs : Start(do_link(w, d))
              \/ \E x \in Name : Start(do_unlink(x[1], x[2]))
              \/ \E x \in Name, d \in Dirs : Start(do_rename(x[1], x[2], d))
        \/ "make" \in calls[t]
           /\ \/ \E d \in Dirs : Start(do_mknod(d)) \/ Start(do_mkdir(d)) \/ Start(do_slink(d))
              \/ \E w \in File : Start(do_truncate(w)) \/ Start(do_rdlink(w))

\* fcntl(F_SETLKW), on a file that is open: granted, or suspended.
Fcntl(t) ==
  /\ todo[t] = <<>> /\ s.waits[t] = NULL /\ s.fd[t] # NULL
  /\ LET v == s.filp[s.fd[t]].vno
     IN s' = IF \E u \in Thread \ {t} : <<v, u>> \in s.flock
             THEN [s EXCEPT !.waits[t] = v] ELSE [s EXCEPT !.flock = @ \cup {<<v, t>>}]
  /\ UNCHANGED <<line, todo, calls>>

Next == /\ s.fault = <<>>
        /\ \E t \in Thread : Begin(t) \/ Answer(t) \/ Granted(t) \/ Fcntl(t)
Spec == Init /\ [][Next]_vars
-----------------------------------------------------------------------------
(* Properties *)

\* On every path through open, link, unlink, rename and the others: a call
\* that has returned holds no lock and no reference but the one of its
\* descriptor, and a filp slot is counted as often as it is named.  The one
\* exception is new_node, which keeps the free vnode locked when it cannot read
\* a symbolic link (open.c:398-405).
Kept(t) == IF "unreadable" \in s.hard[t] THEN {Fresh[t]} ELSE {}
NothingKept ==
  /\ \A t \in Thread : todo[t] = <<>> /\ s.fault = <<>> =>
       /\ \A l \in Lock \ Kept(t) : ~Holds(s, t, l)
       /\ \A v \in Vnode : s.refs[t][v] = 0
  /\ \A u \in Thread : s.filp[u].count = Cardinality({t \in Thread : s.fd[t] = u})

\* What VFS dies of: the number of a missing file is printed; "." and a link to
\* its own directory are unlocked as entry and as directory; after a failed
\* call of itself new_node unlocks once more what it has unlocked.
DiesOf == [missing |-> "null", dot |-> "unlock", own |-> "unlock", dangling |-> "unlock"]

\* No call unlocks what it does not hold (the assertions of tll_unlock),
\* truncates a vnode it has not locked, or follows a NULL vnode, but on the four
\* paths above, in the thread that takes them and as they make it.
NoFault ==
  s.fault # <<>> => \E how \in s.hard[s.fault[2]] \cap DOMAIN DiesOf : DiesOf[how] = s.fault[1]

\* The vnode whose number do_unlink and common_open print exists.
NoNullUse == s.fault = <<>> \/ s.fault[1] # "null"

\* Whom t waits for.
Waits(t, u) ==
  /\ todo[t] # <<>> /\ t # u
  /\ LET o == Head(todo[t])
         l == o.arg
     IN \/ o.op = "acq" /\ ~Fits(s, t, l, o.level) /\ Holds(s, u, l)
        \/ o.op = "put" /\ s.owner[l] = u
        \/ o.op = "up" /\ s.readers[l][u] > 0

\* Mounts are locked before vnodes, and two vnodes only under the serialized
\* lock of their mount: two threads that ask for locks never wait for each
\* other, unless one has locked two mounts.  (Not so where a lock on a mount is
\* made exclusive, or a vnode is given back that has been unlocked before.)
OrderedWaits ==
  \A t, u \in Thread :
    Waits(t, u) /\ Waits(u, t) /\ (\A z \in {t, u} : Head(todo[z]).op = "acq") =>
      \E z \in {t, u} : Cardinality({m \in Vmnt : Holds(s, z, m)}) > 1

\* close_fd drops the file locks of the process and wakes those who wait:
\* nobody keeps a lock on a file it has closed, or waits for a lock that no
\* one has.
FileLocks ==
  \A t \in Thread :
    /\ \A v \in Vnode : <<v, t>> \in s.flock /\ todo[t] = <<>> /\ s.fault = <<>> =>
         s.fd[t] # NULL /\ s.filp[s.fd[t]].vno = v
    /\ s.waits[t] # NULL => \E u \in Thread \ {t} : <<s.waits[t], u>> \in s.flock
=============================================================================
