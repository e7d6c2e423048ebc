--------------------------- MODULE PageReplacement ---------------------------
(***************************************************************************)
(* The three page replacement programs of Lab-08.  Each reads a reference  *)
(* string page by page; a step is one turn of its loop.                    *)
(***************************************************************************)
EXTENDS Integers, Sequences, FiniteSets, SequencesExt

CONSTANTS Page,      \* the page numbers that occur, all below num_blocks
          NumFrames, \* num_frames
          MaxRefs    \* bound on the length of the reference string

ASSUME PageAssumption == Page \subseteq Nat /\ NumFrames \in Nat \ {0}

VARIABLE mem         \* the variables of the program that runs
Frame == 0..NumFrames - 1

PageStart(p) ==
  [program    |-> p,
   references |-> <<>>,                  \* what has been read
   queue      |-> <<>>,                  \* fifoQueue, frameQueue
   frameUsage |-> [f \in Frame |-> -1],
   in_memory  |-> {},                    \* the pages entered in it
   pageFaults |-> 0,
   page_hits  |-> 0]

PageInit == \E p \in {"fifo", "lru", "random"} : mem = PageStart(p)

Full(m) == Len(m.queue) = NumFrames

fifo(m, page) ==
  IF page \in m.in_memory THEN m
  ELSE [m EXCEPT !.pageFaults = @ + 1,
                 !.queue      = Append(IF Full(m) THEN Tail(@) ELSE @, page),
                 !.in_memory  = (IF Full(m) THEN @ \ {Head(m.queue)} ELSE @) \cup {page}]

\* Mutant of lru: a page that is used again keeps its place.
lru_unmoved(m, page) == fifo(m, page)

lru(m, page) ==
  IF page \in m.in_memory THEN [m EXCEPT !.queue = Append(RemoveFirst(@, page), page)]
  ELSE LET room == Cardinality(m.in_memory) < NumFrames
       IN [m EXCEPT !.pageFaults = @ + 1,
                    !.in_memory  = (IF room THEN @ ELSE @ \ {Head(m.queue)}) \cup {page},
                    !.queue      = Append(IF room THEN @ ELSE Tail(@), page)]

\* victim: what rand() % num_frames gave.
random(m, page, victim) ==
  IF page \in m.in_memory THEN [m EXCEPT !.page_hits = @ + 1]
  ELSE [m EXCEPT !.in_memory = (@ \ {m.frameUsage[victim]}) \cup {page},
                 !.frameUsage[victim] = page,
                 !.pageFaults = @ + 1]

PageNext ==
  /\ Len(mem.references) < MaxRefs
  /\ \E page \in Page :
       LET m == [mem EXCEPT !.references = Append(@, page)]
       IN \/ mem.program = "fifo" /\ mem' = fifo(m, page)
          \/ mem.program = "lru" /\ mem' = lru(m, page)
          \/ mem.program = "random" /\ \E f \in Frame : mem' = random(m, page, f)

PageSpec == PageInit /\ [][PageNext]_mem
-----------------------------------------------------------------------------
(* What the policies mean, from the reference string alone *)

\* The pages that first in, first out loads in the course of s.
Load(loaded, page) ==
  IF \E i \in 1..Len(loaded) : i > Len(loaded) - NumFrames /\ loaded[i] = page
  THEN loaded ELSE Append(loaded, page)
Loads(s) == LET loads[n \in 0..Len(s)] == IF n = 0 THEN <<>> ELSE Load(loads[n - 1], s[n])
            IN loads[Len(s)]
LastOf(s, n) == SubSeq(s, IF Len(s) > n THEN Len(s) - n + 1 ELSE 1, Len(s))

\* The pages after whose last use fewer than n others were used.
LatelyUsed(s, n) ==
  {s[i] : i \in {i \in DOMAIN s : /\ \A j \in i + 1..Len(s) : s[j] # s[i]
                                  /\ Cardinality({s[j] : j \in i + 1..Len(s)}) < n}}

\* Table and queue (or frames) of each program agree, hold what its policy
\* says for the references so far, and the faults it reports are the loads
\* the policy needs.
PagesResident ==
  LET s == mem.references
  IN CASE mem.program = "fifo" ->
            /\ mem.queue = LastOf(Loads(s), NumFrames) /\ mem.in_memory = ToSet(mem.queue)
            /\ mem.pageFaults = Len(Loads(s))
       [] mem.program = "lru" ->
            /\ mem.in_memory = LatelyUsed(s, NumFrames) /\ mem.in_memory = ToSet(mem.queue)
            /\ Len(mem.queue) = Cardinality(mem.in_memory)
            /\ mem.pageFaults = Cardinality({i \in DOMAIN s :
                 s[i] \notin LatelyUsed(SubSeq(s, 1, i - 1), NumFrames)})
       [] mem.program = "random" ->
            /\ \A p \in mem.in_memory : \E f \in Frame :
                 {g \in Frame : mem.frameUsage[g] = p} = {f}
            /\ \A f \in Frame : mem.frameUsage[f] # -1 => mem.frameUsage[f] \in mem.in_memory
            /\ mem.pageFaults + mem.page_hits = Len(s)
=============================================================================
