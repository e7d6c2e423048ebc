---------------------------- MODULE JobScheduling ----------------------------
(***************************************************************************)
(* The scheduling simulators of Lab-04: 200010004_sjf.cpp (shortest burst  *)
(* first) and temp.cpp (least work left first).  Both have one CPU and one *)
(* device for I/O; a step is one turn of the main loop.  The input files   *)
(* give every job its arrival time and its bursts, CPU and I/O in turn.    *)
(***************************************************************************)
EXTENDS Integers, Sequences, FiniteSets, SequencesExt

CONSTANTS Job,       \* 0..n-1, the lines of the input file
          Arrival,   \* the arrival times
          Bursts     \* the sequences of bursts

ASSUME JobAssumption == /\ Job \subseteq Nat /\ Arrival \subseteq Nat
                        /\ \A b \in Bursts : b # <<>> /\ ToSet(b) \subseteq Nat \ {0}

VARIABLE job         \* the variables of the program that runs, a record
Nobody == -1

Sum(s) == FoldLeft(LAMBDA x, y : x + y, 0, s)
Least(S) == CHOOSE x \in S : \A y \in S : x[1] < y[1] \/ (x[1] = y[1] /\ x[2] <= y[2])

\* readdata, read_process_data
JobStart(p, at, b) ==
  [program |-> p, at |-> at, all |-> b,
   process |-> b,                      \* the bursts to come
   time |-> 0, over |-> FALSE,
   new |-> Job,                        \* those that are yet to arrive
   cpuq |-> {}, ioq |-> <<>>,          \* pairs <<burst, job>>
   cpu |-> Nobody, cpuLeft |-> 0,        \* who is on the CPU, how long
   io |-> Nobody, ioLeft |-> 0,
   ptime |-> [j \in Job |-> 0],        \* ptime_total
   response |-> [j \in Job |-> Nobody],
   finish |-> [j \in Job |-> Nobody],    \* completion
   wait |-> [j \in Job |-> Nobody],
   queued |-> [j \in Job |-> 0]]       \* turns seen in a queue

JobInit == \E p \in {"sjf", "temp"}, at \in [Job -> Arrival], b \in [Job -> Bursts] :
             job = JobStart(p, at, b)
-----------------------------------------------------------------------------
(* 200010004_sjf.cpp *)

Arrive(s) ==
  LET come == {j \in s.new : s.at[j] = s.time}
  IN [s EXCEPT !.new = @ \ come,
               !.cpuq = @ \cup {<<Head(s.process[j]), j>> : j \in come},
               !.process = [j \in Job |-> IF j \in come THEN Tail(@[j]) ELSE @[j]]]

\* Mutant of Dispatch: the time on the CPU is not counted.
Dispatch_uncounted(s) ==
  IF s.cpu # Nobody \/ s.cpuq = {} THEN s
  ELSE LET x == Least(s.cpuq)
       IN [s EXCEPT !.cpu = x[2], !.cpuLeft = x[1], !.cpuq = @ \ {x},
                    !.response[x[2]] = IF @ = Nobody THEN s.time - s.at[x[2]] ELSE @]

Dispatch(s) ==
  IF s.cpu # Nobody \/ s.cpuq = {} THEN s
  ELSE LET x == Least(s.cpuq)
       IN [s EXCEPT !.cpu = x[2], !.cpuLeft = x[1], !.cpuq = @ \ {x},
                    !.ptime[x[2]] = @ + x[1],
                    !.response[x[2]] = IF @ = Nobody THEN s.time - s.at[x[2]] ELSE @]

DispatchIO(s) ==
  IF s.io # Nobody \/ s.ioq = <<>> THEN s
  ELSE LET x == Head(s.ioq)
       IN [s EXCEPT !.io = x[2], !.ioLeft = x[1], !.ioq = Tail(@), !.ptime[x[2]] = @ + x[1]]

Queued(s) == {x[2] : x \in s.cpuq \cup ToSet(s.ioq)}
Count(s) == [s EXCEPT !.cpuLeft = IF @ >= 1 THEN @ - 1 ELSE @,
                      !.ioLeft  = IF @ >= 1 THEN @ - 1 ELSE @,
                      !.queued  = [j \in Job |-> IF j \in Queued(s) THEN @[j] + 1 ELSE @[j]]]

\* The last burst of j is over.
Finish(s, j) == [s EXCEPT !.finish[j] = s.time + 1,
                          !.wait[j] = s.time + 1 - s.at[j] - s.ptime[j]]

\* A burst ends: the job goes to the other queue, and the simulation stops
\* when both queues are empty, whoever else is under way.
EndIO(s) ==
  LET j == s.io
      t == IF s.process[j] = <<>> THEN Finish(s, j)
           ELSE [s EXCEPT !.cpuq = @ \cup {<<Head(s.process[j]), j>>}, !.process[j] = Tail(@)]
  IN IF j = Nobody \/ s.ioLeft > 0 THEN s
     ELSE IF t.cpuq = {} /\ t.ioq = <<>> THEN [t EXCEPT !.over = TRUE, !.io = Nobody]
     ELSE [t EXCEPT !.io = Nobody]

EndCPU(s) ==
  LET j == s.cpu
      t == IF s.process[j] = <<>> THEN Finish(s, j)
           ELSE [s EXCEPT !.ioq = Append(@, <<Head(s.process[j]), j>>), !.process[j] = Tail(@)]
  IN IF s.over \/ j = Nobody \/ s.cpuLeft > 0 THEN s
     ELSE IF t.cpuq = {} /\ t.ioq = <<>> THEN [t EXCEPT !.over = TRUE, !.cpu = Nobody]
     ELSE [t EXCEPT !.cpu = Nobody]

Clock(s) == IF s.over THEN s ELSE [s EXCEPT !.time = @ + 1]

startEvent == /\ job.program = "sjf"
              /\ job' = Clock(EndCPU(EndIO(Count(DispatchIO(Dispatch(Arrive(job)))))))
-----------------------------------------------------------------------------
(* temp.cpp: bursts of odd index are I/O; the CPU queue is ordered by the  *)
(* CPU time left, the I/O queue by the burst.                              *)

Work(b, parity) == Sum([i \in DOMAIN b |-> IF i % 2 = parity THEN b[i] ELSE 0])
CpuWork(s, j) == Work(s.process[j], 1)

Enter(s) ==
  LET come == {j \in s.new : s.at[j] <= s.time}
  IN [s EXCEPT !.new = @ \ come, !.cpuq = @ \cup {<<CpuWork(s, j), j>> : j \in come}]

AllIdle(s) == s.cpuq = {} /\ s.ioq = <<>> /\ s.cpu = Nobody /\ s.io = Nobody
Turn(s) == [s EXCEPT !.time = @ + 1, !.over = AllIdle(s)]

\* One turn of the I/O device.  The bursts of a job are its own: the CPU burst
\* that is over has been removed, so the first is the one for I/O.
TurnIO(s) ==
  LET j == s.io
      x == Least(ToSet(s.ioq))
      b == Tail(s.process[j])
      t == [s EXCEPT !.process[j] = [@ EXCEPT ![1] = @ - 1]]
  IN IF j = Nobody
     THEN IF s.ioq = <<>> THEN s ELSE [s EXCEPT !.io = x[2], !.ioq = Remove(@, x)]
     ELSE IF s.process[j][1] > 1 THEN t
     ELSE IF b = <<>> THEN [t EXCEPT !.io = Nobody, !.finish[j] = s.time + 1, !.process[j] = b]
     ELSE [t EXCEPT !.io = Nobody, !.process[j] = b, !.cpuq = @ \cup {<<Work(b, 1), j>>}]

\* One turn of the CPU; when a job goes on to I/O, the device loses the turn.
TurnCPU(s) ==
  LET j == s.cpu
      b == Tail(s.process[j])
  IN IF s.process[j][1] > 1 THEN Turn(TurnIO([s EXCEPT !.process[j] = [@ EXCEPT ![1] = @ - 1]]))
     ELSE IF b = <<>> THEN Turn(TurnIO([s EXCEPT !.cpu = Nobody, !.finish[j] = s.time + 1,
                                                 !.process[j] = b]))
     ELSE [s EXCEPT !.cpu = Nobody, !.process[j] = b, !.ioq = Append(@, <<b[1], j>>), !.time = @ + 1]

main ==
  LET s == Enter(job)
      x == Least(s.cpuq)
  IN /\ job.program = "temp"
     /\ job' = IF s.cpu # Nobody THEN TurnCPU(s)
               ELSE IF s.cpuq = {} THEN Turn(TurnIO(s))
               ELSE [s EXCEPT !.cpu = x[2], !.cpuq = @ \ {x},
                              !.response[x[2]] = IF @ = Nobody THEN s.time - s.at[x[2]] ELSE @]

JobNext == ~job.over /\ (startEvent \/ main)
-----------------------------------------------------------------------------
\* The times that are reported: a job's waiting time (sjf) is the number of
\* turns it has stood in a queue, no job is finished before the time that its
\* bursts take, the response comes before, and temp.cpp ends when every job that
\* has arrived is finished.
TimesReported ==
  /\ \A j \in Job :
       /\ job.wait[j] # Nobody => /\ job.wait[j] = job.queued[j]
                                /\ job.ptime[j] = Sum(job.all[j])
       /\ job.finish[j] # Nobody => /\ job.finish[j] - job.at[j] >= Sum(job.all[j])
                                  /\ job.response[j] \in 0..job.finish[j] - job.at[j] - 1
                                  /\ job.process[j] = <<>>
  /\ job.over /\ job.program = "temp" => \A j \in Job \ job.new : job.finish[j] # Nobody

\* Nobody is lost and nobody is in two places: a job is yet to arrive, in one
\* queue, on the CPU, at the device or finished.
JobsInOnePlace ==
  \A j \in Job :
    Cardinality({<<"cpuq", x>> : x \in {x \in job.cpuq : x[2] = j}}
           \cup {<<"ioq", i>> : i \in {i \in DOMAIN job.ioq : job.ioq[i][2] = j}}
           \cup {<<"at", w>> : w \in {w \in {"new", "cpu", "io", "done"} :
                  CASE w = "new"  -> j \in job.new
                    [] w = "cpu"  -> job.cpu = j
                    [] w = "io"   -> job.io = j
                    [] w = "done" -> job.finish[j] # Nobody}}) = 1

\* Both: no job is lost on its way, and what is reported of it is true.
JobsAccounted == JobsInOnePlace /\ TimesReported
=============================================================================
