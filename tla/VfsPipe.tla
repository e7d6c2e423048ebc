------------------------------- MODULE VfsPipe -------------------------------
(***************************************************************************)
(* Reading from and writing to a pipe in VFS (rw_pipe, Lab-09/read.c).  A  *)
(* blocking write of more than the pipe holds is done piece by piece: the  *)
(* process is suspended after each, and what it has written so far is kept *)
(* in fp_cum_io_partial, which read_write wants to be 0 when a new call on *)
(* a pipe begins.  A call holds the filp and the vnode, and is atomic.     *)
(***************************************************************************)
EXTENDS Integers, FiniteSetsExt

CONSTANTS PipeUser,     \* processes
          PipeBuf,      \* PIPE_BUF, the bytes a pipe holds
          PipeBytes     \* sizes of requests

ASSUME PipeAssumption == PipeBuf \in Nat \ {0} /\ PipeBytes \subseteq Nat \ {0}

VARIABLE pipe   \* [v_size, readers, writers: whether an end is open,
                \*  panic: VFS has stopped,
                \*  fp: per process, the call it makes or made last]

\* asked and accepted are history: the size of the call, and the bytes that
\* went in or out for it.
Quiet == [state |-> "running", rw |-> "read", nonblock |-> FALSE, left |-> 0,
          fp_cum_io_partial |-> 0, result |-> 0, asked |-> 0, accepted |-> 0]

PipeInit == pipe = [v_size |-> 0, readers |-> TRUE, writers |-> TRUE, panic |-> FALSE,
                    fp |-> [p \in PipeUser |-> Quiet]]

SUSPEND == -1
Error == -2     \* EAGAIN, EPIPE or the file server's

\* How much of a call can be done now.
pipe_check(f) ==
  LET space == PipeBuf - pipe.v_size
  IN CASE f.rw = "read" /\ pipe.v_size > 0 -> f.left
       [] f.rw = "read" /\ pipe.v_size = 0 ->
            IF ~pipe.writers THEN 0 ELSE IF f.nonblock THEN Error ELSE SUSPEND
       [] f.rw = "write" /\ ~pipe.readers -> Error
       [] f.rw = "write" /\ pipe.readers /\ f.left <= space -> f.left
       [] OTHER -> IF f.left > PipeBuf /\ space > 0 THEN space
                   ELSE IF f.nonblock THEN Error ELSE SUSPEND

\* Mutant of Done: a finished write leaves its partial count behind.
Done_counted(f, n) == [f EXCEPT !.state = "running", !.result = n]

Done(f, n) == [f EXCEPT !.state = "running", !.result = n, !.fp_cum_io_partial = 0]

\* fp_cum_io_partial stays what it was.
Failing(f) == [f EXCEPT !.state = "running", !.result = Error]

\* The call f of process p, new or resumed; fails: the file server answers
\* with an error.
rw_pipe(p, f, fails) ==
  LET r == pipe_check(f)
      size == IF f.rw = "read" THEN Min({r, pipe.v_size}) ELSE r
      cum_io == f.fp_cum_io_partial + size
      g == [f EXCEPT !.accepted = @ + size, !.left = @ - size]
  IN CASE r = SUSPEND -> pipe' = [pipe EXCEPT !.fp[p] = [f EXCEPT !.state = "suspended"]]
       [] r = Error \/ (r > 0 /\ fails) -> pipe' = [pipe EXCEPT !.fp[p] = Failing(f)]
       [] r = 0 -> pipe' = [pipe EXCEPT !.fp[p] = [f EXCEPT !.state = "running", !.result = 0]]
       [] OTHER ->
            pipe' = [pipe EXCEPT
              !.v_size = IF f.rw = "read" THEN @ - size ELSE @ + size,
              !.fp[p] = IF r < f.left /\ ~f.nonblock
                        THEN [g EXCEPT !.state = "suspended", !.fp_cum_io_partial = cum_io]
                        ELSE Done(g, cum_io)]
-----------------------------------------------------------------------------
\* A new call: read_write panics over a count that an earlier one left behind.
PipeCall(p, rw, n, nonblock, fails) ==
  /\ ~pipe.panic /\ pipe.fp[p].state = "running"
  /\ (rw = "read" => pipe.readers) /\ (rw = "write" => pipe.writers)
  /\ IF pipe.fp[p].fp_cum_io_partial # 0
     THEN pipe' = [pipe EXCEPT !.panic = TRUE]
     ELSE rw_pipe(p, [pipe.fp[p] EXCEPT !.rw = rw, !.left = n, !.asked = n, !.nonblock = nonblock,
                                        !.accepted = 0], fails)

\* A suspended process is resumed, for whatever reason, and tries again.
PipeResume(p, fails) ==
  ~pipe.panic /\ pipe.fp[p].state = "suspended" /\ rw_pipe(p, pipe.fp[p], fails)

\* The last descriptor of an end is closed: nobody is in a call on it.
CloseEnd(rw) ==
  /\ ~pipe.panic
  /\ \A p \in PipeUser : ~(pipe.fp[p].state = "suspended" /\ pipe.fp[p].rw = rw)
  /\ IF rw = "read" THEN pipe.readers /\ pipe' = [pipe EXCEPT !.readers = FALSE]
     ELSE pipe.writers /\ pipe' = [pipe EXCEPT !.writers = FALSE]

PipeNext ==
  \/ \E p \in PipeUser, rw \in {"read", "write"}, n \in PipeBytes, nonblock, fails \in BOOLEAN :
       PipeCall(p, rw, n, nonblock, fails)
  \/ \E p \in PipeUser, fails \in BOOLEAN : PipeResume(p, fails)
  \/ \E rw \in {"read", "write"} : CloseEnd(rw)

PipeSpec == PipeInit /\ [][PipeNext]_pipe
-----------------------------------------------------------------------------
\* The last call of f's process was a blocking write of more than PIPE_BUF
\* bytes that failed when a part of it, and not all, was in the pipe.
CutShort(f) ==
  /\ f.state = "running" /\ f.result = Error /\ f.rw = "write" /\ ~f.nonblock
  /\ f.asked > PipeBuf /\ 0 < f.accepted /\ f.accepted < f.asked

\* The count that a call returns is the number of bytes that it moved, over
\* all the pieces of a write that was suspended in between, with other
\* processes' calls interleaved; a blocking write that succeeds has written
\* everything; a write of at most PIPE_BUF bytes is never split; and the pipe
\* never holds more.  rw_pipe returns an error without clearing
\* fp_cum_io_partial, and read_write panics over it at the next call of the
\* process: it happens only to a process whose long write was cut short, after
\* no other call and no other error.
PipeCounts ==
  /\ pipe.v_size \in 0..PipeBuf
  /\ \A p \in PipeUser :
       LET f == pipe.fp[p]
       IN /\ f.state = "running" /\ f.result # Error =>
               /\ f.result = f.accepted /\ f.fp_cum_io_partial = 0
               /\ f.rw = "write" /\ ~f.nonblock => f.accepted = f.asked
          /\ f.state = "running" /\ f.fp_cum_io_partial # 0 => CutShort(f)
          /\ f.state = "suspended" \/ f.result = Error => f.fp_cum_io_partial = f.accepted
          /\ f.rw = "write" /\ f.asked <= PipeBuf => f.accepted \in {0, f.asked}
  /\ pipe.panic => \E p \in PipeUser : CutShort(pipe.fp[p])
=============================================================================
