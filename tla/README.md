# A TLA+ verification of the CS314 operating-systems laboratory code

The repository holds the work of an operating-systems laboratory: files of MINIX 3
(the process manager, the user-space scheduler, two file servers, a part of the
kernel) with the students' changes, and stand-alone programs (a buddy allocator,
image filters in threads and processes, scheduling and paging simulations). There is
no single program: each laboratory is a system of its own, and each module below
models one of them.

* `PROJECT.json` lists components, runs, mutants, the map from definitions to source
  lines, findings, hazards and theorems.
* `tlc -config <run>.cfg <MC module>` repeats a run, `tlapm <module>.tla` a proof.

## Inventory

### The process manager, PM (Lab-02/part3/forkexit.c)

*State*: the table `mproc[]` (flags, parent, tracer, pid, process group, what a
waiter waits for), the counter `procs_in_use`, the static `next_child` of the two
forks. *Operations*: `do_fork`, `do_srv_fork`, `do_exit`, `exit_proc`,
`exit_restart`, `do_waitpid` and the helpers `wait_test`, `zombify`, `check_parent`,
`tell_parent`, `tell_tracer`, `tracer_died`, `cleanup`. *Interaction*: PM handles
one message at a time; it sends requests to VFS, whose answers arrive later as
messages of their own, answers its callers when something else happens, and signals
processes. *Hard*: an exit is spread over `exit_proc`, the answer of VFS and the
parent's `waitpid`, in any order; `exit_proc` may call itself, through `sig_proc`,
from the middle of its loop over the table, for a process that is still to come in
that very loop or that has been passed already. *Correct* when no panic is
reached, no slot is freed early, late or twice, no waiter is forgotten and nobody
is answered who did not ask.

### SCHED (Lab-03/schedule.c, Lab-05/schedule.c) and `sched_proc` (Lab-05/system.c)

*State*: SCHED's table `schedproc[]` and the loads `cpu_proc[]`; beside it the
kernel's own idea of queue, quantum, CPU and scheduler of each process. *Operations*:
`do_noquantum`, `do_start_scheduling`, `do_stop_scheduling`, `do_nice`,
`balance_queues`, `pick_cpu`, `schedule_process`. *Interaction*: messages of the
kernel, PM and RS to SCHED, `sys_schedule` back to the kernel. *Hard*: the two tables
are kept in step by calls that may fail; priorities are unsigned and wrap; messages
of a process that is gone. *Correct* when the kernel schedules as the table says, every
process that runs out of quantum gets another one, priorities stay in their band, and a
penalised process recovers.

### The buddy allocator (CS304-Assignment/200010004.cpp)

*State*: the tree of blocks, the free list, the block of each process. *Operations*:
allocate, split, release, merge with the buddy. *Correct* when blocks in use do not
overlap, memory is exactly tiled, the list is exactly the free leaves, and releasing
everything restores the initial block (a process that asks again while it holds a block
loses the first one; the rest of the allocator is not disturbed).

### The image filters (Lab-06)

Two transformations, grayscale (T1) and horizontal blur (T2), in one process
(`part1`), in two threads behind a spin lock or a semaphore (`part2_1a`, `part2_1b`), in
processes with a shared segment (`part2_2`) and in processes with a pipe (`part2_3`).
*Hard*: every interleaving of pixel accesses; four processes where the program means
two, because neither function ends its process; a segment removed while others use
it; a pipe that is full. *Correct* when the result is one that the sequential program
(or some order of whole rows and pixels) can give.

### Immediate files (Lab-10/mfs, Lab-10/vfs) and the block layer under them

*State*: the inode with its `i_zone` array, indirect and double indirect blocks, the zones
of the disk, the buffer cache; in VFS the vnode with a copy of type and size, and a filp
per descriptor. *Operations*: open, create, close, seek, read, write, truncate, peek,
unlink; `write_map`/`read_map`/`new_block`; `fs_breadwrite`, `rw_chunk`, `rahead`;
`fs_getdents`. *Hard*: the bytes of a small file lie where the numbers of its zones would,
the file changes its type in the middle of a write, VFS's copy of the size may be stale,
the disk may be full half way through a write or an allocation, a directory changes between
two calls that list it. *Correct* when programs see a file: reads return what was written,
nothing else changes, no zone is lost or used twice, no entry is listed twice or
left out.

### VFS calls (Lab-09, the same handlers in Lab-10/vfs)

*State*: locks on mounts, vnodes and block special files, reference counts of vnodes, filp
slots and descriptors, file locks; for a pipe its size and, per process,
`fp_cum_io_partial`. *Operations*: `do_open`, `do_creat` with `new_node`, `do_mknod`,
`do_mkdir`, `do_lseek`, `do_close`, `do_link`, `do_unlink`, `do_rename`, `do_truncate`,
`do_ftruncate`, `do_slink`, `do_rdlink`, `do_read`, `do_write`, `do_getdents`, `rw_pipe`.
*Interaction*: several worker threads serve the calls of different processes; a thread
waits for locks and for the answers of file servers. *Hard*: every error path must give up
exactly what was taken so far; several of the pointers involved may be NULL or equal; a
blocking write is suspended and resumed in pieces. *Correct* when a call that returned
keeps nothing, no assertion of the lock layer fails, waiting threads do not wait for each
other, and byte counts are true.

### The kernel's system task (Lab-05/system.c)

*State*: the run-time flags of processes, saved messages of suspended kernel calls,
pending signals, message queues, notifications and asynchronous messages, privilege
structures with send masks. *Operations*: `kernel_call`, `kernel_call_resume`, `cause_sig`,
`send_sig`, `sig_delay_done`, `send_diag_sig`, `clear_ipc`, `clear_ipc_refs`,
`clear_endpoint`, `get_priv`, `fill_sendto_mask`, `set_sendto_bit`, `unset_sendto_bit`.
*Hard*: a call is suspended, its caller is signalled, and the call is run
again or the caller killed; a signal comes while the manager fetches earlier ones; a
process dies while it is queued or waited for. *Correct* when every suspended call is
answered, no signal is lost, nothing refers to a dead process, and a send mask is that of
the process now in the slot.

### Simulations and exercises

* Page replacement (Lab-08): three programs over a reference string. *Correct* when the
  frames hold what the policy says and the faults are the loads it needs.
* Shortest burst first (Lab-04/200010004_sjf.cpp) and least work left first
  (temp.cpp), with an I/O device: *correct*
  when no job is lost and the reported times are those it spent.
* Fork chain and exec chain (Lab-02 parts 1 and 2): *correct* when letters come in order
  and the result is that of the programs in the order of the command line.

### Not modelled

* The address-translation scripts of Lab-07 (exercises of a textbook, unchanged) and
  UnixBench in Lab-03 and Lab-05 (vendored; the load under which the schedulers were
  observed). UnixBench alone is more than half of the C code of the repository.
* The shell scripts, which copy files into a MINIX tree and call make.
* Lab-04/200010004_srtf.cpp, an unfinished program: its loop removes each process from the
  list at the moment it arrives and reports nothing, so there is no result to state a
  property of. `compute_performance` of temp.cpp is never called.
* Formats: parsing of PPM files, workloads and arguments, and what is printed.
* What lies outside the repository: the code of PM around forkexit.c, VM, RS, path lookup
  and the lock implementation of VFS, the buffer cache, the kernel's message
  passing. Each is modelled as far as the code here relies on it, and marked external.

## Modules

| Module | Models | Extends |
|---|---|---|
| `ProcessLife` | abstract: the life cycle the header of forkexit.c promises | |
| `ProcessManager` | forkexit.c, and PM's callers as far as it uses them | refines `ProcessLife` |
| `ProcessManagerSafety`, `ProcessManagerLife` | proofs about it: types, helpers, handlers and the safety theorems; who is owed an answer, the life cycle and who waited | `ProcessManager`, then each other |
| `Scheduler` | both schedule.c, `sched_proc` | |
| `SchedulerProofs` | proofs about it | `Scheduler` |
| `MemoryPool` | abstract: an allocator as its clients see it, memory handed out in one piece | |
| `BuddySystem` | 200010004.cpp | refines `MemoryPool` |
| `Image` | the two transformations, part1.cpp | |
| `ImageAtomic` | abstract: whole rows and pixels in single steps | `Image` |
| `ImageThreads` | part2_1a.cpp, part2_1b.cpp | `Image`; refines `ImageAtomic` |
| `ImageThreadsProofs` | proofs about it | `ImageThreads` |
| `ImageProcesses` | part2_2.cpp | `Image` |
| `ImagePipe` | part2_3.cpp | `Image` |
| `ImagePipeProofs` | proofs about it | `ImagePipe` |
| `ByteFile` | abstract: a file as programs see it | |
| `ImmediateFile` | Lab-10 mfs and vfs, one file | refines `ByteFile` |
| `ImmediateFileProofs` | proofs about it | `ImmediateFile` |
| `BlockMap` | mfs/write.c, read_map: zones, indirect blocks | |
| `BlockIO` | mfs/read.c: `fs_breadwrite`, `rw_chunk`, read-ahead | |
| `DirectoryScan` | `fs_getdents` and VFS's position | |
| `VfsCalls` | Lab-09 open.c, link.c, read.c: locks and references of every handler | |
| `VfsPipe` | `rw_pipe` | |
| `Kernel` | Lab-05/system.c: kernel calls, signals, IPC clean-up | |
| `KernelProofs` | proofs about it | `Kernel` |
| `Privileges` | Lab-05/system.c: privilege structures, send masks | |
| `ProgramsProofs` | proofs about `BuddySystem`, `ImageProcesses`, `Privileges`, `VfsPipe`, `BlockIO`, `BlockMap`, `DirectoryScan`, `PageReplacement` and `ProcessChains` | these nine |
| `PageReplacement` | the three programs of Lab-08 | |
| `JobScheduling` | 200010004_sjf.cpp, temp.cpp | |
| `ProcessChains` | Lab-02 parts 1 and 2 | |
| `MC...` | instances for TLC | see below |

An `MC` module is named after the module it instantiates. `MCScheduler` names
the builds of the two laboratories and `MCFiles` holds two instances of `ImmediateFile`,
one for each way of using a file, of which a behaviour moves one.
`MCPrograms` holds the parts that are looked at by themselves: the allocator, `part2_2`,
the simulations, the chains, privileges, the block layer, listings and pipes. Those parts
share no variable, a behaviour is one of them, and each property speaks of its own part.

### How state and actions correspond to the code

**ProcessManager.** `pm` is one record with a field per field of `mproc` that matters;
the flags are the set of flag names that are set. The record is passed through
operators named after the C functions, so that a handler is the composition the code
writes. Whatever PM does between two messages is one step, with one exception: the
loop of `exit_proc` over the table, whose rounds are steps of their own (`LoopTracer`,
`LoopParent`, `LoopEnd`, `Hangup`, `HangupEnd`), because it is left through
`sig_proc` for another process and resumed later. `act` holds the local variables of
each active `exit_proc`, `stack` their nesting; no message is taken while the stack is
not empty (`Idle`). `pm.vfs` is the request VFS has not answered, `pm.call` what the
program of a slot is blocked in: a reply to a program that is not blocked in
that call makes it "spurious". `Panic` records a message of `panic()` or of an
assertion. Exit statuses, times and usage are left out: no decision depends on them.

**Scheduler.** `sc` is SCHED's table, `kn` the kernel's. A message of the kernel waits
in `ooq` until SCHED takes it, which is where the two tables may drift apart. The
variable `build`, which never changes, says which laboratory's policy was compiled in and
whether with CONFIG_SMP. Unsigned priorities wrap at
`UINT_MAX`, a constant small enough to be reached. At boot both tables are clear: PM starts
INIT as its own parent, and `pick_cpu` places it like a user process. Every error return of
`do_start_scheduling` is there, a refused `sys_schedctl` included; only its search for a CPU
that works is taken in steps.

**BuddySystem.** A block is its start and size; the tree is the set of its nodes. The
loops that split and merge are taken one round at a time so that every intermediate
tree is seen by the invariants.

**Image modules.** The filters round at every addition, so a colour is kept as the term
that computed it (`<<"gray", c>>`, `<<"blur", cs>>`). Two results are equal only if the
same operations were applied to the same pixels in the same order, which is what the
arithmetic of the code would tell apart. Each access to a shared pixel is a step.

**ImmediateFile.** VFS locks vnode and filp for the whole call and MFS is a single thread,
so each call is a step; a copy to or from the program may fail at any chunk. A cell is the four bytes of one entry of `i_zone`: when code
takes a cell for a zone number, `wild` is set and the run ends, since what follows
depends on the whole disk. `Calls` and `RegularCalls` say which kinds of calls the
programs make with any file and with one that VFS knows to be regular; each run asks what
can be promised to programs that keep to them.

**Kernel.** `k` is the process table as a record of arrays; the functions of
system.c are operators from such a record to the next, and `panic` records a failed
assertion or a panic. The kernel runs to completion, so a trap is an action. What
handlers, VM and the signal manager do is any of what system.c is prepared for: a handler
finishes, gives no reply or suspends the caller, and the manager waits or
is in its loop over `sys_getksig` and `sys_endksig`. Calls of the manager that succeed are
the actions of that loop; a bad message or an exception of its own makes `cause_sig` panic,
and `panic` then names the manager.

**Privileges.** Slots are taken and given back; `sends` has the slots whose process can send,
`allowed` (the pairs that the current processes asked for) is history.

**VfsCalls.** A handler is the set of the scripts it may follow, one per path through its
code, each the sequence of its operations on locks, references and file tables; answers of
file servers choose between them. `Settle` runs a thread up to the next point where it
waits, which is the only place where worker threads switch. A script in which the code takes
a turn it is not made for has a mark there (`Hard`), and goes on as the code does: "missing",
"dot", "own" and "dangling" end in VFS's death (`DiesOf`), "unreadable" leaves a
locked free vnode (`Kept`), and "self" waits for itself. They are described below. That
opening a character device may replace the vnode by a clone's (open.c:181-183) is left
out: `cdev_open` is not in the repository, and the run has no such file.

**VfsPipe.** One pipe, whose calls are taken in pieces as `rw_pipe` takes them. `panic` is the
end of VFS when a new call finds `fp_cum_io_partial` not 0; `asked` and `accepted` are history.

**BlockMap.** The inode's array, the bitmap and the contents of indirect blocks; the order
in which `write_map` allocates and frees is the code's, the failures of `alloc_zone` at
every point included. **BlockIO** takes a request chunk by chunk, each with any part of the
blocks in the cache. A request to a device may go past its end, where the cache library
answers END_OF_FILE and MFS replies OK with what it has counted, and a device that
is mounted read-only is refused, for reads as well. **DirectoryScan** runs a call of `fs_getdents` in a step and lets other
processes enter and remove names in between.

**PageReplacement**, **JobScheduling**, **ProcessChains** have one step per reference, turn
or system call, and keep the variables of the program that runs in one record.

## Runs

Every run ends within three minutes on two workers. The runs marked *violation* show a
disagreement between the code and what the repository says of it.

| Run | Shows | Bounds |
|---|---|---|
| `pm_trace` | `IInv`, the inductive invariant of the proofs (with `procs_in_use` exact); `TableSafe`: no panic, live families, no lost wakeup, nobody blocked for ever by oversight; `ParentWaited`: nothing collected that nobody waited for | 5 slots: PM, INIT, RS and two processes that fork, wait for any child or one pid, trace and kill each other |
| `pm_table` | types, only calls in progress are answered, the table implements `ProcessLife` | the same with RS forking services, sessions, group waits and hangups, INIT mortal; no tracers |
| `pm_live` | `Progress`: fork and wait return, orphans are reaped | under fairness |
| `sched` | `TablesInStep`: queues exist although priorities wrap, SCHED's table, the kernel's and PM's view agree; `PlacementInv`: loads, placement, a dead CPU is never tried again; `ProcessesServed`: quanta are renewed, bumped processes recover | three slots, three queues, quanta of 1, `UINT_MAX = 14`; Lab 3 without CONFIG_SMP, Lab 5 on three CPUs of which one is dead; other quanta, maximum priorities, CPUs and builds are left to the theorems |
| `programs` | `BuddyInv` (tiling, exact free list, holders, coalescing), `IsPool` (the allocator implements `MemoryPool`); `SharedMemoryInv` (what stays true with the four processes of `part2_2`); `AllEnd` (the loops of both end); `PagesResident`, `JobsAccounted`, `ChainInOrder`, `SendMasksCurrent`; `ZonesExact` and `OnlyThatBlock` (no zone lost, other blocks untouched); `BytesMovedOnce`, `ListedOnce`, `PipeCounts` | 16 cells and two processes that may ask again without releasing; 2 x 3 pixels; 4 pages, 2 frames, 5 references; 3 jobs of up to 3 bursts; 3 letters, command lines of up to 3 programs, `int` of 5 bits; 3 privilege slots; 6 zones, indirect blocks of 2; a device of 5 bytes in blocks of 2, requests up to byte 8, 7 buffers; 4 entries of two record lengths; a pipe of 2 bytes, writes of 1 and 5 |
| `img_sem` | lock, stable reads, refinement of `ImageAtomic`, and `Finishes`: the threads end with rows serializable | 2 x 4 pixels, the semaphore (the theorems hold for both locks) |
| `img_pipe` | `PipelineInv`: order of the blocks, empty pipes at the end, and what the output is (`part1`'s where the window stays inside whole blocks); `Ends` | 10 x 8 pixels, pipe of 2 blocks |
| `files` | `InodeInv`, `IsFile`: programs without gaps and partial reads see a file, through the conversion, and a regular file is a file under holes, `ftruncate`, peek and failing copies too; `WritesOnlyRange`: under all calls a write that leaves the kind of the file alone changes only what it covers and never shortens the file, on a full disk and with a failing copy as well | 2 descriptors, 2 blocks; and all calls with one descriptor, a disk with 1 zone |
| `fs_size` | *violation* of `SizeAgrees`, see below | one descriptor |
| `kernel` | `KernelInv`: no panic but over a lethal signal of the manager's own, no stale request, exact message queues; `DeadAreForgotten`; `SignalNotLost`; `HeldGoesOn`: whoever is stopped for a signal or for VM goes on or is dead, unless the kernel is | the manager, a service that manages itself, a user process; one signal, one asynchronous message or notification in flight |
| `vfs` | `NothingKept`, `NoFault`: no path keeps a lock or a reference, none fails an assertion or follows NULL, except the marked ones and as each of them is said to; `OrderedWaits`: no two threads that ask for locks wait for each other; `FileLocks` | two threads, two mounts, directories, a file, a FIFO, a block device, a symbolic link; calls on descriptors against calls on names |
| `vfs_null` | *violation* of `NoNullUse`, see below | the same, with names that do not exist |

*Why the bounds are enough to be interesting.* In PM two processes besides INIT are
enough for a process to be parent, tracer and killer of another at once, for an
exit nested in an exit, for a zombie adopted while its adopter waits, and for a full
table; a pid is reused because there are only `MaxPid` of them. In SCHED the
priority reaches both ends of its range; loads stop at `MaxLoad` because every
message raises one, so `UINT_MAX` must lie well above it. The buddy tree has four levels,
so that merging cascades. The images have windows cut off at the right edge and complete
ones. A file has more cells than an inode and, in the second half of `files`, more blocks
than the disk. In `kernel` one signal meets a suspended call, a put-off stop, a death in
the middle of a send and a manager that is in its loop. In `vfs` the two threads are in the
middle of any two calls. A map with one direct zone and
indirect blocks of two entries meets every branch of `write_map`, and six zones are fewer than a full
file needs. The pipe is smaller than one of the writes, which is then split. Constants
called `MaxPid`, `MaxLoad`, `UINT_MAX`, `Capacity`, `MaxBlocks`, `MaxRefs`, `MaxArgs`,
`MaxSignals`, `MaxAsync` are the bounds on counters, `Reach` that on the position of a
request; a thread of `VfsCalls` makes no further call once an unreadable link has left it with a
locked free vnode, of which there is one per thread; nothing else is capped.

`CHECK_DEADLOCK FALSE` is set throughout: the programs end, and a server may be left with
no message to handle. What must go on is stated as liveness.

### Fairness

* `ProcessManager`: weak fairness of the loop (PM runs on), strong fairness of VFS's
  answers and of INIT's `waitpid` (the queue of senders to PM is first come, first
  served, and PM is again and again ready to receive); nothing is assumed of programs.
* `Scheduler`: weak fairness of the loop of `do_start_scheduling`, strong fairness of the
  delivery of a waiting message and of the timer, for the same reason. It is stated for
  builds without CONFIG_SMP only: with it, `MaxLoad` may stop the model where the code
  goes on.
* `BuddySystem`: a loop under way goes on.
* `Kernel`: VM answers every request, the manager's loop over its signals goes on, and a
  call that is run again is not suspended without end (VM maps what the call needs; strong
  fairness, since other signals may stop the caller in between).
* `ImageThreads`, `ImageProcesses`, `ImagePipe`: each thread or process that can take
  a step takes one in the end. Spinning on a lock is not assumed to be fair; the
  threads finish because each needs the lock a bounded number of times.

`VfsCalls` and the remaining modules are checked for safety only.

## What the repository says and the code does not do

Two runs show such places:

* `fs_size`: src/Lab-10/vfs/read.c:242 says "On write, update file size and access time",
  but the test below it leaves immediate files out, so VFS's copy of the size stays
  what it was at open and O_APPEND writes over what is there.
* `vfs_null`: src/Lab-09/link.c:172 "checks whether "vp" is a valid vnode", three lines
  after the number of that vnode was printed: unlinking a name under /home that does not
  exist makes VFS follow a NULL pointer.

Others were met while modelling. The modules follow the code in each of them, and the
properties state what is true in spite of it:

* forkexit.c:284 compares the pid of the exiting process with the group of the process
  whose message is handled: a session leader killed from another group exits without the
  hangup that line 390 announces.
* Lab-05/schedule.c:365: `balance_queues` pulls nobody back up, its comment
  notwithstanding; that bumped processes recover is a property of Lab 3's policy only.
* 200010004.cpp:246: a request for exactly half of a block gets the whole block, though
  line 245 says that it is split until its size matches.
* part2_1a.cpp:64: the lock does not order T1 before T2; rows are serializable in either
  order. part2_2.cpp:128: the copy back without the semaphore may undo
  conversions; its named semaphore is not unlinked, so that a run that is killed
  inside leaves it at 0. part2_3.cpp:91: rows and columns beyond the last multiple of 3 are
  not sent.
* Lab-10/mfs/read.c: a write beyond the end of an immediate file that was truncated
  shows old contents (166); `ftruncate` makes it longer than its array (104); a
  read with a smaller buffer takes contents for a zone number (138); a conversion on a
  full disk loses the contents (115). `OnlyRange` (in `WritesOnlyRange`) shows what
  a write keeps all the same, `IsFile` which programs see nothing of it.
* mfs, block layer: `fs_breadwrite` refuses reads as well on a device that is mounted
  read-only, though its comment says "Don't block-write"; at the end of the device it
  answers OK with a short count (read.c:303), which `CountIsExact` allows there only; `i_seek` of the inode it makes up
  is never set; `write_map` creates the double indirect block before it tests for EFBIG
  and `read_map` compares with `>` where `>=` is meant (the size limit keeps both from
  mattering); a double indirect block that lists nothing stays after a failed allocation
  (`ZonesExact` allows exactly that); a failing copy inside the loop of `fs_getdents`
  leaves its block's buffer in use.
* VFS: `put_vnode` on a directory that is not locked any more may wait for a thread in
  `creat` that waits for it, and two exclusive upgrades of a mount may meet, so that
  `OrderedWaits` speaks of lock requests proper; renames and links across mounts lock two
  mounts. `unlink` of "." in a sticky directory unlocks twice ("dot"), and so does the
  branch of `new_node` for absolute paths (open.c:345-352) when the entry is the directory
  itself ("own"); `new_node` after a failed recursion unlocks again ("dangling"), a failing
  `req_rdlink` in it leaves a locked free vnode ("unreadable"), and `link(d, d/x)` waits for
  itself ("self"). `NothingKept` and `NoFault` name these paths and show that there is
  no other.
* `rw_pipe` returns an error without clearing `fp_cum_io_partial`, and VFS panics at the next
  call of that process on a pipe ("fp_cum_io_partial not clear", Lab-09/read.c:154-156).
  `PipeCounts` says that this happens only to a process whose blocking write of more than
  PIPE_BUF bytes was cut short.
* `clear_ipc` does not call `sig_delay_done`: a stop that was put off until the end of a
  send is not reported when the send is cancelled. The properties of `kernel` do not rest
  on it.
* 200010004_sjf.cpp stops when both queues are empty, though a process may be running or
  yet to arrive; in temp.cpp the device loses a turn when a CPU burst ends, and the loop
  ends at the first idle gap.
* Lab-02 part 1 into a file repeats letters (each child inherits the unwritten buffer);
  part 2 writes its last argument one past the array; the FIFO program of Lab-08 indexes
  a table of blocks with page numbers, which must be smaller than it.

## Proofs

TLC checks the instances above; TLAPS proves the following for all values of the constants,
under the named assumptions of each module (`ImageAssumption`: height, width and blur are
positive; `SemaphoreAssumption`; `PMAssumption`, `SchedAssumption`, `BuddyAssumption`,
`KernelAssumption`, `FileAssumption`, `PrivAssumption`, `BioAssumption`, `BlockMapAssumption`,
`DirAssumption`, `PageAssumption` and `ChainAssumption` of the modules they belong to;
`PipeAssumption` of `ImagePipe`, that of `VfsPipe` by the same name).

**ImageThreadsProofs.** For images and windows of every size and for both locks:

* `MutualExclusion`: `Spec => []LockHeld`;
* `NoStaleReads`: `Spec => []ReadsStayTrue`;
* `SectionsAppearAtomic`: `Spec => SectionsAtomic`, the refinement of `ImageAtomic`.

`LockHeld` alone is not inductive: that a post makes the semaphore 1 again
follows only from its having been 0 while the poster was inside, and that a read is still
true only from nobody else having been inside since. The inductive invariant `TInv` adds the
places of the threads (T1 is at column 0 when outside, at the last one when it
unlocks), that the matrix is a function on the pixels, and that what a thread has read
is exactly a prefix of its window. The refinement mapping completes the section of the
thread inside: taking the lock is the abstract step, the reads, writes and the unlock
are stutters, each by a lemma of its own (`LockFirst`, `LockSecond`, `WriteFirst`,
`WriteSecond`, `UnlockUntouched`).

**ProgramsProofs**, shared memory. `SharedMemoryCorrect`: `ShmSpec => []SharedMemoryInv`, for images
and windows of every size. The invariant `IInv` says where each process is in its loop
at each label (`Where`), who has been forked and waited for (`Family`), that the
semaphore is 1 exactly when nobody is inside a row (`Semaphore`), and three things about the
image. `Segments`: at least one of G and B works on the first segment, because the key
loses it only after G has exited or B has copied its result back. `Progress`: the
pixels behind G's position, and those B has copied, have been transformed, and no later
write undoes that. `Fresh`: while B blurs, the first segment is the input with the
pixels before G's position converted. So a row that B reads is whole (`RowIsWhole`): B is inside,
hence G is not, hence G is at the start of a row; and T2's window does not leave
the row (`WindowInRow`).

**ImagePipeProofs.** `PipelineCorrect`: `Spec => []PipelineInv`, for images, windows, blocks
and pipes of every size. `PipelineInv` is far from inductive: it names only the first
block of the pipe. `IInv` says that the pipe holds the blocks on the way of T1's
loop from the block T2 waits for to the next one to be sent (`InPipe`, `Way`), so that a write
lengthens the way at one end and a read shortens it at the other; how the header keeps T2 behind
T1 (`Places`); and what the matrix is while it is received (`Receiving`), while it is blurred
(`Blurring`) and when it is written (`Filed`). The rest is arithmetic on multiples of the side of
a block (`Apart`, `TopIs`): T2's index into a block finds the pixel T1 put there
(`EntryOf`), no block is skipped (`OneMore`), and when the loop ends every pixel of a whole
block has been in one (`AllReceived`). part1.cpp blurs in place, column by column;
`InPlace` shows by induction over the columns that this is the blur of the image it
started from, since a window lies at or to the right of its pixel.

**ProcessManagerSafety.** `TypeCorrect`: `Spec => []TypeOK`, for every table size, pid
range and set of callers. One lemma per helper says that it maps well-typed tables to
well-typed tables; the actions compose them. `TableCorrect`: `Spec => []IInv`, and from it

* `RepliesCorrect`: `Spec => []NoSpuriousReply`, no program is answered that is not
  blocked in that very call;
* `PanicFree`: `Spec => []NoPanic`, no `panic()` and no assertion of forkexit.c is reached;
* `FamiliesLive`: `Spec => []FamilyIsLive`, parents and tracers are processes in use;
* `WakeupsKept`: `Spec => []NoLostWakeup`, no parent stays in `wait` while a
  child it may wait for is ready.

None of these is inductive by itself. `IInv` (checked by `pm_trace`) says how the flags of
a slot go together and with what VFS owes it (`SlotInv`), who is blocked in what
(`CallInv`, `OneAnswer`), that parents and tracers are alive or have their loop
still before them at this entry (`FamilyInv`), that the stack lists the active exits
(`StackInv`), what holds of PM and INIT from boot on (`BootInv`), and, between handlers,
that every exit has been announced (`Announced`). The last is false inside a handler, where
an exit may be on its way; the lemmas about helpers therefore speak of the invariant
with the slots that are being dealt with taken out, and the handlers put it
together again when the stack is empty. The argument goes through a few elementary
changes of the table: a call that is answered, a child that is added (`Forked`), a parent
that is replaced (`Adopted`), a tracer that is set or taken away (`Retraced`, `Untraced`),
a slot that is marked as exiting (`Marked`), and what leaves all other slots as they were
(`Frame`, `Kept`). Each helper (`tell_parent`, `tell_tracer`, `cleanup`, `sig_proc`,
`check_parent`, `zombify`, `begin_exit`, `tracer_died`) is shown to be a composition of
them, each handler a composition of helpers, and `NextStep` has one case per action.
`PMAssumption` gives the constants their types and says that PM, INIT and RS have
different slots, that RS is never killed, and that callers are slots other than PM's; the
size of the table, the range of pids and the switches are free.

**ProcessManagerLife**, its first half. `WakersCorrect`: `Spec => []WakerInv(pm)`, `BlockedAreWoken`:
`Spec => []BlockedHasWaker`, and with the theorems above `TableIsSafe`:
`Spec => []TableSafe`. `WakerInv` says of every blocked process, inside a handler
too, that some entry still owes it the answer (`Owes`): a waiter has an entry it can
wait for, a forker a child that VFS works on and nobody else has adopted, a tracer in
T_EXIT its victim. The danger is that a step takes the last such entry away. The relation
`Owing(t, u, X)` says that going from table `t` to `u` ends a call or keeps
its debtors, except for the processes in `X`, whose own calls change. It is transitive, and
the lemmas follow it through the elementary changes: a parent or tracer that is replaced is
dead or is the caller itself, so it was not blocked; a slot is freed only when nobody can
wait for it; an entry that is told of stays owed to its tracer.

**ProcessManagerLife**, its second half. `LifeCorrect`: `Spec => LifeCycle`, the refinement of `ProcessLife`,
and `ParentsWaited`: `Spec => [][...]` of the action property `ParentWaited`. The mapping
reads a stage and a parent from the flags of an entry (`Stage`, `Par`). A handler calls
helpers in sequence, so the tables between the calls are compared first: `Before` says what
an exit has changed when its parent has not been told yet, `Told` and `Ends` what telling the
parent may add to that. They are followed through `zombify`, `check_parent` and `begin_exit`;
the rest of an action changes the stage of no entry (`Unmoved`, `Others`). Each action then
is one of seven kinds of step (`Moves`): `Still`, `Exits`, `Passes`, `WaitTells`, `Releases`,
`Adopts`, `Forks`, each an action of `ProcessLife` or a stutter; `NextLife` has one
case per action and `MoveRefines` one per kind. `IInv` is what excludes the others: a parent
that is told is alive and waits, or is INIT in the place of an exiting one, and an entry is
freed only after VFS has let go of it.

**SchedulerProofs.** For every number of processes, queues and CPUs, whichever CPUs came up,
for both laboratories, with and without CONFIG_SMP (`SchedAssumption`: quanta are positive,
and `UINT_MAX` is above every load the processes and CPUs can add up to):

* `TablesCorrect`: `Spec => []TablesInStep`, queues exist, the kernel's table follows SCHED's,
  a slot is in use exactly while PM has a process in it;
* `PlacementCorrect`: `Spec => []PlacementInv`, loads cover the processes, nothing runs on a CPU
  that did not come up, none is tried again.

The first needs little more than itself (`TInv`): where a priority may have wrapped
(`Priorities`), that every slot in use has a quantum the kernel accepts (`Slices`), and that the
loop of `do_start_scheduling` works for one process (`Starting`). `balance_queues` is a
recursive function over the table; `RoundsExist` shows that it exists and `PullAll` what it has
done after each round. The second is not inductive: a refused CPU gets `CPU_DEAD`, which is
`UINT_MAX`, as its load, and from then on its load is counted like any other, so a
process that is recorded for it and exits takes it down to where it might be picked. `PInv` adds
how far the loads can go (`Loads`, `Bound`) and tells two cases apart. If a second CPU came
up, the load of a refused one stays within `NR_PROCS` of `UINT_MAX`, and the second
CPU is always less loaded than that. If none did, INIT, the first process PM starts, finds all of
them refused, and nobody is recorded for one of them from then on (`Alone`).

**ProgramsProofs**, the buddy allocator. For every memory size and set of processes (`BuddyAssumption`):

* `BuddyCorrect`: `Spec => []BuddyInv`, the blocks that are free or held tile the
  memory, the free list is exactly the free leaves, each held block is named by its holder;
* `BuddyIsPool`: `Spec => IsPool`, the allocator implements `MemoryPool`.

`BuddyInv` alone is not inductive. `BuddyIInv` adds that of two blocks that overlap one
lies under a child of the other (`Nested`) and that every address lies in a leaf
(`Covered`), without which splitting a leaf might meet another block; that no two buddies
are in the free list, in the middle of a loop too, since the block that is being merged is
not in it (`NoFreePair`); and what the loop under way works on (`CurInv`). In the refinement
a client owns the cells of the block it holds and wants what it asked for while
the loop splits: the last round of an allocation is `Obtain`, the call of a release is
`Release`, splitting and merging stutter.

**KernelProofs.** For every set of services and users, and however many signals and
asynchronous messages there are (`KernelAssumption`):

* `KernelInvHolds`: `Spec => []KernelInv`, no panic but that of `cause_sig` for the manager
  itself, no stale saved call, exact queues;
* `DeadAreForgottenHolds`: `Spec => []DeadAreForgotten`;
* `SignalNotLostHolds`: `Spec => []SignalNotLost`.

The three hold for one reason and have one inductive invariant, `Inv`. It adds to them whom a
blocked process waits for: a live process other than itself, and for SENDREC the one it sent
to (`Blocked`), without which `clear_ipc_refs` could leave a waiter behind; that the manager
waits for anyone and only outside its loop (`Waits`), without which a notification could pass
it by; that a process that manages its own signals has a manager to fall back on
(`Managed`), which is what keeps `cause_sig` from its panic for everybody but the manager,
who has none; and that a free slot holds nothing
but its flag (`Dead`). A handler is a chain of helpers on records, so the invariant is stated of
a record. In the middle of `cause_sig` the process is stopped and the manager not told yet;
there `Inv` is false and `Parts`, the same without `Listens`, is what holds. One lemma per
helper follows `Parts` through it (`send_sig`, `cause_sig`, `clear_ipc`,
`clear_ipc_refs`, `kernel_call_finish` ...), one per action puts `Inv` together again. The
queues are sequences from which `clear_ipc` unlinks while it walks along them: `Unlink` is
the recursive function that does it, and `KeepsExists` and the lemmas after it show by
induction over the length that it keeps order and drops nobody else.

**ProgramsProofs**, the other parts. `MasksCurrent`: `PrivSpec => []SendMasksCurrent`, whatever
privileges are set and in which order (`PrivAssumption`). `PipesCount`:
`PipeSpec => []PipeCounts`, for pipes and requests of every size (`PipeAssumption`); its
invariant relates what each call has moved, what is left of it, what it was cut short of and
what is in the pipe, and says over whom VFS panics.
`BytesMoved`: `BioSpec => []BytesMovedOnce`, for devices, files, caches and requests of
every size, past the end of the device too (`BioAssumption`). Its invariant `BioInv` adds that a request that is not over
has read exactly what it counts, and that a read of a file is not behind the end of it; the
proof rests on a chunk never leaving its block (`ChunkFits`), so that a block that is
written without having been read is covered from its first byte to its last (`WholeBlock`).
`ZonesCounted`: `MapSpec => []ZonesExact`, and `OtherBlocksKept`: `MapSpec => OnlyThatBlock`,
for any number of direct zones, entries of an indirect block and zones of the disk
(`BlockMapAssumption`). Within one call a zone may be neither free nor entered, so the
invariant is stated relative to the set of zones in hand (`Exact`), empty between
calls: no zone is entered twice (`Once`), and the entered ones are those neither free
nor in hand (`Entered`); `NoneEmpty` says which indirect blocks may be empty. Every step of a
call (`TakeStep`, `NewDoubleStep`, `NewSingleStep`, `EnterSingle`, `LeaveSingle`,
`DropSingleStep`, `DropDoubleStep`, ...) moves one zone into or out of the hand, and a call
is a chain of them (`WriteNew`, `WriteFree`). That no other position moves needs that an
entry determines its position, which is arithmetic (`Quotient`, `Behind`), and that an
indirect block is reached from one place only, which is `Once`. In `ZonesExact` the count
of references is a cardinality; it is shown to be 0 or 1 from `Once` and `Entered`.
`ListedOnceHolds`: `DirSpec => []ListedOnce`, for directories of every length, any lengths of
records and sizes of buffers and any sequence of calls, additions and removals
(`DirAssumption`: a record fits into `getdents_buf`, and files have the types MFS knows). The
invariant `DirInv` adds where entries are: each in at most one slot (`Placed`), a listed one gone or
before the position (`Recorded`), and one that was there all the time still in a slot, and listed if
that slot is before the position (`Awaited`). A new name goes into an unused slot and may lie before
the position, but a name is created once, so it is in no listing yet. The loop of `fs_getdents` is
a recursive function; `ScanAll` shows by induction over the slots that it returns exactly the
entries between the old position and the new, each once, and no bytes only if there are none.
`PagesAreResident`: `PageSpec => []PagesResident`, for any pages, number of frames and length of
the reference string (`PageAssumption`). For first in, first out the queue is the window of the
last loads, a recursive function of the references (`LoadsStep`), and has no page twice. For least
recently used the queue is in the order of last use, and a page that is not in it was used before
all that are (`InUseOrder`, kept by `MoveToEnd`); so the pages used since the last use of one in
the queue are those behind it (`BehindInQueue`), fewer than there are frames, and since the last
use of another at least the whole queue (`QueueIsLately`). With random victims no page is in two
frames.
`ChainsInOrder`: `ChainSpec => []ChainInOrder`, for strings of every length, command lines of any
number of programs and any width of `int` (`ChainAssumption`). The invariant of the fork chain
(`Procs`) says that all but the newest process have a child and stay where they forked it while it
lives, and what each has seen printed (`Printed`); so the output on a terminal is what the newest
has seen, and into a file every process that is gone has written each letter it knew once
(`Outs`, by counting: `PlacesOf`). When all are gone and no fork has failed there were
`StrLen + 2` of them (`AllOfThem`), which gives the number of copies. For the exec chain what is
left of the command line is its end, and the number is what the programs before it made
(`ExecParts`); that function exists by induction over the command line (`MadeExists`).

**ImmediateFileProofs.** For inodes, blocks, disks and requests of every size
(`FileAssumption`: the conversion happens inside `i_zone`, `i_zone` fits into a block, a file
may have more than one block):

* `InodesCorrect`: `Spec => []InodeInv`, every zone is free or in the file, an immediate file
  fits its inode. It has the hypothesis `PlainUse`, that nobody resizes, peeks into or writes
  with a bad address to a file VFS takes for immediate; without it the code does lose zones
  and the fit, see the list above;
* `SeenAsByteFile`: `Spec => IsFile`, the refinement of `ByteFile`, under `Orderly`: a file that
  may be immediate is read as a whole and written without gaps, nobody uses O_APPEND (whose
  position is wrong, `fs_size`), and the disk has room for the largest file, since a conversion
  on a full disk loses the contents. What is done to a regular file is otherwise free: parts,
  gaps, `ftruncate`, peeks, and writes whose copy fails at some chunk, which `ByteFile` has as
  a step of its own (`FFail`);
* `WritesKeepRest`: `Spec => [][...]` of `OnlyRange` for all descriptors and amounts, with
  copies that fail at any chunk and without hypothesis on the calls or the disk.

The run `files` checks `InodeInv` and `IsFile` on an instance that satisfies both hypotheses,
and the third on one that satisfies neither. The invariant `IInv` says what VFS knows of
the inode (`Known`: a vnode that says regular is right, one that says immediate may be late),
that zones are never more than there are (`Counted`) and, under `PlainUse`, never fewer and that
an immediate file ends before `ImmMax` (`Plain`). The loop of `rw_chunk` is described
once: how far it gets with the zones there are (`ReachIs`), and what it leaves of blocks, zones
and cells (`WriteChunksIs`); its start is the inode or the converted inode (`SourceIs`). For
the refinement `Trim` adds that the cells of a regular file behind its end are
blank, which is why a gap reads as zeros and growth by `ftruncate` shows nothing old; `NotFull`
counts blocks to show that the loop gets to its end. Each action is one step of `ByteFile`
(`SeeRead`, `SeeWrite`, `SeeSeek`, `SeeResize`, `SeeOther`) or is not possible (`NeverSeen`).

**Only model-checked.** Liveness, which is out of the prover's reach; the safety
properties of `VfsCalls` and of the scheduling simulators (`JobsAccounted`). `VfsCalls` follows
its scripts with a RECURSIVE operator, and `JobsAccounted` compares with sums over the whole
input, so they stay with TLC.

## Plan

1. *Done*: PM, SCHED, the buddy allocator, the image filters, immediate files and the
   block layer, the calls of VFS, pipes, the kernel's system task, the simulations and
   chains; the proofs above.
