# Verification of the xv6 kernel and its shell

TLA+ models of the kernel under `src/kernel` and of the shell under `src/user`,
checked with TLC on small instances. For the log, the buffer cache, pipes, the
scheduler, the process life cycle, the contents of files, the disk driver and the
console the safety properties (NoLockCycle excepted) are also proved with TLAPS for all
instances. xv6 is a small Unix for a RISC-V multiprocessor. It has little code and many
ways for its parts to run at once: several harts, processes that sleep in the kernel,
interrupts, devices, a disk that may stop between two writes.

## 1. The system and its parts

| part | source | modelled in | proofs |
|---|---|---|---|
| redo log | `log.c` | `Log`, `AtomicDisk` | `LogProofs` |
| process life cycle | `proc.c` | `Proc` | `ProcProofs` |
| harts, spin locks, scheduler, timer interrupts, sys_sleep | `spinlock.c`, `proc.c`, `trap.c`, `sysproc.c` | `Sched` | `SchedProofs` |
| buffer cache, sleep locks | `bio.c`, `sleeplock.c` | `Bcache` | `BcacheProofs` |
| pipes | `pipe.c` | `Pipe`, `Fifo` | `PipeProofs` |
| inodes, directories, path names and the calls that change them | `fs.c`, `sysfile.c` | `Fs` | |
| contents of files, block allocation | `fs.c`, `file.c` | `FileData` | `FileDataProofs` |
| disk driver | `virtio_disk.c` | `VirtioDisk` | `DiskProofs` |
| console, UART | `console.c`, `uart.c` | `Console`, `LineInput` | `ConsoleProofs` |
| pages, address spaces, exec | `kalloc.c`, `vm.c`, `exec.c`, `proc.c` | `Vm` | |
| descriptors and open files, the shell, init, echo, cat | `file.c`, `sysfile.c`, `pipe.c`, `user/sh.c`, `user/init.c` | `Shell`, `ShParse` | |

How they interact: a file system call runs between begin_op and end_op and reaches
the disk through the buffer cache; log_write pins buffers and the commit unpins
them. `Bcache` therefore has the log's pins among its users, and `FileData` counts
the blocks of a transaction against the `MAXOPBLOCKS` that `Log` reserves.
Everything that waits does so by sleep and wakeup of `proc.c`, which `Sched` shows
to lose no wakeup and to leave no lock behind; `Pipe`, `Console`, `VirtioDisk`,
`Bcache` and `Log` use them as one step under the caller's lock. `exit`, `wait` and
`kill` cross all of it, because a killed process has to leave whatever it sleeps
in. `Shell` composes the shell with descriptors, open files and pipes.

What is hard to get right here, and hard to test (PROJECT.json, "hazards", gives
the lines):

* crashes between two disk writes of a commit, or during recovery;
* wakeups that come between a test and a sleep, and returns that forget a wakeup;
* values read under a lock and used after its release (`original_parent` in exit,
  `log.lh.n` in log_write, a buffer between bcache.lock and its sleep lock, an inode
  with one reference and no link);
* interrupt handlers that take the locks of the code they interrupt, and threads
  that go on on another hart with the interrupt state of the first;
* several locks held at once by relatives that exit, and by calls that walk up and
  down the same directories;
* slots, buffers, inodes and descriptors that are reused while somebody still has a
  pointer to them;
* counters at their limits: log space, buffers, descriptors, the indices of four
  ring buffers, sizes that are not whole pages;
* each allocation of a long call failing in turn.

## 2. Modules

**`AtomicDisk`** is what the log promises: `committed` contents that survive a
crash, `current` contents, and the `active` calls. `Commit` moves the second to the
first in one step, only while no call is active.

**`Log`** has one action for each section under `log.lock` and one for each disk
write, since a crash can fall between any two. `pc` says where each process is,
`lh` is the header in memory, `dhead` and `dlog` the log area on disk, `disk` the
home blocks, `cache` what `bread` returns. `log_write` is two actions, because its
tests come before the lock. `Crash` keeps the three disk variables alone, and
recovery can itself crash. `OPBLOCKS` is the number of blocks a call really logs.
A write of one block is taken to be atomic, as the code assumes.

**`Proc`** follows the slots of `proc[]`. A section that takes one `p->lock` is one
action; in `exit` and `wait`, which hold several, each acquire is an action and
`lock` says who holds what. `NextSlot` lets the loops over the table jump from child
to child: a process other than init is the only one to change its set of children,
so the slots in between make no difference. Init also gets children from others, and
its loop goes slot by slot. allocproc's choice among UNUSED slots is left open: which
one it gets depends on the locks it met. Init does not exit and is not killed (exit
panics then). Failures of allocproc, uvmcopy and the copyout of wait are inputs.

**`Sched`** has harts and threads. A thread is a process or a hart's scheduler; an
interrupt handler runs on the stack of the thread it interrupts (`trap`) and moves to
another hart with it when it yields. `cpu` holds noff, intena and the interrupt enable
bit of a hart, `intena` the local variable of sched(). `acquire` is two steps,
push_off and the swap. The kernel code that runs is `sys_sleep`, with `tickslock` and
`p->lock`, and the end of `exit`; `clockintr` runs on hart 0 alone and its wakeup takes
one process at a time. `ticks - ticks0` is kept for each sleeper (`elapsed`), up to
`MaxLate`, beyond which nothing depends on it.

**`Bcache`** has the fields of `struct buf`, the LRU list as a sequence, and the
processes that go through `bread`, `brelse` and, in between, `log_write` or
`install_trans`. The disk transfer is a step of its own. `latest` records what was
last written to each block. A panic in `bget` happens with bcache.lock held, so it
stops everybody who needs that lock.

**`Fifo`** is what a pipe promises, a bounded queue. **`Pipe`** has the ring buffer
with counters modulo `W`. What a process does with `pi->lock` held is one action,
except that `sleep` comes after a step of its own: `kill` needs no `pi->lock` and may
fall between the test of `p->killed` and the sleep. The queue of `Fifo` is mapped to
the bytes between nread and nwrite.

**`Fs`** has the inode cache (`ref`, `valid`, sleep locks), inodes and directories on
disk, and calls with a program counter each: mkdir, create, open, close, link, unlink,
chdir, with namex as a loop of lookups in between. A step is what a process does under
one lock. `lost` counts names that were freed with a directory.

**`FileData`** has the bitmap, blocks, and the direct and indirect addresses of an
inode. begin_op, ilock and the tests of writei are the first step of a chunk (filewrite);
then each turn of writei's loop is a step (`writei`, before it `bmap_indirect` and `bmap`
if bmap has to allocate), and so is what follows the loop (`writei_end`, `end_op`). itrunc
takes a step for each block it frees. The inode is locked all the while, the bit map is
not: other processes allocate and free blocks of other files in between. `content` is the
reference: the bytes that the calls so far have put in a file. `logged` has the blocks
that a process's transaction has passed to log_write.

**`VirtioDisk`** has the descriptors, both rings, `info[]`, and the processes in
virtio_disk_rw. The device is external: it takes requests, completes them in any
order, and raises an interrupt. The handler is not one step: the device can overtake it.

**`LineInput`** is what the console promises its readers. **`Console`** has the input
ring with `r`, `w`, `e`, the transmit ring, the UART's holding register (external), and
readers, writers and the interrupt handler. It implements `LineInput`.

**`Vm`** has physical pages with their contents and owners, and page tables with `FAN`
entries a level. A call (fork, exec, sbrk, wait) is one step, in which the allocation
after the first `k` fails, for each `k`: what the call then undoes is modelled function
by function. Sizes are modulo `W`, as growproc's are modulo 2^32.

**`ShParse`** has the parser of `sh.c` as operators and a reference grammar.
**`Shell`** has the processes of a command line as lists of calls still to make, over
descriptors, `ftable` and pipes. fileclose is two steps and exit closes one descriptor
at a time.

`MCLog` ... `MCShell` are the instances for TLC. A definition whose name extends
another's (`pipeclose_silent`, `Put_off`) is a wrong variant of it, used only to confirm
that the property it is listed with in PROJECT.json fails when the code is wrong in that
way.

## 3. Runs

All runs hold but ProcDeadlock.

| run | instance | states | properties |
|---|---|---|---|
| Log | 2 processes, 3 blocks, 2 values, MAXOPBLOCKS 2, calls log 1, LOGSIZE = nlog = 4 | 94,144 | NoPanic, AtomicCommit, SleepersWake |
| Proc | 3 slots, pids to 5, kills of pids 2 to 4, failures | 42,916 | ParentAlive, NoMissedExit, NoLockCycle, CleanReuse, KilledExits |
| ProcDeadlock | 4 slots, pids to 5 | | NoLockCycle **violated** |
| Sched | 2 harts, 2 processes, either may be killed | 148,536 | NoPanic, InterruptsBack, RunsOnce, NoLostWakeup |
| Bcache | 3 processes, 3 blocks, 2 buffers, 1 pin | 503,248 | RefcntExact, ReadsLatest, SleeperWoken |
| Pipe | 1 reader that may be killed, 1 writer, PIPESIZE 2, W 4, calls of up to 3 bytes, bad addresses | 32,472 | NoMissedWakeup, IsFifo, CallsReturn |
| FsTree | 2 processes, 10 kinds of call, 4 calls in all, 4 inodes, 3 cache entries | 119,162 | NoPanic, RefExact, LinkCounts, CallReturns |
| FileData | 2 files, 3 open files, 2 processes, 1 direct and 2 indirect blocks of 2 bytes, 3 calls in all | 422,371 | BlocksOwned, ReadsBack, ChunkFits |
| Disk | 3 processes, 8 descriptors | 133,368 | ChainsIntact, RingsHold, SleepsForDescs, FinishesOrMissed |
| Console | 1 reader that may be killed, 1 writer, INPUT_BUF 2, W 4, transmit ring of 3, keys x, return, ^D, ^H, ^U | 415,824 | SleepsOnEmpty, WritesWhole, IsLineInput, OutputDrains |
| Vm | 2 processes, 20 pages of 2 bytes, three levels of 2 entries, 5 calls in all | 1,832 | PagesExact, SizeMapped, CopyExact |
| Shell | 9 command lines, 5 processes, 4 open files, 5 descriptors, PIPESIZE 1; the parser on all lines of up to 4 characters | 31,088 | RefExact, WiredRight, ParseExact, Drained |

Bounds, and why they are enough.

* *Log*: an absorbed write, a block in the log and one outside it, a call that starts
  while another commits. One unit less in begin_op's test reaches the panic.
* *Proc*: three slots are freed and reused by new processes, with orphans for init.
  Four are the fewest for the lock circle over three generations.
* *Sched*: a thread can come back on the other hart, both harts can interrupt, and a
  process can be woken, killed and preempted at once. One tick of sleep reaches both
  answers of the test.
* *Bcache*: more blocks than buffers, so that valid buffers are recycled; a third
  process so that two can wait for a buffer while it is released.
* *Pipe*: W is twice PIPESIZE and a call may ask for more than PIPESIZE bytes, so that
  counters wrap and writers sleep. The code has 2^32 and 512.
* *FsTree*: four calls are enough for one process to remove a directory while another
  is in it, makes a name in it or holds it as its current directory, and for an inode
  number to be reused. Three cache entries make entries move from inode to inode.
* *FileData*: a write of 4 bytes takes two chunks of 2 bytes, and from an odd offset
  each chunk reaches into two blocks; two writes span the direct and the
  indirect part and exceed the largest file. Eight blocks are all that two files can
  have. BPB 4 gives three bitmap blocks, so that bits of one chunk are in two of them.
* *Disk*: eight descriptors serve two requests of three, so the third process sleeps;
  ring indices go round.
* *Console*: the input ring fills, and its indices wrap after two fillings; a write
  does not fit in the transmit ring beside another character.
* *Vm*: programs with one segment, two, an unaligned one and a gap; increments within
  a page, over pages, negative and far enough for the uint to wrap. Every allocation
  of every call fails in some step.
* *Shell*: pipelines of two and three programs, lists, blocks, background commands,
  redirections, missing programs and files, a syntax error. Five processes, four files
  and five descriptors are too few for some of the lines, so fork, pipe and open fail
  in the middle.

FileData uses symmetry in processes and in the two open files of one inode; it has no
liveness property. Deadlock is checked in Log, Sched and Disk. It is not checked where
the system may stop for good: all processes waiting or exited (Proc), a panic (Bcache,
FsTree, Console), both ends of a pipe closed (Pipe), the calls used up (FsTree, FileData,
Vm), the line done (Shell).

Fairness.

* *Log*: a process in a commit goes on because the disk answers, and a woken process
  gets to run. Strong fairness of end_op stands for a call that ends although others
  take turns.
* *Proc*: each process in the kernel has a hart from time to time, and `acquire` spins
  on an atomic swap, so it gets a lock that is free again and again (strong fairness).
  A killed process exits at its next trap, and init calls wait for ever
  (`user/init.c`).
* *Bcache*: only steps under locks that come free, and the disk. The code does not say
  who gets a sleep lock next, so the property is that a sleeper is woken, not that it
  gets the lock.
* *Pipe*: readers keep reading until they close, and a killed process exits.
  CallsReturn is about one writer, since nothing keeps two from overtaking each other.
* *FsTree*: a process in the kernel goes on while the kernel has not panicked.
* *Disk*: the device takes and completes requests, and the interrupt is handled.
* *Console*: the UART sends, the handler runs, a writer in the kernel goes on.
  OutputDrains says nothing while somebody goes on typing: echo can take the UART
  again and again.
* *Shell*: every process goes on, and init waits.

Sched has safety properties only: fair scheduling of two harts is out of TLC's reach
at this size.

## 4. Where the code is right only under a condition

**ProcDeadlock** is the one violation that a run shows. exit() reads `p->parent` under
`p->lock`, releases the lock and then locks that process (proc.c:375), which the
comment above takes to satisfy the "parent-then-child rule". `original_parent` may be
stale by then: the parent has exited and been reaped, and its slot now holds a
grandchild of the exiting process. That process holds the grandchild's lock and wants
its child's, to give it to init; the child is in wait(), holds its own lock and wants
the grandchild's. It takes a slot that is reused within one call of exit. NoLockCycle
holds in run Proc, whose three slots are one fewer than the circle takes.

The other conditions are in the guards and constants of the models, or in the wording
of the properties:

* *Log space.* begin_op reserves up to LOGSIZE blocks, log_write panics at
  `log.size - 1` (log.c:218), and mkfs makes `log.size` = LOGSIZE with the header
  included. Three calls that use all they reserve do not fit. Calls leave a block or
  more of their reservation unused (`OPBLOCKS`), and then the panic is out of reach.
  Theorem NoPanicCorrect of LogProofs has the condition.
* *Recovery.* install_trans unpins each buffer, also in recovery, where none was
  pinned (log.c:78). Its refcnt goes below zero, and later the buffer looks unused
  while a process has it. Bcache models the cache after a clean boot.
* *Killed writer.* A write that is cut short by a kill (pipe.c:86) has put bytes in the
  pipe and does not wake the reader. If another process has the write end open, the
  reader sleeps beside a full pipe. The Pipe run kills readers only, and theorem
  NoMissedWakeupCorrect assumes that writers are not killed. A reader that is killed
  between its test and its sleep stays asleep until somebody writes or closes; the same
  is so on the console.
* *Removed directories.* A process whose current directory was removed can still look
  up `..` in it, and the parent may have been removed and freed too: ilock then panics
  with "no type" (fs.c:311). The calls of FsTree do not look `..` up from there. create
  can make a name in a directory that has just been removed; the name goes with the
  directory, and the inode keeps its link (`lost` in LinkCounts).
* *Inode cache.* NFILE open files are more than NINODE cache entries, so iget can panic;
  CallReturns has this exception (`exhausted`).
* *Virtio interrupt.* A completion that comes after the handler's last look at the used
  ring and before the acknowledgement (virtio_disk.c:267) raises no interrupt of its
  own and is seen with the next one. FinishesOrMissed names it (`Missed`).
* *Console output.* consolewrite holds cons.lock when uartputc sleeps on a full ring
  (console.c:68), and sched() panics on the second lock. Console has the panic as
  a step; WritesWhole and OutputDrains say what holds until then.
* *Interrupted writes.* writei returns n also when a bad address cut the copy short;
  the offset still moves by n. The block in which the fault came is changed in the
  buffer and not passed to log_write. ReadsBack is worded for what is in the cache.
* *Sizes.* growproc computes in an unsigned int, and sbrk with an increment that wraps
  succeeds without changing the size. SizeMapped holds through it.
* *kill and reuse.* kill compares pids without looking at the state. `kill(0)`, or a pid
  that a failed allocproc left in its slot, marks an UNUSED slot, and fork does not
  reset `killed`. CleanReuse speaks of slots that freeproc has cleared.
* *init.* Init may sleep on beside a zombie, because it is woken before it gets the
  child; the comment at proc.c:357 accepts this, and NoMissedExit leaves init out.
* *Interrupts after exit.* A process that is killed in user space exits with interrupts
  off, and so the hart's intena may be FALSE when the next new process enters forkret.
  InterruptsBack begins with the first return to user space.
* *Shell.* Of two redirections of one descriptor the first one wins; `a & b` is a syntax
  error; the shell itself ends when fork fails for a command. The reference grammar and
  Drained are what the code does here.

## 5. Proofs

Each component proved has an inductive invariant, one lemma per action, and theorems
that follow from it. The theorems hold for every value of the constants that satisfies
the named assumptions of its module (ProcsAssumption, BlockAssumption and SizeAssumption
of Log, BcacheAssumption, PipeAssumption, SchedAssumption, NPROCAssumption and
PidAssumption of Proc, FileDataAssumption, DiskAssumption, ConsoleAssumption), which TLC
evaluates in its run. A leaf that cites Zenon names the prover that finds it; the others
are for the SMT solver.

**Log** (`LogProofs`): finitely many processes, any blocks and sizes, any number of
crashes. `Inductive`; `TypeCorrect`, `ReservationCorrect`, `CommitAloneCorrect`,
`CleanBlocksCorrect`; `AtomicCommitCorrect`: `Log` implements `AtomicDisk`;
`NoPanicCorrect`: no panic, if every call leaves at least one block of its reservation
unused and LOGSIZE less that slack is below nlog - 1. For the sizes of the kernel
(10, 30, 30) this means calls of at most 8 blocks.
The reservation alone is not inductive: that `outstanding` counts the processes between
begin_op and end_op, that a process outside a call has logged nothing, and that one
process at most commits, while no call runs, are needed for begin_op's test to mean
anything. Atomicity needs the contents: before the header is written the first log
blocks are copies of the cache, no block is listed twice, the header on disk is the one
in memory during an install and empty otherwise, and what is already installed equals
the log. The refinement maps `committed` to what recovery would make of the disk.
write_head is the Commit step; every other disk write leaves that alone.

**Buffer cache** (`BcacheProofs`): finitely many processes, any blocks and number of
buffers. `RefcntCorrect` (RefcntExact), `ReadsCorrect` (ReadsLatest), `OneUserCorrect`
(a block has one buffer, a locked buffer one user) and `PanicCorrect` (bget panics only
when every buffer has a user or a pin).
RefcntExact is what keeps a buffer in use from being recycled, and it needs to know
which processes have a buffer at all (`Has`), so the two are proved together with the
sleep locks (`Locks`), what a holder has read (`Reads`), that valid data is the latest
and that a logged block is in memory (`Contents`), and that the list holds every buffer
(`Listed`). The steps that change a count come with lemmas on the cardinality of the set
of users.

**Pipe** (`PipeProofs`): any numbers of readers and writers, any PIPESIZE, and any range
of the counters that is a multiple of it, at least twice. `NoMissedWakeupCorrect`, if no
writer is killed; `FifoRefined`: `Pipe` implements `Fifo`.
The invariant has open flags that agree with the descriptors, `pi->lock` with the process
between its test and its sleep, and the number of bytes in the ring within PIPESIZE. The
refinement rests on arithmetic: indices modulo W, taken modulo PIPESIZE, find the same
place (W is a multiple), a write lands on the place after the last byte and on no other
byte of the queue.

**Scheduler** (`SchedProofs`): any numbers of harts and processes, any order of the
process table, any sleeping times. `Inductive`, `InterruptsBackCorrect`,
`NoPanicCorrect`, `RunsOnceCorrect`, `NoLostWakeupCorrect`.
`IInv` says which thread is on which hart (`Running`), that noff is the number of
push_offs the thread there has not undone (`HartsFit`), that `tickslock` and each
`p->lock` are held by exactly the hart whose thread is between its acquire and its
release (`TicksFit`, `LocksFit`: a scheduler has the lock of the process that has just
switched to it), and how states go with that (`StatesFit`). Most steps are of a thread
that stays on its hart: the module shows once what such a step must do (`Local`),
and one lemma for each action shows that it does. Switches and wakeups are proved one by
one. For InterruptsBack, `IntsOK` follows the interrupt state from the first push_off
through sched() and another hart to the last pop_off. For NoLostWakeup, `Sleeps` says
that a process on its way to sleep is early: sys_sleep keeps tickslock from its test to
the SLEEPING state, and clockintr needs that lock to count.

**Process life cycle** (`ProcProofs`): any size of the table, any failures and kills.
`ParentAliveCorrect`, `NoMissedExitCorrect`, and `CleanReuseCorrect`, if nobody kills the
pid 0 (section 4, kill and reuse; the run's kills satisfy it).
That a parent is alive says nothing about a parent half way through exit, so the
invariant follows the loops: behind reparent()'s place in the table no child is left
(`Reparents`), and behind wait()'s place no child is a zombie, nor is any when it sleeps
(`Waits`). Both stay true because no process but init gets a child from another, and
because a child takes its parent's lock before it becomes a zombie, while wait() holds
that lock up to its sleep. The lock exit() takes is that of `original_parent`, which is
the parent or, if it is not, the process has gone to init meanwhile (`Locks`): a stale
value does harm to nobody but init, which NoMissedExit leaves out. `NextSlotIs` shows that the jump of
the loops to the next child is the scan of the table, from the fact that a set of naturals has a least element.

**Contents of files** (`FileDataProofs`): any files, descriptors and processes, any number
of blocks, of direct blocks and of bytes a block, any reservation of six blocks or more
in which the bit map and an inode fit (with a smaller one filewrite's chunks are empty;
the kernel has 10, and one bit map block). `BlocksOwnedCorrect`, `ReadsBackCorrect`,
`ChunkFitsCorrect`.
Between calls the three properties are simple; the invariant says what holds half way.
`OwnedBy`: the places of the inodes that hold block numbers, less those of an indirect
block that itrunc has gone over, hold each block in use once. An allocation or a bfree
changes one place and one bit (`TakeBlock`, `GiveBlock`), so each step of bmap and itrunc
is an instance of these two. `Place`: a process in a transaction has the inode's lock, so
that no two steps are for one file (`Holder`, `Writer`). `Data`: a file that is not being
truncated has its first `size` bytes in its blocks, and one that is being written has
those up to the place of the copy too; when writei stores the new size, the first part
follows from the second. A block that is copied to or allocated belongs to no other file
(`Owner`), so the other files keep their bytes (`Bystander`). `Reserved`: what a chunk
has logged is the inode, the indirect block, blocks of the span from its first byte to
its last, and the bits of the indirect block and of those blocks of the span that it can
allocate: all but the one in which the chunk begins, if it begins within it, because the
bytes before it are there. ChunkFits is then arithmetic: chunks of n blocks' bytes, n
half of MAXOPBLOCKS - 4, span n + 1 blocks at most and allocate n of them (`Chunked`),
which with the inode, the indirect block and its bit makes 2n + 4 (`ChunkSlots`).
ChunkFits counts without Cardinality, by the slots that the blocks are in.

**Disk driver** (`DiskProofs`): any processes, any number NUM of descriptors from three,
any width of the ring indices that is a multiple of it. `ChainsIntactCorrect`,
`RingsHoldCorrect`, `SleepsForDescsCorrect`.
`Chains` has for each request its three descriptors, formatted and linked, apart from
all others and not free, `info[]` leading back to it, and the count: free descriptors and
three for each request make NUM. The count is what the rings need: at most NUM / 3
requests are in flight, so neither index can run NUM ahead of the other and the handler
may compare them modulo NUM. `Rings` places each request in exactly one of the available
ring, the device, the used ring and the state of being done, and says that the entries
between two indices are the heads of such requests, each once. The arithmetic is in the
first lemmas: an index that wraps at a multiple of NUM finds the same entry as one that
never wraps.

**Console** (`ConsoleProofs`): any readers and writers, any sizes of the two rings, any
width of the counters that is a multiple of INPUT_BUF, at least twice. `LineInputRefined`:
`Console` implements `LineInput`; `SleepsOnEmptyCorrect`, `WritesWholeCorrect`.
`Ring` has cons.r, cons.w and cons.e in order, as distances from cons.r, within
INPUT_BUF, and no newline in the line that is being edited. The last is needed for ^U,
whose loop stops at a newline: it erases the whole unfinished line, as `LineInput` says,
only because there is none. `Holds` gives cons.lock to whoever is on the way to sleep,
and so no key can come between a reader's test and its sleep. `Transmit` says of the
transmit ring that nothing is left outside its two indices, that what a writer put there
last is the character before its next one, and that a character which is not the first
of its write follows the one before it.

Only model-checked:

* the liveness properties, which are outside the prover's reach;
* NoLockCycle of Proc, which does not hold for more slots than the run has (run
  ProcDeadlock), so there is nothing to prove for all sizes;
* Vm: walk, uvmalloc, uvmunmap, uvmcopy and exec are loops that the model computes in
  one step as folds over pages, and what a fold yields for every length takes induction
  over data;
* Fs: NoPanic holds for the calls of the run, which leave out lookups of `..` from
  removed directories (section 4), and is not inductive without a statement of which
  calls those are; RefExact and LinkCounts count the local variables of every call at
  each of its steps, and no inductive invariant has been written for them yet;
* Shell and ShParse, whose recursive operators the prover does not take.

## 6. Not modelled

* Boot code, assembly, the interrupt controller (`entry.S`, `start.c`, `main.c`,
  `swtch.S`, `trampoline.S`, `kernelvec.S`, `plic.c`): register-level set-up that runs
  once, and code whose only state is registers. swtch is the change of thread in Sched.
* System call dispatch, argument fetching, printf, strings (`syscall.c`, `printf.c`,
  `string.c`): no state of their own beyond the panicked flag.
* mknod and the device case of open, which differ from create and open of a file in two
  stored numbers; fstat, which changes nothing; the register handshake of
  virtio_disk_init; the kernel's own page table, built once at boot.
* `ramdisk.c`, which is not part of the build.
* `user/ulib.c`, `user/umalloc.c`, `user/printf.c`, and the other user programs:
  sequential helpers, text processing, and uses of fork and pipe that Shell covers in
  general. `mkfs.c` runs on the host.
* The composition of the file system with the log: Fs and FileData take a transaction
  to be what Log shows it to be, all or nothing, and do not crash themselves.
* Memory ordering below the level of locks: spin locks are taken to order memory, as
  `__sync_synchronize` in acquire and release is there to do.
