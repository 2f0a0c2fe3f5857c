-------------------------------- MODULE Log ---------------------------------
(***************************************************************************)
(* kernel/log.c: the redo log under every file system call, with crashes.  *)
(*                                                                         *)
(* One action per section of code that runs under log.lock, and one per    *)
(* disk write (bwrite), because a crash can fall between any two of them.  *)
(* A write of one block is atomic.  The buffer cache appears as "cache":   *)
(* what bread(b) returns, the pinned modified copy or the block on disk.   *)
(***************************************************************************)
EXTENDS Integers, FiniteSets, Sequences

CONSTANTS Procs,        \* processes that make file system calls
          InitProc,     \* the process that runs fsinit() at boot
          Blocks,       \* home block numbers
          NoBlock,      \* not a block number
          Vals,         \* contents of a block
          MAXOPBLOCKS,  \* log blocks that begin_op reserves for a call
          LOGSIZE,      \* capacity of struct logheader
          NLOG,         \* sb.nlog: blocks of the on-disk log, header included
          OPBLOCKS      \* distinct blocks that a call really logs, at most

ASSUME ProcsAssumption == IsFiniteSet(Procs) /\ InitProc \in Procs
ASSUME BlockAssumption == NoBlock \notin Blocks
ASSUME SizeAssumption ==
  /\ MAXOPBLOCKS \in Nat /\ LOGSIZE \in Nat /\ NLOG \in Nat
  /\ OPBLOCKS \in 0..MAXOPBLOCKS

VARIABLES
  pc,           \* where each process is in log.c
  tail,         \* the loop variable of write_log and install_trans
  blk,          \* the block of the log_write call in progress
  opblocks,     \* the blocks that the call in progress has logged
  outstanding,  \* log.outstanding
  committing,   \* log.committing
  lh,           \* log.lh, in memory: block numbers, lh.n is the length
  up,           \* fsinit() has finished since the last boot
  cache,        \* what bread returns for a home block
  disk,         \* home blocks on disk
  dhead,        \* the header block on disk
  dlog          \* the data blocks of the log on disk

mem == <<pc, tail, blk, opblocks, outstanding, committing, lh, up, cache>>
vars == <<mem, disk, dhead, dlog>>

PCs == {"off", "read_head", "idle", "sleep", "woken", "op", "append",
        "commit", "write_log", "install", "finish", "panic", "panic_end"}

(* The blocks that a header lists. *)
Logged(h) == {h[i] : i \in 1..Len(h)}

(* The processes between begin_op and end_op; a panic never gets out.      *)
Active == {p \in Procs : pc[p] \in {"op", "append", "panic"}}

(* log_write panics here: "too big a transaction".                         *)
TooBig == Len(lh) >= LOGSIZE \/ Len(lh) >= NLOG - 1

(* Mutant: the sleepers are not woken.                                     *)
Wakeup_lost(f) == [q \in Procs |-> f[q]]

(* wakeup(&log): every sleeper becomes runnable and tries again.           *)
Wakeup(f) == [q \in Procs |-> IF f[q] = "sleep" THEN "woken" ELSE f[q]]

(* A freshly made file system (mkfs) boots.                                *)
Init ==
  /\ pc = [p \in Procs |-> IF p = InitProc THEN "read_head" ELSE "off"]
  /\ tail = [p \in Procs |-> 0]
  /\ blk = [p \in Procs |-> NoBlock]
  /\ opblocks = [p \in Procs |-> {}]
  /\ outstanding = 0
  /\ committing = FALSE
  /\ lh = <<>>
  /\ up = FALSE
  /\ disk \in [Blocks -> Vals]
  /\ cache = disk
  /\ dhead = <<>>
  /\ \E zero \in Vals : dlog = [i \in 1..LOGSIZE |-> zero]

-----------------------------------------------------------------------------
(* begin_op: one pass of the loop under log.lock.                          *)

(* Mutant: nothing is reserved for the call that starts.                   *)
MustWait_short == committing \/ Len(lh) + outstanding * MAXOPBLOCKS > LOGSIZE

MustWait == committing \/ Len(lh) + (outstanding + 1) * MAXOPBLOCKS > LOGSIZE

begin_op_sleep(p) ==
  /\ pc[p] \in {"idle", "woken"}
  /\ MustWait
  /\ pc' = [pc EXCEPT ![p] = "sleep"]
  /\ UNCHANGED <<tail, blk, opblocks, outstanding, committing, lh, up, cache,
                 disk, dhead, dlog>>

begin_op(p) ==
  /\ pc[p] \in {"idle", "woken"}
  /\ ~MustWait
  /\ pc' = [pc EXCEPT ![p] = "op"]
  /\ outstanding' = outstanding + 1
  /\ UNCHANGED <<tail, blk, opblocks, committing, lh, up, cache, disk, dhead, dlog>>

(* The caller has b's buffer locked (bread), changes its data and calls    *)
(* log_write, whose two checks read log.lh.n and log.outstanding without   *)
(* the lock.  A call logs at most OPBLOCKS different blocks.               *)
log_write_check(p, b, v) ==
  /\ pc[p] = "op"
  /\ \A q \in Procs : blk[q] # b
  /\ Cardinality(opblocks[p] \cup {b}) <= OPBLOCKS
  /\ cache' = [cache EXCEPT ![b] = v]
  /\ blk' = [blk EXCEPT ![p] = b]
  /\ pc' = [pc EXCEPT ![p] =
              IF TooBig \/ outstanding < 1 THEN "panic" ELSE "append"]
  /\ UNCHANGED <<tail, opblocks, outstanding, committing, lh, up,
                 disk, dhead, dlog>>

(* The rest of log_write, under the lock: absorb, or add and pin.          *)
log_write(p) ==
  /\ pc[p] = "append"
  /\ lh' = IF blk[p] \in Logged(lh) THEN lh ELSE Append(lh, blk[p])
  /\ opblocks' = [opblocks EXCEPT ![p] = @ \cup {blk[p]}]
  /\ blk' = [blk EXCEPT ![p] = NoBlock]
  /\ pc' = [pc EXCEPT ![p] = "op"]
  /\ UNCHANGED <<tail, outstanding, committing, up, cache,
                 disk, dhead, dlog>>

(* end_op up to the release of log.lock.                                   *)
end_op(p) ==
  /\ pc[p] = "op"
  /\ outstanding' = outstanding - 1
  /\ opblocks' = [opblocks EXCEPT ![p] = {}]
  /\ IF committing
       THEN /\ pc' = [pc EXCEPT ![p] = "panic_end"]
            /\ UNCHANGED committing
       ELSE IF outstanding' = 0
         THEN /\ pc' = [pc EXCEPT ![p] = "commit"]
              /\ committing' = TRUE
         ELSE /\ pc' = Wakeup([pc EXCEPT ![p] = "idle"])
              /\ UNCHANGED committing
  /\ UNCHANGED <<tail, blk, lh, up, cache, disk, dhead, dlog>>

-----------------------------------------------------------------------------
(* commit(), run without log.lock: one action per disk write.              *)

commit(p) ==
  /\ pc[p] = "commit"
  /\ pc' = [pc EXCEPT ![p] = IF Len(lh) > 0 THEN "write_log" ELSE "finish"]
  /\ UNCHANGED <<tail, blk, opblocks, outstanding, committing, lh, up, cache,
                 disk, dhead, dlog>>

write_log(p) ==
  /\ pc[p] = "write_log"
  /\ tail[p] < Len(lh)
  /\ dlog' = [dlog EXCEPT ![tail[p] + 1] = cache[lh[tail[p] + 1]]]
  /\ tail' = [tail EXCEPT ![p] = @ + 1]
  /\ UNCHANGED <<pc, blk, opblocks, outstanding, committing, lh, up, cache,
                 disk, dhead>>

(* Mutant: the header is written before all the blocks are in the log.     *)
write_head_early(p) ==
  /\ pc[p] = "write_log"
  /\ tail[p] <= Len(lh)
  /\ dhead' = lh
  /\ pc' = [pc EXCEPT ![p] = "install"]
  /\ tail' = [tail EXCEPT ![p] = 0]
  /\ UNCHANGED <<blk, opblocks, outstanding, committing, lh, up, cache,
                 disk, dlog>>

(* write_head, "the true point at which the current transaction commits".  *)
write_head(p) ==
  /\ pc[p] = "write_log"
  /\ tail[p] = Len(lh)
  /\ dhead' = lh
  /\ pc' = [pc EXCEPT ![p] = "install"]
  /\ tail' = [tail EXCEPT ![p] = 0]
  /\ UNCHANGED <<blk, opblocks, outstanding, committing, lh, up, cache,
                 disk, dlog>>

(* One turn of install_trans, for a commit and for recovery.               *)
install_trans(p) ==
  /\ pc[p] = "install"
  /\ tail[p] < Len(lh)
  /\ disk' = [disk EXCEPT ![lh[tail[p] + 1]] = dlog[tail[p] + 1]]
  /\ cache' = [cache EXCEPT ![lh[tail[p] + 1]] = dlog[tail[p] + 1]]
  /\ tail' = [tail EXCEPT ![p] = @ + 1]
  /\ UNCHANGED <<pc, blk, opblocks, outstanding, committing, lh, up,
                 dhead, dlog>>

(* log.lh.n = 0; write_head(): the log is empty again.  After recovery     *)
(* fsinit returns and processes can make file system calls.                *)
clear_head(p) ==
  /\ pc[p] = "install"
  /\ tail[p] = Len(lh)
  /\ lh' = <<>>
  /\ dhead' = <<>>
  /\ up' = TRUE
  /\ pc' = IF up THEN [pc EXCEPT ![p] = "finish"]
                 ELSE [q \in Procs |-> "idle"]
  /\ tail' = [tail EXCEPT ![p] = 0]
  /\ UNCHANGED <<blk, opblocks, outstanding, committing, cache,
                 disk, dlog>>

(* The end of end_op, under log.lock again.                                *)
end_op_finish(p) ==
  /\ pc[p] = "finish"
  /\ committing' = FALSE
  /\ pc' = Wakeup([pc EXCEPT ![p] = "idle"])
  /\ UNCHANGED <<tail, blk, opblocks, outstanding, lh, up, cache,
                 disk, dhead, dlog>>

-----------------------------------------------------------------------------
(* The machine stops at any moment and boots again: memory is lost.        *)
Crash ==
  /\ pc' = [p \in Procs |-> IF p = InitProc THEN "read_head" ELSE "off"]
  /\ opblocks' = [p \in Procs |-> {}]
  /\ tail' = [p \in Procs |-> 0]
  /\ blk' = [p \in Procs |-> NoBlock]
  /\ outstanding' = 0
  /\ committing' = FALSE
  /\ lh' = <<>>
  /\ up' = FALSE
  /\ cache' = disk
  /\ UNCHANGED <<disk, dhead, dlog>>

(* recover_from_log starts: read_head, then install_trans and clear_head.  *)
read_head(p) ==
  /\ pc[p] = "read_head"
  /\ lh' = dhead
  /\ pc' = [pc EXCEPT ![p] = "install"]
  /\ UNCHANGED <<tail, blk, opblocks, outstanding, committing, up, cache,
                 disk, dhead, dlog>>

FsStep(p) ==
  \/ begin_op_sleep(p) \/ begin_op(p) \/ log_write(p) \/ end_op(p)
  \/ \E b \in Blocks, v \in Vals : log_write_check(p, b, v)

LogStep(p) ==
  \/ commit(p) \/ write_log(p) \/ write_head(p)
  \/ install_trans(p) \/ clear_head(p) \/ end_op_finish(p) \/ read_head(p)

Next == Crash \/ \E p \in Procs : FsStep(p) \/ LogStep(p)

Spec == Init /\ [][Next]_vars

(* Processes run: a call that started goes on and ends, a woken process    *)
(* gets the lock, and the disk answers.  The machine may crash any time.   *)
Fairness ==
  \A p \in Procs : /\ WF_vars(LogStep(p))
                   /\ WF_vars(log_write(p))
                   /\ SF_vars(end_op(p))
                   /\ WF_vars(pc[p] = "woken" /\ FsStep(p))

LiveSpec == Spec /\ Fairness

-----------------------------------------------------------------------------
(* Types; outstanding counts at most the processes, and the header never   *)
(* lists more than LOGSIZE blocks (begin_op, log_write).                   *)
TypeOK ==
  /\ pc \in [Procs -> PCs]
  /\ tail \in [Procs -> 0..LOGSIZE]
  /\ blk \in [Procs -> Blocks \cup {NoBlock}]
  /\ opblocks \in [Procs -> SUBSET Blocks]
  /\ outstanding \in 0..Cardinality(Procs)
  /\ committing \in BOOLEAN
  /\ up \in BOOLEAN
  /\ lh \in Seq(Blocks) /\ dhead \in Seq(Blocks)
  /\ Len(lh) <= LOGSIZE /\ Len(dhead) <= LOGSIZE
  /\ cache \in [Blocks -> Vals] /\ disk \in [Blocks -> Vals]
  /\ dlog \in [1..LOGSIZE -> Vals]

(* The log blocks that calls in progress have reserved and not yet used.   *)
Reserved ==
  {r \in Active \X (1..MAXOPBLOCKS) : r[2] > Cardinality(opblocks[r[1]])}

(* What begin_op's test is for: whatever calls run, what is in the log and *)
(* what they may still log fits in the header (log.c:132).                 *)
ReservationHolds == Len(lh) + Cardinality(Reserved) <= LOGSIZE

(* log_write and end_op never reach their panics, and the unlocked test    *)
(* of log.lh.n in log_write lets nobody past the end of the log area.      *)
NoPanic ==
  /\ \A p \in Procs : pc[p] \notin {"panic", "panic_end"}
  /\ Len(lh) <= NLOG - 1

(* The commit runs without log.lock; begin_op and end_op keep it alone:    *)
(* one process commits, and no call is in progress meanwhile.              *)
CommitAlone ==
  \A p \in Procs : pc[p] \in {"commit", "write_log", "install", "finish"} =>
    /\ Active = {} /\ outstanding = 0 /\ (up => committing)
    /\ \A q \in Procs \ {p} : pc[q] \in {"off", "idle", "sleep", "woken"}

(* A block whose buffer may be recycled, because no call has it locked and *)
(* the log does not pin it, is the same in the cache and on disk: bread    *)
(* gives the same contents whether or not it goes to the disk.             *)
CleanBlocks ==
  \A b \in Blocks : cache[b] = disk[b] \/ b \in Logged(lh)
                     \/ \E p \in Procs : blk[p] = b

(* What recovery makes of a disk d whose log has header h and data l: the  *)
(* logged blocks replace their homes.                                      *)
Recovered(d, h, l) ==
  [b \in Blocks |-> IF b \in Logged(h)
                     THEN l[CHOOSE i \in 1..Len(h) : h[i] = b]
                     ELSE d[b]]

Durable == Recovered(disk, dhead, dlog)

Current == IF up THEN cache ELSE Durable

AD == INSTANCE AtomicDisk
        WITH committed <- Durable, current <- Current, active <- Active

(* The log makes groups of calls atomic: through every crash, in a commit  *)
(* or in recovery itself, what a reboot finds is what was current at the   *)
(* last commit point, when no call was half done.                          *)
AtomicCommit == AD!Spec

(* A process that sleeps in begin_op wakes up: end_op or the end of the    *)
(* commit never misses it (log.c:161, 171).                                *)
SleepersWake == \A p \in Procs : pc[p] = "sleep" ~> pc[p] # "sleep"

=============================================================================
