------------------------------- MODULE Bcache -------------------------------
(***************************************************************************)
(* kernel/bio.c and kernel/sleeplock.c: the buffer cache, used by          *)
(* processes that read and change blocks: log_write pins a changed block,  *)
(* install_trans of a commit writes and unpins it.                         *)
(*                                                                         *)
(* A section of code under bcache.lock, or under the spinlock inside a     *)
(* sleep lock, is one action.  A disk transfer takes an action of its own, *)
(* between which others run.                                               *)
(***************************************************************************)
EXTENDS Integers, FiniteSets

CONSTANTS Procs,      \* processes
          Blocks,     \* block numbers of the disk
          Vals,       \* contents of a block
          NBUF,       \* buffers in the cache
          MaxPins,    \* bound: blocks that the log pins at a time
          None        \* no process, no block

ASSUME BcacheAssumption ==
  /\ IsFiniteSet(Procs)
  /\ NBUF \in Nat /\ MaxPins \in Nat
  /\ None \notin Procs \cup Blocks

Bufs == 1..NBUF

VARIABLES
  blockno, valid, refcnt, data,   \* fields of struct buf
  locked,     \* the process in b->lock, None if it is not locked
  lru,        \* the list from head.next: most recently used first
  disk,       \* the blocks on disk
  logged,     \* blocks that the log has pinned
  pc, buf, blk,  \* of each process: where it is, its buffer, its block
  latest      \* history: what was last written to each block

bufvars == <<blockno, valid, refcnt, data, locked, lru>>
vars == <<bufvars, disk, logged, pc, buf, blk, latest>>

PCs == {"idle", "acquire", "asleep", "read", "hold", "release", "panic"}

Init ==
  /\ blockno = [b \in Bufs |-> None]
  /\ valid = [b \in Bufs |-> FALSE]
  /\ refcnt = [b \in Bufs |-> 0]
  /\ \E v \in Vals : data = [b \in Bufs |-> v]
  /\ locked = [b \in Bufs |-> None]
  /\ lru = [i \in Bufs |-> NBUF + 1 - i]
  /\ disk \in [Blocks -> Vals]
  /\ logged = {}
  /\ pc = [p \in Procs |-> "idle"]
  /\ buf = [p \in Procs |-> 0]
  /\ blk = [p \in Procs |-> None]
  /\ latest = disk

-----------------------------------------------------------------------------

(* bget, under bcache.lock: the block's buffer, or else one to recycle.    *)
Cached(k) == {b \in Bufs : blockno[b] = k}

Unused == {b \in Bufs : refcnt[b] = 0}

(* The unused buffer nearest to the tail of the list.                      *)
Victim == lru[CHOOSE i \in Bufs : /\ lru[i] \in Unused
                                  /\ \A j \in (i + 1)..NBUF : lru[j] \notin Unused]

bpin(b) == [refcnt EXCEPT ![b] = @ + 1]
bunpin(b) == [refcnt EXCEPT ![b] = @ - 1]

(* A process that panics in bget keeps bcache.lock for ever.               *)
LockFree == \A q \in Procs : pc[q] # "panic"

MayRead(p) == pc[p] = "idle" /\ LockFree

(* Mutant: the new user of the buffer is not counted.                      *)
bget_hit_uncounted(p, k) ==
  /\ MayRead(p)
  /\ \E b \in Cached(k) :
       /\ UNCHANGED refcnt
       /\ buf' = [buf EXCEPT ![p] = b]
  /\ pc' = [pc EXCEPT ![p] = "acquire"]
  /\ blk' = [blk EXCEPT ![p] = k]
  /\ UNCHANGED <<blockno, valid, data, locked, lru, disk, logged, latest>>

bget_hit(p, k) ==
  /\ MayRead(p)
  /\ \E b \in Cached(k) :
       /\ refcnt' = bpin(b)
       /\ buf' = [buf EXCEPT ![p] = b]
  /\ pc' = [pc EXCEPT ![p] = "acquire"]
  /\ blk' = [blk EXCEPT ![p] = k]
  /\ UNCHANGED <<blockno, valid, data, locked, lru, disk, logged, latest>>

(* Mutant: the recycled buffer passes for valid.                           *)
bget_recycle_valid(p, k) ==
  /\ MayRead(p)
  /\ Cached(k) = {} /\ Unused # {}
  /\ blockno' = [blockno EXCEPT ![Victim] = k]
  /\ UNCHANGED valid
  /\ refcnt' = [refcnt EXCEPT ![Victim] = 1]
  /\ buf' = [buf EXCEPT ![p] = Victim]
  /\ pc' = [pc EXCEPT ![p] = "acquire"]
  /\ blk' = [blk EXCEPT ![p] = k]
  /\ UNCHANGED <<data, locked, lru, disk, logged, latest>>

bget_recycle(p, k) ==
  /\ MayRead(p)
  /\ Cached(k) = {} /\ Unused # {}
  /\ blockno' = [blockno EXCEPT ![Victim] = k]
  /\ valid' = [valid EXCEPT ![Victim] = FALSE]
  /\ refcnt' = [refcnt EXCEPT ![Victim] = 1]
  /\ buf' = [buf EXCEPT ![p] = Victim]
  /\ pc' = [pc EXCEPT ![p] = "acquire"]
  /\ blk' = [blk EXCEPT ![p] = k]
  /\ UNCHANGED <<data, locked, lru, disk, logged, latest>>

(* "bget: no buffers".                                                     *)
bget_panic(p, k) ==
  /\ MayRead(p)
  /\ Cached(k) = {} /\ Unused = {}
  /\ pc' = [pc EXCEPT ![p] = "panic"]
  /\ UNCHANGED <<bufvars, disk, logged, buf, blk, latest>>

(* acquiresleep: take the lock or sleep until releasesleep.  bread then    *)
(* returns the buffer, after a transfer if it is not valid.                *)
acquiresleep(p) ==
  /\ pc[p] = "acquire"
  /\ IF locked[buf[p]] = None
       THEN /\ locked' = [locked EXCEPT ![buf[p]] = p]
            /\ pc' = [pc EXCEPT ![p] =
                        IF valid[buf[p]] THEN "hold" ELSE "read"]
       ELSE /\ pc' = [pc EXCEPT ![p] = "asleep"]
            /\ UNCHANGED locked
  /\ UNCHANGED <<blockno, valid, refcnt, data, lru, disk, logged, buf, blk, latest>>

(* virtio_disk_rw(b, 0) has finished.                                      *)
bread_done(p) ==
  /\ pc[p] = "read"
  /\ data' = [data EXCEPT ![buf[p]] = disk[blockno[buf[p]]]]
  /\ valid' = [valid EXCEPT ![buf[p]] = TRUE]
  /\ pc' = [pc EXCEPT ![p] = "hold"]
  /\ UNCHANGED <<blockno, refcnt, locked, lru, disk, logged,
                 buf, blk, latest>>

(* The holder changes the data and calls log_write, which pins the buffer  *)
(* (bpin) if its block is new to the log.                                  *)
log_write(p, v) ==
  /\ pc[p] = "hold" /\ LockFree
  /\ LET b == buf[p] IN
       /\ Cardinality(logged \cup {blockno[b]}) <= MaxPins
       /\ data' = [data EXCEPT ![b] = v]
       /\ latest' = [latest EXCEPT ![blk[p]] = v]
       /\ logged' = logged \cup {blockno[b]}
       /\ refcnt' = IF blockno[b] \in logged THEN refcnt
                    ELSE bpin(b)
  /\ UNCHANGED <<blockno, valid, locked, lru, disk,
                 pc, buf, blk>>

(* install_trans in a commit: bwrite(dbuf) and bunpin(dbuf).               *)
install_trans(p) ==
  /\ pc[p] = "hold" /\ blk[p] \in logged /\ LockFree
  /\ disk' = [disk EXCEPT ![blockno[buf[p]]] = data[buf[p]]]
  /\ refcnt' = bunpin(buf[p])
  /\ logged' = logged \ {blk[p]}
  /\ UNCHANGED <<blockno, valid, data, locked, lru,
                 pc, buf, blk, latest>>

(* Mutant: the sleepers are not woken.                                     *)
releasesleep_silent(p) ==
  /\ pc[p] = "hold"
  /\ locked' = [locked EXCEPT ![buf[p]] = None]
  /\ pc' = [pc EXCEPT ![p] = "release"]
  /\ UNCHANGED <<blockno, valid, refcnt, data, lru, disk, logged, buf, blk, latest>>

(* brelse: releasesleep wakes the sleepers, then, under bcache.lock, the   *)
(* count goes down and an unused buffer moves to the head of the list.     *)
releasesleep(p) ==
  /\ pc[p] = "hold"
  /\ locked' = [locked EXCEPT ![buf[p]] = None]
  /\ pc' = [q \in Procs |->
              IF q = p THEN "release"
              ELSE IF pc[q] = "asleep" /\ buf[q] = buf[p] THEN "acquire"
              ELSE pc[q]]
  /\ UNCHANGED <<blockno, valid, refcnt, data, lru, disk, logged, buf, blk, latest>>

(* The list once b is taken out of it and put in at its head.              *)
ToHead(b) ==
  [i \in Bufs |-> IF i = 1 THEN b
                  ELSE IF \E j \in i..NBUF : lru[j] = b THEN lru[i - 1]
                  ELSE lru[i]]

brelse(p) ==
  /\ pc[p] = "release" /\ LockFree
  /\ refcnt' = bunpin(buf[p])
  /\ lru' = IF refcnt'[buf[p]] = 0 THEN ToHead(buf[p]) ELSE lru
  /\ pc' = [pc EXCEPT ![p] = "idle"]
  /\ buf' = [buf EXCEPT ![p] = 0]
  /\ blk' = [blk EXCEPT ![p] = None]
  /\ UNCHANGED <<blockno, valid, data, locked, disk, logged, latest>>

Step(p) ==
  \/ \E k \in Blocks : bget_hit(p, k) \/ bget_recycle(p, k) \/ bget_panic(p, k)
  \/ acquiresleep(p) \/ bread_done(p)
  \/ \E v \in Vals : log_write(p, v)
  \/ install_trans(p) \/ releasesleep(p) \/ brelse(p)

Next == \E p \in Procs : Step(p)

Spec == Init /\ [][Next]_vars

(* The disk answers and nobody keeps a buffer.  Who gets a sleep lock next *)
(* is the scheduler's choice: a woken process may find it taken again.     *)
Fairness ==
  \A p \in Procs : WF_vars(acquiresleep(p) \/ bread_done(p) \/ releasesleep(p))

LiveSpec == Spec /\ Fairness

-----------------------------------------------------------------------------
(* Types; refcnt never falls below zero or above its users, and the list   *)
(* keeps every buffer (brelse, bunpin).                                    *)
TypeOK ==
  /\ blockno \in [Bufs -> Blocks \cup {None}]
  /\ valid \in [Bufs -> BOOLEAN]
  /\ refcnt \in [Bufs -> 0..(Cardinality(Procs) + 1)]
  /\ data \in [Bufs -> Vals]
  /\ locked \in [Bufs -> Procs \cup {None}]
  /\ lru \in [Bufs -> Bufs] /\ \A b \in Bufs : \E i \in Bufs : lru[i] = b
  /\ disk \in [Blocks -> Vals] /\ latest \in [Blocks -> Vals]
  /\ logged \subseteq Blocks
  /\ pc \in [Procs -> PCs]
  /\ buf \in [Procs -> 0..NBUF]
  /\ blk \in [Procs -> Blocks \cup {None}]

(* A block is in one buffer at most, so that all its users meet there.     *)
OneBufPerBlock ==
  \A b, c \in Bufs : blockno[b] = blockno[c] /\ blockno[b] # None => b = c

(* refcnt counts the processes that have the buffer or wait for it, and    *)
(* the log's pin; so a buffer in use is never recycled (bio.c:78).         *)
RefcntExact ==
  \A b \in Bufs :
    refcnt[b] = Cardinality({p \in Procs : buf[p] = b})
                + (IF blockno[b] \in logged THEN 1 ELSE 0)

(* "Return a locked buf with the contents of the indicated block": what    *)
(* bread returns is what was last written to the block, and the block's    *)
(* buffer stays its own until brelse (bio.c:91).                           *)
ReadsLatest ==
  \A p \in Procs : pc[p] = "hold" =>
    /\ blockno[buf[p]] = blk[p] /\ data[buf[p]] = latest[blk[p]]

(* "Only one process at a time can use a buffer" (bio.c:13).               *)
OneUser ==
  \A p, q \in Procs : /\ p # q
                      /\ pc[p] \in {"read", "hold"} /\ pc[q] \in {"read", "hold"}
                      => buf[p] # buf[q]

(* bget finds a buffer while there is one that no process has or waits for *)
(* and that the log does not pin: no buffer is ever lost from the list.    *)
FindsBuffer ==
  (\E p \in Procs : pc[p] = "panic") =>
    \A b \in Bufs : blockno[b] \in logged \/ \E p \in Procs : buf[p] = b

(* A process that sleeps for a buffer is woken to try again: nobody misses *)
(* the wakeup of releasesleep and sleeps on for ever.                      *)
SleeperWoken == \A p \in Procs : []<>(pc[p] # "asleep")
=============================================================================
