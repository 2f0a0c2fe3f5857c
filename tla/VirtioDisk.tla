----------------------------- MODULE VirtioDisk -----------------------------
(***************************************************************************)
(* The disk driver of kernel/virtio_disk.c: descriptors, the available and *)
(* the used ring, processes that sleep for descriptors and for completion, *)
(* and the interrupt handler.  The device is external: it takes requests   *)
(* from the available ring, completes them in any order, and keeps its     *)
(* interrupt line up until the driver acknowledges.                        *)
(* A process calls virtio_disk_rw() for a buffer it holds locked, so the   *)
(* buffer is named by the process.  Every vdisk_lock section is one step,  *)
(* except the handler's, which the device can overtake.  Fields that are   *)
(* dead until they are written again (those of a free descriptor, a ring   *)
(* entry that has been read) are cleared, to keep the states few.          *)
(***************************************************************************)
EXTENDS Integers, FiniteSets, Sequences

CONSTANTS
  Procs,
  None,
  NUM,     \* descriptors, and entries of a ring
  W        \* the indices of the rings are uint16: they count modulo W

ASSUME DiskAssumption ==
  NUM \in Nat /\ NUM >= 3 /\ W \in Nat /\ W % NUM = 0 /\ W >= NUM /\ None \notin Procs

Ids == 0..(NUM - 1)
NoDesc == [addr |-> None, what |-> "none", next |-> NUM]

VARIABLES
  free,      \* disk.free
  desc,      \* disk.desc: whose memory, what for, the next descriptor (NUM: no NEXT flag)
  info,      \* disk.info[].b
  avail, avail_idx,     \* disk.avail[2..], disk.avail[1]
  used, used_id,        \* disk.used->elems, disk.used->id, written by the device
  used_idx,             \* disk.used_idx
  bdisk,     \* b->disk
  pc, idx, write,       \* a process in virtio_disk_rw(): place, idx[0], write
  handler,   \* where the interrupt handler is
  seen, taken,          \* the device: available entries seen, chains it works on
  isr,       \* the device's interrupt status
  done       \* processes whose request the device has completed

driver == <<free, desc, info, avail, avail_idx, used_idx, bdisk, pc, idx, write, handler>>
device == <<used, used_id, seen, taken, isr, done>>
vars == <<driver, device>>

Init ==
  /\ free = Ids
  /\ desc = [i \in Ids |-> NoDesc]
  /\ info = [i \in Ids |-> None]
  /\ avail = [i \in Ids |-> NUM] /\ avail_idx = 0
  /\ used = [i \in Ids |-> NUM] /\ used_id = 0 /\ used_idx = 0
  /\ bdisk = [p \in Procs |-> FALSE]
  /\ pc = [p \in Procs |-> "idle"]
  /\ idx = [p \in Procs |-> NUM]
  /\ write = [p \in Procs |-> FALSE]
  /\ handler = "none"
  /\ seen = 0 /\ taken = {}
  /\ isr = FALSE
  /\ done = {}

Unlocked == handler = "none"

\* wakeup(&disk.free[0]), forgotten and done
WakeFree_none(f) == f
WakeFree(f) == [q \in Procs |-> IF f[q] = "sleep_free" THEN "alloc" ELSE f[q]]

Set(p, s) == [pc EXCEPT ![p] = s]

virtio_disk_rw(p, w) ==
  /\ pc[p] = "idle"
  /\ pc' = Set(p, "alloc")
  /\ write' = [write EXCEPT ![p] = w]
  /\ UNCHANGED <<free, desc, info, avail, avail_idx, used_idx, bdisk, idx, handler, device>>

\* The k-th free descriptor: alloc_desc() takes the first
FreeAt(k) == CHOOSE i \in free : Cardinality({j \in free : j < i}) = k - 1

\* alloc3_desc() fails: what it took it frees, which wakes the others that wait
alloc3_fail(p) ==
  /\ pc[p] = "alloc" /\ Unlocked /\ Cardinality(free) < 3
  /\ pc' = [(IF free = {} THEN pc ELSE WakeFree(pc)) EXCEPT ![p] = "sleep_free"]
  /\ UNCHANGED <<free, desc, info, avail, avail_idx, used_idx, bdisk, idx, write, handler, device>>

\* The second descriptor is the first free one once more
Chain_twice == <<FreeAt(1), FreeAt(1), FreeAt(2)>>
Chain == <<FreeAt(1), FreeAt(2), FreeAt(3)>>

\* Format three descriptors, put the chain in the available ring and notify the device
submit(p) ==
  LET c == Chain
  IN  /\ pc[p] = "alloc" /\ Unlocked /\ Cardinality(free) >= 3
      /\ free' = free \ {c[1], c[2], c[3]}
      /\ desc' = [desc EXCEPT
           ![c[1]] = [addr |-> p, what |-> IF write[p] THEN "out" ELSE "in", next |-> c[2]],
           ![c[2]] = [addr |-> p, what |-> IF write[p] THEN "read" ELSE "write", next |-> c[3]],
           ![c[3]] = [addr |-> p, what |-> "status", next |-> NUM]]
      /\ info' = [info EXCEPT ![c[1]] = p]
      /\ bdisk' = [bdisk EXCEPT ![p] = TRUE]
      /\ idx' = [idx EXCEPT ![p] = c[1]]
      /\ avail' = [avail EXCEPT ![avail_idx % NUM] = c[1]]
      /\ avail_idx' = (avail_idx + 1) % W
      /\ pc' = Set(p, "wait")
      /\ UNCHANGED <<used_idx, write, handler, device>>

\* The descriptors of the chain that starts at i
ChainOf(i) ==
  LET j == desc[i].next
      k == IF j = NUM THEN NUM ELSE desc[j].next
  IN  {i, j, k} \ {NUM}

\* The loop ends: clear info[].b and free_chain()
finish(p) ==
  LET c == ChainOf(idx[p])
  IN  /\ pc[p] = "woken" /\ Unlocked /\ ~bdisk[p]
      /\ info' = [info EXCEPT ![idx[p]] = None]
      /\ free' = free \cup c
      /\ desc' = [i \in Ids |-> IF i \in c THEN NoDesc ELSE desc[i]]
      /\ pc' = [WakeFree(pc) EXCEPT ![p] = "idle"]
      /\ idx' = [idx EXCEPT ![p] = NUM]
      /\ write' = [write EXCEPT ![p] = FALSE]
      /\ done' = done \ {p}
      /\ UNCHANGED <<avail, avail_idx, used_idx, bdisk, handler, used, used_id, seen, taken, isr>>

\* The request is not done: sleep again
resleep(p) ==
  /\ pc[p] = "woken" /\ Unlocked /\ bdisk[p]
  /\ pc' = Set(p, "wait")
  /\ UNCHANGED <<free, desc, info, avail, avail_idx, used_idx, bdisk, idx, write, handler, device>>

\* kill() makes a sleeper runnable, whatever it sleeps for
kill(p) ==
  /\ pc[p] \in {"sleep_free", "wait"}
  /\ pc' = Set(p, IF pc[p] = "wait" THEN "woken" ELSE "alloc")
  /\ UNCHANGED <<free, desc, info, avail, avail_idx, used_idx, bdisk, idx, write, handler, device>>

(***************************************************************************)
(* The interrupt handler.                                                  *)
(***************************************************************************)
\* The interrupt is claimed, and the handler has the lock
intr_begin ==
  /\ handler = "none" /\ isr
  /\ handler' = "loop"
  /\ UNCHANGED <<free, desc, info, avail, avail_idx, used_idx, bdisk, pc, idx, write, device>>

\* The handler stops one entry early
More_early == (used_idx + 1) % NUM # used_id % NUM
More == used_idx % NUM # used_id % NUM

\* The buffer of the next entry: by the newest entry, and by the one at used_idx
Completed_last == info[used[(used_id - 1) % NUM]]
Completed == info[used[used_idx]]

Advanced == (used_idx + 1) % NUM

\* One entry of the used ring: the disk is done with its buffer
intr_entry ==
  LET b == Completed
  IN  /\ handler = "loop" /\ More /\ b # None
      /\ bdisk' = [bdisk EXCEPT ![b] = FALSE]
      /\ pc' = IF pc[b] = "wait" THEN Set(b, "woken") ELSE pc
      /\ used_idx' = Advanced
      /\ used' = [used EXCEPT ![used_idx] = NUM]
      /\ UNCHANGED <<free, desc, info, avail, avail_idx, idx, write, handler,
                     used_id, seen, taken, isr, done>>

\* No more entries
intr_end ==
  /\ handler = "loop" /\ ~More
  /\ handler' = "ack"
  /\ UNCHANGED <<free, desc, info, avail, avail_idx, used_idx, bdisk, pc, idx, write, device>>

\* Acknowledge what the status register shows, and release the lock
intr_ack ==
  /\ handler = "ack"
  /\ handler' = "none"
  /\ isr' = FALSE
  /\ UNCHANGED <<free, desc, info, avail, avail_idx, used_idx, bdisk, pc, idx, write,
                 used, used_id, seen, taken, done>>

(***************************************************************************)
(* The device.                                                             *)
(***************************************************************************)
device_take ==
  /\ seen # avail_idx
  /\ taken' = taken \cup {avail[seen % NUM]}
  /\ avail' = [avail EXCEPT ![seen % NUM] = NUM]
  /\ seen' = (seen + 1) % W
  /\ UNCHANGED <<free, desc, info, avail_idx, used_idx, bdisk, pc, idx, write, handler,
                 used, used_id, isr, done>>

\* It transfers the data, writes the status and the used entry, and interrupts
device_complete(i) ==
  /\ i \in taken
  /\ taken' = taken \ {i}
  /\ used' = [used EXCEPT ![used_id % NUM] = i]
  /\ used_id' = (used_id + 1) % W
  /\ isr' = TRUE
  /\ done' = done \cup {desc[i].addr}
  /\ UNCHANGED <<driver, seen>>

Intr == intr_begin \/ intr_entry \/ intr_end \/ intr_ack
Device == device_take \/ \E i \in Ids : device_complete(i)
Driver(p) == alloc3_fail(p) \/ submit(p) \/ finish(p) \/ resleep(p)

Next == Intr \/ Device \/ \E p \in Procs : Driver(p) \/ kill(p) \/ \E w \in BOOLEAN : virtio_disk_rw(p, w)

Spec == Init /\ [][Next]_vars

\* The device completes what it takes, interrupts are taken, and the scheduler runs
\* woken processes
Fairness ==
  /\ WF_vars(Intr) /\ WF_vars(device_take) /\ \A i \in Ids : WF_vars(device_complete(i))
  /\ \A p \in Procs : WF_vars(Driver(p))

LiveSpec == Spec /\ Fairness

\* Types; used_idx stays an index of the ring while the device's counter runs modulo W
\* (virtio_disk_intr()).
TypeOK ==
  /\ free \subseteq Ids /\ taken \subseteq Ids
  /\ info \in [Ids -> Procs \cup {None}]
  /\ avail_idx \in 0..(W - 1) /\ used_id \in 0..(W - 1) /\ used_idx \in Ids /\ seen \in 0..(W - 1)
  /\ pc \in [Procs -> {"idle", "alloc", "sleep_free", "wait", "woken"}]
  /\ handler \in {"none", "loop", "ack"}

Busy == {p \in Procs : pc[p] \in {"wait", "woken"}}

\* The chain of every request in progress is formatted for its request and stays so until
\* the process has it freed; the chains are apart, and all other descriptors are free.
ChainsIntact ==
  /\ TypeOK
  /\ \A p \in Busy : LET i == idx[p] j == desc[i].next k == desc[j].next
       IN  /\ desc[i].addr = p /\ desc[i].what = (IF write[p] THEN "out" ELSE "in")
           /\ desc[j].addr = p /\ desc[j].what = (IF write[p] THEN "read" ELSE "write")
           /\ desc[k].addr = p /\ desc[k].what = "status"
           /\ info[i] = p
  /\ Cardinality(UNION {ChainOf(idx[p]) : p \in Busy}) = 3 * Cardinality(Busy)
  /\ free = Ids \ UNION {ChainOf(idx[p]) : p \in Busy}

\* Entries of the used ring the handler has not reached
Unread == (used_id - used_idx) % NUM

\* Neither ring is overrun: at most NUM / 3 requests are in progress, so the
\* comparison modulo NUM sees every completion, and each names a waiting buffer; the
\* handler clears b->disk only for a buffer the device is done with.
RingsHold ==
  /\ \A p \in Busy : ~bdisk[p] => p \in done
  /\ Cardinality(taken) + Unread + ((avail_idx - seen) % W) <= NUM \div 3
  /\ \A k \in 0..(NUM - 1) : k < Unread =>
       \E p \in Busy : idx[p] = used[(used_idx + k) % NUM] /\ bdisk[p]

\* A process only sleeps for descriptors while fewer than three are free.
SleepsForDescs == \A p \in Procs : pc[p] = "sleep_free" => Cardinality(free) < 3

\* A completion that came after the handler's last look and before it acknowledged
Missed == handler = "none" /\ ~isr /\ More

\* "Wait for virtio_disk_intr() to say request has finished": every request finishes,
\* unless the handler has acknowledged a completion it did not look at.
FinishesOrMissed == \A p \in Procs : bdisk[p] ~> (~bdisk[p] \/ Missed)
====
