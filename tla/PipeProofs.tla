----------------------------- MODULE PipeProofs -----------------------------
(***************************************************************************)
(* Proofs about Pipe for every buffer size, every width of the counters    *)
(* that is a multiple of it, and every set of readers and writers: the     *)
(* ring buffer implements the queue of module Fifo, and while only readers *)
(* are killed nobody sleeps for ever.                                      *)
(***************************************************************************)
EXTENDS Pipe, SequenceTheorems, TLAPS

-----------------------------------------------------------------------------
(* Arithmetic modulo n: the counters wrap around at W, an index of the     *)
(* ring at PIPESIZE.                                                       *)
LEMMA ModRange ==
  ASSUME NEW n \in Nat \ {0}, NEW x \in Int
  PROVE  /\ x % n \in 0..(n - 1)
         /\ x \in 0..(n - 1) => x % n = x
         /\ x \in n..(2 * n - 1) => x % n = x - n
         /\ x \in (-n)..(-1) => x % n = x + n
OBVIOUS

(* A counter that does not move stays.                                     *)
LEMMA ModZero ==
  ASSUME NEW n \in Nat \ {0}, NEW x \in 0..(n - 1)
  PROVE  (x + 0) % n = x
<1>1. x + 0 = x /\ x \in Int  OBVIOUS
<1> QED  BY Zenon, <1>1, ModRange

(* A counter wraps around once at most.                                    *)
LEMMA ModWraps ==
  ASSUME NEW n \in Nat \ {0}, NEW x \in 0..(n - 1), NEW y \in 0..(n - 1)
  PROVE  (x + y) % n = x + y \/ (x + y) % n = x + y - n
<1> DEFINE z == x + y
<1>1. z \in Int /\ (z \in 0..(n - 1) \/ z \in n..(2 * n - 1))  OBVIOUS
<1> HIDE DEF z
<1>2. z % n = z \/ z % n = z - n  BY Zenon, <1>1, ModRange
<1> QED  BY <1>2 DEF z

(* A multiple of n makes no difference.                                    *)
LEMMA ModShift ==
  ASSUME NEW n \in Nat \ {0}, NEW x \in Int, NEW q \in Int
  PROVE  (x + n * q) % n = x % n
<1> DEFINE d == x \div n
           r == x % n
<1>1. d \in Int /\ r \in 0..(n - 1) /\ x = n * d + r  OBVIOUS
<1> HIDE DEF d, r
<1>2. \A m \in Int : (n * m + r) % n = r  BY <1>1
<1>3. d + q \in Int  BY <1>1
<1>4. x + n * q = n * (d + q) + r  BY <1>1
<1>5. (n * (d + q) + r) % n = r  BY Zenon, <1>2, <1>3
<1> QED  BY Zenon, <1>4, <1>5 DEF r

(* What is congruent gives the same index.                                 *)
LEMMA ModSame ==
  ASSUME NEW n \in Nat \ {0}, NEW x \in Int, NEW y \in Int, NEW q \in Int,
         x = y + n * q
  PROVE  x % n = y % n
BY Zenon, ModShift

(* An index plus a number, taken modulo n.                                 *)
LEMMA ModPlus ==
  ASSUME NEW n \in Nat \ {0}, NEW x \in Int, NEW y \in Int
  PROVE  ((x % n) + y) % n = (x + y) % n
<1> DEFINE d == x \div n
           r == x % n
<1>1. d \in Int /\ r \in Int /\ x = n * d + r  OBVIOUS
<1> HIDE DEF d, r
<1>2. -d \in Int /\ r + y \in Int /\ x + y \in Int  BY <1>1
<1>3. n * (-d) = -(n * d) /\ n * d \in Int  BY <1>1
<1>4. r + y = (x + y) + n * (-d)  BY <1>1, <1>3
<1>5. (r + y) % n = (x + y) % n  BY Zenon, <1>2, <1>4, ModSame
<1> QED  BY Zenon, <1>5 DEF r

-----------------------------------------------------------------------------
Counts == nread \in 0..(W - 1) /\ nwrite \in 0..(W - 1)

Index == 0..(PIPESIZE - 1)

(* The bytes in the pipe, in order.                                        *)
Queue == [j \in 1..Used |-> data[(nread + j - 1) % PIPESIZE]]

(* The constants as the proofs use them.                                   *)
LEMMA Sizes ==
  /\ PIPESIZE \in Nat \ {0} /\ W \in Nat \ {0} /\ PIPESIZE < W
  /\ \E m \in Nat : W = PIPESIZE * m
<1>1. PICK m \in 2..W : W = m * PIPESIZE  BY Zenon, PipeAssumption
<1>2. PIPESIZE \in Nat \ {0} /\ W \in Nat  BY Zenon, PipeAssumption
<1>3. m * PIPESIZE >= 2 * PIPESIZE  BY <1>1, <1>2
<1>4. m \in Nat /\ W = PIPESIZE * m  BY <1>1, <1>2
<1> QED  BY <1>1, <1>2, <1>3, <1>4

(* Used is how far nwrite is ahead of nread.                               *)
LEMMA UsedIs ==
  ASSUME Counts
  PROVE  /\ Used \in 0..(W - 1)
         /\ nwrite = nread + Used \/ nwrite = nread + Used - W
         /\ Used = 0 <=> nread = nwrite
<1>1. W \in Nat \ {0} /\ nwrite - nread \in Int  BY Sizes DEF Counts
<1>2. CASE nwrite >= nread
  <2>1. nwrite - nread \in 0..(W - 1)  BY <1>1, <1>2 DEF Counts
  <2>2. Used = nwrite - nread  BY Zenon, <1>1, <2>1, ModRange DEF Used
  <2> QED  BY <1>1, <2>1, <2>2 DEF Counts
<1>3. CASE nwrite < nread
  <2>1. nwrite - nread \in (-W)..(-1)  BY <1>1, <1>3 DEF Counts
  <2>2. Used = nwrite - nread + W  BY Zenon, <1>1, <2>1, ModRange DEF Used
  <2> QED  BY <1>1, <1>3, <2>1, <2>2 DEF Counts
<1> QED  BY <1>1, <1>2, <1>3 DEF Counts

(* The counters after k bytes have come and n have gone.                   *)
LEMMA UsedMoves ==
  ASSUME Counts, NEW k \in 0..PIPESIZE, NEW n \in 0..PIPESIZE,
         Used + k <= PIPESIZE, n <= Used,
         nwrite' = (nwrite + k) % W, nread' = (nread + n) % W
  PROVE  Counts' /\ Used' = Used + k - n
<1>1. W \in Nat \ {0} /\ PIPESIZE \in Nat /\ PIPESIZE < W  BY Zenon, Sizes
<1>2. Counts'
  BY <1>1, ModRange DEF Counts
<1>3. nwrite' = nwrite + k \/ nwrite' = nwrite + k - W
  <2>1. nwrite \in 0..(W - 1) /\ k \in 0..(W - 1)  BY <1>1 DEF Counts
  <2> QED  BY Zenon, <1>1, <2>1, ModWraps
<1>4. nread' = nread + n \/ nread' = nread + n - W
  <2>1. nread \in 0..(W - 1) /\ n \in 0..(W - 1)  BY <1>1 DEF Counts
  <2> QED  BY Zenon, <1>1, <2>1, ModWraps
<1>5. Used' \in 0..(W - 1) /\ (nwrite' = nread' + Used' \/ nwrite' = nread' + Used' - W)
  <2>1. CASE nwrite' >= nread'
    <3>1. nwrite' - nread' \in 0..(W - 1)  BY <1>1, <1>2, <2>1 DEF Counts
    <3>2. Used' = nwrite' - nread'  BY <1>1, <3>1, ModRange DEF Used
    <3> QED  BY <1>1, <1>2, <3>1, <3>2 DEF Counts
  <2>2. CASE nwrite' < nread'
    <3>1. nwrite' - nread' \in (-W)..(-1)  BY <1>1, <1>2, <2>2 DEF Counts
    <3>2. Used' = nwrite' - nread' + W  BY <1>1, <3>1, ModRange DEF Used
    <3> QED  BY <1>1, <1>2, <3>1, <3>2 DEF Counts
  <2> QED  BY <1>2, <2>1, <2>2 DEF Counts
<1>6. Used \in 0..(W - 1) /\ (nwrite = nread + Used \/ nwrite = nread + Used - W)
  BY Zenon, UsedIs
<1>7. Used + k - n \in 0..(W - 1)  BY <1>1, <1>6
<1> QED  BY <1>1, <1>2, <1>3, <1>4, <1>5, <1>6, <1>7 DEF Counts

(* The place of byte j, seen from nwrite: behind it for the Used bytes     *)
(* that are there, at it or after it for new ones.                         *)
LEMMA Places ==
  ASSUME Counts, Used <= PIPESIZE, NEW k \in Nat, Used + k <= PIPESIZE,
         NEW j \in 1..(Used + k)
  PROVE  LET i == (nread + j - 1) % PIPESIZE
         IN  /\ i \in Index
             /\ j <= Used => (i - nwrite) % PIPESIZE = j - 1 - Used + PIPESIZE
             /\ j > Used => (i - nwrite) % PIPESIZE = j - 1 - Used
<1> DEFINE i == (nread + j - 1) % PIPESIZE
<1>1. PIPESIZE \in Nat \ {0} /\ nread \in Int /\ nwrite \in Int /\ Used \in Nat
  BY Sizes, UsedIs DEF Counts
<1>2. i \in Index  BY <1>1, ModRange DEF Index
<1>3. (i - nwrite) % PIPESIZE = (j - 1 - Used) % PIPESIZE
  <2>1. (((nread + j - 1) % PIPESIZE) + (-nwrite)) % PIPESIZE
          = ((nread + j - 1) + (-nwrite)) % PIPESIZE
    <3>1. nread + j - 1 \in Int /\ -nwrite \in Int  BY <1>1
    <3> QED  BY Zenon, <1>1, <3>1, ModPlus
  <2>2. i - nwrite = i + (-nwrite)  BY Zenon, <1>1, <1>2 DEF Index
  <2>3. PICK m \in Nat : W = PIPESIZE * m  BY Zenon, Sizes
  <2>4. \E q \in Int : (nread + j - 1) + (-nwrite) = (j - 1 - Used) + PIPESIZE * q
    <3>1. CASE nwrite = nread + Used
      <4>1. (nread + j - 1) + (-nwrite) = (j - 1 - Used) + PIPESIZE * 0  BY <1>1, <3>1
      <4> QED  BY <4>1
    <3>2. CASE nwrite = nread + Used - W
      <4>1. (nread + j - 1) + (-nwrite) = (j - 1 - Used) + PIPESIZE * m
        BY <1>1, <2>3, <3>2
      <4> QED  BY <4>1, <2>3
    <3> QED  BY Zenon, <3>1, <3>2, UsedIs
  <2>5. PICK q \in Int : (nread + j - 1) + (-nwrite) = (j - 1 - Used) + PIPESIZE * q
    BY Zenon, <2>4
  <2>6. (nread + j - 1) + (-nwrite) \in Int /\ j - 1 - Used \in Int  BY <1>1
  <2>7. ((nread + j - 1) + (-nwrite)) % PIPESIZE = (j - 1 - Used) % PIPESIZE
    BY ZenonT(60), <1>1, <2>5, <2>6, ModSame
  <2> QED  BY Zenon, <2>1, <2>2, <2>7
<1>4. j <= Used => (j - 1 - Used) % PIPESIZE = j - 1 - Used + PIPESIZE
  <2>1. j <= Used => j - 1 - Used \in (-PIPESIZE)..(-1)  BY <1>1
  <2>2. j - 1 - Used \in Int  BY <1>1
  <2> QED  BY Zenon, <1>1, <2>1, <2>2, ModRange
<1>5. j > Used => (j - 1 - Used) % PIPESIZE = j - 1 - Used
  <2>1. j > Used => j - 1 - Used \in 0..(PIPESIZE - 1)  BY <1>1
  <2>2. j - 1 - Used \in Int  BY <1>1
  <2> QED  BY Zenon, <1>1, <2>1, <2>2, ModRange
<1> QED  BY Zenon, <1>2, <1>3, <1>4, <1>5

-----------------------------------------------------------------------------
(* An end is open while a process has it, and a process in a call has its  *)
(* end; sleep() is entered with pi->lock held; a reader in a call has got  *)
(* nothing yet and asks for a byte at least.                               *)
Open ==
  /\ readopen = (fds \cap Readers # {})
  /\ writeopen = (fds \cap Writers # {})
  /\ \A p \in Procs : pc[p] # "user" => p \in fds

Locked == \A p \in Procs : pc[p] = "presleep" => lock = p

Reading == \A r \in Readers : pc[r] # "user" => got[r] = <<>> /\ left[r] > 0

IInv == TypeOK /\ Open /\ Locked /\ Reading

(* NoMissedWakeup, also on the way to sleep.                               *)
Waits ==
  /\ \A p \in Writers : pc[p] \in {"presleep", "asleep"} => Used = PIPESIZE /\ readopen
  /\ \A p \in Readers : pc[p] \in {"presleep", "asleep"} => Used = 0 /\ writeopen

(* The bytes of a write are a sequence.                                    *)
LEMMA BytesSeq ==
  ASSUME NEW k \in Nat, NEW s \in [1..k -> Bytes]
  PROVE  s \in Seq(Bytes) /\ Len(s) = k
<1>1. s \in Seq(Bytes)  BY Zenon, SeqDef
<1>2. DOMAIN s = 1..k /\ DOMAIN s = 1..Len(s) /\ Len(s) \in Nat  BY Zenon, <1>1, LenProperties
<1> QED  BY <1>1, <1>2

(* wakeup() makes the sleepers of S run again and leaves the others.       *)
LEMMA WakeupIs ==
  ASSUME NEW S, NEW f \in [Procs -> PCs]
  PROVE  /\ Wakeup(S, f) \in [Procs -> PCs]
         /\ \A q \in Procs : /\ Wakeup(S, f)[q] = "user" <=> f[q] = "user"
                             /\ Wakeup(S, f)[q] = "presleep" <=> f[q] = "presleep"
                             /\ Wakeup(S, f)[q] = "asleep" => f[q] = "asleep" /\ q \notin S
BY Zenon DEF Wakeup, PCs

-----------------------------------------------------------------------------
(* pipealloc() starts with an empty pipe that both ends are open to.       *)
LEMMA InitInv ==
  ASSUME Init
  PROVE  IInv /\ Waits
<1>1. W \in Nat \ {0} /\ PIPESIZE \in Nat /\ MaxCall \in Nat  BY Zenon, Sizes, PipeAssumption
<1>2. Used = 0
  <2>1. Counts /\ nread = nwrite  BY <1>1 DEF Init, Counts
  <2> QED  BY Zenon, <2>1, UsedIs
<1>3. data \in [0..(PIPESIZE - 1) -> Bytes]  BY Zenon DEF Init
<1>4. TypeOK
  <2>1. nread \in 0..(W - 1) /\ nwrite \in 0..(W - 1) /\ Used <= PIPESIZE
    BY <1>1, <1>2 DEF Init
  <2>2. got \in [Readers -> Seq(Bytes)]  BY Zenon, EmptySeq DEF Init
  <2>3. left \in [Procs -> 0..MaxCall]  BY <1>1 DEF Init
  <2> QED  BY Zenon, <1>3, <2>1, <2>2, <2>3 DEF Init, TypeOK, PCs
<1>5. Open  BY Zenon, PipeAssumption DEF Init, Open, Procs
<1> QED  BY Zenon, <1>4, <1>5 DEF IInv, Locked, Reading, Waits, Init, Procs

(* read() and write() enter the call; nothing of the pipe changes.         *)
LEMMA CallInv ==
  ASSUME IInv, NEW p \in Procs, NEW n \in 1..MaxCall, sys_call(p, n)
  PROVE  IInv' /\ (Waits => Waits')
<1> USE DEF sys_call
<1>1. MaxCall \in Nat  BY Zenon, PipeAssumption
<1>2. Used' = Used  BY Zenon DEF Used
<1>3. got' \in [Readers -> Seq(Bytes)]  BY Zenon, EmptySeq DEF IInv, TypeOK
<1>4. left' \in [Procs -> 0..MaxCall]  BY <1>1 DEF IInv, TypeOK
<1>5. TypeOK'  BY Zenon, <1>2, <1>3, <1>4 DEF IInv, TypeOK, PCs
<1>6. Open' /\ Locked'  BY Zenon DEF IInv, TypeOK, Open, Locked
<1>7. Reading'  BY <1>1 DEF IInv, TypeOK, Reading, Procs
<1>8. Waits => Waits'  BY Zenon, <1>2 DEF IInv, TypeOK, Waits, Procs
<1> QED  BY Zenon, <1>5, <1>6, <1>7, <1>8 DEF IInv

(* sleep() lets pi->lock go.                                               *)
LEMMA SleepInv ==
  ASSUME IInv, NEW p \in Procs, sleep(p)
  PROVE  IInv' /\ (Waits => Waits')
<1> USE DEF sleep
<1>1. Used' = Used  BY Zenon DEF Used
<1>2. TypeOK'  BY Zenon, <1>1 DEF IInv, TypeOK, PCs
<1>3. Open' /\ Reading' /\ Locked'
  BY Zenon DEF IInv, TypeOK, Open, Reading, Locked, Procs
<1>4. Waits => Waits'  BY Zenon, <1>1 DEF IInv, TypeOK, Waits, Procs
<1> QED  BY Zenon, <1>2, <1>3, <1>4 DEF IInv

(* kill() marks the victim and wakes it.                                   *)
LEMMA KillInv ==
  ASSUME IInv, NEW p \in Procs, kill(p)
  PROVE  IInv' /\ (Waits => Waits')
<1> USE DEF kill
<1>1. Used' = Used  BY Zenon DEF Used
<1>2. /\ pc' \in [Procs -> PCs]
      /\ \A q \in Procs : /\ pc'[q] = "user" <=> pc[q] = "user"
                          /\ pc'[q] = "presleep" <=> pc[q] = "presleep"
                          /\ pc'[q] = "asleep" => pc[q] = "asleep"
  BY WakeupIs DEF IInv, TypeOK
<1>3. TypeOK'  BY Zenon, <1>1, <1>2 DEF IInv, TypeOK
<1>4. Open' /\ Locked' /\ Reading'
  BY Zenon, <1>2 DEF IInv, Open, Locked, Reading, Procs
<1>5. Waits => Waits'  BY Zenon, <1>1, <1>2 DEF Waits, Procs
<1> QED  BY Zenon, <1>3, <1>4, <1>5 DEF IInv

(* The last process to close an end wakes the other end.                   *)
LEMMA CloseInv ==
  ASSUME IInv, NEW p \in Procs, pipeclose(p)
  PROVE  IInv' /\ (Waits => Waits')
<1> USE DEF pipeclose
<1>1. Used' = Used  BY Zenon DEF Used
<1>2. /\ pc' \in [Procs -> PCs]
      /\ \A q \in Procs : /\ pc'[q] = "user" <=> pc[q] = "user"
                          /\ pc'[q] = "presleep" <=> pc[q] = "presleep"
                          /\ pc'[q] = "asleep" => pc[q] = "asleep"
  <2>1. pc \in [Procs -> PCs]  BY Zenon DEF IInv, TypeOK
  <2>2. pc' = pc \/ pc' = Wakeup(Readers, pc) \/ pc' = Wakeup(Writers, pc)  BY Zenon
  <2> HIDE DEF pipeclose
  <2>3. CASE pc' = pc  BY Zenon, <2>1, <2>3
  <2>4. CASE pc' = Wakeup(Readers, pc)  BY ONLY <2>1, <2>4, WakeupIs
  <2>5. CASE pc' = Wakeup(Writers, pc)  BY ONLY <2>1, <2>5, WakeupIs
  <2> QED  BY Zenon, <2>2, <2>3, <2>4, <2>5
<1>3. TypeOK'  BY Zenon, <1>1, <1>2 DEF IInv, TypeOK
<1>4. Open' /\ Locked' /\ Reading'
  BY Zenon, <1>2 DEF IInv, Open, Locked, Reading, Procs
<1>5. ASSUME Waits PROVE Waits'
  <2>1. \A q \in Procs : pc[q] # "presleep"
    BY Zenon, PipeAssumption DEF IInv, Locked, Procs
  <2>2. ASSUME NEW q \in Readers, pc'[q] = "asleep" PROVE writeopen'
    <3>1. pc[q] = "asleep" /\ writeopen  BY Zenon, <1>2, <1>5, <2>2 DEF Waits, Procs
    <3>2. fds \cap Writers # {}  BY Zenon, <3>1 DEF IInv, Open
    <3>3. CASE p \in Writers /\ fds' \cap Writers = {}
      <4>1. pc' = Wakeup(Readers, pc)  BY Zenon, <3>3
      <4>2. q \in Procs /\ pc \in [Procs -> PCs]  BY Zenon DEF IInv, TypeOK, Procs
      <4>3. q \notin Readers  BY <2>2, <4>1, <4>2, WakeupIs
      <4> QED  BY Zenon, <2>2, <4>3
    <3>4. CASE p \notin Writers
      BY Zenon, <3>2, <3>4
    <3> QED  BY Zenon, <3>3, <3>4
  <2>3. ASSUME NEW q \in Writers, pc'[q] = "asleep" PROVE readopen'
    <3>1. pc[q] = "asleep" /\ readopen  BY Zenon, <1>2, <1>5, <2>3 DEF Waits, Procs
    <3>2. fds \cap Readers # {}  BY Zenon, <3>1 DEF IInv, Open
    <3>3. CASE p \in Readers /\ fds' \cap Readers = {}
      <4>1. p \notin Writers  BY Zenon, <3>3, PipeAssumption
      <4>2. pc' = Wakeup(Writers, pc)  BY Zenon, <3>3, <4>1
      <4>3. q \in Procs /\ pc \in [Procs -> PCs]  BY Zenon DEF IInv, TypeOK, Procs
      <4>4. q \notin Writers  BY <2>3, <4>2, <4>3, WakeupIs
      <4> QED  BY Zenon, <2>3, <4>4
    <3>4. CASE p \notin Readers
      BY Zenon, <3>2, <3>4
    <3> QED  BY Zenon, <3>3, <3>4
  <2> QED  BY Zenon, <1>1, <1>2, <1>5, <2>1, <2>2, <2>3 DEF Waits, Procs
<1> QED  BY Zenon, <1>3, <1>4, <1>5 DEF IInv

-----------------------------------------------------------------------------
(* The bytes in the pipe are a sequence of Used bytes.                     *)
LEMMA QueueSeq ==
  ASSUME TypeOK
  PROVE  /\ Counts /\ Used \in 0..PIPESIZE
         /\ Queue \in [1..Used -> Bytes]
         /\ Queue \in Seq(Bytes) /\ Len(Queue) = Used
<1>1. PIPESIZE \in Nat \ {0} /\ W \in Nat \ {0}  BY Zenon, Sizes
<1>2. Counts  BY Zenon DEF TypeOK, Counts
<1>3. Used \in 0..PIPESIZE  BY <1>1, <1>2, UsedIs DEF TypeOK
<1>4. \A j \in 1..Used : (nread + j - 1) % PIPESIZE \in 0..(PIPESIZE - 1)
  <2>1. \A j \in 1..Used : nread + j - 1 \in Int  BY <1>1, <1>3 DEF TypeOK
  <2> QED  BY ZenonT(30), <1>1, <2>1, ModRange
<1>5. \A j \in 1..Used : data[(nread + j - 1) % PIPESIZE] \in Bytes
  BY Zenon, <1>4 DEF TypeOK
<1>6. Queue \in [1..Used -> Bytes]  BY Zenon, <1>5 DEF Queue
<1> QED  BY <1>2, <1>3, <1>6, BytesSeq

(* pipewrite() puts its bytes behind those that are there.                 *)
LEMMA PutQueue ==
  ASSUME TypeOK, NEW p \in Procs, NEW k \in 0..PIPESIZE, NEW s \in [1..k -> Bytes],
         Used + k <= PIPESIZE, Put(p, s), nread' = nread
  PROVE  /\ Counts' /\ Used' = Used + k
         /\ data' \in [0..(PIPESIZE - 1) -> Bytes]
         /\ Queue' = Queue \o s
<1>1. PIPESIZE \in Nat \ {0} /\ W \in Nat \ {0} /\ k \in Nat  BY Sizes
<1>2. Counts /\ Used \in 0..PIPESIZE /\ Queue \in Seq(Bytes) /\ Len(Queue) = Used
  BY Zenon, QueueSeq
<1>3. s \in Seq(Bytes) /\ Len(s) = k  BY Zenon, <1>1, BytesSeq
<1>4. Counts' /\ Used' = Used + k
  <2>1. (nread + 0) % W = nread  BY Zenon, <1>1, <1>2, ModZero DEF Counts
  <2>2. nread' = (nread + 0) % W /\ nwrite' = (nwrite + k) % W  BY Zenon, <1>3, <2>1 DEF Put
  <2>3. 0 \in 0..PIPESIZE /\ 0 <= Used  BY <1>1, <1>2
  <2>4. Counts' /\ Used' = Used + k - 0  BY Zenon, <1>2, <2>2, <2>3, UsedMoves
  <2> QED  BY <1>1, <1>2, <2>4
<1>5. ASSUME NEW i \in 0..(PIPESIZE - 1)
      PROVE  LET c == (i - nwrite) % PIPESIZE
             IN  /\ c \in 0..(PIPESIZE - 1)
                 /\ data'[i] = IF c < k THEN s[c + 1] ELSE data[i]
                 /\ data'[i] \in Bytes
  <2> DEFINE c == (i - nwrite) % PIPESIZE
  <2>1. i - nwrite \in Int  BY <1>1, <1>2 DEF Counts
  <2>2. c \in 0..(PIPESIZE - 1)  BY Zenon, <1>1, <2>1, ModRange
  <2>3. data'[i] = IF c < k THEN s[c + 1] ELSE data[i]  BY Zenon, <1>3 DEF Put
  <2> HIDE DEF c
  <2>4. c < k => s[c + 1] \in Bytes  BY <1>1, <2>2
  <2>5. data'[i] \in Bytes
    <3>1. data[i] \in Bytes  BY Zenon DEF TypeOK
    <3> QED  BY Zenon, <2>3, <2>4, <3>1
  <2> QED  BY Zenon, <2>2, <2>3, <2>5 DEF c
<1>6. data' \in [0..(PIPESIZE - 1) -> Bytes]
  <2>1. data' = [i \in 0..(PIPESIZE - 1) |-> data'[i]]  BY Zenon DEF Put
  <2> QED  BY Zenon, <1>5, <2>1
<1>7. Queue' = Queue \o s
  <2>1. /\ Queue \o s \in Seq(Bytes) /\ Len(Queue \o s) = Used + k
        /\ \A j \in 1..(Used + k) :
             (Queue \o s)[j] = IF j <= Used THEN Queue[j] ELSE s[j - Used]
    BY ZenonT(60), <1>2, <1>3, ConcatProperties
  <2>2. ASSUME NEW j \in 1..(Used + k) PROVE Queue'[j] = (Queue \o s)[j]
    <3> DEFINE i == (nread + j - 1) % PIPESIZE
               c == (i - nwrite) % PIPESIZE
    <3>1. i \in 0..(PIPESIZE - 1)
          /\ (j <= Used => c = j - 1 - Used + PIPESIZE)
          /\ (j > Used => c = j - 1 - Used)
      <4>1. Used <= PIPESIZE  BY <1>1, <1>2
      <4> QED  BY Zenon, <1>1, <1>2, <4>1, Places DEF Index
    <3>2. data'[i] = IF c < k THEN s[c + 1] ELSE data[i]  BY Zenon, <1>5, <3>1
    <3>3. Queue'[j] = data'[i]  BY Zenon, <1>4 DEF Queue
    <3>4. j <= Used => Queue[j] = data[i]  BY <1>1, <1>2 DEF Queue
    <3> HIDE DEF i, c
    <3>5. CASE j <= Used
      <4>1. ~(c < k)  BY <1>1, <1>2, <3>1, <3>5
      <4> QED  BY Zenon, <2>1, <3>2, <3>3, <3>4, <3>5, <4>1
    <3>6. CASE j > Used
      <4>1. c < k /\ c + 1 = j - Used /\ ~(j <= Used)  BY <1>1, <1>2, <3>1, <3>6
      <4> QED  BY Zenon, <2>1, <3>2, <3>3, <4>1
    <3> QED  BY <1>1, <1>2, <3>5, <3>6
  <2>3. Queue' \in [1..(Used + k) -> Bytes]
    <3>1. \A j \in 1..(Used + k) : (Queue \o s)[j] \in Bytes
      BY Zenon, <2>1, ElementOfSeq
    <3>2. Queue' = [j \in 1..(Used + k) |-> Queue'[j]]  BY Zenon, <1>4 DEF Queue
    <3> QED  BY Zenon, <2>2, <3>1, <3>2
  <2>4. Queue' \in Seq(Bytes) /\ Len(Queue') = Used + k
    <3>1. Used + k \in Nat  BY <1>1, <1>2
    <3> QED  BY Zenon, <2>3, <3>1, BytesSeq
  <2> QED  BY ZenonT(30), <2>1, <2>2, <2>4, SeqEqual
<1> QED  BY Zenon, <1>4, <1>6, <1>7

(* piperead() takes its bytes from the front.                              *)
LEMMA TakeQueue ==
  ASSUME TypeOK, NEW k \in 0..PIPESIZE, NEW n \in 0..PIPESIZE, k <= n, n <= Used,
         nread' = (nread + n) % W, UNCHANGED <<data, nwrite>>
  PROVE  /\ Counts' /\ Used' = Used - n
         /\ Queue' = SubSeq(Queue, n + 1, Len(Queue))
         /\ [i \in 1..k |-> data[(nread + i - 1) % PIPESIZE]] = SubSeq(Queue, 1, k)
         /\ SubSeq(Queue, 1, k) \in Seq(Bytes)
<1>1. PIPESIZE \in Nat \ {0} /\ W \in Nat \ {0} /\ k \in Nat /\ n \in Nat  BY Sizes
<1>2. Counts /\ Used \in 0..PIPESIZE /\ Queue \in Seq(Bytes) /\ Len(Queue) = Used
      /\ Queue \in [1..Used -> Bytes]
  BY Zenon, QueueSeq
<1>3. Counts' /\ Used' = Used - n
  <2>1. (nwrite + 0) % W = nwrite  BY Zenon, <1>1, <1>2, ModZero DEF Counts
  <2>2. nread' = (nread + n) % W /\ nwrite' = (nwrite + 0) % W  BY Zenon, <2>1
  <2>3. 0 \in 0..PIPESIZE /\ Used + 0 <= PIPESIZE  BY <1>1, <1>2
  <2>4. Counts' /\ Used' = Used + 0 - n  BY Zenon, <1>2, <2>2, <2>3, UsedMoves
  <2> QED  BY <1>1, <1>2, <2>4
<1>4. Queue' = SubSeq(Queue, n + 1, Len(Queue))
  <2> DEFINE t == SubSeq(Queue, n + 1, Len(Queue))
  <2>1. /\ t \in Seq(Bytes) /\ Len(t) = Used - n
        /\ \A j \in 1..(Used - n) : t[j] = Queue[n + j]
    <3>1. n + 1 \in Int /\ Used \in Int  BY <1>1, <1>2
    <3>2. \A i \in (n + 1)..Used : Queue[i] \in Bytes  BY <1>1, <1>2
    <3>3. /\ t \in Seq(Bytes) /\ Len(t) = IF n + 1 <= Used THEN Used - (n + 1) + 1 ELSE 0
          /\ \A j \in 1..(Used - (n + 1) + 1) : t[j] = Queue[n + 1 + j - 1]
      BY <1>2, <3>1, <3>2, SubSeqProperties
    <3>4. Used - (n + 1) + 1 = Used - n /\ (~(n + 1 <= Used) => Used - n = 0)  BY <1>1, <1>2
    <3>5. \A j \in 1..(Used - n) : n + 1 + j - 1 = n + j  BY <1>1, <1>2
    <3> HIDE DEF t
    <3> QED  BY Zenon, <3>3, <3>4, <3>5
  <2> HIDE DEF t
  <2>2. ASSUME NEW j \in 1..(Used - n) PROVE Queue'[j] = t[j]
    <3>1. (nread' + j - 1) % PIPESIZE = (nread + (n + j) - 1) % PIPESIZE
      <4>1. PICK m \in Nat : W = PIPESIZE * m  BY Zenon, Sizes
      <4>2. nread' = nread + n \/ nread' = nread + n - W
        <5>1. nread \in 0..(W - 1) /\ n \in 0..(W - 1)  BY <1>1, <1>2, Sizes DEF Counts
        <5> QED  BY Zenon, <1>1, <5>1, ModWraps
      <4>3. \E q \in Int : nread' + j - 1 = (nread + (n + j) - 1) + PIPESIZE * q
        <5>1. CASE nread' = nread + n
          <6>1. nread' + j - 1 = (nread + (n + j) - 1) + PIPESIZE * 0
            BY <1>1, <1>2, <5>1 DEF Counts
          <6> QED  BY <6>1
        <5>2. CASE nread' = nread + n - W
          <6>1. PIPESIZE * (-m) = -(PIPESIZE * m) /\ -m \in Int  BY <1>1, <4>1
          <6>2. nread' + j - 1 = (nread + (n + j) - 1) + PIPESIZE * (-m)
            BY <1>1, <1>2, <4>1, <5>2, <6>1 DEF Counts
          <6> QED  BY Zenon, <6>1, <6>2
        <5> QED  BY Zenon, <4>2, <5>1, <5>2
      <4>4. PICK q \in Int : nread' + j - 1 = (nread + (n + j) - 1) + PIPESIZE * q  BY Zenon, <4>3
      <4>5. nread' + j - 1 \in Int /\ nread + (n + j) - 1 \in Int
        BY <1>1, <1>2, <1>3 DEF Counts
      <4> QED  BY ZenonT(60), <1>1, <4>4, <4>5, ModSame
    <3>2. Queue'[j] = data[(nread' + j - 1) % PIPESIZE]  BY Zenon, <1>3 DEF Queue
    <3>3. n + j \in 1..Used  BY <1>1, <1>2
    <3>4. Queue[n + j] = data[(nread + (n + j) - 1) % PIPESIZE]  BY Zenon, <3>3 DEF Queue
    <3> QED  BY Zenon, <2>1, <3>1, <3>2, <3>4
  <2>3. Queue' \in [1..(Used - n) -> Bytes]
    <3>1. \A j \in 1..(Used - n) : t[j] \in Bytes  BY Zenon, <2>1, ElementOfSeq
    <3>2. Queue' = [j \in 1..(Used - n) |-> Queue'[j]]  BY Zenon, <1>3 DEF Queue
    <3> QED  BY Zenon, <2>2, <3>1, <3>2
  <2>4. Queue' \in Seq(Bytes) /\ Len(Queue') = Used - n
    <3>1. Used - n \in Nat  BY <1>1, <1>2
    <3> QED  BY Zenon, <2>3, <3>1, BytesSeq
  <2>5. Queue' = t  BY Zenon, <2>1, <2>2, <2>4, SeqEqual
  <2> QED  BY Zenon, <2>5 DEF t
<1>5. /\ SubSeq(Queue, 1, k) \in Seq(Bytes)
      /\ [i \in 1..k |-> data[(nread + i - 1) % PIPESIZE]] = SubSeq(Queue, 1, k)
  <2> DEFINE t == SubSeq(Queue, 1, k)
             g == [i \in 1..k |-> data[(nread + i - 1) % PIPESIZE]]
  <2>1. /\ t \in Seq(Bytes) /\ Len(t) = k
        /\ \A j \in 1..k : t[j] = Queue[j]
    <3>1. \A i \in 1..k : Queue[i] \in Bytes  BY <1>1, <1>2
    <3>2. /\ t \in Seq(Bytes) /\ Len(t) = IF 1 <= k THEN k - 1 + 1 ELSE 0
          /\ \A j \in 1..(k - 1 + 1) : t[j] = Queue[1 + j - 1]
      BY <1>1, <3>1, SubSeqProperties
    <3>3. k - 1 + 1 = k /\ (~(1 <= k) => k = 0)  BY <1>1
    <3>4. \A j \in 1..k : 1 + j - 1 = j  BY <1>1
    <3> HIDE DEF t
    <3> QED  BY Zenon, <3>2, <3>3, <3>4
  <2>2. \A j \in 1..k : j \in 1..Used  BY <1>1, <1>2
  <2>3. \A j \in 1..k : g[j] = Queue[j] /\ Queue[j] \in Bytes
    BY Zenon, <1>2, <2>2 DEF Queue
  <2>4. g \in [1..k -> Bytes]  BY Zenon, <2>3
  <2> HIDE DEF t, g
  <2>5. g \in Seq(Bytes) /\ Len(g) = k  BY Zenon, <1>1, <2>4, BytesSeq
  <2>6. g = t  BY Zenon, <2>1, <2>3, <2>5, SeqEqual
  <2> QED  BY Zenon, <2>1, <2>6 DEF t, g
<1> QED  BY Zenon, <1>3, <1>4, <1>5

-----------------------------------------------------------------------------
(* What a pipewrite() of the bytes s comes to, whether it returns or goes  *)
(* to sleep.                                                               *)
Wrote(p, k, s) ==
  /\ Put(p, s) /\ k <= left[p] /\ Used + k <= PIPESIZE
  /\ \/ pc' = Wakeup(Readers, Return(p)) /\ lock' = lock
     \/ (~readopen \/ p \in killed) /\ pc' = Return(p) /\ lock' = lock
     \/ /\ Used + k = PIPESIZE /\ readopen
        /\ pc' = Wakeup(Readers, [pc EXCEPT ![p] = "presleep"]) /\ lock' = p

(* A pipewrite() is one of those.                                          *)
LEMMA WriteIs ==
  ASSUME IInv, NEW p \in Procs, pipewrite(p)
  PROVE  \E k \in 0..PIPESIZE : \E s \in [1..k -> Bytes] : Wrote(p, k, s)
<1>1. PIPESIZE \in Nat /\ Used \in Nat  BY Sizes, QueueSeq DEF IInv
<1>2. left[p] \in Nat  BY PipeAssumption DEF IInv, TypeOK
<1> QED  BY <1>1, <1>2 DEF pipewrite, Wrote, Full

(* pipewrite() keeps the counters, the locks and the ends; it leaves a     *)
(* reader asleep only if a killed process writes.                          *)
LEMMA WriteInv ==
  ASSUME IInv, NEW p \in Procs, pipewrite(p)
  PROVE  IInv' /\ (Waits /\ p \notin killed => Waits')
<1>0. PICK k \in 0..PIPESIZE : \E s \in [1..k -> Bytes] : Wrote(p, k, s)
  BY Zenon, WriteIs
<1>1. PICK s \in [1..k -> Bytes] : Wrote(p, k, s)
  BY Zenon, <1>0
<1>2. /\ p \in Writers /\ p \notin Readers /\ pc[p] = "call" /\ lock = None
      /\ UNCHANGED <<nread, readopen, writeopen, fds, killed, got, eof>>
  BY Zenon, PipeAssumption DEF pipewrite
<1> USE <1>1 DEF Wrote
<1>3. Counts' /\ Used' = Used + k /\ data' \in [0..(PIPESIZE - 1) -> Bytes]
  BY Zenon, <1>1, <1>2, PutQueue DEF IInv
<1>4. PIPESIZE \in Nat \ {0} /\ Used \in 0..PIPESIZE /\ MaxCall \in Nat /\ Len(s) = k
  BY Sizes, QueueSeq, PipeAssumption, BytesSeq DEF IInv
<1>5. pc \in [Procs -> PCs] /\ Return(p) \in [Procs -> PCs]
      /\ [pc EXCEPT ![p] = "presleep"] \in [Procs -> PCs]
  BY Zenon DEF IInv, TypeOK, Return, PCs
<1>6. /\ pc' \in [Procs -> PCs]
      /\ \A q \in Procs \ {p} :
           /\ pc'[q] = "user" <=> pc[q] = "user"
           /\ pc'[q] = "presleep" <=> pc[q] = "presleep"
           /\ pc'[q] = "asleep" => pc[q] = "asleep"
      /\ pc'[p] = "user" \/ (pc'[p] = "presleep" /\ lock' = p /\ Used' = PIPESIZE /\ readopen)
  <2> DEFINE f == Return(p)
             g == [pc EXCEPT ![p] = "presleep"]
  <2>1. /\ f[p] = "user" /\ g[p] = "presleep"
        /\ \A q \in Procs \ {p} : f[q] = pc[q] /\ g[q] = pc[q]
    BY SMTT(30), <1>5 DEF Return
  <2> HIDE DEF f, g
  <2>2. f \in [Procs -> PCs] /\ g \in [Procs -> PCs]  BY Zenon, <1>5 DEF f, g
  <2>3. CASE pc' = Wakeup(Readers, f)
    <3>1. /\ pc' \in [Procs -> PCs]
          /\ \A q \in Procs : /\ pc'[q] = "user" <=> f[q] = "user"
                              /\ pc'[q] = "presleep" <=> f[q] = "presleep"
                              /\ pc'[q] = "asleep" => f[q] = "asleep"
      BY <2>2, <2>3, WakeupIs
    <3> QED  BY Zenon, <2>1, <3>1
  <2>4. CASE pc' = f
    BY SMTT(30), <2>1, <2>2, <2>4
  <2>5. CASE pc' = Wakeup(Readers, g) /\ lock' = p /\ Used' = PIPESIZE /\ readopen
    <3>1. /\ pc' \in [Procs -> PCs]
          /\ \A q \in Procs : /\ pc'[q] = "user" <=> g[q] = "user"
                              /\ pc'[q] = "presleep" <=> g[q] = "presleep"
                              /\ pc'[q] = "asleep" => g[q] = "asleep"
      BY SMTT(30), <2>2, <2>5, WakeupIs
    <3> QED  BY Zenon, <2>1, <2>5, <3>1
  <2> QED  BY Zenon, <1>3, <2>3, <2>4, <2>5 DEF f, g
<1>7. left' \in [Procs -> 0..MaxCall] /\ \A r \in Readers : left'[r] = left[r]
  <2>1. left' = [left EXCEPT ![p] = @ - k]  BY SMTT(30), <1>1, <1>4 DEF Put
  <2> QED  BY <1>1, <1>2, <1>4, <2>1 DEF IInv, TypeOK, Procs
<1>8. TypeOK'
  <2>1. Used' <= PIPESIZE  BY Zenon, <1>1, <1>3
  <2>2. lock' \in Procs \cup {None}  BY ZenonT(60), <1>1, <1>2
  <2> QED  BY Zenon, <1>2, <1>3, <1>6, <1>7, <2>1, <2>2 DEF IInv, TypeOK, Counts
<1>9. \A q \in Procs : pc[q] # "presleep"
  BY SMTT(30), <1>2, PipeAssumption DEF IInv, Locked, Procs
<1>10. Open' /\ Locked' /\ Reading'
  BY ZenonT(30), <1>2, <1>6, <1>7, <1>9 DEF IInv, Open, Locked, Reading, Procs
<1>11. ASSUME Waits, p \notin killed PROVE Waits'
  <2>1. ASSUME NEW q \in Writers, pc'[q] \in {"presleep", "asleep"}
        PROVE  Used' = PIPESIZE /\ readopen'
    <3>1. CASE q = p
      BY Zenon, <1>2, <1>6, <2>1, <3>1
    <3>2. CASE q # p
      <4>1. Used = PIPESIZE /\ readopen  BY Zenon, <1>6, <1>11, <2>1, <3>2 DEF Waits, Procs
      <4> QED  BY <1>1, <1>2, <1>3, <1>4, <4>1
    <3> QED  BY Zenon, <3>1, <3>2
  <2>2. ASSUME NEW q \in Readers, pc'[q] \in {"presleep", "asleep"} PROVE FALSE
    <3>1. q \in Procs \ {p} /\ q \in Procs  BY Zenon, <1>2 DEF Procs
    <3>2. pc'[q] = "asleep" /\ pc[q] = "asleep"  BY SMTT(30), <1>6, <1>9, <2>2, <3>1
    <3>3. readopen  BY Zenon, <3>1, <3>2 DEF IInv, Open
    <3>4. pc' = Wakeup(Readers, Return(p)) \/ pc' = Wakeup(Readers, [pc EXCEPT ![p] = "presleep"])
      BY Zenon, <1>1, <1>11, <3>3
    <3>5. PICK f \in [Procs -> PCs] : pc' = Wakeup(Readers, f)  BY ZenonT(30), <1>5, <3>4
    <3>6. q \notin Readers  BY Zenon, <3>1, <3>2, <3>5, WakeupIs
    <3> QED  BY Zenon, <3>6
  <2> QED  BY Zenon, <2>1, <2>2 DEF Waits
<1> QED  BY Zenon, <1>8, <1>10, <1>11 DEF IInv

(* piperead() goes to sleep only while the pipe is empty and open.         *)
LEMMA ReadWaitInv ==
  ASSUME IInv, NEW p \in Procs, piperead_wait(p)
  PROVE  IInv' /\ (Waits => Waits')
<1> USE DEF piperead_wait
<1>1. Used' = Used /\ Used = 0
  <2>1. Used = 0  BY Zenon, QueueSeq, UsedIs DEF IInv
  <2> QED  BY Zenon, <2>1 DEF Used
<1>2. p \notin Writers  BY Zenon, PipeAssumption
<1>3. /\ pc' \in [Procs -> PCs]
      /\ \A q \in Procs \ {p} : pc'[q] = pc[q]
      /\ pc'[p] = "user" \/ (pc'[p] = "presleep" /\ lock' = p)
  BY Zenon DEF IInv, TypeOK, PCs, Return
<1>4. TypeOK'  BY Zenon, <1>1, <1>3 DEF IInv, TypeOK
<1>5. \A q \in Procs : pc[q] # "presleep"
  BY Zenon, PipeAssumption DEF IInv, Locked, Procs
<1>6. Open' /\ Locked' /\ Reading'
  BY Zenon, <1>3, <1>5 DEF IInv, Open, Locked, Reading, Procs
<1>7. Waits => Waits'
  BY Zenon, <1>1, <1>2, <1>3 DEF Waits, Procs
<1> QED  BY Zenon, <1>4, <1>6, <1>7 DEF IInv

(* What a piperead() takes: k bytes for the caller, n from the pipe.       *)
LEMMA ReadIs ==
  ASSUME IInv, NEW p \in Procs, piperead(p)
  PROVE  \E k \in 0..PIPESIZE, n \in 0..PIPESIZE :
           /\ n = k \/ n = k + 1
           /\ n <= Used /\ (n = 0 => Used = 0)
           /\ got' = [got EXCEPT ![p] = [i \in 1..k |-> data[(nread + i - 1) % PIPESIZE]]]
           /\ eof' = IF n = 0 THEN eof \cup {p} ELSE eof
           /\ nread' = (nread + n) % W
<1>1. PICK k \in 0..PIPESIZE, lost \in {0, 1} :
        /\ Takes(p, k, lost)
        /\ got' = [got EXCEPT ![p] = [i \in 1..k |-> data[(nread + i - 1) % PIPESIZE]]]
        /\ eof' = IF k + lost = 0 THEN eof \cup {p} ELSE eof
        /\ nread' = (nread + k + lost) % W
  BY Zenon DEF piperead
<1>2. PIPESIZE \in Nat /\ Used \in 0..PIPESIZE /\ nread \in Int
  BY Sizes, QueueSeq DEF IInv, Counts
<1>3. left[p] > 0 /\ left[p] \in Nat
  BY PipeAssumption DEF IInv, TypeOK, Reading, piperead
<1> DEFINE n == k + lost
<1>4. n \in 0..PIPESIZE /\ (n = k \/ n = k + 1) /\ n <= Used /\ (n = 0 => Used = 0)
  BY <1>1, <1>2, <1>3 DEF Takes
<1>5. nread + k + lost = nread + n  BY <1>2
<1>6. nread' = (nread + n) % W  BY Zenon, <1>1, <1>5
<1> HIDE DEF n
<1>7. eof' = IF n = 0 THEN eof \cup {p} ELSE eof  BY Zenon, <1>1 DEF n
<1> QED  BY Zenon, <1>1, <1>4, <1>6, <1>7

(* piperead() keeps the counters and wakes the writers.                    *)
LEMMA ReadInv ==
  ASSUME IInv, NEW p \in Procs, piperead(p)
  PROVE  IInv' /\ (Waits => Waits')
<1>1. PICK k \in 0..PIPESIZE, n \in 0..PIPESIZE :
        /\ n = k \/ n = k + 1
        /\ n <= Used /\ (n = 0 => Used = 0)
        /\ got' = [got EXCEPT ![p] = [i \in 1..k |-> data[(nread + i - 1) % PIPESIZE]]]
        /\ eof' = IF n = 0 THEN eof \cup {p} ELSE eof
        /\ nread' = (nread + n) % W
  BY Zenon, ReadIs
<1>2. /\ p \in Readers /\ p \notin Writers /\ pc[p] = "call" /\ lock = None
      /\ pc' = Wakeup(Writers, Return(p))
      /\ UNCHANGED <<data, nwrite, readopen, writeopen, lock, fds, killed, left>>
  BY Zenon, PipeAssumption DEF piperead
<1>3. PIPESIZE \in Nat \ {0} /\ Used \in 0..PIPESIZE  BY Zenon, Sizes, QueueSeq DEF IInv
<1>4. k <= n  BY <1>1, <1>3
<1>5. /\ Counts' /\ Used' = Used - n
      /\ [i \in 1..k |-> data[(nread + i - 1) % PIPESIZE]] \in Seq(Bytes)
  BY ZenonT(30), <1>1, <1>2, <1>4, TakeQueue DEF IInv
<1>6. Return(p) \in [Procs -> PCs]  BY Zenon DEF IInv, TypeOK, Return, PCs
<1>7. /\ pc' \in [Procs -> PCs] /\ pc'[p] = "user"
      /\ \A q \in Procs \ {p} :
           /\ pc'[q] = "user" <=> pc[q] = "user"
           /\ pc'[q] = "presleep" <=> pc[q] = "presleep"
           /\ pc'[q] = "asleep" => pc[q] = "asleep" /\ q \notin Writers
  <2> DEFINE f == Return(p)
  <2>1. f[p] = "user" /\ \A q \in Procs \ {p} : f[q] = pc[q]
    BY Zenon DEF IInv, TypeOK, Return
  <2> HIDE DEF f
  <2>2. f \in [Procs -> PCs] /\ pc' = Wakeup(Writers, f)  BY Zenon, <1>2, <1>6 DEF f
  <2>3. /\ pc' \in [Procs -> PCs]
        /\ \A q \in Procs : /\ pc'[q] = "user" <=> f[q] = "user"
                            /\ pc'[q] = "presleep" <=> f[q] = "presleep"
                            /\ pc'[q] = "asleep" => f[q] = "asleep" /\ q \notin Writers
    BY <2>2, WakeupIs
  <2> QED  BY Zenon, <2>1, <2>3
<1>8. got' \in [Readers -> Seq(Bytes)] /\ \A r \in Readers \ {p} : got'[r] = got[r]
  BY SMTT(30), <1>1, <1>2, <1>5 DEF IInv, TypeOK
<1>9. TypeOK'
  <2>1. Used' <= PIPESIZE  BY <1>1, <1>3, <1>5
  <2>2. eof' \subseteq Readers  BY Zenon, <1>1, <1>2 DEF IInv, TypeOK
  <2> QED  BY Zenon, <1>2, <1>5, <1>7, <1>8, <2>1, <2>2 DEF IInv, TypeOK, Counts
<1>10. \A q \in Procs : pc[q] # "presleep"
  BY SMTT(30), <1>2, PipeAssumption DEF IInv, Locked, Procs
<1>11. Open' /\ Locked' /\ Reading'
  BY ZenonT(30), <1>2, <1>7, <1>8, <1>10 DEF IInv, Open, Locked, Reading, Procs
<1>12. ASSUME Waits PROVE Waits'
  <2>1. ASSUME NEW q \in Writers, pc'[q] \in {"presleep", "asleep"} PROVE FALSE
    BY Zenon, <1>2, <1>7, <1>10, <2>1 DEF Procs
  <2>2. ASSUME NEW q \in Readers, pc'[q] \in {"presleep", "asleep"}
        PROVE  Used' = 0 /\ writeopen'
    <3>1. Used = 0 /\ writeopen
      BY Zenon, <1>7, <1>12, <2>2 DEF Waits, Procs
    <3> QED  BY <1>1, <1>2, <1>3, <1>5, <3>1
  <2> QED  BY Zenon, <2>1, <2>2 DEF Waits
<1> QED  BY Zenon, <1>9, <1>11, <1>12 DEF IInv

-----------------------------------------------------------------------------
(* The inductive invariant holds of every pipe, whoever is killed.         *)
THEOREM Inductive == Spec => []IInv
<1>1. Init => IInv  BY Zenon, InitInv
<1>2. IInv /\ [Next]_vars => IInv'
  <2> SUFFICES ASSUME IInv, [Next]_vars PROVE IInv'  BY Zenon
  <2>1. CASE Next
    <3>1. PICK p \in Procs : Step(p)  BY Zenon, <2>1 DEF Next
    <3> QED
      BY SMTT(30), <3>1, CallInv, WriteInv, ReadWaitInv, ReadInv, SleepInv, CloseInv, KillInv
         DEF Step, Kernel
  <2>2. CASE UNCHANGED vars
    BY Zenon, <2>2 DEF vars, IInv, TypeOK, Used, Open, Locked, Reading
  <2> QED  BY Zenon, <2>1, <2>2
<1> QED  BY <1>1, <1>2, PTL DEF Spec

(* Types: nread and nwrite are never more than PIPESIZE apart, however     *)
(* often they have wrapped around (pipe.c:87, pipe.c:115).                 *)
THEOREM TypeCorrect == Spec => []TypeOK
<1>1. IInv => TypeOK  BY Zenon DEF IInv
<1> QED  BY <1>1, Inductive, PTL

(* While no writer is killed, a writer sleeps only on a full pipe and a    *)
(* reader only on an empty one that both ends are open to (pipe.c:89,      *)
(* pipe.c:108): every wakeup() reaches its sleepers.                       *)
THEOREM NoMissedWakeupCorrect ==
  ASSUME Killable \cap Writers = {}
  PROVE  Spec => []NoMissedWakeup
<1> DEFINE Inv == IInv /\ killed \subseteq Killable /\ Waits
<1>1. Init => Inv  BY Zenon, InitInv DEF Init
<1>2. Inv /\ [Next]_vars => Inv'
  <2> SUFFICES ASSUME Inv, [Next]_vars PROVE Inv'  BY Zenon
  <2>1. CASE Next
    <3>1. PICK p \in Procs : Step(p)  BY ZenonT(60), <2>1 DEF Next
    <3>2. killed' \subseteq Killable
      BY SMTT(30), <3>1 DEF Step, Kernel, sys_call, pipewrite, piperead_wait, piperead, sleep,
                  pipeclose, kill
    <3>3. pipewrite(p) => p \notin killed  BY ZenonT(30) DEF pipewrite
    <3> QED
      BY Zenon, <3>1, <3>2, <3>3, CallInv, WriteInv, ReadWaitInv, ReadInv, SleepInv, CloseInv,
         KillInv DEF Step, Kernel
  <2>2. CASE UNCHANGED vars
    BY ZenonT(30), <2>2 DEF vars, IInv, TypeOK, Used, Open, Locked, Reading, Waits
  <2> QED  BY Zenon, <2>1, <2>2
<1>3. Inv => NoMissedWakeup  BY Zenon DEF Waits, NoMissedWakeup
<1> QED  BY <1>1, <1>2, <1>3, PTL DEF Spec

-----------------------------------------------------------------------------
(* A step that changes neither the bytes nor what the readers know is a    *)
(* stuttering step of the queue.                                           *)
LEMMA Stutters ==
  ASSUME UNCHANGED <<data, nread, nwrite, writeopen, got, eof>>
  PROVE  UNCHANGED F!vars
BY Zenon DEF F!vars, Used

(* pipewrite() is a Write of the queue, or changes nothing of it.          *)
LEMMA WriteFifo ==
  ASSUME IInv, NEW p \in Procs, pipewrite(p)
  PROVE  [F!Next]_F!vars
<1>1. PICK k \in 0..PIPESIZE : \E s \in [1..k -> Bytes] : Wrote(p, k, s)
  BY Zenon, WriteIs
<1>2. PICK s \in [1..k -> Bytes] : Wrote(p, k, s)  BY Zenon, <1>1
<1>3. UNCHANGED <<nread, writeopen, got, eof>>  BY Zenon DEF pipewrite
<1>4. PIPESIZE \in Nat \ {0} /\ k \in Nat  BY Sizes
<1>5. Queue' = Queue \o s /\ Used + k <= PIPESIZE
  BY Zenon, <1>2, <1>3, PutQueue DEF Wrote, IInv
<1>6. /\ Queue \in Seq(Bytes) /\ Len(Queue) = Used
      /\ s \in Seq(Bytes) /\ Len(s) = k
  BY SMTT(30), <1>4, QueueSeq, BytesSeq DEF IInv
<1>7. writeopen
  BY Zenon DEF pipewrite, IInv, Open
<1>8. CASE k = 0
  <2>1. s = <<>>  BY Zenon, <1>6, <1>8, EmptySeq
  <2>2. Queue' = Queue  BY Zenon, <1>5, <1>6, <2>1, ConcatEmptySeq
  <2> QED  BY Zenon, <1>3, <2>2 DEF F!vars, Queue
<1>9. CASE k # 0
  <2>1. k \in 1..PIPESIZE  BY <1>4, <1>9
  <2>2. F!Write(s)  BY ZenonT(30), <1>3, <1>5, <1>6, <1>7 DEF F!Write, Queue
  <2> QED  BY Zenon, <2>1, <2>2 DEF F!Next
<1> QED  BY Zenon, <1>8, <1>9

(* piperead() is a Read, a ReadFault or a ReadEof of the queue.            *)
LEMMA ReadFifo ==
  ASSUME IInv, NEW p \in Procs, piperead(p)
  PROVE  F!Next
<1>1. PICK k \in 0..PIPESIZE, n \in 0..PIPESIZE :
        /\ n = k \/ n = k + 1
        /\ n <= Used /\ (n = 0 => Used = 0)
        /\ got' = [got EXCEPT ![p] = [i \in 1..k |-> data[(nread + i - 1) % PIPESIZE]]]
        /\ eof' = IF n = 0 THEN eof \cup {p} ELSE eof
        /\ nread' = (nread + n) % W
  BY Zenon, ReadIs
<1>2. p \in Readers /\ pc[p] = "call" /\ (nread # nwrite \/ ~writeopen)
      /\ UNCHANGED <<data, nwrite, writeopen>>
  BY Zenon DEF piperead
<1>3. PIPESIZE \in Nat \ {0} /\ Used \in 0..PIPESIZE /\ Counts /\ Len(Queue) = Used
      /\ Queue \in Seq(Bytes)
  BY Zenon, Sizes, QueueSeq DEF IInv
<1>4. k <= n  BY <1>1, <1>3
<1>5. /\ Queue' = SubSeq(Queue, n + 1, Len(Queue))
      /\ [i \in 1..k |-> data[(nread + i - 1) % PIPESIZE]] = SubSeq(Queue, 1, k)
  BY Zenon, <1>1, <1>2, <1>4, TakeQueue DEF IInv
<1>6. got' = [got EXCEPT ![p] = SubSeq(Queue, 1, k)]  BY ZenonT(30), <1>1, <1>5
<1>7. CASE n = 0
  <2>1. Used = 0 /\ k = 0  BY <1>1, <1>3, <1>7
  <2>2. ~writeopen  BY Zenon, <1>2, <1>3, <2>1, UsedIs
  <2>3. Queue = <<>>  BY Zenon, <1>3, <2>1, EmptySeq
  <2>4. SubSeq(Queue, 1, 0) = <<>>  BY SubSeqEmpty
  <2>5. got' = got
    <3>1. got[p] = <<>>  BY Zenon, <1>2 DEF IInv, Reading
    <3> QED  BY Zenon, <1>2, <1>6, <2>1, <2>4, <3>1 DEF IInv, TypeOK
  <2>6. SubSeq(Queue, n + 1, Len(Queue)) = <<>>
    <3>1. Len(Queue) = 0 /\ n = 0  BY Zenon, <1>3, <1>7, <2>1
    <3>2. n + 1 \in Int /\ Len(Queue) \in Int /\ Len(Queue) < n + 1  BY ONLY <3>1
    <3> QED  BY Zenon, <3>2, SubSeqEmpty
  <2>7. F!ReadEof(p)
    BY SMTT(30), <1>1, <1>2, <1>5, <1>7, <2>2, <2>3, <2>5, <2>6 DEF F!ReadEof, Queue
  <2> QED  BY Zenon, <1>2, <2>7 DEF F!Next
<1>8. CASE n # 0
  <2>1. n \in 1..Len(Queue) /\ n \in 1..PIPESIZE  BY <1>1, <1>3, <1>8
  <2>2. eof' = eof  BY Zenon, <1>1, <1>8
  <2>3. CASE n = k
    <3>1. F!Read(p, n)
      BY ZenonT(30), <1>2, <1>5, <1>6, <2>1, <2>2, <2>3 DEF F!Read, Queue
    <3> QED  BY SMTT(30), <1>2, <2>1, <3>1 DEF F!Next
  <2>4. CASE n = k + 1
    <3>1. k = n - 1  BY <1>3, <2>4
    <3>2. F!ReadFault(p, n)
      BY ZenonT(30), <1>2, <1>5, <1>6, <2>1, <2>2, <3>1 DEF F!ReadFault, Queue
    <3> QED  BY Zenon, <1>2, <2>1, <3>2 DEF F!Next
  <2> QED  BY Zenon, <1>1, <2>3, <2>4
<1> QED  BY Zenon, <1>7, <1>8

(* The ring buffer of pipe.c implements the queue: the bytes come out in   *)
(* the order written, each once, and the end of the file after the last    *)
(* one, for every PIPESIZE and however often the counters wrap around.     *)
THEOREM FifoRefined == Spec => IsFifo
<1>1. Init => F!Init
  <2> SUFFICES ASSUME Init PROVE F!Init  BY Zenon
  <2>1. Used = 0
    <3>1. Counts /\ nread = nwrite  BY Sizes DEF Init, Counts
    <3> QED  BY Zenon, <3>1, UsedIs
  <2>2. Queue \in Seq(Bytes) /\ Len(Queue) = 0
    BY Zenon, <2>1, InitInv, QueueSeq DEF IInv
  <2>3. Queue = <<>>  BY Zenon, <2>2, EmptySeq
  <2> QED  BY Zenon, <2>3 DEF Init, F!Init, Queue
<1>2. IInv /\ [Next]_vars => [F!Next]_F!vars
  <2> SUFFICES ASSUME IInv, [Next]_vars PROVE [F!Next]_F!vars  BY Zenon
  <2>1. ASSUME NEW p \in Procs, NEW n \in 1..MaxCall, sys_call(p, n)
        PROVE  [F!Next]_F!vars
    <3>1. CASE p \in Readers
      <4>1. got' = [got EXCEPT ![p] = <<>>]  BY Zenon, <2>1 DEF sys_call, IInv, TypeOK
      <4>2. F!StartRead(p)  BY ZenonT(30), <2>1, <4>1 DEF sys_call, F!StartRead, Used
      <4> QED  BY Zenon, <3>1, <4>2 DEF F!Next
    <3>2. CASE p \notin Readers
      <4>1. got' = got /\ eof' = eof  BY Zenon, <2>1, <3>2 DEF sys_call, IInv, TypeOK
      <4> QED  BY Zenon, <2>1, <4>1, Stutters DEF sys_call
    <3> QED  BY SMTT(30), <3>1, <3>2
  <2>2. ASSUME NEW p \in Procs, pipeclose(p) PROVE [F!Next]_F!vars
    <3>1. CASE writeopen' = writeopen
      BY Zenon, <2>2, <3>1, Stutters DEF pipeclose
    <3>2. CASE writeopen' # writeopen
      <4>1. writeopen /\ writeopen' = FALSE
        BY Zenon, <2>2, <3>2 DEF pipeclose, IInv, Open
      <4>2. F!Close  BY Zenon, <2>2, <4>1 DEF pipeclose, F!Close, Used
      <4> QED  BY Zenon, <4>2 DEF F!Next
    <3> QED  BY Zenon, <3>1, <3>2
  <2>3. ASSUME NEW p \in Procs, piperead_wait(p) \/ sleep(p) \/ kill(p)
        PROVE  [F!Next]_F!vars
    BY Zenon, <2>3, Stutters DEF piperead_wait, sleep, kill
  <2>4. ASSUME UNCHANGED vars PROVE [F!Next]_F!vars
    BY Zenon, <2>4, Stutters DEF vars
  <2> QED  BY Zenon, <2>1, <2>2, <2>3, <2>4, WriteFifo, ReadFifo DEF Next, Step, Kernel
<1> QED  BY <1>1, <1>2, Inductive, PTL DEF Spec, IsFifo, F!Spec
=============================================================================
