---------------------------- MODULE BcacheProofs ----------------------------
(***************************************************************************)
(* Proofs about the buffer cache, for every number of processes, blocks    *)
(* and buffers.                                                            *)
(***************************************************************************)
EXTENDS Bcache, FiniteSetTheorems, WellFoundedInduction, TLAPS

Holding == {"read", "hold"}
Using == {"acquire", "asleep", "read", "hold", "release"}

Types ==
  /\ blockno \in [Bufs -> Blocks \cup {None}]
  /\ valid \in [Bufs -> BOOLEAN]
  /\ refcnt \in [Bufs -> Nat]
  /\ data \in [Bufs -> Vals]
  /\ locked \in [Bufs -> Procs \cup {None}]
  /\ disk \in [Blocks -> Vals] /\ latest \in [Blocks -> Vals]
  /\ logged \subseteq Blocks
  /\ pc \in [Procs -> PCs]
  /\ buf \in [Procs -> 0..NBUF]
  /\ blk \in [Procs -> Blocks \cup {None}]

(* Every buffer is in the list.                                            *)
Listed == /\ lru \in [Bufs -> Bufs]
          /\ \A b \in Bufs : \E i \in Bufs : lru[i] = b

(* A process in bread or brelse has the buffer of its block.               *)
Has ==
  \A p \in Procs :
    IF pc[p] \in Using
      THEN buf[p] \in Bufs /\ blk[p] \in Blocks /\ blockno[buf[p]] = blk[p]
      ELSE buf[p] = 0

(* The sleep lock of a buffer and its holder name each other.              *)
Locks ==
  /\ \A p \in Procs : pc[p] \in Holding => locked[buf[p]] = p
  /\ \A b \in Bufs : locked[b] # None => /\ pc[locked[b]] \in Holding
                                         /\ buf[locked[b]] = b

(* Who has read the block, and who is about to.                            *)
Reads ==
  \A p \in Procs : /\ pc[p] = "hold" => valid[buf[p]]
                   /\ pc[p] = "read" => ~valid[buf[p]]

(* Data in memory is the latest; so is the disk, but for logged blocks,    *)
(* and those are in memory.                                                *)
Contents ==
  /\ \A b \in Bufs : valid[b] => /\ blockno[b] \in Blocks
                                 /\ data[b] = latest[blockno[b]]
  /\ \A k \in Blocks \ logged : disk[k] = latest[k]
  /\ \A k \in logged : \E b \in Bufs : blockno[b] = k /\ valid[b]

(* A process panics only when every buffer is counted as in use.           *)
Panics == (\E p \in Procs : pc[p] = "panic") => \A b \in Bufs : refcnt[b] # 0

IInv == Types /\ Listed /\ Has /\ Locks /\ Reads /\ Contents /\ Panics
        /\ OneBufPerBlock /\ RefcntExact

Users(b) == {p \in Procs : buf[p] = b}
Pin(b) == IF blockno[b] \in logged THEN 1 ELSE 0

(* The sets that refcnt counts are finite.                                 *)
LEMMA UsersFinite ==
  ASSUME NEW b PROVE IsFiniteSet(Users(b)) /\ Cardinality(Users(b)) \in Nat
BY Zenon, FS_Subset, FS_CardinalityType, BcacheAssumption DEF Users

(* A process that comes to a buffer counts one more there.                 *)
LEMMA UsersCome ==
  ASSUME Types, NEW p \in Procs, buf[p] = 0, NEW b \in Bufs,
         buf' = [buf EXCEPT ![p] = b]
  PROVE  \A c \in Bufs : Cardinality(Users(c)') =
                           Cardinality(Users(c)) + (IF c = b THEN 1 ELSE 0)
<1> SUFFICES ASSUME NEW c \in Bufs
             PROVE  Cardinality(Users(c)') =
                      Cardinality(Users(c)) + (IF c = b THEN 1 ELSE 0)
    BY Zenon
<1>1. CASE c = b
  <2>1. Users(c)' = Users(c) \cup {p}  BY Zenon, <1>1 DEF Users, Types
  <2>2. p \notin Users(c)  BY DEF Users, Bufs
  <2>3. IsFiniteSet(Users(c)) /\ Cardinality(Users(c)) \in Nat  BY Zenon, UsersFinite
  <2>4. Cardinality(Users(c) \cup {p}) = Cardinality(Users(c)) + 1
    BY Zenon, <2>2, <2>3, FS_AddElement
  <2> QED  BY Zenon, <1>1, <2>1, <2>4
<1>2. CASE c # b
  <2>1. Users(c)' = Users(c)  BY <1>2 DEF Users, Types, Bufs
  <2> QED  BY <1>2, <2>1, UsersFinite
<1> QED  BY Zenon, <1>1, <1>2

(* A process that leaves a buffer counts one less there.                   *)
LEMMA UsersGo ==
  ASSUME Types, NEW p \in Procs, buf[p] \in Bufs, buf' = [buf EXCEPT ![p] = 0]
  PROVE  \A c \in Bufs : Cardinality(Users(c)') =
                           Cardinality(Users(c)) - (IF c = buf[p] THEN 1 ELSE 0)
<1> SUFFICES ASSUME NEW c \in Bufs
             PROVE  Cardinality(Users(c)') =
                      Cardinality(Users(c)) - (IF c = buf[p] THEN 1 ELSE 0)
    BY Zenon
<1>1. CASE c = buf[p]
  <2>1. Users(c)' = Users(c) \ {p}  BY <1>1 DEF Users, Types, Bufs
  <2>2. p \in Users(c)  BY Zenon, <1>1 DEF Users
  <2> QED  BY ZenonT(60), <1>1, <2>1, <2>2, UsersFinite, FS_RemoveElement
<1>2. CASE c # buf[p]
  <2>1. Users(c)' = Users(c)  BY <1>2 DEF Users, Types, Bufs
  <2> QED  BY <1>2, <2>1, UsersFinite
<1> QED  BY Zenon, <1>1, <1>2

(* A set of indices that is not empty has a largest one.                  *)
LEMMA Largest ==
  ASSUME NEW S \in SUBSET Bufs, S # {}
  PROVE  \E i \in S : \A j \in S : j <= i
<1> DEFINE T == {NBUF - i : i \in S}
<1>a. \A i \in S : i \in Nat /\ i <= NBUF /\ NBUF - i \in Nat
  BY BcacheAssumption DEF Bufs
<1>1. T \subseteq Nat /\ T # {}  BY Zenon, <1>a
<1>2. PICK m \in T : \A y \in T : <<y, m>> \notin OpToRel(<, Nat)
  BY Zenon, <1>1, WFMin, NatLessThanWellFounded
<1>3. \A y \in T : m <= y
  <2> TAKE y \in T
  <2>1. m \in Nat /\ y \in Nat  BY Zenon, <1>1
  <2>2. ~(y < m)  BY Zenon, <1>2, <2>1 DEF OpToRel
  <2> QED  BY <2>1, <2>2
<1>4. PICK i \in S : m = NBUF - i  BY Zenon
<1>5. ASSUME NEW j \in S PROVE j <= i
  <2>1. NBUF - i <= NBUF - j  BY Zenon, <1>3, <1>4
  <2> QED  BY <2>1, <1>a, BcacheAssumption
<1> QED  BY Zenon, <1>5

(* The search from the tail of the list ends at an unused buffer, if there *)
(* is one.                                                                 *)
LEMMA VictimUnused ==
  ASSUME Listed, Unused # {}
  PROVE  Victim \in Bufs /\ refcnt[Victim] = 0
<1> DEFINE S == {i \in Bufs : lru[i] \in Unused}
<1>1. S # {}  BY Zenon DEF Listed, Unused
<1>2. PICK i \in S : \A j \in S : j <= i  BY Zenon, <1>1, Largest
<1>3. \A j \in (i + 1)..NBUF : lru[j] \notin Unused
  BY <1>2, BcacheAssumption DEF Bufs
<1>4. lru[i] \in Unused /\ i \in Bufs  BY Zenon, <1>2
<1>5. Victim \in Unused  BY Zenon, <1>3, <1>4 DEF Victim
<1> QED  BY Zenon, <1>5 DEF Unused
(* The list keeps every buffer when one moves to its head.                 *)
LEMMA ToHeadLists ==
  ASSUME Listed, NEW b \in Bufs, lru' = ToHead(b)
  PROVE  Listed'
<1>1. PICK n \in Bufs : lru[n] = b /\ \A j \in (n + 1)..NBUF : lru[j] # b
  <2> DEFINE S == {i \in Bufs : lru[i] = b}
  <2>1. S # {} /\ S \in SUBSET Bufs  BY Zenon DEF Listed
  <2>2. PICK i \in S : \A j \in S : j <= i  BY Zenon, <2>1, Largest
  <2> QED  BY <2>2, BcacheAssumption DEF Bufs
<1>2. \A i \in Bufs : lru'[i] = IF i = 1 THEN b ELSE IF i <= n THEN lru[i - 1] ELSE lru[i]
  BY <1>1, BcacheAssumption DEF ToHead, Bufs
<1>3. lru' \in [Bufs -> Bufs]
  <2>1. ASSUME NEW i \in Bufs PROVE lru'[i] \in Bufs
    <3>1. i = 1 \/ i - 1 \in Bufs  BY BcacheAssumption DEF Bufs
    <3> QED  BY <1>2, <3>1 DEF Listed
  <2> QED  BY Zenon, <2>1 DEF ToHead
<1>4. ASSUME NEW c \in Bufs PROVE \E i \in Bufs : lru'[i] = c
  <2>1. CASE c = b
    <3>1. 1 \in Bufs  BY BcacheAssumption DEF Bufs
    <3> QED  BY Zenon, <2>1, <3>1, <1>2
  <2>2. CASE c # b
    <3>1. PICK i \in Bufs : lru[i] = c  BY Zenon DEF Listed
    <3>2. CASE i < n
      <4>1. i + 1 \in Bufs /\ lru'[i + 1] = c
        BY <3>1, <3>2, <1>2, BcacheAssumption DEF Bufs
      <4> QED  BY Zenon, <4>1
    <3>3. CASE i > n  BY <3>1, <3>3, <1>2, BcacheAssumption DEF Bufs
    <3>4. i # n  BY Zenon, <3>1, <1>1, <2>2
    <3> QED  BY <3>2, <3>3, <3>4, BcacheAssumption DEF Bufs
  <2> QED  BY Zenon, <2>1, <2>2
<1> QED  BY Zenon, <1>3, <1>4 DEF Listed

-----------------------------------------------------------------------------
(* binit() starts with a free list that holds every buffer once.           *)
LEMMA InitInv == Init => IInv
<1> SUFFICES ASSUME Init PROVE IInv  BY Zenon
<1>1. Types  BY BcacheAssumption DEF Init, Types, PCs, Bufs
<1>2. Listed
  <2>1. lru \in [Bufs -> Bufs]  BY BcacheAssumption DEF Init, Bufs
  <2>2. ASSUME NEW b \in Bufs PROVE NBUF + 1 - b \in Bufs /\ lru[NBUF + 1 - b] = b
    BY BcacheAssumption DEF Init, Bufs
  <2> QED  BY Zenon, <2>1, <2>2 DEF Listed
<1>3. Has /\ Locks /\ Reads /\ Contents /\ Panics /\ OneBufPerBlock
  BY Zenon, BcacheAssumption
  DEF Init, Has, Locks, Reads, Contents, Panics, OneBufPerBlock, Using, Holding, Bufs
<1>4. RefcntExact
  <2>1. \A b \in Bufs : {p \in Procs : buf[p] = b} = {}  BY DEF Init, Bufs
  <2>2. Cardinality({}) = 0  BY Zenon, FS_EmptySet
  <2>3. \A b \in Bufs : refcnt[b] = 0 /\ blockno[b] \notin logged  BY Zenon DEF Init
  <2>4. ASSUME NEW b \in Bufs
        PROVE  refcnt[b] = Cardinality({p \in Procs : buf[p] = b})
                           + (IF blockno[b] \in logged THEN 1 ELSE 0)
    <3>1. Cardinality({p \in Procs : buf[p] = b}) = 0  BY Zenon, <2>1, <2>2
    <3> QED  BY <2>3, <3>1
  <2> QED  BY Zenon, <2>4 DEF RefcntExact
<1> QED  BY Zenon, <1>1, <1>2, <1>3, <1>4 DEF IInv

(* RefcntExact in terms of Users and Pin.                                  *)
LEMMA Refcnt == RefcntExact <=> \A b \in Bufs : refcnt[b] = Cardinality(Users(b)) + Pin(b)
BY Zenon DEF RefcntExact, Users, Pin

(* bget() on a cached block counts one more user.                          *)
LEMMA HitInv ==
  ASSUME IInv, NEW p \in Procs, NEW k \in Blocks, bget_hit(p, k)
  PROVE  IInv'
<1> USE DEF bget_hit
<1>1. PICK b \in Cached(k) : refcnt' = bpin(b) /\ buf' = [buf EXCEPT ![p] = b]
  BY ZenonT(20)
<1>2. b \in Bufs /\ blockno[b] = k  BY Zenon DEF Cached
<1>3. Types'  BY <1>1, <1>2, BcacheAssumption DEF IInv, Types, bpin, PCs, Bufs
<1>4. buf[p] = 0  BY Zenon DEF IInv, Has, MayRead, Using
<1>5. RefcntExact'
  <2>1. \A c \in Bufs : refcnt[c] = Cardinality(Users(c)) + Pin(c)
    BY Zenon, Refcnt DEF IInv
  <2>2. \A c \in Bufs : Pin(c)' = Pin(c)  BY Zenon DEF Pin
  <2>3. \A c \in Bufs : Cardinality(Users(c)') =
                           Cardinality(Users(c)) + (IF c = b THEN 1 ELSE 0)
    BY ZenonT(20), <1>1, <1>2, <1>4, UsersCome DEF IInv
  <2>4. \A c \in Bufs : refcnt'[c] = refcnt[c] + (IF c = b THEN 1 ELSE 0)
    BY <1>1, <1>2 DEF IInv, Types, bpin
  <2>5. \A c \in Bufs : Cardinality(Users(c)) \in Nat /\ Pin(c) \in Nat
    BY Zenon, UsersFinite DEF Pin
  <2>6. \A c \in Bufs : refcnt'[c] = Cardinality(Users(c)') + Pin(c)'
    BY SMTT(30), <2>1, <2>2, <2>3, <2>4, <2>5
  <2> QED  BY Zenon, <2>6 DEF RefcntExact, Users, Pin
<1>6. Listed' /\ OneBufPerBlock' /\ Contents'
  BY Zenon DEF IInv, Listed, OneBufPerBlock, Contents
<1>7. Has' /\ Locks' /\ Reads'
  BY <1>1, <1>2, <1>4 DEF IInv, Types, Has, Locks, Reads, MayRead, Using, Holding
<1>8. Panics'
  BY Zenon DEF IInv, Types, Panics, MayRead, LockFree
<1> QED  BY Zenon, <1>3, <1>5, <1>6, <1>7, <1>8 DEF IInv

(* bget() recycles a buffer that nobody counts on.                         *)
LEMMA RecycleInv ==
  ASSUME IInv, NEW p \in Procs, NEW k \in Blocks, bget_recycle(p, k)
  PROVE  IInv'
<1> DEFINE b == Victim
<1> USE DEF bget_recycle
<1>1. b \in Bufs /\ refcnt[b] = 0  BY Zenon, VictimUnused DEF IInv
<1> HIDE DEF b
<1>2. buf[p] = 0 /\ pc[p] = "idle"  BY Zenon DEF IInv, Has, MayRead, Using
<1>3. \A c \in Bufs : refcnt[c] = Cardinality(Users(c)) + Pin(c)
  BY Zenon, Refcnt DEF IInv
<1>4. \A c \in Bufs : /\ IsFiniteSet(Users(c))
                        /\ Cardinality(Users(c)) \in Nat /\ Pin(c) \in Nat
  BY Zenon, UsersFinite DEF Pin
<1>5. Users(b) = {} /\ blockno[b] \notin logged
  <2>1. Cardinality(Users(b)) = 0 /\ Pin(b) = 0  BY <1>1, <1>3, <1>4
  <2> QED  BY <1>4, <1>1, <2>1, FS_EmptySet DEF Pin
<1>6. \A c \in Bufs : blockno[c] # k  BY Zenon DEF Cached
<1>7. k \notin logged  BY Zenon, <1>6 DEF IInv, Contents
<1>8. \A q \in Procs : buf[q] # b  BY Zenon, <1>5 DEF Users
<1>9. /\ blockno' = [blockno EXCEPT ![b] = k] /\ valid' = [valid EXCEPT ![b] = FALSE]
      /\ refcnt' = [refcnt EXCEPT ![b] = 1] /\ buf' = [buf EXCEPT ![p] = b]
  BY Zenon DEF b
<1>10. Types'
  BY <1>1, <1>9, BcacheAssumption DEF IInv, Types, PCs, Bufs
<1>11. RefcntExact'
  <2>1. \A c \in Bufs : Cardinality(Users(c)') =
                           Cardinality(Users(c)) + (IF c = b THEN 1 ELSE 0)
    BY ZenonT(20), <1>1, <1>2, <1>9, UsersCome DEF IInv
  <2>2. \A c \in Bufs : Pin(c)' = Pin(c)
    BY <1>1, <1>5, <1>7, <1>9 DEF Pin, IInv, Types
  <2>3. \A c \in Bufs : refcnt'[c] = refcnt[c] + (IF c = b THEN 1 ELSE 0)
    BY <1>1, <1>9 DEF IInv, Types
  <2>4. \A c \in Bufs : refcnt'[c] = Cardinality(Users(c)') + Pin(c)'
    BY <1>3, <1>4, <2>1, <2>2, <2>3
  <2> QED  BY Zenon, <2>4 DEF RefcntExact, Users, Pin
<1>12. Listed'  BY Zenon DEF IInv, Listed
<1>13. OneBufPerBlock'
  BY <1>1, <1>6, <1>9 DEF IInv, Types, OneBufPerBlock
<1>14. Contents'
  <2>1. \A c \in Bufs : valid'[c] => blockno'[c] \in Blocks /\ data'[c] = latest'[blockno'[c]]
    BY <1>1, <1>9 DEF IInv, Types, Contents
  <2>2. ASSUME NEW j \in logged PROVE \E c \in Bufs : blockno'[c] = j /\ valid'[c]
    <3>1. PICK c \in Bufs : blockno[c] = j /\ valid[c]  BY Zenon DEF IInv, Contents
    <3>2. c # b  BY Zenon, <1>5, <3>1
    <3> QED  BY Zenon, <1>1, <1>9, <3>1, <3>2 DEF IInv, Types
  <2> QED  BY Zenon, <2>1, <2>2 DEF IInv, Contents
<1>15. Has'
  BY <1>1, <1>2, <1>8, <1>9 DEF IInv, Types, Has, Using
<1>16. Locks' /\ Reads'
  BY <1>1, <1>2, <1>8, <1>9 DEF IInv, Types, Has, Locks, Reads, Holding, Using
<1>17. Panics'
  BY Zenon DEF IInv, Types, Panics, MayRead, LockFree
<1> QED  BY Zenon, <1>10, <1>11, <1>12, <1>13, <1>14, <1>15, <1>16, <1>17 DEF IInv

(* The conjuncts that a step keeps if it leaves the buffers to their blocks*)
(* and their users.                                                        *)
LEMMA UsersStay ==
  ASSUME IInv, UNCHANGED <<blockno, refcnt, lru, logged, buf>>
  PROVE  Listed' /\ OneBufPerBlock' /\ RefcntExact'
BY Zenon DEF IInv, Listed, OneBufPerBlock, RefcntExact

(* bget() panics when no buffer is free.                                   *)
LEMMA PanicInv ==
  ASSUME IInv, NEW p \in Procs, NEW k \in Blocks, bget_panic(p, k)
  PROVE  IInv'
<1> USE DEF bget_panic, bufvars
<1>1. Listed' /\ OneBufPerBlock' /\ RefcntExact'  BY Zenon, UsersStay
<1>2. Types'  BY Zenon DEF IInv, Types, PCs
<1>3. Has' /\ Locks' /\ Reads' /\ Contents'
  BY DEF IInv, Types, Has, Locks, Reads, Contents, MayRead, Using, Holding
<1>4. Panics'  BY SMTT(30) DEF IInv, Types, Panics, Unused
<1> QED  BY Zenon, <1>1, <1>2, <1>3, <1>4 DEF IInv

(* acquiresleep() gives the buffer to one process.                         *)
LEMMA AcquireInv ==
  ASSUME IInv, NEW p \in Procs, acquiresleep(p)
  PROVE  IInv'
<1> USE DEF acquiresleep
<1>1. Listed' /\ OneBufPerBlock' /\ RefcntExact'  BY Zenon, UsersStay
<1>2. buf[p] \in Bufs  BY Zenon DEF IInv, Has, Using
<1>3. Types'  BY Zenon, <1>2 DEF IInv, Types, PCs
<1>4. Has' /\ Contents'
  BY <1>2 DEF IInv, Types, Has, Contents, Using
<1>5. Locks'
  BY <1>2, BcacheAssumption DEF IInv, Types, Has, Locks, Holding, Using
<1>6. Reads'
  BY SMTT(30), <1>2 DEF IInv, Types, Reads
<1>7. Panics'  BY Zenon DEF IInv, Types, Panics
<1> QED  BY Zenon, <1>1, <1>3, <1>4, <1>5, <1>6, <1>7 DEF IInv

(* bread() fills a buffer that is not valid from the disk.                 *)
LEMMA ReadInv ==
  ASSUME IInv, NEW p \in Procs, bread_done(p)
  PROVE  IInv'
<1> USE DEF bread_done
<1>1. Listed' /\ OneBufPerBlock' /\ RefcntExact'  BY Zenon, UsersStay
<1>2. /\ buf[p] \in Bufs /\ blockno[buf[p]] \in Blocks /\ ~valid[buf[p]]
      /\ locked[buf[p]] = p
  BY Zenon DEF IInv, Has, Using, Reads, Locks, Holding
<1>3. Types'  BY Zenon, <1>2 DEF IInv, Types, PCs
<1>4. Has' /\ Locks' /\ Panics'
  BY SMTT(30), <1>2 DEF IInv, Types, Has, Locks, Panics, Using, Holding
<1>5. Reads'
  <2>1. \A q \in Procs \ {p} : pc[q] \in Holding => buf[q] # buf[p]
    BY SMTT(30), <1>2 DEF IInv, Locks
  <2> QED  BY <1>2, <2>1 DEF IInv, Types, Reads, Holding
<1>6. Contents'
  <2>1. blockno[buf[p]] \notin logged
    BY SMTT(30), <1>2, BcacheAssumption DEF IInv, Contents, OneBufPerBlock
  <2>2. disk[blockno[buf[p]]] = latest[blockno[buf[p]]]
    BY Zenon, <1>2, <2>1 DEF IInv, Contents
  <2> QED  BY Zenon, <1>2, <2>2 DEF IInv, Types, Contents
<1> QED  BY Zenon, <1>1, <1>3, <1>4, <1>5, <1>6 DEF IInv

(* log_write() pins the buffer of a block that is new to the log.          *)
LEMMA WriteInv ==
  ASSUME IInv, NEW p \in Procs, NEW v \in Vals, log_write(p, v)
  PROVE  IInv'
<1> DEFINE b == buf[p]
           k == blk[p]
<1> USE DEF log_write
<1>1. b \in Bufs /\ k \in Blocks /\ blockno[b] = k /\ valid[b]
  BY Zenon DEF IInv, Has, Using, Reads
<1>2. \A c \in Bufs : blockno[c] = k => c = b
  BY SMTT(30), <1>1, BcacheAssumption DEF IInv, OneBufPerBlock
<1>3. Types'
  BY SMTT(30), <1>1 DEF IInv, Types, bpin
<1>4. RefcntExact'
  <2>1. \A c \in Bufs : refcnt[c] = Cardinality(Users(c)) + Pin(c)
    BY Zenon, Refcnt DEF IInv
  <2>2. \A c \in Bufs : Users(c)' = Users(c)  BY Zenon DEF Users
  <2>3. \A c \in Bufs : Cardinality(Users(c)) \in Nat  BY SMTT(30), UsersFinite
  <2>4. CASE k \in logged
    <3>1. logged' = logged /\ refcnt' = refcnt  BY Zenon, <1>1, <2>4
    <3> QED  BY Zenon, <3>1, <2>1, <2>2 DEF RefcntExact, Users, Pin
  <2>5. CASE k \notin logged
    <3>1. \A c \in Bufs : Pin(c)' = Pin(c) + (IF c = b THEN 1 ELSE 0)
      BY SMTT(30), <1>1, <1>2, <2>5 DEF Pin
    <3>2. \A c \in Bufs : refcnt'[c] = refcnt[c] + (IF c = b THEN 1 ELSE 0)
      <4>1. refcnt \in [Bufs -> Nat] /\ refcnt' = [refcnt EXCEPT ![b] = @ + 1]
        BY Zenon, <1>1, <2>5 DEF IInv, Types, bpin
      <4> QED  BY ONLY <4>1
    <3>3. \A c \in Bufs : refcnt'[c] = Cardinality(Users(c)') + Pin(c)'
      BY SMTT(30), <2>1, <2>2, <2>3, <3>1, <3>2 DEF Pin
    <3> QED  BY Zenon, <3>3 DEF RefcntExact, Users, Pin
  <2> QED  BY SMTT(30), <2>4, <2>5
<1>5. Listed' /\ OneBufPerBlock' /\ Has' /\ Locks' /\ Reads'
  BY Zenon DEF IInv, Listed, OneBufPerBlock, Has, Locks, Reads
<1>6. Contents'
  <2>1. \A c \in Bufs : valid'[c] => blockno'[c] \in Blocks /\ data'[c] = latest'[blockno'[c]]
    BY SMTT(30), <1>1, <1>2 DEF IInv, Types, Contents
  <2>2. \A j \in Blocks \ logged' : disk'[j] = latest'[j]
    BY Zenon, <1>1 DEF IInv, Types, Contents
  <2>3. \A j \in logged' : \E c \in Bufs : blockno'[c] = j /\ valid'[c]
    BY SMTT(30), <1>1 DEF IInv, Contents
  <2> QED  BY Zenon, <2>1, <2>2, <2>3 DEF Contents
<1>7. Panics'
  BY SMTT(30) DEF IInv, Panics, LockFree
<1> QED  BY SMTT(30), <1>3, <1>4, <1>5, <1>6, <1>7 DEF IInv

(* install_trans() writes the block to its place and unpins it.            *)
LEMMA InstallInv ==
  ASSUME IInv, NEW p \in Procs, install_trans(p)
  PROVE  IInv'
<1> DEFINE b == buf[p]
           k == blk[p]
<1> USE DEF install_trans
<1>1. b \in Bufs /\ k \in Blocks /\ blockno[b] = k /\ valid[b] /\ k \in logged
  BY Zenon DEF IInv, Has, Using, Reads
<1>2. \A c \in Bufs : blockno[c] = k => c = b
  BY SMTT(30), <1>1, BcacheAssumption DEF IInv, OneBufPerBlock
<1>3. RefcntExact' /\ refcnt' \in [Bufs -> Nat]
  <2>1. \A c \in Bufs : refcnt[c] = Cardinality(Users(c)) + Pin(c)
    BY SMTT(30), Refcnt DEF IInv
  <2>2. \A c \in Bufs : Users(c)' = Users(c)  BY Zenon DEF Users
  <2>3. \A c \in Bufs : Cardinality(Users(c)) \in Nat  BY Zenon, UsersFinite
  <2>4. \A c \in Bufs : Pin(c)' = Pin(c) - (IF c = b THEN 1 ELSE 0)
    BY <1>1, <1>2 DEF Pin
  <2>5. \A c \in Bufs : refcnt'[c] = refcnt[c] - (IF c = b THEN 1 ELSE 0)
    BY <1>1 DEF IInv, Types, bunpin
  <2>6. \A c \in Bufs : refcnt'[c] = Cardinality(Users(c)') + Pin(c)'
    BY <2>1, <2>2, <2>3, <2>4, <2>5 DEF Pin
  <2>7. \A c \in Bufs : refcnt'[c] \in Nat  BY <2>2, <2>3, <2>6 DEF Pin
  <2>8. refcnt' = [c \in Bufs |-> refcnt'[c]]  BY ZenonT(20), <1>1 DEF IInv, Types, bunpin
  <2> QED  BY Zenon, <2>6, <2>7, <2>8 DEF RefcntExact, Users, Pin
<1>4. Types'
  BY Zenon, <1>1, <1>3 DEF IInv, Types
<1>5. Listed' /\ OneBufPerBlock' /\ Has' /\ Locks' /\ Reads'
  BY SMTT(30) DEF IInv, Listed, OneBufPerBlock, Has, Locks, Reads
<1>6. Contents'
  <2>1. \A j \in Blocks \ logged' : disk'[j] = latest'[j]
    BY <1>1 DEF IInv, Types, Contents
  <2> QED  BY Zenon, <2>1 DEF IInv, Contents
<1>7. Panics'
  BY Zenon DEF IInv, Panics, LockFree
<1> QED  BY SMTT(30), <1>3, <1>4, <1>5, <1>6, <1>7 DEF IInv

(* releasesleep() in brelse() lets the sleep-lock go.                      *)
LEMMA ReleaseInv ==
  ASSUME IInv, NEW p \in Procs, releasesleep(p)
  PROVE  IInv'
<1> USE DEF releasesleep
<1>1. Listed' /\ OneBufPerBlock' /\ RefcntExact'  BY Zenon, UsersStay
<1>2. buf[p] \in Bufs /\ locked[buf[p]] = p
  BY Zenon DEF IInv, Has, Using, Locks, Holding
<1>3. Types'  BY SMTT(30), <1>2 DEF IInv, Types, PCs
<1>4. Has' /\ Contents' /\ Panics' /\ Reads'
  BY Zenon DEF IInv, Types, Has, Contents, Panics, Reads, Using
<1>5. Locks'
  BY <1>2, BcacheAssumption DEF IInv, Types, Locks, Holding
<1> QED  BY Zenon, <1>1, <1>3, <1>4, <1>5 DEF IInv

(* The rest of brelse() counts one user less.                              *)
LEMMA BrelseInv ==
  ASSUME IInv, NEW p \in Procs, brelse(p)
  PROVE  IInv'
<1> DEFINE b == buf[p]
<1> USE DEF brelse
<1>1. b \in Bufs  BY Zenon DEF IInv, Has, Using
<1>2. Listed'
  <2>1. CASE lru' = lru  BY Zenon, <2>1 DEF IInv, Listed
  <2>2. CASE lru' = ToHead(b)  BY Zenon, <1>1, <2>2, ToHeadLists DEF IInv
  <2> QED  BY Zenon, <2>1, <2>2
<1>3. RefcntExact' /\ refcnt' \in [Bufs -> Nat]
  <2>1. \A c \in Bufs : refcnt[c] = Cardinality(Users(c)) + Pin(c)
    BY Zenon, Refcnt DEF IInv
  <2>2. \A c \in Bufs : Cardinality(Users(c)') =
                           Cardinality(Users(c)) - (IF c = b THEN 1 ELSE 0)
    BY ZenonT(20), <1>1, UsersGo DEF IInv
  <2>3. \A c \in Bufs : Cardinality(Users(c)) \in Nat  BY Zenon, UsersFinite
  <2>4. \A c \in Bufs : Pin(c)' = Pin(c) /\ Pin(c) \in Nat  BY Zenon DEF Pin
  <2>5. \A c \in Bufs : refcnt'[c] = refcnt[c] - (IF c = b THEN 1 ELSE 0)
    BY <1>1 DEF IInv, Types, bunpin
  <2>6. \A c \in Bufs : refcnt'[c] = Cardinality(Users(c)') + Pin(c)'
    BY <2>1, <2>2, <2>3, <2>4, <2>5
  <2>7. \A c \in Bufs : Cardinality(Users(c)') \in Nat
    BY Zenon, BcacheAssumption, FS_Subset, FS_CardinalityType DEF Users
  <2>8. \A c \in Bufs : refcnt'[c] \in Nat  BY <2>4, <2>6, <2>7
  <2>9. refcnt' = [c \in Bufs |-> refcnt'[c]]  BY Zenon, <1>1 DEF IInv, Types, bunpin
  <2> QED  BY Zenon, <2>6, <2>8, <2>9 DEF RefcntExact, Users, Pin
<1>4. Types'
  BY SMTT(30), <1>1, <1>3, BcacheAssumption DEF IInv, Types, PCs
<1>5. OneBufPerBlock' /\ Contents'
  BY Zenon DEF IInv, OneBufPerBlock, Contents
<1>6. Has' /\ Locks' /\ Reads'
  BY <1>1 DEF IInv, Types, Has, Locks, Reads, Using, Holding
<1>7. Panics'
  BY Zenon DEF IInv, Types, Panics, LockFree
<1> QED  BY Zenon, <1>2, <1>3, <1>4, <1>5, <1>6, <1>7 DEF IInv

-----------------------------------------------------------------------------
(* The inductive invariant of the buffer cache (bget, bread, brelse, bpin  *)
(* and bunpin under log_write and install_trans).                          *)
THEOREM Inductive == Spec => []IInv
<1>1. Init => IInv  BY Zenon, InitInv
<1>2. IInv /\ [Next]_vars => IInv'
  <2> SUFFICES ASSUME IInv, [Next]_vars PROVE IInv'  BY Zenon
  <2>1. CASE Next
    <3>1. PICK p \in Procs : Step(p)  BY ZenonT(60), <2>1 DEF Next
    <3> QED
      BY SMTT(30), <3>1, HitInv, RecycleInv, PanicInv, AcquireInv, ReadInv, WriteInv, InstallInv,
         ReleaseInv, BrelseInv DEF Step
  <2>2. CASE UNCHANGED vars
    BY <2>2 DEF vars, bufvars, IInv, Types, Listed, Has, Locks, Reads, Contents, Panics,
                OneBufPerBlock, RefcntExact
  <2> QED  BY Zenon, <2>1, <2>2
<1> QED  BY <1>1, <1>2, PTL DEF Spec

(* Types: refcnt is never below zero nor above the number of its possible  *)
(* users, and the list keeps every buffer (brelse, bunpin).                *)
THEOREM TypeCorrect == Spec => []TypeOK
<1>1. IInv => TypeOK
  <2> SUFFICES ASSUME IInv PROVE TypeOK  BY Zenon
  <2>1. ASSUME NEW b \in Bufs PROVE refcnt[b] \in 0..(Cardinality(Procs) + 1)
    <3>1. refcnt[b] = Cardinality(Users(b)) + Pin(b)  BY Zenon, Refcnt DEF IInv
    <3>2. Users(b) \subseteq Procs  BY Zenon DEF Users
    <3>3. /\ Cardinality(Users(b)) \in Nat /\ Cardinality(Procs) \in Nat
          /\ Cardinality(Users(b)) <= Cardinality(Procs)
      BY Zenon, <3>2, BcacheAssumption, FS_Subset, FS_CardinalityType
    <3>4. Pin(b) \in 0..1  BY DEF Pin
    <3> HIDE DEF Users, Pin
    <3> QED  BY <3>1, <3>3, <3>4
  <2>2. refcnt \in [Bufs -> 0..(Cardinality(Procs) + 1)]
    BY Zenon, <2>1 DEF IInv, Types
  <2> QED  BY Zenon, <2>2 DEF IInv, Types, Listed, TypeOK
<1> QED  BY <1>1, Inductive, PTL

(* refcnt counts the users of a buffer and the log's pin, so that bget     *)
(* recycles no buffer in use (bio.c:78).                                   *)
THEOREM RefcntCorrect == Spec => []RefcntExact
<1>1. IInv => RefcntExact  BY Zenon DEF IInv
<1> QED  BY <1>1, Inductive, PTL

(* A block has one buffer, and a buffer one user, at most (bio.c:13).      *)
THEOREM OneUserCorrect == Spec => [](OneBufPerBlock /\ OneUser)
<1>1. IInv => OneBufPerBlock /\ OneUser
  BY DEF IInv, OneUser, Locks, Holding
<1> QED  BY <1>1, Inductive, PTL

(* bread returns what was last written to the block (bio.c:91).            *)
THEOREM ReadsCorrect == Spec => []ReadsLatest
<1>1. IInv => ReadsLatest
  BY DEF IInv, ReadsLatest, Has, Reads, Contents, Using
<1> QED  BY <1>1, Inductive, PTL

(* bget panics only when every buffer has a user or is pinned (bio.c:88).  *)
THEOREM PanicCorrect == Spec => []FindsBuffer
<1>1. IInv => FindsBuffer
  <2> SUFFICES ASSUME IInv, NEW p \in Procs, pc[p] = "panic", NEW b \in Bufs,
                      blockno[b] \notin logged
               PROVE  \E q \in Procs : buf[q] = b
      BY Zenon DEF FindsBuffer
  <2>1. refcnt[b] # 0  BY Zenon DEF IInv, Panics
  <2>2. refcnt[b] = Cardinality(Users(b)) + Pin(b)  BY Zenon, Refcnt DEF IInv
  <2>3. Cardinality(Users(b)) # 0  BY <2>1, <2>2, UsersFinite DEF Pin
  <2>4. Users(b) # {}  BY Zenon, <2>3, FS_EmptySet
  <2> QED  BY Zenon, <2>4 DEF Users
<1> QED  BY <1>1, Inductive, PTL
=============================================================================
