----------------------------- MODULE DiskProofs -----------------------------
(***************************************************************************)
(* Proofs about VirtioDisk for every number of descriptors, every width of *)
(* the ring indices that is a multiple of it, and every set of processes.  *)
(***************************************************************************)
EXTENDS VirtioDisk, FiniteSetTheorems, TLAPS

-----------------------------------------------------------------------------
(* Arithmetic modulo n: an index of a ring, and how far it is from another *)

(* The remainder is the one number below n that differs by a multiple.     *)
LEMMA ModIs ==
  ASSUME NEW n \in Nat \ {0}, NEW x \in Int, NEW q \in Int, NEW r \in 0..(n - 1),
         x = n * q + r
  PROVE  x % n = r
OBVIOUS

(* A remainder is below its modulus.                                       *)
LEMMA ModRange ==
  ASSUME NEW n \in Nat \ {0}, NEW x \in Int
  PROVE  /\ x % n \in 0..(n - 1)
         /\ x \in 0..(n - 1) => x % n = x
         /\ \E q \in Int : x = n * q + (x % n)
<1>1. x % n \in 0..(n - 1) /\ x \div n \in Int /\ x = n * (x \div n) + (x % n)  OBVIOUS
<1>2. x \in 0..(n - 1) => x % n = x  OBVIOUS
<1> QED  BY Zenon, <1>1, <1>2

(* What differs by a multiple of n has the same remainder.                 *)
LEMMA ModSame ==
  ASSUME NEW n \in Nat \ {0}, NEW x \in Int, NEW y \in Int, NEW q \in Int,
         x = y + n * q
  PROVE  x % n = y % n
<1>1. PICK d \in Int : y = n * d + (y % n)  BY Zenon, ModRange
<1>2. y % n \in 0..(n - 1)  BY Zenon, ModRange
<1>3. d + q \in Int /\ x = n * (d + q) + (y % n)  BY <1>1, <1>2
<1> QED  BY Zenon, <1>2, <1>3, ModIs

(* The next number, and the one before.                                    *)
LEMMA ModNext ==
  ASSUME NEW n \in Nat \ {0}, NEW x \in Int
  PROVE  /\ x % n # n - 1 => (x + 1) % n = (x % n) + 1
         /\ x % n # 0 => (x - 1) % n = (x % n) - 1
         /\ x % n = 0 => (x - 1) % n = n - 1
<1> DEFINE r == x % n
<1>1. PICK d \in Int : x = n * d + r  BY ZenonT(30), ModRange
<1>2. r \in 0..(n - 1)  BY Zenon, ModRange
<1> HIDE DEF r
<1>3. ASSUME r # n - 1  PROVE (x + 1) % n = r + 1
  <2>1. x + 1 \in Int /\ r + 1 \in 0..(n - 1) /\ x + 1 = n * d + (r + 1)  BY <1>1, <1>2, <1>3
  <2> QED  BY Zenon, <2>1, ModIs
<1>4. ASSUME r # 0  PROVE (x - 1) % n = r - 1
  <2>1. x - 1 \in Int /\ r - 1 \in 0..(n - 1) /\ x - 1 = n * d + (r - 1)  BY <1>1, <1>2, <1>4
  <2> QED  BY Zenon, <2>1, ModIs
<1>5. ASSUME r = 0  PROVE (x - 1) % n = n - 1
  <2>1. x - 1 \in Int /\ d - 1 \in Int /\ n - 1 \in 0..(n - 1) /\ x - 1 = n * (d - 1) + (n - 1)
    BY <1>1, <1>5
  <2> QED  BY Zenon, <2>1, ModIs
<1> QED  BY Zenon, <1>3, <1>4, <1>5 DEF r

(* A counter that wraps around at a multiple w of n is as good as one that *)
(* does not.                                                               *)
LEMMA ModWrap ==
  ASSUME NEW n \in Nat \ {0}, NEW w \in Nat \ {0}, w % n = 0
  PROVE  \A x, y \in Int : /\ ((x % w) - y) % n = (x - y) % n
                           /\ (y - (x % w)) % n = (y - x) % n
<1> SUFFICES ASSUME NEW x \in Int, NEW y \in Int
             PROVE  ((x % w) - y) % n = (x - y) % n /\ (y - (x % w)) % n = (y - x) % n
  BY Zenon
<1>1. PICK m \in Int : w = n * m + (w % n)
  <2>1. w \in Int  OBVIOUS
  <2> QED  BY Zenon, <2>1, ModRange
<1>2. PICK q \in Int : x = w * q + (x % w)  BY Zenon, ModRange
<1>3. w = n * m  BY <1>1
<1> DEFINE z == x % w
           k == m * q
           t == n * k
<1>4. z \in Int  BY ModRange
<1>5. k \in Int /\ -k \in Int /\ t \in Int /\ n * (-k) = -t  OBVIOUS
<1>6. w * q = t  BY <1>3
<1>7. x = w * q + z  BY Zenon, <1>2
<1> HIDE DEF z, k
<1>8. x - y = (z - y) + t /\ y - x = (y - z) + (-t)
  <2> HIDE DEF t
  <2> QED  BY <1>4, <1>5, <1>6, <1>7
<1>9. x - y \in Int /\ y - x \in Int /\ z - y \in Int /\ y - z \in Int  BY <1>4
<1>10. x - y = (z - y) + n * k /\ y - x = (y - z) + n * (-k)  BY Zenon, <1>5, <1>8
<1>11. \A a, b, c \in Int : a = b + n * c => a % n = b % n  BY Zenon, ModSame
<1>12. (x - y) % n = (z - y) % n
  <2> DEFINE a == x - y
             b == z - y
  <2>1. a \in Int /\ b \in Int /\ a = b + n * k  BY Zenon, <1>9, <1>10
  <2> HIDE DEF a, b
  <2>2. a % n = b % n  BY ONLY Zenon, n \in Nat \ {0}, <1>5, <2>1, ModSame
  <2> QED  BY Zenon, <2>2 DEF a, b
<1>13. (y - x) % n = (y - z) % n
  <2> DEFINE a == y - x
             b == y - z
  <2>1. a \in Int /\ b \in Int /\ a = b + n * (-k)  BY Zenon, <1>9, <1>10
  <2> HIDE DEF a, b
  <2>2. a % n = b % n  BY ONLY Zenon, n \in Nat \ {0}, <1>5, <2>1, ModSame
  <2> QED  BY Zenon, <2>2 DEF a, b
<1> QED  BY Zenon, <1>12, <1>13 DEF z

(* The index of the ring at the distance of b from a is that of b.         *)
LEMMA ModIndex ==
  ASSUME NEW n \in Nat \ {0}, NEW i \in 0..(n - 1)
  PROVE  \A a, b \in Int : (i - a) % n = (b - a) % n <=> i = b % n
<1> SUFFICES ASSUME NEW a \in Int, NEW b \in Int
             PROVE  (i - a) % n = (b - a) % n <=> i = b % n
  BY Zenon
<1>1. ASSUME i = b % n  PROVE (i - a) % n = (b - a) % n
  <2>1. PICK q \in Int : b = n * q + (b % n)  BY Zenon, ModRange
  <2> DEFINE t == n * q
  <2>2. t \in Int /\ b = t + i  BY <1>1, <2>1
  <2>3. b - a = (i - a) + t /\ b - a \in Int /\ i - a \in Int
    <3> HIDE DEF t
    <3> QED  BY <2>2
  <2> QED  BY Zenon, <2>3, ModSame
<1>2. ASSUME (i - a) % n = (b - a) % n  PROVE i = b % n
  <2> DEFINE r == (i - a) % n
  <2>1. PICK q \in Int : i - a = n * q + r
    <3>1. i - a \in Int  OBVIOUS
    <3> QED  BY Zenon, <3>1, ModRange
  <2>2. PICK u \in Int : b - a = n * u + r
    <3>1. b - a \in Int  OBVIOUS
    <3>2. \E u \in Int : b - a = n * u + ((b - a) % n)  BY Zenon, <3>1, ModRange
    <3> QED  BY Zenon, <1>2, <3>2
  <2>3. r \in Int  BY ModRange
  <2> HIDE DEF r
  <2>4. u - q \in Int /\ b = n * (u - q) + i  BY <2>1, <2>2, <2>3
  <2> QED  BY Zenon, <2>4, ModIs
<1> QED  BY Zenon, <1>1, <1>2

(* An index that moves on by one, at either end of a distance.             *)
LEMMA ModMove ==
  ASSUME NEW n \in Nat \ {0}, NEW w \in Nat \ {0}, w % n = 0
  PROVE  \A a, b \in Int :
           /\ (b - a) % n # n - 1 => (((b + 1) % w) - a) % n = ((b - a) % n) + 1
           /\ (b - a) % n # 0 => (b - ((a + 1) % w)) % n = ((b - a) % n) - 1
           /\ (b - a) % n = 0 => (b - ((a + 1) % w)) % n = n - 1
<1> SUFFICES ASSUME NEW a \in Int, NEW b \in Int
             PROVE  /\ (b - a) % n # n - 1 => (((b + 1) % w) - a) % n = ((b - a) % n) + 1
                    /\ (b - a) % n # 0 => (b - ((a + 1) % w)) % n = ((b - a) % n) - 1
                    /\ (b - a) % n = 0 => (b - ((a + 1) % w)) % n = n - 1
  BY Zenon
<1>1. b + 1 \in Int /\ a + 1 \in Int /\ b - a \in Int  OBVIOUS
<1>2. \A x, y \in Int : ((x % w) - y) % n = (x - y) % n /\ (y - (x % w)) % n = (y - x) % n
  BY Zenon, ModWrap
<1>3. (((b + 1) % w) - a) % n = ((b + 1) - a) % n  BY ZenonT(60), <1>1, <1>2
<1>4. (b - ((a + 1) % w)) % n = (b - (a + 1)) % n  BY Zenon, <1>1, <1>2
<1>5. (b + 1) - a = (b - a) + 1 /\ b - (a + 1) = (b - a) - 1  OBVIOUS
<1> DEFINE x == b - a
<1>6. (((b + 1) % w) - a) % n = (x + 1) % n /\ (b - ((a + 1) % w)) % n = (x - 1) % n
  BY Zenon, <1>3, <1>4, <1>5
<1>7. x \in Int  OBVIOUS
<1> HIDE DEF x
<1>8. /\ x % n # n - 1 => (x + 1) % n = (x % n) + 1
      /\ x % n # 0 => (x - 1) % n = (x % n) - 1
      /\ x % n = 0 => (x - 1) % n = n - 1
  BY Zenon, <1>7, ModNext
<1>9. /\ x % n # n - 1 => (((b + 1) % w) - a) % n = (x % n) + 1
      /\ x % n # 0 => (b - ((a + 1) % w)) % n = (x % n) - 1
      /\ x % n = 0 => (b - ((a + 1) % w)) % n = n - 1
  BY Zenon, <1>6, <1>8
<1> QED  BY Zenon, <1>9 DEF x

-----------------------------------------------------------------------------
(* The descriptors of a request.                                           *)

(* A set of numbers has a smallest one.                                    *)
LEMMA Least ==
  ASSUME NEW S \in SUBSET Nat, S # {}
  PROVE  \E m \in S : \A k \in S : m <= k
<1>1. PICK m \in S : \A k \in S : ~(<<k, m>> \in OpToRel(<, Nat))
  BY Zenon, WFMin, NatLessThanWellFounded
<1>2. \A k \in S : ~(k < m)  BY Zenon, <1>1 DEF OpToRel
<1> QED  BY <1>2

(* alloc3_desc() finds three descriptors, one after the other, if three    *)
(* are free.                                                               *)
LEMMA ChainIs ==
  ASSUME free \in SUBSET Ids, Cardinality(free) >= 3
  PROVE  /\ Chain[1] \in free /\ Chain[2] \in free /\ Chain[3] \in free
         /\ Chain[1] # Chain[2] /\ Chain[1] # Chain[3] /\ Chain[2] # Chain[3]
<1> DEFINE Below(i) == {j \in free : j < i}
<1>1. free \in SUBSET Nat /\ IsFiniteSet(free) /\ IsFiniteSet({})
  <2>1. IsFiniteSet(Ids)  BY DiskAssumption, FS_Interval DEF Ids
  <2>2. free \in SUBSET Nat  BY DEF Ids
  <2> QED  BY Zenon, <2>1, <2>2, FS_Subset, FS_EmptySet
<1>2. PICK a \in free : \A k \in free : a <= k
  <2>1. free # {}  BY FS_EmptySet
  <2> QED  BY Zenon, <1>1, <2>1, Least
<1>3. PICK b \in free \ {a} : \A k \in free \ {a} : b <= k
  <2>1. free \ {a} # {}
    <3>1. Cardinality(free \ {a}) = Cardinality(free) - 1 /\ Cardinality(free) \in Nat
      BY Zenon, <1>1, FS_RemoveElement, FS_CardinalityType
    <3> QED  BY <3>1, FS_EmptySet
  <2>2. free \ {a} \in SUBSET Nat  BY Zenon, <1>1
  <2> QED  BY Zenon, <2>1, <2>2, Least
<1>4. PICK c \in free \ {a, b} : \A k \in free \ {a, b} : c <= k
  <2>1. free \ {a, b} # {}
    <3>1. IsFiniteSet(free \ {a}) /\ Cardinality(free) \in Nat
          /\ Cardinality(free \ {a}) = Cardinality(free) - 1
      BY Zenon, <1>1, FS_RemoveElement, FS_CardinalityType
    <3>2. Cardinality((free \ {a}) \ {b}) = Cardinality(free \ {a}) - 1
      BY Zenon, <3>1, FS_RemoveElement
    <3>3. Cardinality((free \ {a}) \ {b}) # 0  BY <3>1, <3>2
    <3>4. (free \ {a}) \ {b} # {}  BY Zenon, <3>3, FS_EmptySet
    <3> QED  BY Zenon, <3>4
  <2>2. free \ {a, b} \in SUBSET Nat  BY Zenon, <1>1
  <2> QED  BY Zenon, <2>1, <2>2, Least
<1>5. Below(a) = {} /\ Below(b) = {a} /\ Below(c) = {a, b}
  <2>1. a \in Nat /\ b \in Nat /\ c \in Nat /\ a < b /\ b < c  BY <1>1, <1>2, <1>3, <1>4
  <2>2. \A j \in free : j \in Nat /\ ~(j < a) /\ (j < b <=> j = a) /\ (j < c <=> j = a \/ j = b)
    BY <1>1, <1>2, <1>3, <1>4, <2>1
  <2> QED  BY Zenon, <1>3, <1>4, <2>2
<1>6. Cardinality(Below(a)) = 0 /\ Cardinality(Below(b)) = 1 /\ Cardinality(Below(c)) = 2
  <2>1. IsFiniteSet({a}) /\ Cardinality({a}) = 1  BY ZenonT(30), FS_Singleton
  <2>2. Cardinality({a} \cup {b}) = 2
    <3>1. b \notin {a}  BY Zenon, <1>3
    <3>2. Cardinality({a} \cup {b}) = Cardinality({a}) + 1  BY Zenon, <2>1, <3>1, FS_AddElement
    <3> QED  BY <2>1, <3>2
  <2>3. {a} \cup {b} = {a, b}  BY Zenon
  <2> QED  BY Zenon, <1>5, <2>1, <2>2, <2>3, FS_EmptySet
<1>7. \A k \in {1, 2, 3} : \E i \in free : Cardinality(Below(i)) = k - 1
  <2> HIDE DEF Below
  <2>1. a \in free /\ b \in free /\ c \in free  BY Zenon
  <2>2. 1 - 1 = 0 /\ 2 - 1 = 1 /\ 3 - 1 = 2  OBVIOUS
  <2> QED  BY Zenon, <1>6, <2>1, <2>2
<1>8. \A k \in {1, 2, 3} : FreeAt(k) \in free /\ Cardinality(Below(FreeAt(k))) = k - 1
  BY Zenon, <1>7 DEF FreeAt
<1>9. FreeAt(1) # FreeAt(2) /\ FreeAt(1) # FreeAt(3) /\ FreeAt(2) # FreeAt(3)
  <2> HIDE DEF Below
  <2>1. Cardinality(Below(FreeAt(1))) = 0 /\ Cardinality(Below(FreeAt(2))) = 1
        /\ Cardinality(Below(FreeAt(3))) = 2
    BY <1>8
  <2> QED  BY <2>1
<1>10. Chain[1] = FreeAt(1) /\ Chain[2] = FreeAt(2) /\ Chain[3] = FreeAt(3)  BY Zenon DEF Chain
<1> QED  BY Zenon, <1>8, <1>9, <1>10

-----------------------------------------------------------------------------
(* The inductive invariant.  First, the types.                             *)
PCs == {"idle", "alloc", "sleep_free", "wait", "woken"}
Whats == {"none", "out", "in", "read", "write", "status"}
Descs == [addr : Procs \cup {None}, what : Whats, next : 0..NUM]

Types ==
  /\ free \in SUBSET Ids /\ taken \in SUBSET Ids /\ done \in SUBSET Procs
  /\ desc \in [Ids -> Descs]
  /\ info \in [Ids -> Procs \cup {None}]
  /\ avail \in [Ids -> 0..NUM] /\ used \in [Ids -> 0..NUM]
  /\ avail_idx \in 0..(W - 1) /\ seen \in 0..(W - 1)
  /\ used_id \in 0..(W - 1) /\ used_idx \in Ids
  /\ bdisk \in [Procs -> BOOLEAN] /\ write \in [Procs -> BOOLEAN]
  /\ pc \in [Procs -> PCs] /\ idx \in [Procs -> 0..NUM]
  /\ handler \in {"none", "loop", "ack"}

(* A request has three descriptors, formatted for it, the first of which   *)
(* disk.info leads back from.                                              *)
Second(p) == desc[idx[p]].next
Third(p) == desc[Second(p)].next

Formatted(p) ==
  /\ idx[p] \in Ids /\ Second(p) \in Ids /\ Third(p) \in Ids
  /\ idx[p] # Second(p) /\ idx[p] # Third(p) /\ Second(p) # Third(p)
  /\ desc[idx[p]].addr = p /\ desc[idx[p]].what = (IF write[p] THEN "out" ELSE "in")
  /\ desc[Second(p)].addr = p /\ desc[Second(p)].what = (IF write[p] THEN "read" ELSE "write")
  /\ desc[Third(p)].addr = p /\ desc[Third(p)].what = "status" /\ desc[Third(p)].next = NUM
  /\ info[idx[p]] = p

(* A descriptor that is not free is one of the three of the request whose  *)
(* address it holds.                                                       *)
Owned(i) ==
  IF i \in free THEN desc[i].addr = None
  ELSE /\ desc[i].addr \in Busy
       /\ i \in {idx[desc[i].addr], Second(desc[i].addr), Third(desc[i].addr)}

Chains ==
  /\ \A p \in Busy : Formatted(p)
  /\ \A i \in Ids : Owned(i)
  /\ \A i \in Ids : info[i] # None => info[i] \in Busy /\ idx[info[i]] = i
  /\ IsFiniteSet(Busy) /\ Cardinality(free) + 3 * Cardinality(Busy) = NUM

(* A request the device has, or whose completion the handler has not seen  *)
InFlight(i) == i \in Ids /\ info[i] # None /\ bdisk[info[i]]

(* Each is in one place: the available ring, the device or the used ring.  *)
Apart ==
  /\ \A i \in taken : InFlight(i)
  /\ \A i \in Ids : avail[i] # NUM =>
       /\ InFlight(avail[i]) /\ avail[i] \notin taken
       /\ \A j \in Ids : used[j] # avail[i] /\ (j # i => avail[j] # avail[i])
  /\ \A i \in Ids : used[i] # NUM =>
       /\ InFlight(used[i]) /\ used[i] \notin taken /\ info[used[i]] \in done
       /\ \A j \in Ids : j # i => used[j] # used[i]

(* The entries of the available ring that the device has not seen          *)
Pend == (avail_idx - seen) % W

(* The entries in use of each ring are those between its two indices.      *)
AvailAt == \A i \in Ids : avail[i] # NUM <=> (i - seen) % NUM < Pend
UsedAt == \A i \in Ids : used[i] # NUM <=> (i - used_idx) % NUM < Unread

(* The buffers the disk has, and that they are all in one of the places.   *)
Waiting == {p \in Procs : bdisk[p]}
Load == Cardinality(taken) + Unread + Pend = Cardinality(Waiting)

Done ==
  /\ \A p \in Procs : bdisk[p] => p \in Busy
  /\ \A p \in Busy : ~bdisk[p] => p \in done

Rings == Apart /\ AvailAt /\ UsedAt /\ Load /\ Done

IInv == Types /\ Chains /\ Rings

(* The constants as the proofs use them.                                   *)
LEMMA Sizes ==
  /\ NUM \in Nat \ {0} /\ NUM >= 3 /\ W \in Nat \ {0} /\ W >= NUM /\ W % NUM = 0
  /\ None \notin Procs
BY DiskAssumption

(* disk.info of a free descriptor is clear.                                *)
LEMMA FreeInfo ==
  ASSUME Chains, NEW i \in Ids, i \in free
  PROVE  info[i] = None
BY Sizes DEF Chains, Owned, Formatted, Busy

(* At most NUM / 3 requests are in progress.                               *)
LEMMA Bound ==
  ASSUME Types, Chains, Done, Load
  PROVE  /\ Unread \in 0..(NUM - 1) /\ Pend \in 0..(W - 1)
         /\ IsFiniteSet(taken) /\ IsFiniteSet(Waiting) /\ IsFiniteSet(free)
         /\ Cardinality(taken) \in Nat /\ Cardinality(free) \in Nat /\ Cardinality(Busy) \in Nat
         /\ Cardinality(taken) + Unread + Pend <= Cardinality(Busy)
         /\ 3 * Cardinality(Busy) <= NUM
<1>1. Unread \in 0..(NUM - 1) /\ Pend \in 0..(W - 1)
  <2>1. used_id - used_idx \in Int /\ avail_idx - seen \in Int  BY Sizes DEF Types, Ids
  <2> QED  BY Zenon, <2>1, ModRange, Sizes DEF Unread, Pend
<1>2. IsFiniteSet(taken) /\ IsFiniteSet(free)
  <2>1. IsFiniteSet(Ids)  BY Sizes, FS_Interval DEF Ids
  <2> QED  BY Zenon, <2>1, FS_Subset DEF Types
<1>3. IsFiniteSet(Busy)  BY Zenon DEF Chains
<1>4. Cardinality(taken) \in Nat /\ Cardinality(free) \in Nat /\ Cardinality(Busy) \in Nat
  BY Zenon, <1>2, <1>3, FS_CardinalityType
<1>5. Waiting \in SUBSET Busy  BY Zenon DEF Waiting, Done
<1>6. IsFiniteSet(Waiting) /\ Cardinality(Waiting) <= Cardinality(Busy)
  BY Zenon, <1>3, <1>5, FS_Subset
<1>7. 3 * Cardinality(Busy) <= NUM  BY <1>4, Sizes DEF Chains
<1> QED  BY Zenon, <1>1, <1>2, <1>4, <1>6, <1>7 DEF Load

-----------------------------------------------------------------------------
(* The chains.                                                             *)

(* A step that keeps the descriptors and who is in progress.               *)
LEMMA ChainsStay ==
  ASSUME Chains, UNCHANGED <<free, desc, info, idx>>, Busy' = Busy,
         \A p \in Busy : write'[p] = write[p]
  PROVE  Chains'
<1>1. ASSUME NEW p \in Busy  PROVE Formatted(p)'
  <2>1. Formatted(p)  BY Zenon DEF Chains
  <2> QED  BY ZenonT(30), <2>1 DEF Formatted, Second, Third
<1>2. ASSUME NEW i \in Ids  PROVE Owned(i)'
  <2>1. Owned(i)  BY Zenon DEF Chains
  <2> QED  BY Zenon, <2>1 DEF Owned, Second, Third
<1> QED  BY Zenon, <1>1, <1>2 DEF Chains

(* submit: three free descriptors become the chain of p.                   *)
LEMMA SubmitChains ==
  ASSUME Types, Chains, Done, NEW p \in Procs, submit(p)
  PROVE  Chains'
<1> DEFINE i == Chain[1]
           j == Chain[2]
           k == Chain[3]
<1>1. /\ i \in free /\ j \in free /\ k \in free /\ i # j /\ i # k /\ j # k
      /\ i \in Ids /\ j \in Ids /\ k \in Ids
  BY Zenon, ChainIs DEF submit, Types
<1>2. /\ pc[p] = "alloc"
      /\ free' = free \ {i, j, k}
      /\ info' = [info EXCEPT ![i] = p]
      /\ idx' = [idx EXCEPT ![p] = i]
      /\ pc' = [pc EXCEPT ![p] = "wait"] /\ write' = write
  BY Zenon DEF submit, Set
<1>3. /\ desc' = [desc EXCEPT
           ![i] = [addr |-> p, what |-> IF write[p] THEN "out" ELSE "in", next |-> j],
           ![j] = [addr |-> p, what |-> IF write[p] THEN "read" ELSE "write", next |-> k],
           ![k] = [addr |-> p, what |-> "status", next |-> NUM]]
  BY Zenon DEF submit
<1> HIDE DEF i, j, k
<1>4. /\ desc'[i] = [addr |-> p, what |-> IF write[p] THEN "out" ELSE "in", next |-> j]
      /\ desc'[j] = [addr |-> p, what |-> IF write[p] THEN "read" ELSE "write", next |-> k]
      /\ desc'[k] = [addr |-> p, what |-> "status", next |-> NUM]
      /\ \A x \in Ids \ {i, j, k} : desc'[x] = desc[x]
  BY Zenon, <1>1, <1>3 DEF Types
<1>5. p \notin Busy /\ Busy' = Busy \cup {p}
  BY Zenon, <1>2 DEF Busy, Types
<1>6. idx'[p] = i /\ info'[i] = p /\ Second(p)' = j /\ Third(p)' = k
  BY <1>1, <1>2, <1>4 DEF Types, Second, Third
<1>7. Formatted(p)'
  BY <1>1, <1>2, <1>4, <1>6 DEF Formatted
<1>8. ASSUME NEW q \in Busy
      PROVE  /\ idx'[q] = idx[q] /\ Second(q)' = Second(q) /\ Third(q)' = Third(q)
             /\ idx[q] \in Ids \ {i, j, k} /\ Second(q) \in Ids \ {i, j, k}
             /\ Third(q) \in Ids \ {i, j, k}
  <2>1. q # p /\ q \in Procs /\ q # None  BY Zenon, <1>5, Sizes DEF Busy
  <2>2. idx'[q] = idx[q]  BY Zenon, <1>2, <2>1 DEF Types
  <2>3. Formatted(q)  BY Zenon DEF Chains
  <2>4. desc[i].addr = None /\ desc[j].addr = None /\ desc[k].addr = None
    BY Zenon, <1>1 DEF Chains, Owned
  <2>5. /\ idx[q] \in Ids \ {i, j, k} /\ Second(q) \in Ids \ {i, j, k}
        /\ Third(q) \in Ids \ {i, j, k}
    BY Zenon, <2>1, <2>3, <2>4 DEF Formatted
  <2>6. Second(q)' = Second(q)  BY Zenon, <1>4, <2>2, <2>5 DEF Second
  <2>7. Third(q)' = Third(q)  BY ZenonT(60), <1>4, <2>5, <2>6 DEF Third
  <2> QED  BY Zenon, <2>2, <2>5, <2>6, <2>7
<1>9. ASSUME NEW q \in Busy  PROVE Formatted(q)'
  <2>1. Formatted(q)  BY Zenon DEF Chains
  <2>2. info'[idx[q]] = info[idx[q]]  BY Zenon, <1>1, <1>2, <1>8 DEF Types
  <2> QED  BY <1>2, <1>4, <1>8, <2>1, <2>2 DEF Formatted
<1>10. ASSUME NEW x \in Ids  PROVE Owned(x)'
  <2>1. CASE x \in {i, j, k}
    BY <1>1, <1>2, <1>4, <1>5, <1>6, <2>1 DEF Owned
  <2>2. CASE x \notin {i, j, k}
    <3>1. desc'[x] = desc[x] /\ (x \in free' <=> x \in free)  BY Zenon, <1>2, <1>4, <2>2
    <3>2. Owned(x)  BY Zenon DEF Chains
    <3>3. CASE x \in free  BY Zenon, <3>1, <3>2, <3>3 DEF Owned
    <3>4. CASE x \notin free
      <4>1. desc[x].addr \in Busy  BY Zenon, <3>2, <3>4 DEF Owned
      <4> QED  BY Zenon, <1>5, <1>8, <3>1, <3>2, <3>4, <4>1 DEF Owned
    <3> QED  BY Zenon, <3>3, <3>4
  <2> QED  BY Zenon, <2>1, <2>2
<1>11. ASSUME NEW x \in Ids, info'[x] # None  PROVE info'[x] \in Busy' /\ idx'[info'[x]] = x
  <2>1. CASE x = i  BY Zenon, <1>5, <1>6, <2>1
  <2>2. CASE x # i
    <3>1. info'[x] = info[x]  BY Zenon, <1>1, <1>2, <2>2 DEF Types
    <3>2. info[x] \in Busy /\ idx[info[x]] = x  BY Zenon, <1>11, <3>1 DEF Chains
    <3> QED  BY Zenon, <1>5, <1>8, <3>1, <3>2
  <2> QED  BY Zenon, <2>1, <2>2
<1>12. IsFiniteSet(Busy') /\ Cardinality(Busy') = Cardinality(Busy) + 1
  BY Zenon, <1>5, FS_AddElement DEF Chains
<1>13. Cardinality(free') = Cardinality(free) - 3 /\ Cardinality(free) \in Nat
  <2>1. IsFiniteSet(free) /\ Cardinality(free) \in Nat
    <3>1. IsFiniteSet(Ids)  BY Sizes, FS_Interval DEF Ids
    <3> QED  BY Zenon, <3>1, FS_Subset, FS_CardinalityType DEF Types
  <2>2. IsFiniteSet(free \ {i}) /\ Cardinality(free \ {i}) = Cardinality(free) - 1
    BY Zenon, <1>1, <2>1, FS_RemoveElement
  <2>3. /\ IsFiniteSet((free \ {i}) \ {j})
        /\ Cardinality((free \ {i}) \ {j}) = Cardinality(free \ {i}) - 1
    <3>1. j \in free \ {i}  BY Zenon, <1>1
    <3> QED  BY Zenon, <3>1, <2>2, FS_RemoveElement
  <2>4. Cardinality(((free \ {i}) \ {j}) \ {k}) = Cardinality((free \ {i}) \ {j}) - 1
    <3>1. k \in (free \ {i}) \ {j}  BY Zenon, <1>1
    <3> QED  BY Zenon, <3>1, <2>3, FS_RemoveElement
  <2>5. ((free \ {i}) \ {j}) \ {k} = free'  BY Zenon, <1>2
  <2> QED  BY <2>1, <2>2, <2>3, <2>4, <2>5
<1>14. Cardinality(free') + 3 * Cardinality(Busy') = NUM
  <2>1. Cardinality(Busy) \in Nat  BY Zenon, FS_CardinalityType DEF Chains
  <2> QED  BY <1>12, <1>13, <2>1, Sizes DEF Chains
<1> QED  BY Zenon, <1>5, <1>7, <1>9, <1>10, <1>11, <1>12, <1>14 DEF Chains

(* finish: the chain of p becomes free.                                    *)
LEMMA FinishChains ==
  ASSUME Types, Chains, NEW p \in Procs, finish(p)
  PROVE  Chains'
<1>1. PICK i, j, k \in Ids : /\ i = idx[p] /\ j = Second(p) /\ k = Third(p)
                             /\ i # j /\ i # k /\ j # k
  <2>1. p \in Busy  BY Zenon DEF Busy, finish
  <2> QED  BY <2>1 DEF Chains, Formatted
<1>2. Formatted(p) /\ p \in Busy  BY Zenon DEF Chains, Busy, finish
<1>3. ChainOf(idx[p]) = {i, j, k}
  <2>1. j # NUM /\ k # NUM /\ i # NUM  BY Sizes DEF Ids
  <2>2. desc[i].next = j /\ desc[j].next = k  BY Zenon, <1>1 DEF Second, Third
  <2> QED  BY Zenon, <1>1, <2>1, <2>2 DEF ChainOf
<1>4. /\ pc[p] = "woken"
      /\ free' = free \cup {i, j, k}
      /\ info' = [info EXCEPT ![i] = None]
      /\ desc' = [x \in Ids |-> IF x \in {i, j, k} THEN NoDesc ELSE desc[x]]
      /\ pc' = [WakeFree(pc) EXCEPT ![p] = "idle"]
      /\ idx' = [idx EXCEPT ![p] = NUM]
      /\ write' = [write EXCEPT ![p] = FALSE]
  BY Zenon, <1>1, <1>3 DEF finish
<1>5. p \in Busy /\ Busy' = Busy \ {p}
  <2>1. \A q \in Procs : q # p => (pc'[q] \in {"wait", "woken"} <=> pc[q] \in {"wait", "woken"})
    BY Zenon, <1>4 DEF WakeFree, Types
  <2>2. pc'[p] = "idle"  BY Zenon, <1>4 DEF WakeFree, Types
  <2> QED  BY Zenon, <1>2, <2>1, <2>2 DEF Busy
<1>6. ASSUME NEW q \in Busy \ {p}
      PROVE  /\ idx'[q] = idx[q] /\ Second(q)' = Second(q) /\ Third(q)' = Third(q)
             /\ idx[q] \in Ids \ {i, j, k} /\ Second(q) \in Ids \ {i, j, k}
             /\ Third(q) \in Ids \ {i, j, k} /\ write'[q] = write[q]
  <2>1. q # p /\ q \in Procs  BY Zenon DEF Busy
  <2>2. idx'[q] = idx[q] /\ write'[q] = write[q]  BY Zenon, <1>4, <2>1 DEF Types
  <2>3. Formatted(q)  BY Zenon DEF Chains
  <2>4. desc[i].addr = p /\ desc[j].addr = p /\ desc[k].addr = p
    BY Zenon, <1>1, <1>2 DEF Formatted
  <2>5. /\ idx[q] \in Ids \ {i, j, k} /\ Second(q) \in Ids \ {i, j, k}
        /\ Third(q) \in Ids \ {i, j, k}
    BY Zenon, <2>1, <2>3, <2>4 DEF Formatted
  <2>6. Second(q)' = Second(q)  BY Zenon, <1>4, <2>2, <2>5 DEF Second
  <2>7. Third(q)' = Third(q)  BY ZenonT(60), <1>4, <2>5, <2>6 DEF Third
  <2> QED  BY Zenon, <2>2, <2>5, <2>6, <2>7
<1>7. ASSUME NEW q \in Busy \ {p}  PROVE Formatted(q)'
  <2>1. Formatted(q)  BY Zenon DEF Chains
  <2>2. info'[idx[q]] = info[idx[q]]  BY Zenon, <1>4, <1>6 DEF Types
  <2>3. /\ desc'[idx[q]] = desc[idx[q]] /\ desc'[Second(q)] = desc[Second(q)]
        /\ desc'[Third(q)] = desc[Third(q)]
    BY Zenon, <1>4, <1>6
  <2> QED  BY <1>6, <2>1, <2>2, <2>3 DEF Formatted
<1>8. ASSUME NEW x \in Ids  PROVE Owned(x)'
  <2>1. CASE x \in {i, j, k}
    <3>1. x \in free' /\ desc'[x] = NoDesc  BY Zenon, <1>4, <2>1
    <3> QED  BY <3>1 DEF Owned, NoDesc
  <2>2. CASE x \notin {i, j, k}
    <3>1. desc'[x] = desc[x] /\ (x \in free' <=> x \in free)  BY Zenon, <1>4, <2>2
    <3>2. Owned(x)  BY Zenon DEF Chains
    <3>3. CASE x \in free  BY Zenon, <3>1, <3>2, <3>3 DEF Owned
    <3>4. CASE x \notin free
      <4>1. desc[x].addr \in Busy \ {p}  BY Zenon, <1>1, <2>2, <3>2, <3>4 DEF Owned
      <4> QED  BY Zenon, <1>5, <1>6, <3>1, <3>2, <3>4, <4>1 DEF Owned
    <3> QED  BY Zenon, <3>3, <3>4
  <2> QED  BY ZenonT(60), <2>1, <2>2
<1>9. ASSUME NEW x \in Ids, info'[x] # None  PROVE info'[x] \in Busy' /\ idx'[info'[x]] = x
  <2>1. x # i /\ info'[x] = info[x]  BY Zenon, <1>4, <1>9 DEF Types
  <2>2. info[x] \in Busy /\ idx[info[x]] = x  BY Zenon, <1>9, <2>1 DEF Chains
  <2>3. info[x] # p  BY Zenon, <1>1, <2>1, <2>2
  <2> QED  BY Zenon, <1>5, <1>6, <2>1, <2>2, <2>3
<1>10. IsFiniteSet(Busy') /\ Cardinality(Busy') = Cardinality(Busy) - 1
  BY Zenon, <1>5, FS_RemoveElement DEF Chains
<1>11. Cardinality(free') = Cardinality(free) + 3 /\ Cardinality(free) \in Nat
  <2>1. IsFiniteSet(free) /\ Cardinality(free) \in Nat
    <3>1. IsFiniteSet(Ids)  BY Sizes, FS_Interval DEF Ids
    <3> QED  BY Zenon, <3>1, FS_Subset, FS_CardinalityType DEF Types
  <2>2. i \notin free /\ j \notin free /\ k \notin free
    <3>1. p # None  BY Zenon, Sizes
    <3>2. desc[i].addr = p /\ desc[j].addr = p /\ desc[k].addr = p
      BY Zenon, <1>1, <1>2 DEF Formatted
    <3> QED  BY Zenon, <3>1, <3>2 DEF Chains, Owned
  <2>3. IsFiniteSet(free \cup {i}) /\ Cardinality(free \cup {i}) = Cardinality(free) + 1
    BY Zenon, <2>1, <2>2, FS_AddElement
  <2>4. /\ IsFiniteSet((free \cup {i}) \cup {j})
        /\ Cardinality((free \cup {i}) \cup {j}) = Cardinality(free \cup {i}) + 1
    <3>1. j \notin free \cup {i}  BY Zenon, <1>1, <2>2
    <3> QED  BY Zenon, <3>1, <2>3, FS_AddElement
  <2>5. Cardinality(((free \cup {i}) \cup {j}) \cup {k}) = Cardinality((free \cup {i}) \cup {j}) + 1
    <3>1. k \notin (free \cup {i}) \cup {j}  BY Zenon, <1>1, <2>2
    <3> QED  BY Zenon, <3>1, <2>4, FS_AddElement
  <2>6. ((free \cup {i}) \cup {j}) \cup {k} = free'  BY Zenon, <1>4
  <2>7. Cardinality(free') = Cardinality((free \cup {i}) \cup {j}) + 1  BY Zenon, <2>5, <2>6
  <2> QED  BY <2>1, <2>3, <2>4, <2>7
<1>12. Cardinality(free') + 3 * Cardinality(Busy') = NUM
  <2>1. Cardinality(Busy) \in Nat  BY Zenon, FS_CardinalityType DEF Chains
  <2> QED  BY <1>10, <1>11, <2>1, Sizes DEF Chains
<1> QED  BY ZenonT(60), <1>5, <1>7, <1>8, <1>9, <1>10, <1>12 DEF Chains

-----------------------------------------------------------------------------
(* The indices of the rings.                                               *)

(* The entry after the last pending one is the one that avail_idx names,   *)
(* and the first is the one that the device looks at.                      *)
LEMMA AvailEnds ==
  ASSUME Types, NEW i \in Ids
  PROVE  /\ Pend < NUM => ((i - seen) % NUM = Pend <=> i = avail_idx % NUM)
         /\ (i - seen) % NUM = 0 <=> i = seen % NUM
         /\ avail_idx % NUM \in Ids /\ seen % NUM \in Ids
<1>1. /\ NUM \in Nat \ {0} /\ W \in Nat \ {0} /\ W % NUM = 0
      /\ avail_idx \in Int /\ seen \in Int /\ avail_idx - seen \in Int /\ 0 \in Int
      /\ i \in 0..(NUM - 1)
  BY Sizes DEF Types, Ids
<1>2. (((avail_idx - seen) % W) - 0) % NUM = ((avail_idx - seen) - 0) % NUM
  <2>1. \A x, y \in Int : /\ ((x % W) - y) % NUM = (x - y) % NUM
                          /\ (y - (x % W)) % NUM = (y - x) % NUM
    BY ZenonT(60), <1>1, ModWrap
  <2> QED  BY Zenon, <1>1, <2>1
<1>3. Pend \in 0..(W - 1)  BY Zenon, <1>1, ModRange DEF Pend
<1>4. Pend - 0 = Pend /\ (avail_idx - seen) - 0 = avail_idx - seen  BY <1>1, <1>3
<1>5. Pend % NUM = (avail_idx - seen) % NUM  BY Zenon, <1>2, <1>4 DEF Pend
<1>6. Pend < NUM => Pend % NUM = Pend
  <2>1. Pend < NUM => Pend \in 0..(NUM - 1) /\ Pend \in Int  BY <1>1, <1>3
  <2> QED  BY Zenon, <1>1, <2>1, ModRange
<1>7. \A a, b \in Int : (i - a) % NUM = (b - a) % NUM <=> i = b % NUM
  BY ZenonT(60), <1>1, ModIndex
<1>8. /\ (i - seen) % NUM = (avail_idx - seen) % NUM <=> i = avail_idx % NUM
      /\ (i - seen) % NUM = (seen - seen) % NUM <=> i = seen % NUM
  <2>1. i \in 0..(NUM - 1) /\ seen \in Int /\ avail_idx \in Int  BY Zenon, <1>1
  <2>2. (i - seen) % NUM = (avail_idx - seen) % NUM <=> i = avail_idx % NUM
    BY Zenon, <2>1, <1>7
  <2>3. (i - seen) % NUM = (seen - seen) % NUM <=> i = seen % NUM  BY Zenon, <2>1, <1>7
  <2> QED  BY Zenon, <2>2, <2>3
<1>9. (seen - seen) % NUM = 0  BY <1>1
<1>10. avail_idx % NUM \in Ids /\ seen % NUM \in Ids  BY Zenon, <1>1, ModRange DEF Ids
<1> QED  BY Zenon, <1>5, <1>6, <1>8, <1>9, <1>10

(* The same for the used ring, between used_idx and the device's counter.  *)
LEMMA UsedEnds ==
  ASSUME Types, NEW i \in Ids
  PROVE  /\ (i - used_idx) % NUM = Unread <=> i = used_id % NUM
         /\ (i - used_idx) % NUM = 0 <=> i = used_idx
         /\ used_id % NUM \in Ids
<1>1. /\ NUM \in Nat \ {0} /\ used_id \in Int /\ used_idx \in Int
      /\ i \in 0..(NUM - 1) /\ used_idx \in 0..(NUM - 1)
  BY Sizes DEF Types, Ids
<1>2. \A a, b \in Int : (i - a) % NUM = (b - a) % NUM <=> i = b % NUM
  BY Zenon, <1>1, ModIndex
<1>3. /\ (i - used_idx) % NUM = (used_id - used_idx) % NUM <=> i = used_id % NUM
      /\ (i - used_idx) % NUM = (used_idx - used_idx) % NUM <=> i = used_idx % NUM
  <2>1. i \in 0..(NUM - 1) /\ used_idx \in Int /\ used_id \in Int  BY ZenonT(60), <1>1
  <2>2. (i - used_idx) % NUM = (used_id - used_idx) % NUM <=> i = used_id % NUM
    BY Zenon, <2>1, <1>2
  <2>3. (i - used_idx) % NUM = (used_idx - used_idx) % NUM <=> i = used_idx % NUM
    BY Zenon, <2>1, <1>2
  <2> QED  BY Zenon, <2>2, <2>3
<1>4. (used_idx - used_idx) % NUM = 0 /\ used_idx % NUM = used_idx  BY <1>1
<1>5. used_id % NUM \in Ids  BY Zenon, <1>1, ModRange DEF Ids
<1> QED  BY Zenon, <1>3, <1>4, <1>5 DEF Unread

(* Distances from an index are indices.                                    *)
LEMMA Distance ==
  ASSUME Types, NEW i \in Ids
  PROVE  (i - seen) % NUM \in 0..(NUM - 1) /\ (i - used_idx) % NUM \in 0..(NUM - 1)
<1>1. NUM \in Nat \ {0} /\ i - seen \in Int /\ i - used_idx \in Int  BY Sizes DEF Types, Ids
<1> QED  BY Zenon, <1>1, ModRange

(* One more entry is available, or seen.                                   *)
LEMMA PendMoves ==
  ASSUME Types
  PROVE  /\ Pend # W - 1 /\ avail_idx' = (avail_idx + 1) % W /\ seen' = seen => Pend' = Pend + 1
         /\ Pend # 0 /\ seen' = (seen + 1) % W /\ avail_idx' = avail_idx => Pend' = Pend - 1
<1>1. W \in Nat \ {0} /\ W % W = 0 /\ avail_idx \in Int /\ seen \in Int  BY Sizes DEF Types
<1>2. \A a, b \in Int :
        /\ (b - a) % W # W - 1 => (((b + 1) % W) - a) % W = ((b - a) % W) + 1
        /\ (b - a) % W # 0 => (b - ((a + 1) % W)) % W = ((b - a) % W) - 1
        /\ (b - a) % W = 0 => (b - ((a + 1) % W)) % W = W - 1
  BY Zenon, <1>1, ModMove
<1>3. /\ Pend # W - 1 => (((avail_idx + 1) % W) - seen) % W = Pend + 1
      /\ Pend # 0 => (avail_idx - ((seen + 1) % W)) % W = Pend - 1
  BY Zenon, <1>1, <1>2 DEF Pend
<1> QED  BY Zenon, <1>3 DEF Pend

(* One more entry is used, or read.                                        *)
LEMMA UnreadMoves ==
  ASSUME Types
  PROVE  /\ Unread # NUM - 1 /\ used_id' = (used_id + 1) % W /\ used_idx' = used_idx
              => Unread' = Unread + 1
         /\ Unread # 0 /\ used_idx' = (used_idx + 1) % NUM /\ used_id' = used_id
              => Unread' = Unread - 1
<1>1. /\ NUM \in Nat \ {0} /\ NUM % NUM = 0 /\ W \in Nat \ {0} /\ W % NUM = 0
      /\ used_id \in Int /\ used_idx \in Int
  BY Sizes DEF Types, Ids
<1>2. \A w \in {W, NUM} : \A a, b \in Int :
        /\ (b - a) % NUM # NUM - 1 => (((b + 1) % w) - a) % NUM = ((b - a) % NUM) + 1
        /\ (b - a) % NUM # 0 => (b - ((a + 1) % w)) % NUM = ((b - a) % NUM) - 1
        /\ (b - a) % NUM = 0 => (b - ((a + 1) % w)) % NUM = NUM - 1
  <2> SUFFICES ASSUME NEW w \in {W, NUM}
               PROVE  \A a, b \in Int :
        /\ (b - a) % NUM # NUM - 1 => (((b + 1) % w) - a) % NUM = ((b - a) % NUM) + 1
        /\ (b - a) % NUM # 0 => (b - ((a + 1) % w)) % NUM = ((b - a) % NUM) - 1
        /\ (b - a) % NUM = 0 => (b - ((a + 1) % w)) % NUM = NUM - 1
    BY ZenonT(30)
  <2>1. w \in Nat \ {0} /\ w % NUM = 0 /\ NUM \in Nat \ {0}  BY Zenon, <1>1
  <2> QED  BY ZenonT(60), <2>1, ModMove
<1>3. /\ Unread # NUM - 1 => (((used_id + 1) % W) - used_idx) % NUM = Unread + 1
      /\ Unread # 0 => (used_id - ((used_idx + 1) % NUM)) % NUM = Unread - 1
  BY Zenon, <1>1, <1>2 DEF Unread
<1> QED  BY Zenon, <1>3 DEF Unread

(* The handler's test finds an entry exactly when one is unread.           *)
LEMMA MoreIs ==
  ASSUME Types
  PROVE  More <=> Unread # 0
<1>1. used_idx \in Ids  BY Zenon DEF Types
<1>2. (used_idx - used_idx) % NUM = 0 /\ used_idx % NUM = used_idx
  <2>1. NUM \in Nat \ {0} /\ used_idx \in 0..(NUM - 1)  BY Zenon, <1>1, Sizes DEF Ids
  <2> QED  BY <2>1
<1>3. (used_idx - used_idx) % NUM = Unread <=> used_idx = used_id % NUM
  BY Zenon, <1>1, UsedEnds
<1> DEFINE d == (used_idx - used_idx) % NUM
           m == used_id % NUM
<1>4. d = 0 /\ (d = Unread <=> used_idx = m) /\ (More <=> used_idx # m)
  BY Zenon, <1>2, <1>3 DEF More
<1> HIDE DEF d, m
<1> QED  BY Zenon, <1>4

-----------------------------------------------------------------------------
(* The rings.                                                              *)

(* A step that keeps the rings and the requests in progress.               *)
LEMMA RingsStay ==
  ASSUME Rings, Busy' = Busy,
         UNCHANGED <<info, avail, avail_idx, used, used_id, used_idx, bdisk, seen, taken, done>>
  PROVE  Rings'
<1>1. \A i : InFlight(i)' <=> InFlight(i)  BY Zenon DEF InFlight
<1>2. Apart'  BY Zenon, <1>1 DEF Rings, Apart
<1>3. Pend' = Pend /\ Unread' = Unread /\ Waiting' = Waiting  BY Zenon DEF Pend, Unread, Waiting
<1>4. AvailAt' /\ UsedAt'  BY Zenon, <1>3 DEF Rings, AvailAt, UsedAt
<1>5. Load' /\ Done'  BY Zenon, <1>3 DEF Rings, Load, Done
<1> QED  BY Zenon, <1>2, <1>4, <1>5 DEF Rings

(* submit: a free descriptor heads the new request, and its entry comes    *)
(* after the pending ones.                                                 *)
LEMMA SubmitRings ==
  ASSUME IInv, Chains', NEW p \in Procs, submit(p)
  PROVE  Rings'
<1> USE DEF IInv
<1>1. PICK h \in Ids : h = Chain[1] /\ h \in free
  BY Zenon, ChainIs DEF submit, Types
<1>2. PICK m \in Ids : m = avail_idx % NUM
  BY Zenon, <1>1, AvailEnds
<1>3. /\ pc[p] = "alloc"
      /\ info' = [info EXCEPT ![h] = p]
      /\ bdisk' = [bdisk EXCEPT ![p] = TRUE]
      /\ avail' = [avail EXCEPT ![m] = h]
      /\ avail_idx' = (avail_idx + 1) % W
      /\ pc' = [pc EXCEPT ![p] = "wait"]
      /\ UNCHANGED <<used_idx, used, used_id, seen, taken, done>>
  BY Zenon, <1>1, <1>2 DEF submit, Set, device
<1>4. p \notin Busy /\ Busy' = Busy \cup {p} /\ ~bdisk[p]
  BY Zenon, <1>3 DEF Busy, Types, Rings, Done
<1>5. info[h] = None /\ h # NUM /\ ~InFlight(h)
  <2>1. info[h] = None  BY Zenon, <1>1, FreeInfo
  <2> QED  BY <2>1, Sizes DEF Ids, InFlight
<1>6. /\ Pend \in Nat /\ Unread \in Nat /\ Cardinality(taken) \in Nat
      /\ Pend < NUM /\ Pend # W - 1
  <2>1. /\ Unread \in 0..(NUM - 1) /\ Pend \in 0..(W - 1)
        /\ Cardinality(taken) \in Nat /\ Cardinality(Busy) \in Nat /\ Cardinality(free) \in Nat
        /\ Cardinality(taken) + Unread + Pend <= Cardinality(Busy)
    BY Zenon, Bound DEF Rings
  <2>2. Cardinality(free) + 3 * Cardinality(Busy) = NUM /\ Cardinality(free) >= 3
    BY Zenon DEF Chains, submit
  <2>3. Pend <= Cardinality(Busy) /\ 3 * Cardinality(Busy) + 3 <= NUM  BY <2>1, <2>2, Sizes
  <2> QED  BY <2>1, <2>3, Sizes
<1>7. Pend' = Pend + 1  BY Zenon, <1>3, <1>6, PendMoves
<1>8. Unread' = Unread  BY Zenon, <1>3 DEF Unread
<1>9. avail[m] = NUM
  <2>1. (m - seen) % NUM = Pend  BY Zenon, <1>2, <1>6, AvailEnds
  <2>2. ~((m - seen) % NUM < Pend)  BY <1>6, <2>1
  <2> QED  BY Zenon, <2>2 DEF Rings, AvailAt
<1>10. /\ \A i \in Ids : i # h => info'[i] = info[i]
       /\ info'[h] = p /\ bdisk'[p] /\ \A q \in Procs : q # p => bdisk'[q] = bdisk[q]
       /\ avail'[m] = h /\ \A i \in Ids : i # m => avail'[i] = avail[i]
  BY Zenon, <1>1, <1>3 DEF Types
<1>11. \A i : InFlight(i) => InFlight(i)' /\ info'[i] = info[i]
  <2> SUFFICES ASSUME NEW i, InFlight(i)  PROVE InFlight(i)' /\ info'[i] = info[i]
    BY SMTT(30)
  <2>1. i \in Ids /\ info[i] # None /\ bdisk[info[i]] /\ i # h  BY Zenon, <1>5 DEF InFlight
  <2>2. info[i] \in Procs /\ info[i] # p  BY Zenon, <1>4, <2>1 DEF Types
  <2> QED  BY Zenon, <1>10, <2>1, <2>2 DEF InFlight
<1>12. InFlight(h)'  BY Zenon, <1>1, <1>10, Sizes DEF InFlight
<1>13. Apart'
  <2>1. ASSUME NEW i \in taken'  PROVE InFlight(i)'
    BY Zenon, <1>3, <1>11 DEF Rings, Apart
  <2>2. ASSUME NEW i \in Ids, avail'[i] # NUM
        PROVE  /\ InFlight(avail[i])' /\ avail'[i] \notin taken'
               /\ \A j \in Ids : used'[j] # avail'[i] /\ (j # i => avail'[j] # avail'[i])
    <3>1. CASE i = m
      <4>1. h \notin taken  BY Zenon, <1>5 DEF Rings, Apart
      <4>2. \A j \in Ids : used[j] # h /\ avail[j] # h  BY ZenonT(60), <1>5 DEF Rings, Apart
      <4> QED  BY <1>3, <1>10, <1>12, <3>1, <4>1, <4>2 DEF InFlight
    <3>2. CASE i # m
      <4>1. avail'[i] = avail[i] /\ avail[i] # NUM  BY Zenon, <1>10, <2>2, <3>2
      <4>2. /\ InFlight(avail[i]) /\ avail[i] \notin taken
            /\ \A j \in Ids : used[j] # avail[i] /\ (j # i => avail[j] # avail[i])
        BY Zenon, <4>1 DEF Rings, Apart
      <4>3. avail[i] # h  BY ZenonT(60), <1>5, <4>2
      <4> QED  BY <1>3, <1>10, <1>11, <4>1, <4>2, <4>3 DEF InFlight
    <3> QED  BY Zenon, <3>1, <3>2
  <2>3. ASSUME NEW i \in Ids, used'[i] # NUM
        PROVE  /\ InFlight(used[i])' /\ used'[i] \notin taken' /\ info'[used'[i]] \in done'
               /\ \A j \in Ids : j # i => used'[j] # used'[i]
    <3>1. /\ InFlight(used[i]) /\ used[i] \notin taken /\ info[used[i]] \in done
          /\ \A j \in Ids : j # i => used[j] # used[i]
      BY Zenon, <1>3, <2>3 DEF Rings, Apart
    <3> QED  BY <1>3, <1>11, <3>1 DEF InFlight
  <2> QED  BY Zenon, <2>1, <2>2, <2>3 DEF Apart
<1>14. AvailAt'
  <2> SUFFICES ASSUME NEW i \in Ids
               PROVE  avail'[i] # NUM <=> (i - seen) % NUM < Pend + 1
    BY Zenon, <1>3, <1>7 DEF AvailAt
  <2>1. (i - seen) % NUM = Pend <=> i = m  BY Zenon, <1>2, <1>6, AvailEnds
  <2>2. (i - seen) % NUM \in Int  BY Distance
  <2>3. avail[i] # NUM <=> (i - seen) % NUM < Pend  BY Zenon DEF Rings, AvailAt
  <2>4. avail'[i] # NUM <=> i = m \/ avail[i] # NUM  BY Zenon, <1>5, <1>10
  <2> QED  BY <1>6, <2>1, <2>2, <2>3, <2>4
<1>15. UsedAt'  BY Zenon, <1>3, <1>8 DEF Rings, UsedAt
<1>16. Load'
  <2>1. Waiting' = Waiting \cup {p} /\ p \notin Waiting
    BY Zenon, <1>4, <1>10 DEF Waiting
  <2>2. IsFiniteSet(Waiting)  BY Zenon, Bound DEF Rings
  <2>3. Cardinality(Waiting') = Cardinality(Waiting) + 1 /\ Cardinality(Waiting) \in Nat
    BY Zenon, <2>1, <2>2, FS_AddElement, FS_CardinalityType
  <2>4. Cardinality(taken) + Unread + Pend = Cardinality(Waiting)  BY Zenon DEF Rings, Load
  <2>5. Cardinality(taken') = Cardinality(taken)  BY Zenon, <1>3
  <2> QED  BY <1>6, <1>7, <1>8, <2>3, <2>4, <2>5 DEF Load
<1>17. Done'
  BY <1>3, <1>4, <1>10 DEF Rings, Done, Busy
<1> QED  BY Zenon, <1>13, <1>14, <1>15, <1>16, <1>17 DEF Rings

(* finish: the request of p is in none of the places any more.             *)
LEMMA FinishRings ==
  ASSUME IInv, NEW p \in Procs, finish(p)
  PROVE  Rings'
<1> USE DEF IInv
<1>1. PICK h \in Ids : h = idx[p] /\ info[h] = p
  <2>1. p \in Busy  BY Zenon DEF Busy, finish
  <2>2. Formatted(p)  BY Zenon, <2>1 DEF Chains
  <2> QED  BY Zenon, <2>2 DEF Formatted
<1>2. /\ pc[p] = "woken" /\ ~bdisk[p]
      /\ info' = [info EXCEPT ![h] = None]
      /\ pc' = [WakeFree(pc) EXCEPT ![p] = "idle"]
      /\ done' = done \ {p}
      /\ UNCHANGED <<bdisk, avail, avail_idx, used_idx, used, used_id, seen, taken>>
  BY Zenon, <1>1 DEF finish
<1>3. Busy' = Busy \ {p}
  <2>1. \A q \in Procs : q # p => (pc'[q] \in {"wait", "woken"} <=> pc[q] \in {"wait", "woken"})
    BY Zenon, <1>2 DEF WakeFree, Types
  <2>2. pc'[p] = "idle"  BY Zenon, <1>2 DEF WakeFree, Types
  <2> QED  BY Zenon, <2>1, <2>2 DEF Busy
<1>4. \A i : InFlight(i) => InFlight(i)' /\ info'[i] = info[i] /\ info[i] # p
  BY Zenon, <1>1, <1>2 DEF InFlight, Types
<1>5. Apart'
  <2>1. ASSUME NEW i \in taken'  PROVE InFlight(i)'
    BY Zenon, <1>2, <1>4 DEF Rings, Apart
  <2>2. ASSUME NEW i \in Ids, avail'[i] # NUM
        PROVE  /\ InFlight(avail[i])' /\ avail'[i] \notin taken'
               /\ \A j \in Ids : used'[j] # avail'[i] /\ (j # i => avail'[j] # avail'[i])
    <3>1. /\ InFlight(avail[i]) /\ avail[i] \notin taken
          /\ \A j \in Ids : used[j] # avail[i] /\ (j # i => avail[j] # avail[i])
      BY ZenonT(60), <1>2, <2>2 DEF Rings, Apart
    <3> QED  BY ZenonT(30), <1>2, <1>4, <3>1 DEF InFlight
  <2>3. ASSUME NEW i \in Ids, used'[i] # NUM
        PROVE  /\ InFlight(used[i])' /\ used'[i] \notin taken' /\ info'[used'[i]] \in done'
               /\ \A j \in Ids : j # i => used'[j] # used'[i]
    <3>1. /\ InFlight(used[i]) /\ used[i] \notin taken /\ info[used[i]] \in done
          /\ \A j \in Ids : j # i => used[j] # used[i]
      BY Zenon, <1>2, <2>3 DEF Rings, Apart
    <3> QED  BY <1>2, <1>4, <3>1 DEF InFlight
  <2> QED  BY Zenon, <2>1, <2>2, <2>3 DEF Apart
<1>6. Pend' = Pend /\ Unread' = Unread /\ Waiting' = Waiting
  BY Zenon, <1>2 DEF Pend, Unread, Waiting
<1>7. AvailAt' /\ UsedAt'  BY Zenon, <1>2, <1>6 DEF Rings, AvailAt, UsedAt
<1>8. Load'  BY Zenon, <1>2, <1>6 DEF Rings, Load
<1>9. Done'  BY Zenon, <1>2, <1>3 DEF Rings, Done
<1> QED  BY Zenon, <1>5, <1>7, <1>8, <1>9 DEF Rings

(* intr_entry: the first unread entry names a request the device is done   *)
(* with, and the handler gives its buffer back.                            *)
LEMMA EntryRings ==
  ASSUME IInv, intr_entry
  PROVE  Rings' /\ Busy' = Busy
<1> USE DEF IInv
<1>1. PICK h : h = used[used_idx]  BY Zenon
<1>2. used_idx \in Ids /\ Unread # 0 /\ Unread \in 0..(NUM - 1) /\ h # NUM
  <2>1. used_idx \in Ids /\ Unread # 0  BY Zenon, MoreIs DEF Types, intr_entry
  <2>2. Unread \in 0..(NUM - 1)  BY Zenon, Bound DEF Rings
  <2>3. (used_idx - used_idx) % NUM = 0  BY Zenon, <2>1, UsedEnds
  <2>4. 0 < Unread  BY <2>1, <2>2
  <2>5. used[used_idx] # NUM  BY Zenon, <2>1, <2>3, <2>4 DEF Rings, UsedAt
  <2> QED  BY Zenon, <1>1, <2>1, <2>2, <2>5
<1>3. /\ InFlight(h) /\ h \notin taken /\ info[h] \in done
      /\ \A j \in Ids : j # used_idx => used[j] # h
      /\ \A j \in Ids : avail[j] # h
  BY Zenon, <1>1, <1>2 DEF Rings, Apart
<1>4. PICK b \in Procs : b = info[h] /\ bdisk[b] /\ h = idx[b] /\ h \in Ids /\ b \in Busy
  BY Zenon, <1>3 DEF InFlight, Types, Chains
<1>5. Completed = b  BY Zenon, <1>1, <1>4 DEF Completed
<1>6. /\ bdisk' = [bdisk EXCEPT ![b] = FALSE]
      /\ pc' = (IF pc[b] = "wait" THEN [pc EXCEPT ![b] = "woken"] ELSE pc)
      /\ used_idx' = (used_idx + 1) % NUM
      /\ used' = [used EXCEPT ![used_idx] = NUM]
      /\ UNCHANGED <<info, avail, avail_idx, used_id, seen, taken, done>>
  BY Zenon, <1>5 DEF intr_entry, Set, Advanced
<1>7. Busy' = Busy  BY Zenon, <1>4, <1>6 DEF Busy, Types
<1>8. /\ ~bdisk'[b] /\ \A q \in Procs : q # b => bdisk'[q] = bdisk[q]
      /\ used'[used_idx] = NUM /\ \A i \in Ids : i # used_idx => used'[i] = used[i]
  BY ZenonT(30), <1>2, <1>4, <1>6 DEF Types
<1>9. \A i : InFlight(i) /\ i # h => InFlight(i)'
  <2> SUFFICES ASSUME NEW i, InFlight(i), i # h  PROVE InFlight(i)'
    BY Zenon
  <2>1. i \in Ids /\ info[i] # None /\ bdisk[info[i]]  BY Zenon DEF InFlight
  <2>2. info[i] \in Procs /\ idx[info[i]] = i  BY Zenon, <2>1 DEF Types, Chains
  <2>3. info[i] # b  BY Zenon, <1>4, <2>2
  <2> QED  BY ZenonT(60), <1>6, <1>8, <2>1, <2>2, <2>3 DEF InFlight
<1>10. Apart'
  <2>1. ASSUME NEW i \in taken'  PROVE InFlight(i)'
    BY Zenon, <1>3, <1>6, <1>9 DEF Rings, Apart
  <2>2. ASSUME NEW i \in Ids, avail'[i] # NUM
        PROVE  /\ InFlight(avail[i])' /\ avail'[i] \notin taken'
               /\ \A j \in Ids : used'[j] # avail'[i] /\ (j # i => avail'[j] # avail'[i])
    <3>1. /\ InFlight(avail[i]) /\ avail[i] \notin taken /\ avail[i] # NUM
          /\ \A j \in Ids : used[j] # avail[i] /\ (j # i => avail[j] # avail[i])
      BY Zenon, <1>6, <2>2 DEF Rings, Apart
    <3>2. avail[i] # h  BY Zenon, <1>3
    <3>3. InFlight(avail[i])'  BY Zenon, <1>6, <1>9, <3>1, <3>2 DEF InFlight
    <3> QED  BY Zenon, <1>6, <1>8, <3>1, <3>3
  <2>3. ASSUME NEW i \in Ids, used'[i] # NUM
        PROVE  /\ InFlight(used[i])' /\ used'[i] \notin taken' /\ info'[used'[i]] \in done'
               /\ \A j \in Ids : j # i => used'[j] # used'[i]
    <3>1. i # used_idx /\ used'[i] = used[i] /\ used[i] # NUM  BY Zenon, <1>8, <2>3
    <3>2. /\ InFlight(used[i]) /\ used[i] \notin taken /\ info[used[i]] \in done
          /\ \A j \in Ids : j # i => used[j] # used[i]
      BY Zenon, <3>1 DEF Rings, Apart
    <3>3. used[i] # h  BY Zenon, <1>3, <3>1
    <3>4. InFlight(used[i])'  BY Zenon, <1>6, <1>9, <3>1, <3>2, <3>3 DEF InFlight
    <3> QED  BY <1>6, <1>8, <3>1, <3>2, <3>4
  <2> QED  BY Zenon, <2>1, <2>2, <2>3 DEF Apart
<1>11. Pend' = Pend /\ Unread' = Unread - 1
  <2>1. Pend' = Pend  BY Zenon, <1>6 DEF Pend
  <2>2. Unread' = Unread - 1  BY Zenon, <1>2, <1>6, UnreadMoves
  <2> QED  BY Zenon, <2>1, <2>2
<1>12. AvailAt'  BY Zenon, <1>6, <1>11 DEF Rings, AvailAt
<1>13. UsedAt'
  <2> SUFFICES ASSUME NEW i \in Ids
               PROVE  used'[i] # NUM <=> (i - used_idx') % NUM < Unread - 1
    BY Zenon, <1>11 DEF UsedAt
  <2>1. (i - used_idx) % NUM = 0 <=> i = used_idx  BY Zenon, UsedEnds
  <2>2. (i - used_idx) % NUM \in 0..(NUM - 1)  BY Zenon, Distance
  <2>3. used[i] # NUM <=> (i - used_idx) % NUM < Unread  BY Zenon DEF Rings, UsedAt
  <2>4. /\ (i - used_idx) % NUM # 0 => (i - used_idx') % NUM = ((i - used_idx) % NUM) - 1
        /\ (i - used_idx) % NUM = 0 => (i - used_idx') % NUM = NUM - 1
    <3>1. NUM \in Nat \ {0} /\ NUM % NUM = 0 /\ i \in Int /\ used_idx \in Int
      BY Sizes DEF Types, Ids
    <3>2. \A a, c \in Int :
            /\ (c - a) % NUM # NUM - 1 => (((c + 1) % NUM) - a) % NUM = ((c - a) % NUM) + 1
            /\ (c - a) % NUM # 0 => (c - ((a + 1) % NUM)) % NUM = ((c - a) % NUM) - 1
            /\ (c - a) % NUM = 0 => (c - ((a + 1) % NUM)) % NUM = NUM - 1
      BY Zenon, <3>1, ModMove
    <3>3. /\ (i - used_idx) % NUM # 0 =>
               (i - ((used_idx + 1) % NUM)) % NUM = ((i - used_idx) % NUM) - 1
          /\ (i - used_idx) % NUM = 0 => (i - ((used_idx + 1) % NUM)) % NUM = NUM - 1
      BY Zenon, <3>1, <3>2
    <3> QED  BY Zenon, <1>6, <3>3
  <2>5. used'[i] # NUM <=> i # used_idx /\ used[i] # NUM  BY Zenon, <1>8
  <2> DEFINE d == (i - used_idx) % NUM
             e == (i - used_idx') % NUM
  <2>6. /\ d = 0 <=> i = used_idx
        /\ d \in 0..(NUM - 1)
        /\ used[i] # NUM <=> d < Unread
        /\ (d # 0 => e = d - 1) /\ (d = 0 => e = NUM - 1)
    BY Zenon, <2>1, <2>2, <2>3, <2>4
  <2> HIDE DEF d, e
  <2>7. used'[i] # NUM <=> e < Unread - 1  BY <1>2, <2>5, <2>6, Sizes
  <2> QED  BY Zenon, <2>7 DEF e
<1>14. Load'
  <2>1. Waiting' = Waiting \ {b} /\ b \in Waiting  BY Zenon, <1>4, <1>8 DEF Waiting
  <2>2. /\ IsFiniteSet(Waiting) /\ Cardinality(taken) \in Nat /\ Pend \in Nat
    BY Bound DEF Rings
  <2>3. Cardinality(Waiting') = Cardinality(Waiting) - 1
    BY Zenon, <2>1, <2>2, FS_RemoveElement
  <2>4. Cardinality(taken) + Unread + Pend = Cardinality(Waiting)  BY Zenon DEF Rings, Load
  <2>5. Cardinality(taken') = Cardinality(taken)  BY Zenon, <1>6
  <2> QED  BY <1>2, <1>11, <2>2, <2>3, <2>4, <2>5 DEF Load
<1>15. Done'
  <2>1. \A q \in Procs : bdisk'[q] => bdisk[q]  BY Zenon, <1>8
  <2>2. \A q \in Busy : ~bdisk'[q] => q = b \/ ~bdisk[q]  BY Zenon, <1>8 DEF Busy
  <2> QED  BY Zenon, <1>3, <1>4, <1>6, <1>7, <2>1, <2>2 DEF Rings, Done
<1> QED  BY Zenon, <1>7, <1>10, <1>12, <1>13, <1>14, <1>15 DEF Rings

(* An entry is pending when the two indices differ.                        *)
LEMMA PendIs ==
  ASSUME Types, seen # avail_idx
  PROVE  Pend # 0
<1>1. W \in Nat \ {0} /\ avail_idx \in 0..(W - 1) /\ seen \in 0..(W - 1) /\ seen \in Int
  BY Sizes DEF Types
<1>2. \A a, b \in Int : (avail_idx - a) % W = (b - a) % W <=> avail_idx = b % W
  BY Zenon, <1>1, ModIndex
<1>3. (avail_idx - seen) % W = (seen - seen) % W <=> avail_idx = seen % W
  BY Zenon, <1>1, <1>2
<1>4. (seen - seen) % W = 0 /\ seen % W = seen  BY <1>1
<1> DEFINE z == (seen - seen) % W
           m == seen % W
<1>5. z = 0 /\ m = seen /\ (Pend = z <=> avail_idx = m)  BY Zenon, <1>3, <1>4 DEF Pend
<1> HIDE DEF z, m
<1> QED  BY Zenon, <1>5

(* device_take: the oldest pending entry moves to the device.              *)
LEMMA TakeRings ==
  ASSUME IInv, device_take
  PROVE  Rings'
<1> USE DEF IInv
<1>1. Pend # 0 /\ Pend \in 0..(W - 1) /\ IsFiniteSet(taken)
  BY Zenon, PendIs, Bound DEF Rings, device_take
<1>2. PICK m \in Ids : m = seen % NUM
  <2>1. 0 \in Ids  BY Sizes DEF Ids
  <2> QED  BY Zenon, <2>1, AvailEnds
<1>3. PICK h : h = avail[m]  BY Zenon
<1>4. /\ taken' = taken \cup {h}
      /\ avail' = [avail EXCEPT ![m] = NUM]
      /\ seen' = (seen + 1) % W
      /\ UNCHANGED <<info, avail_idx, used_idx, bdisk, pc, used, used_id, done>>
  BY Zenon, <1>2, <1>3 DEF device_take
<1>5. h # NUM
  <2>1. (m - seen) % NUM = 0  BY Zenon, <1>2, AvailEnds
  <2>2. 0 < Pend  BY <1>1
  <2> QED  BY Zenon, <1>3, <2>1, <2>2 DEF Rings, AvailAt
<1>6. /\ InFlight(h) /\ h \notin taken
      /\ \A j \in Ids : used[j] # h /\ (j # m => avail[j] # h)
  BY Zenon, <1>3, <1>5 DEF Rings, Apart
<1>7. avail'[m] = NUM /\ \A i \in Ids : i # m => avail'[i] = avail[i]
  BY Zenon, <1>4 DEF Types
<1>8. \A i : InFlight(i)' <=> InFlight(i)  BY Zenon, <1>4 DEF InFlight
<1>9. Busy' = Busy /\ Waiting' = Waiting  BY Zenon, <1>4 DEF Busy, Waiting
<1>10. Apart'
  <2>1. ASSUME NEW i \in taken'  PROVE InFlight(i)'
    BY Zenon, <1>4, <1>6, <1>8 DEF Rings, Apart
  <2>2. ASSUME NEW i \in Ids, avail'[i] # NUM
        PROVE  /\ InFlight(avail[i])' /\ avail'[i] \notin taken'
               /\ \A j \in Ids : used'[j] # avail'[i] /\ (j # i => avail'[j] # avail'[i])
    <3>1. i # m /\ avail'[i] = avail[i] /\ avail[i] # NUM  BY Zenon, <1>7, <2>2
    <3>2. /\ InFlight(avail[i]) /\ avail[i] \notin taken
          /\ \A j \in Ids : used[j] # avail[i] /\ (j # i => avail[j] # avail[i])
      BY Zenon, <3>1 DEF Rings, Apart
    <3>3. avail[i] # h  BY Zenon, <1>6, <3>1
    <3>4. InFlight(avail[i])'  BY Zenon, <1>4, <3>1, <3>2 DEF InFlight
    <3> QED  BY <1>4, <1>7, <3>1, <3>2, <3>3, <3>4
  <2>3. ASSUME NEW i \in Ids, used'[i] # NUM
        PROVE  /\ InFlight(used[i])' /\ used'[i] \notin taken' /\ info'[used'[i]] \in done'
               /\ \A j \in Ids : j # i => used'[j] # used'[i]
    <3>1. /\ InFlight(used[i]) /\ used[i] \notin taken /\ info[used[i]] \in done
          /\ \A j \in Ids : j # i => used[j] # used[i]
      BY Zenon, <1>4, <2>3 DEF Rings, Apart
    <3>2. InFlight(used[i])'  BY Zenon, <1>4, <3>1 DEF InFlight
    <3> QED  BY Zenon, <1>4, <1>6, <3>1, <3>2
  <2> QED  BY Zenon, <2>1, <2>2, <2>3 DEF Apart
<1>11. Pend' = Pend - 1 /\ Unread' = Unread
  <2>1. Pend' = Pend - 1  BY Zenon, <1>1, <1>4, PendMoves
  <2>2. Unread' = Unread  BY Zenon, <1>4 DEF Unread
  <2> QED  BY Zenon, <2>1, <2>2
<1>12. AvailAt'
  <2> SUFFICES ASSUME NEW i \in Ids
               PROVE  avail'[i] # NUM <=> (i - seen') % NUM < Pend - 1
    BY Zenon, <1>11 DEF AvailAt
  <2>1. (i - seen) % NUM = 0 <=> i = m  BY Zenon, <1>2, AvailEnds
  <2>2. (i - seen) % NUM \in 0..(NUM - 1)  BY Zenon, Distance
  <2>3. avail[i] # NUM <=> (i - seen) % NUM < Pend  BY Zenon DEF Rings, AvailAt
  <2>4. /\ (i - seen) % NUM # 0 => (i - seen') % NUM = ((i - seen) % NUM) - 1
        /\ (i - seen) % NUM = 0 => (i - seen') % NUM = NUM - 1
    <3>1. /\ NUM \in Nat \ {0} /\ W \in Nat \ {0} /\ W % NUM = 0
          /\ i \in Int /\ seen \in Int
      BY Sizes DEF Types, Ids
    <3>2. \A a, c \in Int :
            /\ (c - a) % NUM # NUM - 1 => (((c + 1) % W) - a) % NUM = ((c - a) % NUM) + 1
            /\ (c - a) % NUM # 0 => (c - ((a + 1) % W)) % NUM = ((c - a) % NUM) - 1
            /\ (c - a) % NUM = 0 => (c - ((a + 1) % W)) % NUM = NUM - 1
      BY ZenonT(60), <3>1, ModMove
    <3>3. /\ (i - seen) % NUM # 0 =>
               (i - ((seen + 1) % W)) % NUM = ((i - seen) % NUM) - 1
          /\ (i - seen) % NUM = 0 => (i - ((seen + 1) % W)) % NUM = NUM - 1
      BY Zenon, <3>1, <3>2
    <3> QED  BY Zenon, <1>4, <3>3
  <2>5. avail'[i] # NUM <=> i # m /\ avail[i] # NUM  BY Zenon, <1>7
  <2>6. Pend <= NUM - 1
    <3>1. /\ Unread \in 0..(NUM - 1) /\ Cardinality(taken) \in Nat
          /\ Cardinality(Busy) \in Nat /\ 3 * Cardinality(Busy) <= NUM
          /\ Cardinality(taken) + Unread + Pend <= Cardinality(Busy)
      BY Zenon, Bound DEF Rings
    <3> QED  BY <1>1, <3>1, Sizes
  <2> DEFINE d == (i - seen) % NUM
             e == (i - seen') % NUM
  <2>7. /\ d = 0 <=> i = m
        /\ d \in 0..(NUM - 1)
        /\ avail[i] # NUM <=> d < Pend
        /\ (d # 0 => e = d - 1) /\ (d = 0 => e = NUM - 1)
    BY Zenon, <2>1, <2>2, <2>3, <2>4
  <2> HIDE DEF d, e
  <2>8. avail'[i] # NUM <=> e < Pend - 1  BY <1>1, <2>5, <2>6, <2>7, Sizes
  <2> QED  BY Zenon, <2>8 DEF e
<1>13. UsedAt'  BY Zenon, <1>4, <1>11 DEF Rings, UsedAt
<1>14. Load'
  <2>1. Cardinality(taken') = Cardinality(taken) + 1
    BY ZenonT(30), <1>1, <1>4, <1>6, FS_AddElement
  <2>2. Cardinality(taken) \in Nat /\ Unread \in Nat  BY Bound DEF Rings
  <2>3. Cardinality(taken) + Unread + Pend = Cardinality(Waiting)  BY Zenon DEF Rings, Load
  <2> QED  BY <1>1, <1>9, <1>11, <2>1, <2>2, <2>3 DEF Load
<1>15. Done'  BY Zenon, <1>4, <1>9 DEF Rings, Done
<1> QED  BY Zenon, <1>10, <1>12, <1>13, <1>14, <1>15 DEF Rings

(* device_complete: the chain moves from the device to the used ring,      *)
(* behind the unread entries.                                              *)
LEMMA CompleteRings ==
  ASSUME IInv, NEW h \in Ids, device_complete(h)
  PROVE  Rings'
<1> USE DEF IInv
<1>1. PICK m \in Ids : m = used_id % NUM
  BY Zenon, UsedEnds
<1>2. /\ h \in taken
      /\ taken' = taken \ {h}
      /\ used' = [used EXCEPT ![m] = h]
      /\ used_id' = (used_id + 1) % W
      /\ done' = done \cup {desc[h].addr}
      /\ UNCHANGED <<info, avail, avail_idx, used_idx, bdisk, pc, seen>>
  BY Zenon, <1>1 DEF device_complete, driver
<1>3. InFlight(h) /\ h # NUM
  BY <1>2, Sizes DEF Rings, Apart, Ids
<1>4. desc[h].addr = info[h]
  <2>1. info[h] \in Busy /\ idx[info[h]] = h  BY Zenon, <1>3 DEF InFlight, Chains
  <2> QED  BY <2>1 DEF Chains, Formatted
<1>5. /\ Unread \in 0..(NUM - 1) /\ Unread # NUM - 1 /\ Pend \in Nat
      /\ IsFiniteSet(taken) /\ Cardinality(taken) \in Nat
      /\ Cardinality(taken') = Cardinality(taken) - 1
  <2>1. /\ Unread \in 0..(NUM - 1) /\ Pend \in Nat
        /\ IsFiniteSet(taken) /\ Cardinality(taken) \in Nat
        /\ Cardinality(Busy) \in Nat /\ 3 * Cardinality(Busy) <= NUM
        /\ Cardinality(taken) + Unread + Pend <= Cardinality(Busy)
    BY Bound DEF Rings
  <2>2. Cardinality(taken') = Cardinality(taken) - 1 /\ Cardinality(taken') \in Nat
    BY Zenon, <1>2, <2>1, FS_RemoveElement, FS_CardinalityType
  <2> QED  BY <2>1, <2>2, Sizes
<1>6. used[m] = NUM
  <2>1. (m - used_idx) % NUM = Unread  BY Zenon, <1>1, UsedEnds
  <2>2. ~((m - used_idx) % NUM < Unread)  BY <1>5, <2>1
  <2> QED  BY Zenon, <2>2 DEF Rings, UsedAt
<1>7. used'[m] = h /\ \A i \in Ids : i # m => used'[i] = used[i]
  BY Zenon, <1>2 DEF Types
<1>8. \A i : InFlight(i)' <=> InFlight(i)  BY ZenonT(30), <1>2 DEF InFlight
<1>9. Busy' = Busy /\ Waiting' = Waiting  BY Zenon, <1>2 DEF Busy, Waiting
<1>10. \A i \in Ids : used[i] # h /\ avail[i] # h
  BY Zenon, <1>2, <1>3 DEF Rings, Apart
<1>11. Apart'
  <2>1. ASSUME NEW i \in taken'  PROVE InFlight(i)'
    BY Zenon, <1>2, <1>8 DEF Rings, Apart
  <2>2. ASSUME NEW i \in Ids, avail'[i] # NUM
        PROVE  /\ InFlight(avail[i])' /\ avail'[i] \notin taken'
               /\ \A j \in Ids : used'[j] # avail'[i] /\ (j # i => avail'[j] # avail'[i])
    <3>1. avail'[i] = avail[i] /\ avail[i] # NUM  BY Zenon, <1>2, <2>2
    <3>2. /\ InFlight(avail[i]) /\ avail[i] \notin taken
          /\ \A j \in Ids : used[j] # avail[i] /\ (j # i => avail[j] # avail[i])
      BY Zenon, <3>1 DEF Rings, Apart
    <3>3. InFlight(avail[i])'  BY Zenon, <1>2, <3>2 DEF InFlight
    <3> QED  BY Zenon, <1>2, <1>7, <1>10, <3>1, <3>2, <3>3
  <2>3. ASSUME NEW i \in Ids, used'[i] # NUM
        PROVE  /\ InFlight(used[i])' /\ used'[i] \notin taken' /\ info'[used'[i]] \in done'
               /\ \A j \in Ids : j # i => used'[j] # used'[i]
    <3>1. CASE i = m
      <4>1. InFlight(used[i])'  BY Zenon, <1>2, <1>3, <1>7, <3>1 DEF InFlight
      <4>2. info'[used'[i]] \in done'  BY <1>2, <1>4, <1>7, <3>1
      <4> QED  BY <1>2, <1>7, <1>10, <3>1, <4>1, <4>2
    <3>2. CASE i # m
      <4>1. used'[i] = used[i] /\ used[i] # NUM  BY Zenon, <1>7, <2>3, <3>2
      <4>2. /\ InFlight(used[i]) /\ used[i] \notin taken /\ info[used[i]] \in done
            /\ \A j \in Ids : j # i => used[j] # used[i]
        BY Zenon, <4>1 DEF Rings, Apart
      <4>3. InFlight(used[i])'  BY Zenon, <1>2, <4>1, <4>2 DEF InFlight
      <4> QED  BY <1>2, <1>7, <1>10, <4>1, <4>2, <4>3
    <3> QED  BY Zenon, <3>1, <3>2
  <2> QED  BY Zenon, <2>1, <2>2, <2>3 DEF Apart
<1>12. Unread' = Unread + 1 /\ Pend' = Pend
  <2>1. Unread' = Unread + 1  BY Zenon, <1>2, <1>5, UnreadMoves
  <2>2. Pend' = Pend  BY Zenon, <1>2 DEF Pend
  <2> QED  BY Zenon, <2>1, <2>2
<1>13. AvailAt'  BY Zenon, <1>2, <1>12 DEF Rings, AvailAt
<1>14. UsedAt'
  <2> SUFFICES ASSUME NEW i \in Ids
               PROVE  used'[i] # NUM <=> (i - used_idx) % NUM < Unread + 1
    BY Zenon, <1>2, <1>12 DEF UsedAt
  <2>1. (i - used_idx) % NUM = Unread <=> i = m  BY Zenon, <1>1, UsedEnds
  <2>2. (i - used_idx) % NUM \in Int  BY Distance
  <2>3. used[i] # NUM <=> (i - used_idx) % NUM < Unread  BY Zenon DEF Rings, UsedAt
  <2>4. used'[i] # NUM <=> i = m \/ used[i] # NUM  BY Zenon, <1>3, <1>7
  <2> QED  BY <1>5, <2>1, <2>2, <2>3, <2>4
<1>15. Load'
  <2>1. Cardinality(taken) + Unread + Pend = Cardinality(Waiting)  BY Zenon DEF Rings, Load
  <2> QED  BY <1>5, <1>9, <1>12, <2>1 DEF Load
<1>16. Done'  BY Zenon, <1>2, <1>9 DEF Rings, Done
<1> QED  BY Zenon, <1>11, <1>13, <1>14, <1>15, <1>16 DEF Rings

-----------------------------------------------------------------------------
(* The initial state: no request, all descriptors free, both rings empty.  *)
LEMMA InitInv == Init => IInv
<1> SUFFICES ASSUME Init  PROVE IInv
  BY SMTT(30)
<1> USE DEF Init
<1>1. 0 \in Ids /\ 0 \in 0..(W - 1) /\ NUM \in 0..NUM  BY Sizes DEF Ids
<1>2. NoDesc \in Descs  BY Zenon, <1>1 DEF NoDesc, Descs, Whats
<1>3. Types  BY Zenon, <1>1, <1>2 DEF Types, PCs
<1>4. Busy = {} /\ Waiting = {}  BY Zenon DEF Busy, Waiting
<1>5. Cardinality({}) = 0 /\ IsFiniteSet({})  BY Zenon, FS_EmptySet
<1>6. Chains
  <2>1. Cardinality(free) = NUM  BY Sizes, FS_Interval DEF Ids
  <2>2. \A i \in Ids : Owned(i)  BY Zenon DEF Owned, NoDesc
  <2> QED  BY <1>4, <1>5, <2>1, <2>2, Sizes DEF Chains
<1>7. Pend = 0 /\ Unread = 0
  <2>1. 0 % W = 0 /\ 0 % NUM = 0 /\ 0 - 0 = 0  BY Sizes
  <2> QED  BY Zenon, <2>1 DEF Pend, Unread
<1>8. Apart  BY Zenon DEF Apart
<1>9. AvailAt /\ UsedAt
  <2>1. \A i \in Ids : (i - seen) % NUM \in 0..(NUM - 1) /\ (i - used_idx) % NUM \in 0..(NUM - 1)
    BY Zenon, <1>3, Distance
  <2> QED  BY <1>7, <2>1 DEF AvailAt, UsedAt
<1>10. Load  BY <1>4, <1>5, <1>7 DEF Load
<1>11. Done  BY Zenon, <1>4 DEF Done
<1> QED  BY Zenon, <1>3, <1>6, <1>8, <1>9, <1>10, <1>11 DEF IInv, Rings

(* submit keeps the types.                                                 *)
LEMMA SubmitTypes ==
  ASSUME Types, NEW p \in Procs, submit(p)
  PROVE  Types'
<1>1. PICK i, j, k \in Ids : Chain[1] = i /\ Chain[2] = j /\ Chain[3] = k
  BY ZenonT(30), ChainIs DEF submit, Types
<1>2. \A q \in {i, j, k} : q \in 0..NUM  BY Sizes DEF Ids
<1>3. /\ free' = free \ {i, j, k}
      /\ desc' = [desc EXCEPT
           ![i] = [addr |-> p, what |-> IF write[p] THEN "out" ELSE "in", next |-> j],
           ![j] = [addr |-> p, what |-> IF write[p] THEN "read" ELSE "write", next |-> k],
           ![k] = [addr |-> p, what |-> "status", next |-> NUM]]
      /\ info' = [info EXCEPT ![i] = p]
      /\ bdisk' = [bdisk EXCEPT ![p] = TRUE]
      /\ idx' = [idx EXCEPT ![p] = i]
      /\ avail' = [avail EXCEPT ![avail_idx % NUM] = i]
      /\ avail_idx' = (avail_idx + 1) % W
      /\ pc' = [pc EXCEPT ![p] = "wait"]
      /\ UNCHANGED <<used_idx, write, handler, used, used_id, seen, taken, isr, done>>
  BY Zenon, <1>1 DEF submit, Set, device
<1>4. /\ [addr |-> p, what |-> IF write[p] THEN "out" ELSE "in", next |-> j] \in Descs
      /\ [addr |-> p, what |-> IF write[p] THEN "read" ELSE "write", next |-> k] \in Descs
      /\ [addr |-> p, what |-> "status", next |-> NUM] \in Descs
  BY <1>2, Sizes DEF Descs, Whats
<1>5. desc' \in [Ids -> Descs]  BY Zenon, <1>3, <1>4 DEF Types
<1>6. avail_idx' \in 0..(W - 1)
  <2>1. avail_idx + 1 \in Int /\ W \in Nat \ {0}  BY Sizes DEF Types
  <2> QED  BY Zenon, <1>3, <2>1, ModRange
<1>7. /\ free' \in SUBSET Ids /\ info' \in [Ids -> Procs \cup {None}]
      /\ bdisk' \in [Procs -> BOOLEAN] /\ avail' \in [Ids -> 0..NUM]
      /\ idx' \in [Procs -> 0..NUM] /\ pc' \in [Procs -> PCs]
  BY ZenonT(30), <1>2, <1>3 DEF Types, PCs
<1> QED  BY ZenonT(30), <1>3, <1>5, <1>6, <1>7 DEF Types

(* finish keeps the types: a chain is made of descriptors.                 *)
LEMMA FinishTypes ==
  ASSUME Types, Chains, NEW p \in Procs, finish(p)
  PROVE  Types'
<1>1. ChainOf(idx[p]) \subseteq Ids
  <2>1. Formatted(p)  BY Zenon DEF Chains, Busy, finish
  <2>2. Second(p) \in Ids /\ idx[p] \in Ids /\ Third(p) \in Ids  BY ZenonT(30), <2>1 DEF Formatted
  <2>3. Second(p) # NUM  BY <2>2, Sizes DEF Ids
  <2> QED  BY Zenon, <2>2, <2>3 DEF ChainOf, Second, Third
<1>2. NoDesc \in Descs /\ NUM \in 0..NUM  BY Sizes DEF NoDesc, Descs, Whats
<1>3. /\ free' \in SUBSET Ids /\ done' \in SUBSET Procs
      /\ info' \in [Ids -> Procs \cup {None}] /\ desc' \in [Ids -> Descs]
      /\ idx' \in [Procs -> 0..NUM] /\ write' \in [Procs -> BOOLEAN]
  BY ZenonT(30), <1>1, <1>2 DEF Types, finish
<1>4. pc' \in [Procs -> PCs]  BY Zenon DEF Types, finish, WakeFree, PCs
<1> QED  BY Zenon, <1>3, <1>4 DEF Types, finish

(* Every step keeps the inductive invariant.                               *)
LEMMA NextInv == IInv /\ [Next]_vars => IInv'
<1> SUFFICES ASSUME IInv, [Next]_vars  PROVE IInv'
  BY SMTT(30)
<1> USE DEF IInv
<1>1. ASSUME Types', Busy' = Busy, \A q \in Busy : write'[q] = write[q],
             UNCHANGED <<free, desc, info, idx, avail, avail_idx, used, used_id, used_idx,
                         bdisk, seen, taken, done>>
      PROVE  IInv'
  BY ZenonT(30), <1>1, ChainsStay, RingsStay
<1>2. ASSUME NEW p \in Procs, NEW w \in BOOLEAN, virtio_disk_rw(p, w)  PROVE IInv'
  <2>1. Types'  BY Zenon, <1>2 DEF virtio_disk_rw, Set, device, Types, PCs
  <2>2. Busy' = Busy /\ \A q \in Busy : write'[q] = write[q]
    BY Zenon, <1>2 DEF virtio_disk_rw, Set, Types, Busy
  <2> QED  BY Zenon, <1>1, <1>2, <2>1, <2>2 DEF virtio_disk_rw, device
<1>3. ASSUME NEW p \in Procs, alloc3_fail(p)  PROVE IInv'
  <2>1. pc' \in [Procs -> PCs]  BY Zenon, <1>3 DEF alloc3_fail, WakeFree, Types, PCs
  <2>2. Types'  BY ZenonT(30), <1>3, <2>1 DEF alloc3_fail, device, Types
  <2>3. Busy' = Busy  BY Zenon, <1>3 DEF alloc3_fail, WakeFree, Types, Busy
  <2> QED  BY Zenon, <1>1, <1>3, <2>2, <2>3 DEF alloc3_fail, device
<1>4. ASSUME NEW p \in Procs, submit(p)  PROVE IInv'
  BY Zenon, <1>4, SubmitTypes, SubmitChains, SubmitRings DEF Rings
<1>5. ASSUME NEW p \in Procs, finish(p)  PROVE IInv'
  BY Zenon, <1>5, FinishTypes, FinishChains, FinishRings
<1>6. ASSUME NEW p \in Procs, resleep(p)  PROVE IInv'
  <2>1. Types'  BY Zenon, <1>6 DEF resleep, Set, device, Types, PCs
  <2>2. Busy' = Busy  BY Zenon, <1>6 DEF resleep, Set, Types, Busy
  <2> QED  BY ZenonT(30), <1>1, <1>6, <2>1, <2>2 DEF resleep, device
<1>7. ASSUME NEW p \in Procs, kill(p)  PROVE IInv'
  <2>1. Types'  BY Zenon, <1>7 DEF kill, Set, device, Types, PCs
  <2>2. Busy' = Busy  BY Zenon, <1>7 DEF kill, Set, Types, Busy
  <2> QED  BY Zenon, <1>1, <1>7, <2>1, <2>2 DEF kill, device
<1>8. ASSUME intr_begin \/ intr_end  PROVE IInv'
  <2>1. Types'  BY Zenon, <1>8 DEF intr_begin, intr_end, device, Types
  <2>2. Busy' = Busy  BY Zenon, <1>8 DEF intr_begin, intr_end, Busy
  <2> QED  BY Zenon, <1>1, <1>8, <2>1, <2>2 DEF intr_begin, intr_end, device
<1>9. ASSUME intr_ack  PROVE IInv'
  <2>1. Types'  BY Zenon, <1>9 DEF intr_ack, Types
  <2>2. Busy' = Busy  BY Zenon, <1>9 DEF intr_ack, Busy
  <2> QED  BY Zenon, <1>1, <1>9, <2>1, <2>2 DEF intr_ack
<1>10. ASSUME intr_entry  PROVE IInv'
  <2>1. used_idx' \in Ids
    <3>1. used_idx + 1 \in Int /\ NUM \in Nat \ {0}  BY Sizes DEF Types, Ids
    <3>2. (used_idx + 1) % NUM \in 0..(NUM - 1)  BY Zenon, <3>1, ModRange
    <3> QED  BY Zenon, <1>10, <3>2 DEF intr_entry, Advanced, Ids
  <2>2. /\ used' \in [Ids -> 0..NUM] /\ bdisk' \in [Procs -> BOOLEAN]
        /\ pc' \in [Procs -> PCs]
    <3>1. NUM \in 0..NUM /\ "woken" \in PCs  BY Sizes DEF PCs
    <3>2. used' \in [Ids -> 0..NUM]  BY Zenon, <1>10, <3>1 DEF intr_entry, Types
    <3>3. bdisk' \in [Procs -> BOOLEAN]  BY ZenonT(30), <1>10 DEF intr_entry, Types
    <3>4. pc' \in [Procs -> PCs]  BY Zenon, <1>10, <3>1 DEF intr_entry, Set, Types
    <3> QED  BY Zenon, <3>2, <3>3, <3>4
  <2>3. Types'  BY Zenon, <1>10, <2>1, <2>2 DEF intr_entry, Types
  <2>4. Rings' /\ Busy' = Busy  BY Zenon, <1>10, EntryRings
  <2>5. Chains'  BY Zenon, <1>10, <2>4, ChainsStay DEF intr_entry
  <2> QED  BY Zenon, <2>3, <2>4, <2>5
<1>11. ASSUME device_take  PROVE IInv'
  <2>1. Rings'  BY Zenon, <1>11, TakeRings
  <2>2. Busy' = Busy  BY Zenon, <1>11 DEF device_take, Busy
  <2>3. Chains'  BY Zenon, <1>11, <2>2, ChainsStay DEF device_take
  <2>4. seen' \in 0..(W - 1)
    <3>1. seen + 1 \in Int /\ W \in Nat \ {0}  BY Sizes DEF Types
    <3>2. (seen + 1) % W \in 0..(W - 1)  BY Zenon, <3>1, ModRange
    <3> QED  BY Zenon, <1>11, <3>2 DEF device_take
  <2>5. taken' \in SUBSET Ids
    <3>1. \A i \in taken' : InFlight(i)'  BY Zenon, <2>1 DEF Rings, Apart
    <3>2. \A i \in taken' : i \in Ids  BY Zenon, <3>1 DEF InFlight
    <3> QED  BY Zenon, <3>2
  <2>6. avail' \in [Ids -> 0..NUM]
    <3>1. NUM \in 0..NUM  BY Sizes
    <3> QED  BY ZenonT(30), <1>11, <3>1 DEF device_take, Types
  <2>7. Types'  BY Zenon, <1>11, <2>4, <2>5, <2>6 DEF device_take, Types
  <2> QED  BY Zenon, <2>1, <2>3, <2>7
<1>12. ASSUME NEW i \in Ids, device_complete(i)  PROVE IInv'
  <2>1. Rings'  BY Zenon, <1>12, CompleteRings
  <2>2. Busy' = Busy  BY Zenon, <1>12 DEF device_complete, driver, Busy
  <2>3. Chains'  BY Zenon, <1>12, <2>2, ChainsStay DEF device_complete, driver
  <2>4. used_id' \in 0..(W - 1)
    <3>1. used_id + 1 \in Int /\ W \in Nat \ {0}  BY Sizes DEF Types
    <3>2. (used_id + 1) % W \in 0..(W - 1)  BY Zenon, <3>1, ModRange
    <3> QED  BY Zenon, <1>12, <3>2 DEF device_complete
  <2>5. used' \in [Ids -> 0..NUM] /\ taken' \in SUBSET Ids
    <3>1. i \in 0..NUM  BY Sizes DEF Ids
    <3> QED  BY ZenonT(30), <1>12, <3>1 DEF device_complete, Types
  <2>6. done' \in SUBSET Procs
    <3>1. InFlight(i)  BY Zenon, <1>12 DEF device_complete, Rings, Apart
    <3>2. desc[i].addr \in Procs
      <4>1. info[i] \in Busy /\ idx[info[i]] = i  BY Zenon, <3>1 DEF InFlight, Chains
      <4>2. Formatted(info[i])  BY Zenon, <4>1 DEF Chains
      <4>3. desc[i].addr = info[i]  BY Zenon, <4>1, <4>2 DEF Formatted
      <4> QED  BY Zenon, <4>1, <4>3 DEF Busy
    <3> QED  BY Zenon, <1>12, <3>2 DEF device_complete, Types
  <2>7. Types'  BY Zenon, <1>12, <2>4, <2>5, <2>6 DEF device_complete, driver, Types
  <2> QED  BY Zenon, <2>1, <2>3, <2>7
<1>13. ASSUME UNCHANGED vars  PROVE IInv'
  <2>1. Types'  BY Zenon, <1>13 DEF vars, driver, device, Types
  <2>2. Busy' = Busy  BY Zenon, <1>13 DEF vars, driver, device, Busy
  <2> QED  BY Zenon, <1>1, <1>13, <2>1, <2>2 DEF vars, driver, device
<1> QED  BY ZenonT(60), <1>2, <1>3, <1>4, <1>5, <1>6, <1>7, <1>8, <1>9, <1>10, <1>11, <1>12, <1>13
         DEF Next, Intr, Device, Driver

-----------------------------------------------------------------------------
(* The descriptors of the requests in progress are those that are not      *)
(* free.                                                                   *)
LEMMA ChainsAre ==
  ASSUME Types, Chains
  PROVE  UNION {ChainOf(idx[p]) : p \in Busy} = Ids \ free
<1>1. \A p \in Busy : ChainOf(idx[p]) = {idx[p], Second(p), Third(p)}
  <2> SUFFICES ASSUME NEW p \in Busy  PROVE ChainOf(idx[p]) = {idx[p], Second(p), Third(p)}
    BY SMTT(30)
  <2>1. Second(p) \in Ids /\ idx[p] \in Ids /\ Third(p) \in Ids  BY ZenonT(30) DEF Chains, Formatted
  <2>2. Second(p) # NUM /\ idx[p] # NUM /\ Third(p) # NUM  BY <2>1, Sizes DEF Ids
  <2> QED  BY Zenon, <2>2 DEF ChainOf, Second, Third
<1>2. ASSUME NEW i \in Ids, i \notin free
      PROVE  \E p \in Busy : i \in ChainOf(idx[p])
  BY Zenon, <1>1, <1>2 DEF Chains, Owned
<1>3. ASSUME NEW p \in Busy, NEW i \in ChainOf(idx[p])
      PROVE  i \in Ids \ free
  <2>1. Formatted(p) /\ i \in {idx[p], Second(p), Third(p)}  BY Zenon, <1>1, <1>3 DEF Chains
  <2>2. i \in Ids /\ desc[i].addr = p  BY Zenon, <2>1 DEF Formatted
  <2>3. p # None  BY Zenon, Sizes DEF Busy
  <2> QED  BY Zenon, <2>2, <2>3 DEF Chains, Owned
<1> QED  BY Zenon, <1>2, <1>3

(* The chain of every request in progress is formatted for its request,    *)
(* the chains are apart and all other descriptors are free                 *)
(* (virtio_disk_rw(), alloc3_desc(), free_chain()), for any number of      *)
(* processes and descriptors.                                              *)
THEOREM ChainsIntactCorrect == Spec => []ChainsIntact
<1>1. IInv => ChainsIntact
  <2> SUFFICES ASSUME IInv  PROVE ChainsIntact
    BY Zenon
  <2> USE DEF IInv
  <2>1. TypeOK  BY Zenon DEF Types, TypeOK, PCs
  <2>2. UNION {ChainOf(idx[p]) : p \in Busy} = Ids \ free  BY Zenon, ChainsAre
  <2>3. free = Ids \ UNION {ChainOf(idx[p]) : p \in Busy}  BY Zenon, <2>2 DEF Types
  <2>4. Cardinality(Ids \ free) = 3 * Cardinality(Busy)
    <3>1. IsFiniteSet(Ids) /\ Cardinality(Ids) = NUM  BY Sizes, FS_Interval DEF Ids
    <3>2. Cardinality(Ids \ free) = NUM - Cardinality(Ids \cap free)
      BY Zenon, <3>1, FS_Difference
    <3>3. Ids \cap free = free  BY Zenon DEF Types
    <3>4. Cardinality(free) \in Nat /\ Cardinality(Busy) \in Nat  BY Zenon, Bound DEF Rings
    <3>5. Cardinality(Ids \ free) = NUM - Cardinality(free)  BY Zenon, <3>2, <3>3
    <3>6. Cardinality(free) + 3 * Cardinality(Busy) = NUM  BY Zenon DEF Chains
    <3> QED  BY <3>4, <3>5, <3>6, Sizes
  <2>5. ASSUME NEW p \in Busy
        PROVE  LET i == idx[p] j == desc[i].next k == desc[j].next
               IN  /\ desc[i].addr = p /\ desc[i].what = (IF write[p] THEN "out" ELSE "in")
                   /\ desc[j].addr = p /\ desc[j].what = (IF write[p] THEN "read" ELSE "write")
                   /\ desc[k].addr = p /\ desc[k].what = "status"
                   /\ info[i] = p
    <3>1. Formatted(p)  BY Zenon DEF Chains
    <3> QED  BY ZenonT(30), <3>1 DEF Formatted, Second, Third
  <2> QED  BY ZenonT(30), <2>1, <2>2, <2>3, <2>4, <2>5 DEF ChainsIntact
<1> QED  BY <1>1, InitInv, NextInv, PTL DEF Spec

(* Neither ring is overrun, the handler's comparison modulo NUM sees every *)
(* completion, each names a waiting buffer, and b->disk is cleared only    *)
(* when the device is done (virtio_disk_intr()).                           *)
THEOREM RingsHoldCorrect == Spec => []RingsHold
<1>1. IInv => RingsHold
  <2> SUFFICES ASSUME IInv  PROVE RingsHold
    BY Zenon
  <2> USE DEF IInv
  <2>1. \A p \in Busy : ~bdisk[p] => p \in done  BY Zenon DEF Rings, Done
  <2>2. Cardinality(taken) + Unread + ((avail_idx - seen) % W) <= NUM \div 3
    <3>1. /\ Unread \in 0..(NUM - 1) /\ Pend \in 0..(W - 1) /\ Cardinality(taken) \in Nat
          /\ Cardinality(Busy) \in Nat /\ 3 * Cardinality(Busy) <= NUM
          /\ Cardinality(taken) + Unread + Pend <= Cardinality(Busy)
      BY Zenon, Bound DEF Rings
    <3>2. Cardinality(taken) + Unread + Pend <= NUM \div 3  BY <3>1, Sizes
    <3> QED  BY Zenon, <3>2 DEF Pend
  <2>3. ASSUME NEW k \in 0..(NUM - 1), k < Unread
        PROVE  \E p \in Busy : idx[p] = used[(used_idx + k) % NUM] /\ bdisk[p]
    <3>1. NUM \in Nat \ {0} /\ used_idx \in 0..(NUM - 1) /\ used_idx + k \in Int
      BY Sizes DEF Types, Ids
    <3>2. PICK i \in Ids : i = (used_idx + k) % NUM
      <4>1. (used_idx + k) % NUM \in 0..(NUM - 1)  BY Zenon, <3>1, ModRange
      <4> QED  BY Zenon, <4>1 DEF Ids
    <3>3. (i - used_idx) % NUM = k
      <4>1. i = used_idx + k \/ i = used_idx + k - NUM  BY <3>1, <3>2
      <4>2. i \in 0..(NUM - 1)  BY Zenon DEF Ids
      <4>3. i - used_idx = k \/ i - used_idx = k - NUM  BY <3>1, <4>1, <4>2
      <4> QED  BY <3>1, <4>3
    <3>4. used[i] # NUM  BY Zenon, <2>3, <3>3 DEF Rings, UsedAt
    <3>5. InFlight(used[i])  BY Zenon, <3>4 DEF Rings, Apart
    <3>6. info[used[i]] \in Busy /\ idx[info[used[i]]] = used[i] /\ bdisk[info[used[i]]]
      BY Zenon, <3>5 DEF InFlight, Chains
    <3> QED  BY Zenon, <3>2, <3>6
  <2> QED  BY Zenon, <2>1, <2>2, <2>3 DEF RingsHold
<1> QED  BY <1>1, InitInv, NextInv, PTL DEF Spec

(* A process only sleeps for descriptors while fewer than three are free:  *)
(* free_chain() wakes all of them, and no step but that one frees any      *)
(* (virtio_disk_rw(), free_desc()).                                        *)
THEOREM SleepsForDescsCorrect == Spec => []SleepsForDescs
<1>1. Init => SleepsForDescs  BY Zenon DEF Init, SleepsForDescs
<1>2. IInv /\ SleepsForDescs /\ [Next]_vars => SleepsForDescs'
  <2> SUFFICES ASSUME IInv, SleepsForDescs, [Next]_vars,
                      NEW q \in Procs, pc'[q] = "sleep_free"
               PROVE  Cardinality(free') < 3
    BY Zenon DEF SleepsForDescs
  <2>1. pc \in [Procs -> PCs] /\ IsFiniteSet(free) /\ Cardinality(free) \in Nat
    BY Zenon, Bound DEF IInv, Rings, Types
  <2>2. CASE pc[q] = "sleep_free" /\ free' \subseteq free
    <3>1. Cardinality(free') <= Cardinality(free) /\ Cardinality(free') \in Nat
      BY Zenon, <2>1, <2>2, FS_Subset, FS_CardinalityType
    <3>2. Cardinality(free) < 3  BY Zenon, <2>2 DEF SleepsForDescs
    <3> QED  BY <2>1, <3>1, <3>2
  <2>3. ASSUME NEW p \in Procs, NEW w \in BOOLEAN, virtio_disk_rw(p, w)
        PROVE  pc[q] = "sleep_free" /\ free' \subseteq free
    BY Zenon, <2>1, <2>3 DEF virtio_disk_rw, Set
  <2>4. ASSUME NEW p \in Procs, alloc3_fail(p)  PROVE Cardinality(free') < 3
    BY Zenon, <2>4 DEF alloc3_fail
  <2>5. ASSUME NEW p \in Procs, submit(p)  PROVE pc[q] = "sleep_free" /\ free' \subseteq free
    BY ZenonT(30), <2>1, <2>5 DEF submit, Set
  <2>6. ASSUME NEW p \in Procs, finish(p)  PROVE FALSE
    BY Zenon, <2>1, <2>6 DEF finish, WakeFree
  <2>7. ASSUME NEW p \in Procs, resleep(p) \/ kill(p)
        PROVE  pc[q] = "sleep_free" /\ free' \subseteq free
    BY Zenon, <2>1, <2>7 DEF resleep, kill, Set
  <2>8. ASSUME Intr \/ Device \/ UNCHANGED vars
        PROVE  pc[q] = "sleep_free" /\ free' \subseteq free
    <3>1. CASE intr_entry
      <4>1. pc[q] = "sleep_free"
        BY Zenon, <2>1, <3>1 DEF intr_entry, Set
      <4> QED  BY Zenon, <3>1, <4>1 DEF intr_entry
    <3>2. CASE intr_begin \/ intr_end \/ intr_ack
      BY Zenon, <3>2 DEF intr_begin, intr_end, intr_ack
    <3>3. CASE Device  BY Zenon, <3>3 DEF Device, device_take, device_complete, driver
    <3>4. CASE UNCHANGED vars  BY Zenon, <3>4 DEF vars, driver
    <3> QED  BY Zenon, <2>8, <3>1, <3>2, <3>3, <3>4 DEF Intr
  <2> QED  BY ZenonT(30), <2>2, <2>3, <2>4, <2>5, <2>6, <2>7, <2>8 DEF Next, Driver
<1> QED  BY <1>1, <1>2, InitInv, NextInv, PTL DEF Spec
=============================================================================
