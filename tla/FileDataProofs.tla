--------------------------- MODULE FileDataProofs ---------------------------
(***************************************************************************)
(* Proofs about FileData for every number of files, descriptors, processes *)
(* and blocks, every size of a block and every reservation from six blocks *)
(* on: no block is lost or given out twice, files read back as they were   *)
(* written, and no transaction outgrows its reservation.                   *)
(***************************************************************************)
EXTENDS FileData, TLAPS

PCs == {"idle", "filewrite", "writei", "itrunc", "end_op"}
Call == [pc : PCs, d : Descs \cup {None}, left : Nat, val : Nat, pos : Nat, end : Nat]
Bns == 0..(MAXFILE - 1)

Types ==
  /\ used \subseteq Blocks
  /\ addrs \in [Files -> [0..NDIRECT -> Blocks \cup {0}]]
  /\ size \in [Files -> 0..MAXSIZE]
  /\ blk \in [Blocks -> [Words -> Nat]]
  /\ off \in [Descs -> 0..MAXSIZE]
  /\ lock \in [Files -> Procs \cup {None}]
  /\ l \in [Procs -> Call]
  /\ logged \in [Procs -> SUBSET Int]
  /\ content \in [Files -> [Offsets -> Nat]]
  /\ calls \in Nat

\* The block numbers of the inodes, and the bit map U that goes with them
Ptrs == [x \in Files \X Places |-> Ptr(x[1], x[2])]
OwnedBy(P, U) ==
  /\ \A x \in DOMAIN P : P[x] \in U \cup {0}
  /\ \A b \in U : \E x \in DOMAIN P : P[x] = b
  /\ \A x, y \in DOMAIN P : P[x] = P[y] /\ P[x] # 0 => x = y

\* A process in a transaction has the inode's lock, and writei() goes on where the bytes
\* from f->off on are copied
Place(p) ==
  /\ ~At(p, "idle") => l[p].d \in Descs
  /\ l[p].pc \in {"filewrite", "writei"} => l[p].left > 0
  /\ l[p].pc \in {"writei", "itrunc", "end_op"} => lock[File(p)] = p
  /\ At(p, "writei") =>
       /\ off[l[p].d] <= l[p].pos /\ l[p].pos <= l[p].end
       /\ l[p].end <= off[l[p].d] + n1(p) /\ off[l[p].d] <= size[File(p)]
  /\ At(p, "itrunc") => l[p].pos <= BSIZE /\ l[p].left = 0
  /\ l[p].pc \in {"writei", "end_op"} => off[l[p].d] + n1(p) <= MAXSIZE

Byte(f, i) == blk[Addr(f, i \div BSIZE)][i % BSIZE]

\* The first n bytes of a file are in its blocks
Holds(f, n) ==
  \A i \in 0..(n - 1) : Addr(f, i \div BSIZE) # 0 /\ Byte(f, i) = content[f][i]

Truncated(f) == \E p \in Procs : At(p, "itrunc") /\ File(p) = f

Data ==
  /\ \A f \in Files : ~Truncated(f) => Holds(f, size[f])
  /\ \A p \in Procs : At(p, "writei") => Holds(File(p), l[p].pos)

\* The blocks of a chunk, from bn to Last(p).  That of a first byte within a block is
\* there already.
Start(p) == off[l[p].d]
Last(p) == (Start(p) + n1(p) - 1) \div BSIZE
Span(p) == (Start(p) \div BSIZE)..Last(p)
News(p) == {bn \in Span(p) : Start(p) % BSIZE = 0 \/ bn # Start(p) \div BSIZE}
BitmapBlocks == {-(1 + k) : k \in 0..(NBLOCKS \div BPB)}

Writing(p) == l[p].pc \in {"writei", "end_op"} /\ l[p].left > 0
Truncating(p) == l[p].pc \in {"itrunc", "end_op"} /\ l[p].left = 0

\* What a transaction has logged: a chunk the inode, the indirect block, the blocks it
\* spans and the bits of those it allocates, a truncation the inode and the bit map
Planned(p, x) ==
  LET f == File(p)
      ind == addrs[f][NDIRECT]
  IN  \/ x = 0
      \/ ind # 0 /\ x \in {ind, BitmapBlock(ind)}
      \/ \E bn \in Span(p) : Addr(f, bn) # 0 /\ x = Addr(f, bn)
      \/ \E bn \in News(p) : Addr(f, bn) # 0 /\ x = BitmapBlock(Addr(f, bn))
Reserved(p) ==
  /\ l[p].pc \in {"idle", "filewrite"} => logged[p] = {}
  /\ Writing(p) => \A x \in logged[p] : Planned(p, x)
  /\ Truncating(p) => logged[p] \subseteq BitmapBlocks \cup {0}

IInv ==
  /\ Types /\ OwnedBy(Ptrs, used) /\ Data
  /\ \A p \in Procs : Place(p) /\ Reserved(p)

-----------------------------------------------------------------------------
(* The sizes: a block has a word, a chunk a byte, a file a block.          *)
LEMMA Sizes ==
  /\ BSIZE \in Nat \ {0} /\ NDIRECT \in Nat \ {0} /\ NBLOCKS \in Nat \ {0} /\ BPB \in Nat \ {0}
  /\ MAXOPBLOCKS \in Nat /\ MAXFILE \in Nat \ {0} /\ MAXSIZE \in Nat \ {0}
  /\ 0 \notin Blocks /\ Blocks \subseteq Nat
<1>1. /\ BSIZE \in Nat \ {0} /\ NDIRECT \in Nat \ {0} /\ NBLOCKS \in Nat \ {0} /\ BPB \in Nat \ {0}
      /\ MAXOPBLOCKS \in Nat
  BY Zenon, FileDataAssumption
<1>2. MAXFILE \in Nat \ {0}  BY <1>1 DEF MAXFILE
<1>3. MAXSIZE \in Nat \ {0}  BY <1>1, <1>2 DEF MAXSIZE
<1>4. 0 \notin Blocks /\ Blocks \subseteq Nat  BY <1>1 DEF Blocks
<1> QED  BY Zenon, <1>1, <1>2, <1>3, <1>4

(* A number is a block of a file and a word in it.                         *)
LEMMA DivMod ==
  ASSUME NEW i \in Nat
  PROVE  i \div BSIZE \in Nat /\ i % BSIZE \in Words /\ i = BSIZE * (i \div BSIZE) + (i % BSIZE)
<1>1. BSIZE \in Nat \ {0}  BY Zenon, Sizes
<1>2. i \div BSIZE \in Nat /\ i % BSIZE \in 0..(BSIZE - 1)
      /\ i = BSIZE * (i \div BSIZE) + (i % BSIZE)
  BY <1>1
<1> QED  BY Zenon, <1>2 DEF Words

(* That block and that word are the only ones.                             *)
LEMMA DivModIs ==
  ASSUME NEW q \in Nat, NEW r \in Words
  PROVE  (BSIZE * q + r) \div BSIZE = q /\ (BSIZE * q + r) % BSIZE = r
<1>1. BSIZE \in Nat \ {0} /\ r \in 0..(BSIZE - 1)  BY Zenon, Sizes DEF Words
<1> DEFINE i == BSIZE * q + r
           d == i \div BSIZE
           m == i % BSIZE
<1>2. i \in Nat  BY <1>1
<1>3. d \in Nat /\ m \in 0..(BSIZE - 1) /\ i = BSIZE * d + m  BY Zenon, <1>1, <1>2, DivMod DEF Words
<1> HIDE DEF d, m
<1>4. ~(d > q)
  <2>1. SUFFICES ASSUME d > q  PROVE FALSE  BY Zenon
  <2>2. d = q + (d - q) /\ d - q \in Nat /\ d - q >= 1  BY <1>3, <2>1
  <2>3. BSIZE * d = BSIZE * q + BSIZE * (d - q)  BY <1>1, <1>3, <2>2
  <2>4. BSIZE * (d - q) >= BSIZE  BY <1>1, <2>2
  <2> QED  BY <1>1, <1>3, <2>3, <2>4
<1>5. ~(d < q)
  <2>1. SUFFICES ASSUME d < q  PROVE FALSE  BY Zenon
  <2>2. q = d + (q - d) /\ q - d \in Nat /\ q - d >= 1  BY <1>3, <2>1
  <2>3. BSIZE * q = BSIZE * d + BSIZE * (q - d)  BY <1>1, <1>3, <2>2
  <2>4. BSIZE * (q - d) >= BSIZE  BY <1>1, <2>2
  <2> QED  BY <1>1, <1>3, <2>3, <2>4
<1>6. d = q  BY <1>3, <1>4, <1>5
<1> QED  BY <1>1, <1>3, <1>6 DEF d, m

(* Numbers of a block differ by their words; the bytes after one, up to    *)
(* the end of its block, are in its block; a file has MAXFILE blocks.      *)
LEMMA SameBlock ==
  ASSUME NEW i \in Nat, NEW j \in Nat
  PROVE  /\ i \div BSIZE = j \div BSIZE => j - i = (j % BSIZE) - (i % BSIZE)
         /\ i <= j /\ (i % BSIZE) + (j - i) < BSIZE =>
              j \div BSIZE = i \div BSIZE /\ j % BSIZE = (i % BSIZE) + (j - i)
<1> DEFINE q == i \div BSIZE
           r == i % BSIZE
<1>1. q \in Nat /\ r \in Words /\ i = BSIZE * q + r  BY Zenon, DivMod
<1>2. j \div BSIZE \in Nat /\ j % BSIZE \in Words
      /\ j = BSIZE * (j \div BSIZE) + (j % BSIZE)
  BY Zenon, DivMod
<1>3. BSIZE \in Nat \ {0} /\ Words = 0..(BSIZE - 1)  BY Zenon, Sizes DEF Words
<1>4. ASSUME q = j \div BSIZE  PROVE j - i = (j % BSIZE) - r
  <2> HIDE DEF q, r
  <2>1. j = BSIZE * q + (j % BSIZE) /\ BSIZE * q \in Nat  BY <1>1, <1>2, <1>3, <1>4
  <2> QED  BY <1>1, <1>2, <1>3, <2>1
<1>5. ASSUME i <= j, r + (j - i) < BSIZE
      PROVE  j \div BSIZE = q /\ j % BSIZE = r + (j - i)
  <2> HIDE DEF q, r
  <2>1. r + (j - i) \in Words /\ j = BSIZE * q + (r + (j - i))  BY <1>1, <1>3, <1>5
  <2> QED  BY ZenonT(60), <1>1, <2>1, DivModIs
<1> QED  BY Zenon, <1>4, <1>5 DEF q, r

(* A file has MAXFILE blocks.                                              *)
LEMMA BlockOf ==
  ASSUME NEW i \in Offsets
  PROVE  i \in Nat /\ i \div BSIZE \in Bns
<1>1. BSIZE \in Nat \ {0} /\ MAXFILE \in Nat \ {0}  BY Zenon, Sizes
<1>2. i \in Nat /\ i < MAXFILE * BSIZE  BY <1>1 DEF Offsets, MAXSIZE
<1> DEFINE q == i \div BSIZE
<1>3. q \in Nat /\ i % BSIZE \in 0..(BSIZE - 1) /\ i = BSIZE * q + (i % BSIZE)
  BY Zenon, <1>2, DivMod DEF Words
<1> HIDE DEF q
<1>4. q < MAXFILE
  <2>1. SUFFICES ASSUME q >= MAXFILE  PROVE FALSE  BY <1>1, <1>3
  <2>2. q - MAXFILE \in Nat /\ BSIZE * q = BSIZE * MAXFILE + BSIZE * (q - MAXFILE)
    BY <1>1, <1>3, <2>1
  <2>3. BSIZE * (q - MAXFILE) >= 0  BY <1>1, <2>2
  <2> QED  BY <1>1, <1>2, <1>3, <2>2, <2>3
<1> QED  BY <1>1, <1>2, <1>3, <1>4 DEF q, Bns

-----------------------------------------------------------------------------
(* Ownership of blocks: a place takes a free block, or gives up its own.   *)
LEMMA TakeBlock ==
  ASSUME NEW P, NEW U, OwnedBy(P, U), 0 \notin U,
         NEW x \in DOMAIN P, P[x] = 0, NEW b, b \notin U, b # 0
  PROVE  OwnedBy([P EXCEPT ![x] = b], U \cup {b})
<1> DEFINE Q == [P EXCEPT ![x] = b]
<1>1. DOMAIN Q = DOMAIN P /\ Q[x] = b /\ \A y \in DOMAIN P : y # x => Q[y] = P[y]  BY Zenon
<1> HIDE DEF Q
<1>2. \A y \in DOMAIN Q : Q[y] \in U \cup {b} \cup {0}  BY Zenon, <1>1 DEF OwnedBy
<1>3. \A c \in U \cup {b} : \E y \in DOMAIN Q : Q[y] = c
  <2>1. TAKE c \in U \cup {b}
  <2>2. CASE c = b  BY Zenon, <1>1, <2>2
  <2>3. CASE c \in U
    <3>1. PICK y \in DOMAIN P : P[y] = c  BY Zenon, <2>3 DEF OwnedBy
    <3>2. y # x  BY Zenon, <2>3, <3>1
    <3> QED  BY Zenon, <1>1, <3>1, <3>2
  <2> QED  BY Zenon, <2>2, <2>3
<1>4. \A y, z \in DOMAIN Q : Q[y] = Q[z] /\ Q[y] # 0 => y = z
  <2>1. \A y \in DOMAIN P : P[y] # b  BY Zenon DEF OwnedBy
  <2>2. \A y, z \in DOMAIN P : P[y] = P[z] /\ P[y] # 0 => y = z  BY Zenon DEF OwnedBy
  <2> QED  BY ZenonT(30), <1>1, <2>1, <2>2
<1> QED  BY Zenon, <1>2, <1>3, <1>4 DEF OwnedBy, Q

(* A block taken from its place, and from the bit map.                     *)
LEMMA GiveBlock ==
  ASSUME NEW P, NEW U, OwnedBy(P, U), NEW x \in DOMAIN P
  PROVE  OwnedBy([P EXCEPT ![x] = 0], U \ {P[x]})
<1> DEFINE Q == [P EXCEPT ![x] = 0]
<1>1. DOMAIN Q = DOMAIN P /\ Q[x] = 0 /\ \A y \in DOMAIN P : y # x => Q[y] = P[y]  BY Zenon
<1> HIDE DEF Q
<1>2. \A y \in DOMAIN Q : Q[y] \in (U \ {P[x]}) \cup {0}
  <2>1. SUFFICES ASSUME NEW y \in DOMAIN P, y # x, P[y] # 0  PROVE P[y] \in U \ {P[x]}
    BY Zenon, <1>1
  <2> QED  BY Zenon, <2>1 DEF OwnedBy
<1>3. \A c \in U \ {P[x]} : \E y \in DOMAIN Q : Q[y] = c
  <2>1. TAKE c \in U \ {P[x]}
  <2>2. PICK y \in DOMAIN P : P[y] = c  BY Zenon DEF OwnedBy
  <2>3. y # x  BY Zenon, <2>2
  <2> QED  BY Zenon, <1>1, <2>2, <2>3
<1>4. \A y, z \in DOMAIN Q : Q[y] = Q[z] /\ Q[y] # 0 => y = z  BY Zenon, <1>1 DEF OwnedBy
<1> QED  BY Zenon, <1>2, <1>3, <1>4 DEF OwnedBy, Q
-----------------------------------------------------------------------------
(* The places of inodes, and the blocks of files.                          *)
LEMMA PtrsAt ==
  /\ DOMAIN Ptrs = Files \X Places
  /\ \A f \in Files, k \in Places : <<f, k>> \in Files \X Places /\ Ptrs[<<f, k>>] = Ptr(f, k)
<1>1. \A f \in Files, k \in Places :
        <<f, k>> \in Files \X Places /\ <<f, k>>[1] = f /\ <<f, k>>[2] = k
  BY Zenon
<1> QED  BY Zenon, <1>1 DEF Ptrs

(* A block number is in one place, and its block in the bit map.           *)
LEMMA Unique ==
  ASSUME OwnedBy(Ptrs, used), NEW f \in Files, NEW g \in Files, NEW j \in Places, NEW k \in Places
  PROVE  /\ Ptr(f, j) \in used \cup {0}
         /\ Ptr(f, j) = Ptr(g, k) /\ Ptr(f, j) # 0 => f = g /\ j = k
<1>1. /\ <<f, j>> \in DOMAIN Ptrs /\ Ptrs[<<f, j>>] = Ptr(f, j)
      /\ <<g, k>> \in DOMAIN Ptrs /\ Ptrs[<<g, k>>] = Ptr(g, k)
  BY Zenon, PtrsAt
<1>2. <<f, j>> = <<g, k>> => f = g /\ j = k  BY Zenon
<1> QED  BY Zenon, <1>1, <1>2 DEF OwnedBy

(* The place that block bn of a file is kept in.                           *)
Pl(bn) == IF bn < NDIRECT THEN bn ELSE bn + 1

(* The places of the blocks of a file are different, and none is the place *)
(* of the indirect block.                                                  *)
LEMMA PlaceOf ==
  /\ NDIRECT \in Places /\ NDIRECT <= NDIRECT /\ 0..NDIRECT \subseteq Places
  /\ \A bn \in Bns : /\ Pl(bn) \in Places /\ Pl(bn) # NDIRECT
                     /\ bn >= NDIRECT => bn - NDIRECT \in Words /\ Pl(bn) = bn + 1
                     /\ bn < NDIRECT => bn \in 0..NDIRECT /\ Pl(bn) = bn
                     /\ \A c \in Bns : Pl(bn) = Pl(c) => bn = c
  /\ \A k \in Places : k > NDIRECT => k - NDIRECT - 1 \in Words /\ k - 1 \in Bns /\ Pl(k - 1) = k
<1>1. NDIRECT \in Nat \ {0} /\ BSIZE \in Nat \ {0}  BY Zenon, Sizes
<1> QED  BY <1>1 DEF Places, Pl, Bns, MAXFILE, Words

(* bmap() looks block bn up at its place.                                  *)
LEMMA AddrPtr ==
  ASSUME Types, NEW f \in Files, ~Truncated(f), NEW bn \in Bns
  PROVE  Addr(f, bn) = Ptr(f, Pl(bn))
<1>1. NDIRECT \in Nat /\ bn \in Nat  BY Sizes DEF Bns
<1>2. CASE bn < NDIRECT
  <2>1. Pl(bn) = bn /\ Pl(bn) <= NDIRECT  BY <1>1, <1>2 DEF Pl
  <2> QED  BY Zenon, <1>2, <2>1 DEF Addr, Ptr
<1>3. CASE ~(bn < NDIRECT)
  <2>1. ~(Pl(bn) <= NDIRECT) /\ Pl(bn) - NDIRECT - 1 = bn - NDIRECT  BY <1>1, <1>3 DEF Pl
  <2>2. ~Passed(f, bn - NDIRECT)  BY Zenon DEF Passed, Truncated
  <2> QED  BY Zenon, <1>3, <2>1, <2>2 DEF Addr, Ptr
<1> QED  BY Zenon, <1>2, <1>3

(* A block of a file is marked in use, and neither an indirect block nor a *)
(* block of another file.                                                  *)
LEMMA Owner ==
  ASSUME Types, OwnedBy(Ptrs, used), NEW f \in Files, ~Truncated(f), NEW a \in Bns
  PROVE  /\ Addr(f, a) \in used \cup {0}
         /\ \A g \in Files : addrs[g][NDIRECT] \in used \cup {0}
         /\ \A g \in Files : Addr(f, a) # 0 => Addr(f, a) # addrs[g][NDIRECT]
         /\ \A g \in Files, b \in Bns :
              ~Truncated(g) /\ Addr(f, a) = Addr(g, b) /\ Addr(f, a) # 0 => f = g /\ a = b
<1>1. Addr(f, a) = Ptr(f, Pl(a)) /\ Pl(a) \in Places /\ Pl(a) # NDIRECT
  BY Zenon, AddrPtr, PlaceOf
<1>2. \A g \in Files : Ptr(g, NDIRECT) = addrs[g][NDIRECT]  BY Zenon, PlaceOf DEF Ptr
<1>3. \A g \in Files : addrs[g][NDIRECT] \in used \cup {0}
  <2> SUFFICES ASSUME NEW g \in Files PROVE addrs[g][NDIRECT] \in used \cup {0}  BY Zenon
  <2>2. Ptr(g, NDIRECT) \in used \cup {0}  BY Zenon, Unique, PlaceOf
  <2> QED  BY Zenon, <1>2, <2>2
<1>4. \A g \in Files : Addr(f, a) # 0 => Addr(f, a) # addrs[g][NDIRECT]
  <2>1. TAKE g \in Files
  <2>2. Ptr(f, Pl(a)) = Ptr(g, NDIRECT) /\ Ptr(f, Pl(a)) # 0 => Pl(a) = NDIRECT
    <3>1. NDIRECT \in Places  BY Zenon, PlaceOf
    <3> QED  BY ONLY Zenon, OwnedBy(Ptrs, used), f \in Files, g \in Files, <1>1, <3>1, Unique
  <2> QED  BY Zenon, <1>1, <1>2, <2>2
<1>5. ASSUME NEW g \in Files, NEW b \in Bns, ~Truncated(g), Addr(f, a) = Addr(g, b), Addr(f, a) # 0
      PROVE  f = g /\ a = b
  <2>1. Addr(g, b) = Ptr(g, Pl(b)) /\ Pl(b) \in Places  BY Zenon, <1>5, AddrPtr, PlaceOf
  <2>2. f = g /\ Pl(a) = Pl(b)  BY Zenon, <1>1, <1>5, <2>1, Unique
  <2> QED  BY Zenon, <2>2, PlaceOf
<1>6. Addr(f, a) \in used \cup {0}  BY Zenon, <1>1, Unique
<1> QED  BY Zenon, <1>3, <1>4, <1>5, <1>6

(* An indirect block is marked in use, and belongs to one file.            *)
LEMMA Inds ==
  ASSUME Types, OwnedBy(Ptrs, used), NEW f \in Files, NEW g \in Files
  PROVE  /\ addrs[f][NDIRECT] \in used \cup {0}
         /\ addrs[f][NDIRECT] = addrs[g][NDIRECT] /\ addrs[f][NDIRECT] # 0 => f = g
<1>1. Ptr(f, NDIRECT) = addrs[f][NDIRECT] /\ Ptr(g, NDIRECT) = addrs[g][NDIRECT]
  BY Zenon, PlaceOf DEF Ptr
<1>2. NDIRECT \in Places  BY Zenon, PlaceOf
<1>3. /\ Ptr(f, NDIRECT) \in used \cup {0}
      /\ Ptr(f, NDIRECT) = Ptr(g, NDIRECT) /\ Ptr(f, NDIRECT) # 0 => f = g
  BY Zenon, <1>2, Unique
<1> QED  BY Zenon, <1>1, <1>3

-----------------------------------------------------------------------------
(* A chunk has a byte, and processes in a transaction differ in the inode. *)
LEMMA Chunk ==
  ASSUME Types, NEW p \in Procs
  PROVE  /\ max \in Nat \ {0} /\ n1(p) \in Nat /\ n1(p) <= l[p].left /\ n1(p) <= max
         /\ l[p].left > 0 => n1(p) > 0
<1>1. BSIZE \in Nat \ {0} /\ MAXOPBLOCKS \in Nat /\ MAXOPBLOCKS >= 6
  BY Zenon, Sizes, FileDataAssumption
<1>2. (MAXOPBLOCKS - 1 - 1 - 2) \div 2 \in Nat \ {0}  BY <1>1
<1>3. max \in Nat \ {0}  BY <1>1, <1>2 DEF max
<1>4. l[p].left \in Nat  BY Zenon DEF Types, Call
<1> QED  BY <1>3, <1>4 DEF n1, Min2

Busy(p) == l[p].pc \in {"writei", "itrunc", "end_op"}

(* The process in a transaction has the lock of its inode, and no other    *)
(* process is in a transaction on it.                                      *)
LEMMA Holder ==
  ASSUME IInv, NEW p \in Procs, Busy(p)
  PROVE  /\ l[p].d \in Descs /\ File(p) \in Files /\ lock[File(p)] = p /\ p # None
         /\ lock[File(p)] # None
         /\ \A q \in Procs : Busy(q) /\ File(q) = File(p) => q = p
         /\ At(p, "writei") => ~Truncated(File(p))
<1>1. \A q \in Procs : Busy(q) => l[q].d \in Descs /\ lock[File(q)] = q
  BY Zenon DEF IInv, Place, Busy, At
<1>2. File(p) \in Files /\ p # None
  BY Zenon, <1>1, FileDataAssumption DEF File
<1>3. \A q \in Procs : At(q, "itrunc") => Busy(q)  BY Zenon DEF At, Busy
<1>4. At(p, "writei") => ~At(p, "itrunc")  BY Zenon DEF At
<1> QED  BY Zenon, <1>1, <1>2, <1>3, <1>4 DEF Truncated

(* A file that one process writes is not that of another one in a          *)
(* transaction.                                                            *)
LEMMA Writer ==
  ASSUME IInv, NEW q \in Procs, Writing(q)
  PROVE  /\ Busy(q) /\ File(q) \in Files /\ ~Truncated(File(q))
         /\ \A p \in Procs : Busy(p) /\ p # q => File(q) # File(p)
<1>1. Busy(q)  BY Zenon DEF Writing, Busy
<1>2. SUFFICES ASSUME NEW r \in Procs, At(r, "itrunc"), File(r) = File(q)  PROVE FALSE
  BY Zenon, <1>1, Holder DEF Truncated
<1>3. Busy(r)  BY Zenon, <1>2 DEF At, Busy
<1>4. r = q /\ Place(q)  BY Zenon, <1>1, <1>2, <1>3, Holder DEF IInv
<1> QED  BY Zenon, <1>2, <1>4 DEF Place, At, Writing

(* A turn of writei() is for a byte and a block of the file.               *)
LEMMA TurnAt ==
  ASSUME IInv, NEW p \in Procs, Turn(p)
  PROVE  /\ Busy(p) /\ At(p, "writei") /\ ~Truncated(File(p)) /\ File(p) \in Files
         /\ l[p].pos \in Nat /\ l[p].end \in Nat /\ l[p].pos < l[p].end /\ l[p].end <= MAXSIZE
         /\ l[p].pos \in Offsets /\ Bn(p) \in Bns /\ Word(p) \in Words
<1>1. At(p, "writei") /\ Busy(p)  BY Zenon DEF Turn, At, Busy
<1>2. l[p] \in Call /\ off[l[p].d] \in Nat /\ n1(p) \in Nat
  <2>1. l[p].d \in Descs  BY Zenon, <1>1, Holder
  <2> QED  BY <2>1, Chunk, Sizes DEF IInv, Types
<1>3. /\ l[p].pos \in Nat /\ l[p].end \in Nat /\ l[p].pos < l[p].end
      /\ l[p].end <= off[l[p].d] + n1(p) /\ off[l[p].d] + n1(p) <= MAXSIZE
  BY Zenon, <1>1, <1>2 DEF IInv, Place, Turn, At, Call
<1>4. l[p].pos \in Offsets /\ l[p].end <= MAXSIZE  BY <1>2, <1>3, Sizes DEF Offsets
<1> QED  BY Zenon, <1>1, <1>3, <1>4, Holder, BlockOf, DivMod DEF Bn, Word
-----------------------------------------------------------------------------
(* What a step keeps of a file: the blocks it has, and their words.        *)
NextAddr(f, bn) ==
  IF bn < NDIRECT THEN addrs'[f][bn]
  ELSE IF addrs'[f][NDIRECT] = 0 THEN 0 ELSE blk'[addrs'[f][NDIRECT]][bn - NDIRECT]
Maps(f) ==
  /\ addrs[f][NDIRECT] # 0 => addrs'[f][NDIRECT] = addrs[f][NDIRECT]
  /\ \A bn \in Bns : Addr(f, bn) # 0 => NextAddr(f, bn) = Addr(f, bn)
Keeps(f) == Maps(f) /\ \A bn \in Bns : Addr(f, bn) # 0 => blk'[Addr(f, bn)] = blk[Addr(f, bn)]
Same(f) == Keeps(f) /\ size'[f] = size[f] /\ content'[f] = content[f]

(* A step that leaves a process and its inode alone.                       *)
Aside(q) ==
  /\ l'[q] = l[q] /\ logged'[q] = logged[q]
  /\ Busy(q) => lock'[File(q)] = lock[File(q)] /\ off'[l[q].d] = off[l[q].d]
  /\ Writing(q) => Same(File(q))

(* The block that block bn is in after a step.                             *)
LEMMA NextIs ==
  ASSUME NEW f, NEW bn
  PROVE  Addr(f, bn)' = NextAddr(f, bn)
BY Zenon DEF Addr, NextAddr

(* A file whose blocks a step keeps holds the bytes that it held.          *)
LEMMA KeepsHolds ==
  ASSUME NEW f \in Files, NEW n \in 0..MAXSIZE, Keeps(f), content'[f] = content[f], Holds(f, n)
  PROVE  Holds(f, n)'
<1>1. SUFFICES ASSUME NEW i \in 0..(n - 1)
               PROVE  /\ Addr(f, i \div BSIZE)' # 0
                      /\ blk'[Addr(f, i \div BSIZE)'][i % BSIZE] = content'[f][i]
  BY Zenon DEF Holds, Byte
<1>2. i \div BSIZE \in Bns
  <2>1. i \in Offsets  BY Sizes DEF Offsets
  <2> QED  BY Zenon, <2>1, BlockOf
<1>3. Addr(f, i \div BSIZE) # 0 /\ blk[Addr(f, i \div BSIZE)][i % BSIZE] = content[f][i]
  BY Zenon DEF Holds, Byte
<1> QED  BY Zenon, <1>2, <1>3, NextIs DEF Keeps, Maps

(* A chunk lies within the blocks of a file.                               *)
LEMMA Spans ==
  ASSUME Types, NEW p \in Procs, Place(p), Writing(p)
  PROVE  Span(p) \subseteq Bns /\ News(p) \subseteq Span(p) /\ Start(p) \in Nat
<1>1. l[p].d \in Descs /\ off[l[p].d] + n1(p) <= MAXSIZE /\ l[p].left > 0
  BY Zenon DEF Place, At, Writing
<1>2. off[l[p].d] \in Nat /\ n1(p) \in Nat /\ n1(p) > 0  BY <1>1, Chunk, Sizes DEF Types
<1> DEFINE e == off[l[p].d] + n1(p) - 1
<1>3. e \in Offsets  BY <1>1, <1>2, Sizes DEF Offsets
<1>4. e \div BSIZE \in Bns  BY Zenon, <1>3, BlockOf
<1>5. Last(p) \in Bns /\ Start(p) \in Nat  BY Zenon, <1>2, <1>4 DEF Last, Start
<1>6. Start(p) \div BSIZE \in Nat  BY Zenon, <1>5, DivMod
<1>7. Span(p) \subseteq Bns  BY <1>5, <1>6, Sizes DEF Span, Bns
<1> QED  BY Zenon, <1>5, <1>7 DEF News

(* What was planned stays planned while the file keeps its blocks.         *)
LEMMA KeepsPlan ==
  ASSUME Types, NEW q \in Procs, Place(q), Writing(q), Maps(File(q)),
         l'[q].d = l[q].d, l'[q].left = l[q].left, off'[l[q].d] = off[l[q].d],
         NEW x, Planned(q, x)
  PROVE  Planned(q, x)'
<1>1. File(q)' = File(q) /\ n1(q)' = n1(q)  BY Zenon DEF File, n1
<1>2. Span(q)' = Span(q) /\ News(q)' = News(q)  BY Zenon, <1>1 DEF Span, News, Start, Last
<1>3. Span(q) \subseteq Bns /\ News(q) \subseteq Span(q)  BY Zenon, Spans
<1>4. \A bn : Addr(File(q), bn)' = NextAddr(File(q), bn)  BY Zenon, <1>1 DEF Addr, NextAddr
<1> QED  BY Zenon, <1>1, <1>2, <1>3, <1>4 DEF Planned, Maps

(* A process that a step leaves alone stays within its plan.               *)
LEMMA KeepsReserved ==
  ASSUME Types, NEW q \in Procs, Place(q), Reserved(q), Aside(q)
  PROVE  Reserved(q)'
<1>1. l'[q] = l[q] /\ logged'[q] = logged[q]  BY Zenon DEF Aside
<1>2. ASSUME Writing(q)  PROVE \A x \in logged[q] : Planned(q, x)'
  <2>1. Busy(q)  BY Zenon, <1>2 DEF Writing, Busy
  <2> QED  BY Zenon, <1>1, <1>2, <2>1, KeepsPlan DEF Aside, Same, Keeps, Reserved
<1> QED  BY Zenon, <1>1, <1>2 DEF Reserved, Writing, Truncating

(* The same when the chunk logs more.                                      *)
LEMMA LogsMore ==
  ASSUME Types, NEW p \in Procs, Place(p), Reserved(p), Writing(p), Maps(File(p)), Writing(p)',
         l'[p].d = l[p].d, l'[p].left = l[p].left, l[p].left > 0, off'[l[p].d] = off[l[p].d],
         \A x \in logged'[p] : x \in logged[p] \/ Planned(p, x)'
  PROVE  Reserved(p)'
<1>1. \A x \in logged'[p] : Planned(p, x)'  BY Zenon, KeepsPlan DEF Reserved
<1>2. ~(l'[p].pc \in {"idle", "filewrite"}) /\ ~Truncating(p)'
  BY DEF Writing, Truncating, Types, Call
<1> QED  BY Zenon, <1>1, <1>2 DEF Reserved

(* A process that a step leaves alone stays in its place.                  *)
LEMMA Bystander ==
  ASSUME IInv, NEW q \in Procs, Aside(q)
  PROVE  /\ Place(q)' /\ Reserved(q)'
         /\ (At(q, "writei") => Holds(File(q), l[q].pos))'
<1>1. Types /\ Place(q) /\ Reserved(q)  BY Zenon DEF IInv
<1>2. /\ l'[q] = l[q] /\ n1(q)' = n1(q) /\ File(q)' = File(q)
      /\ \A s : At(q, s)' <=> At(q, s)
  BY Zenon DEF Aside, n1, File, At
<1>3. At(q, "writei") => Busy(q) /\ Writing(q)  BY Zenon, <1>1 DEF At, Busy, Writing, Place
<1>4. Place(q)'
  <2>1. Busy(q) => lock'[File(q)'] = lock[File(q)]  BY Zenon, <1>2 DEF Aside
  <2>2. At(q, "writei") => size'[File(q)'] = size[File(q)]
    BY Zenon, <1>2, <1>3 DEF Aside, Same
  <2>3. l[q].pc \in {"writei", "end_op"} => off'[l[q].d] = off[l[q].d]
    BY Zenon DEF Aside, Busy
  <2> QED  BY Zenon, <1>1, <1>2, <1>3, <2>1, <2>2, <2>3 DEF Place, Busy, At
<1>5. ASSUME At(q, "writei")'  PROVE Holds(File(q), l[q].pos)'
  <2>1. Busy(q) /\ At(q, "writei") /\ Writing(q)  BY Zenon, <1>2, <1>3, <1>5
  <2>2. File(q) \in Files /\ Same(File(q)) /\ Holds(File(q), l[q].pos)
    BY Zenon, <2>1, Holder DEF Aside, IInv, Data
  <2>3. l[q].pos \in 0..MAXSIZE
    <3>1. /\ l[q].pos <= l[q].end /\ l[q].end <= off[l[q].d] + n1(q)
          /\ off[l[q].d] + n1(q) <= MAXSIZE /\ l[q].d \in Descs
      BY Zenon, <1>1, <2>1 DEF Place, At
    <3>2. off[l[q].d] \in 0..MAXSIZE /\ n1(q) \in Nat /\ l[q] \in Call
      BY Zenon, <1>1, <3>1, Chunk DEF Types
    <3> QED  BY ONLY <3>1, <3>2, Sizes DEF Call
  <2>4. PICK f \in Files, n \in 0..MAXSIZE : f = File(q) /\ n = l[q].pos  BY Zenon, <2>2, <2>3
  <2>5. Holds(f, n)'  BY Zenon, <2>2, <2>4, KeepsHolds DEF Same
  <2> QED  BY Zenon, <1>2, <2>4, <2>5
<1> QED  BY Zenon, <1>1, <1>4, <1>5, KeepsReserved
-----------------------------------------------------------------------------
(* A file that a step leaves alone keeps its bytes.                        *)
LEMMA FileKept ==
  ASSUME IInv, NEW f \in Files, ~Truncated(f), Same(f)
  PROVE  Holds(f, size[f])'
<1>1. size[f] \in 0..MAXSIZE /\ Holds(f, size[f])  BY Zenon DEF IInv, Types, Data
<1>2. PICK n \in 0..MAXSIZE : n = size[f]  BY Zenon, <1>1
<1>3. Holds(f, n)'  BY Zenon, <1>1, <1>2, KeepsHolds DEF Same
<1> QED  BY Zenon, <1>2, <1>3 DEF Same

(* The parts of a step of p: the types, the blocks, the others, p, the     *)
(* bytes of the files.                                                     *)
LEMMA Parts ==
  ASSUME IInv, NEW p \in Procs, Types', OwnedBy(Ptrs, used)',
         \A q \in Procs : q # p => Aside(q),
         Place(p)', Reserved(p)', (At(p, "writei") => Holds(File(p), l[p].pos))',
         \A f \in Files : ~Truncated(f)' => (~Truncated(f) /\ Same(f)) \/ Holds(f, size[f])'
  PROVE  IInv'
<1>1. \A q \in Procs : /\ Place(q)' /\ Reserved(q)'
                       /\ (At(q, "writei") => Holds(File(q), l[q].pos))'
  <2>1. TAKE q \in Procs
  <2>2. CASE q = p  BY Zenon, <2>2
  <2>3. CASE q # p  BY Zenon, <2>3, Bystander
  <2> QED  BY Zenon, <2>2, <2>3
<1>2. \A f \in Files : ~Truncated(f)' => Holds(f, size[f])'  BY Zenon, FileKept
<1> QED  BY Zenon, <1>1, <1>2 DEF IInv, Data

(* Steps of a process outside itrunc() pass no word of an indirect block.  *)
LEMMA PassedSame ==
  ASSUME NEW p \in Procs, \A q \in Procs : q # p => l'[q] = l[q],
         ~At(p, "itrunc"), ~At(p, "itrunc")' \/ l'[p].pos = 0
  PROVE  /\ \A f \in Files, w \in Words : Passed(f, w)' <=> Passed(f, w)
         /\ \A f \in Files : Truncated(f) => Truncated(f)'
         /\ ~At(p, "itrunc")' => \A f \in Files : Truncated(f)' <=> Truncated(f)
<1>1. \A q \in Procs : q # p => (At(q, "itrunc")' <=> At(q, "itrunc")) /\ File(q)' = File(q)
  BY Zenon DEF At, File
<1>2. \A w \in Words : ~(w < 0)  BY Sizes DEF Words
<1> QED  BY Zenon, <1>1, <1>2 DEF Passed, Truncated

(* A step that keeps the inodes and their indirect blocks keeps the block  *)
(* numbers.                                                                *)
LEMMA PtrsSame ==
  ASSUME \A f \in Files, w \in Words : Passed(f, w)' <=> Passed(f, w), addrs' = addrs,
         \A f \in Files : addrs[f][NDIRECT] # 0 => blk'[addrs[f][NDIRECT]] = blk[addrs[f][NDIRECT]]
  PROVE  Ptrs' = Ptrs
<1>1. ASSUME NEW f \in Files, NEW k \in Places  PROVE Ptr(f, k)' = Ptr(f, k)
  <2>1. CASE k <= NDIRECT  BY Zenon, <2>1 DEF Ptr
  <2>2. CASE ~(k <= NDIRECT)
    <3>1. k - NDIRECT - 1 \in Words
      <4>1. k > NDIRECT  BY <2>2, Sizes DEF Places
      <4> QED  BY Zenon, <4>1, PlaceOf
    <3> QED  BY Zenon, <2>2, <3>1 DEF Ptr
  <2> QED  BY Zenon, <2>1, <2>2
<1>2. \A x \in Files \X Places : x[1] \in Files /\ x[2] \in Places  BY Zenon
<1>3. \A x \in Files \X Places : Ptr(x[1], x[2])' = Ptr(x[1], x[2])  BY Zenon, <1>1, <1>2
<1> QED  BY Zenon, <1>3 DEF Ptrs

(* A step that keeps disk, sizes and contents keeps every file.            *)
LEMMA AllSame ==
  ASSUME UNCHANGED <<addrs, blk, size, content>>
  PROVE  \A f : Same(f)
BY Zenon DEF Same, Keeps, Maps, Addr, NextAddr

(* A step that changes neither the disk nor a size.                        *)
LEMMA Light ==
  ASSUME IInv, NEW p \in Procs, Types', UNCHANGED <<disk, size, content>>,
         \A q \in Procs : q # p => /\ l'[q] = l[q] /\ logged'[q] = logged[q]
                                   /\ Busy(q) => /\ lock'[File(q)] = lock[File(q)]
                                                 /\ off'[l[q].d] = off[l[q].d],
         ~At(p, "itrunc"), ~At(p, "itrunc")' \/ l'[p].pos = 0,
         Place(p)', Reserved(p)', (At(p, "writei") => Holds(File(p), l[p].pos))'
  PROVE  IInv'
<1>1. \A f : Same(f)  BY Zenon, AllSame DEF disk
<1>2. \A q \in Procs : q # p => Aside(q)  BY Zenon, <1>1 DEF Aside
<1>3. /\ \A f \in Files, w \in Words : Passed(f, w)' <=> Passed(f, w)
      /\ \A f \in Files : Truncated(f) => Truncated(f)'
  BY Zenon, PassedSame
<1>4. Ptrs' = Ptrs /\ used' = used  BY Zenon, <1>3, PtrsSame DEF disk
<1>5. OwnedBy(Ptrs, used)'  BY Zenon, <1>4 DEF IInv, OwnedBy
<1> QED  BY Zenon, <1>1, <1>2, <1>3, <1>5, Parts

(* sys_write() keeps the invariant: it only begins a call.                 *)
LEMMA Write ==
  ASSUME IInv, NEW p \in Procs, NEW d \in Descs, NEW n \in Lens, sys_write(p, d, n)
  PROVE  IInv'
<1>1. Types /\ logged[p] = {} /\ n \in Nat /\ n > 0 /\ None \notin Descs
  BY Zenon, FileDataAssumption DEF IInv, Reserved, sys_write, At
<1>2. calls' \in Nat /\ calls' = calls + 1  BY <1>1 DEF sys_write, Types
<1> DEFINE new == [Idle EXCEPT !.pc = "filewrite", !.d = d, !.left = n, !.val = calls']
<1>3. /\ new \in Call /\ new.pc = "filewrite" /\ new.left = n /\ new.d = d
      /\ l' = [l EXCEPT ![p] = new]
  BY Zenon, <1>1, <1>2 DEF Call, Idle, PCs, sys_write
<1> HIDE DEF new
<1>4. l' \in [Procs -> Call] /\ l'[p] = new /\ \A q \in Procs : q # p => l'[q] = l[q]
  BY Zenon, <1>1, <1>3 DEF Types
<1>5. UNCHANGED <<disk, size, off, lock, logged, content>>  BY Zenon DEF sys_write
<1>6. Types'  BY Zenon, <1>1, <1>2, <1>4, <1>5 DEF Types, disk
<1>7. l'[p].pc = "filewrite" /\ ~At(p, "itrunc") /\ ~At(p, "itrunc")' /\ ~At(p, "writei")'
  BY Zenon, <1>3, <1>4 DEF sys_write, At
<1>8. Place(p)' /\ Reserved(p)'
  BY Zenon, <1>1, <1>3, <1>4, <1>5, <1>7 DEF Place, Reserved, At, Writing, Truncating
<1> QED  BY Zenon, <1>4, <1>5, <1>6, <1>7, <1>8, Light

(* A file that nobody has locked is not in a transaction.                  *)
LEMMA Unlocked ==
  ASSUME IInv, NEW f \in Files, lock[f] = None
  PROVE  ~Truncated(f) /\ \A q \in Procs : Busy(q) => File(q) # f
<1>1. \A q \in Procs : Busy(q) => File(q) # f  BY Zenon, Holder
<1>2. \A q \in Procs : At(q, "itrunc") => Busy(q)  BY Zenon DEF At, Busy
<1> QED  BY Zenon, <1>1, <1>2 DEF Truncated

(* A file that holds n bytes holds fewer.                                  *)
LEMMA HoldsLess ==
  ASSUME NEW f, NEW n \in Nat, NEW m \in Nat, m <= n, Holds(f, n)
  PROVE  Holds(f, m)
<1>1. 0..(m - 1) \subseteq 0..(n - 1)  OBVIOUS
<1> QED  BY Zenon, <1>1 DEF Holds

(* filewrite() keeps the invariant: a chunk begins with the inode locked,  *)
(* and nothing logged.                                                     *)
LEMMA Chunks ==
  ASSUME IInv, NEW p \in Procs, filewrite(p)
  PROVE  IInv'
<1> DEFINE d == l[p].d
           f == File(p)
           o == off[d]
<1>1. Types /\ At(p, "filewrite") /\ lock[f] = None /\ Place(p) /\ Reserved(p)
  BY Zenon DEF IInv, filewrite
<1>2. d \in Descs /\ l[p].left > 0 /\ logged[p] = {}  BY Zenon, <1>1 DEF Place, Reserved, At
<1>3. f \in Files /\ p # None  BY Zenon, <1>2, FileDataAssumption DEF File
<1>4. o \in Nat /\ n1(p) \in Nat /\ size[f] \in 0..MAXSIZE /\ l[p] \in Call
  BY <1>1, <1>2, <1>3, Chunk, Sizes DEF Types
<1>5. o <= size[f] /\ o + n1(p) <= MAXSIZE
  <2>1. ~(o > size[f] \/ o + n1(p) > MAXSIZE)  BY Zenon DEF filewrite, Refused
  <2> QED  BY ONLY <1>4, <2>1, Sizes
<1>6. l' = [l EXCEPT ![p].pc = "writei", ![p].pos = o, ![p].end = o + n1(p)]
      /\ lock' = [lock EXCEPT ![f] = p] /\ UNCHANGED <<disk, size, off, logged, content, calls>>
  BY Zenon DEF filewrite
<1>7. /\ l' \in [Procs -> Call] /\ l'[p].pc = "writei" /\ l'[p].pos = o /\ l'[p].end = o + n1(p)
      /\ l'[p].d = d /\ l'[p].left = l[p].left
      /\ \A q \in Procs : q # p => l'[q] = l[q]
  <2>1. PICK e \in Nat : e = o + n1(p)  BY <1>4
  <2>2. l' = [l EXCEPT ![p].pc = "writei", ![p].pos = o, ![p].end = e]  BY Zenon, <1>6, <2>1
  <2>3. l \in [Procs -> Call]  BY Zenon, <1>1 DEF Types
  <2> HIDE DEF f, o
  <2>4. l' \in [Procs -> Call]
    BY ONLY Zenon, <1>4, <2>2, <2>3, e \in Nat, p \in Procs DEF Call, PCs
  <2> QED  BY ONLY Zenon, <1>4, <2>1, <2>2, <2>3, <2>4, e \in Nat, p \in Procs DEF Call, d
<1>8. /\ lock' \in [Files -> Procs \cup {None}] /\ lock'[f] = p
      /\ \A g \in Files : g # f => lock'[g] = lock[g]
  BY Zenon, <1>1, <1>3, <1>6 DEF Types
<1>9. Types'  BY Zenon, <1>1, <1>6, <1>7, <1>8 DEF Types, disk
<1>10. \A q \in Procs : q # p => /\ l'[q] = l[q] /\ logged'[q] = logged[q]
                                 /\ Busy(q) => /\ lock'[File(q)] = lock[File(q)]
                                               /\ off'[l[q].d] = off[l[q].d]
  BY ZenonT(60), <1>1, <1>3, <1>6, <1>7, <1>8, Unlocked, Holder
<1>11. ~At(p, "itrunc") /\ ~At(p, "itrunc")'  BY Zenon, <1>1, <1>7 DEF At
<1>12. File(p)' = f /\ n1(p)' = n1(p)  BY Zenon, <1>7 DEF File, n1
<1>13. Place(p)'
  <2>1. off'[l'[p].d] = o /\ size'[f] = size[f]  BY Zenon, <1>6, <1>7
  <2> HIDE DEF f, o, d
  <2> QED  BY <1>2, <1>4, <1>5, <1>7, <1>8, <1>12, <2>1 DEF Place, At
<1>14. Reserved(p)'  BY Zenon, <1>2, <1>6 DEF Reserved
<1>15. Holds(File(p), l[p].pos)'
  <2>1. Holds(f, size[f])  BY Zenon, <1>1, <1>3, Unlocked DEF IInv, Data
  <2>2. Holds(f, o)  BY <1>4, <1>5, <2>1, HoldsLess, Sizes
  <2>3. PICK g \in Files, m \in Nat : g = f /\ m = o  BY Zenon, <1>3, <1>4
  <2>4. Holds(g, m)'  BY Zenon, <1>6, <2>2, <2>3 DEF Holds, Byte, Addr, disk
  <2> QED  BY Zenon, <1>7, <1>12, <2>3, <2>4
<1> QED  BY Zenon, <1>6, <1>9, <1>10, <1>11, <1>13, <1>14, <1>15, Light

(* A write that writei() refuses keeps the invariant.                      *)
LEMMA ChunkFails ==
  ASSUME IInv, NEW p \in Procs, filewrite_fail(p)
  PROVE  IInv'
<1>1. Types /\ At(p, "filewrite") /\ logged[p] = {}
  BY Zenon DEF IInv, filewrite_fail, Reserved, At
<1>2. l' = [l EXCEPT ![p] = Idle] /\ UNCHANGED <<disk, size, off, lock, logged, content, calls>>
  BY Zenon DEF filewrite_fail
<1>3. Idle \in Call /\ Idle.pc = "idle"  BY Zenon DEF Idle, Call, PCs
<1>4. l' \in [Procs -> Call] /\ l'[p] = Idle /\ \A q \in Procs : q # p => l'[q] = l[q]
  BY Zenon, <1>1, <1>2, <1>3 DEF Types
<1>5. Types'  BY Zenon, <1>1, <1>2, <1>4 DEF Types, disk
<1>6. ~At(p, "itrunc") /\ ~At(p, "itrunc")' /\ ~At(p, "writei")'
  BY Zenon, <1>1, <1>3, <1>4 DEF At
<1>7. Place(p)'  BY Zenon, <1>3, <1>4 DEF Place, At
<1>8. Reserved(p)'  BY Zenon, <1>1, <1>2, <1>3, <1>4 DEF Reserved, Writing, Truncating
<1> QED  BY Zenon, <1>2, <1>4, <1>5, <1>6, <1>7, <1>8, Light

(* end_op() keeps the invariant: the lock is given back and the log        *)
(* emptied.                                                                *)
LEMMA EndOp ==
  ASSUME IInv, NEW p \in Procs, end_op(p)
  PROVE  IInv'
<1> DEFINE d == l[p].d
           f == File(p)
<1>1. Types /\ At(p, "end_op") /\ Place(p) /\ Busy(p)  BY Zenon DEF IInv, end_op, At, Busy
<1>2. d \in Descs /\ f \in Files /\ \A q \in Procs : Busy(q) /\ File(q) = f => q = p
  BY Zenon, <1>1, Holder
<1>3. /\ off[d] \in Nat /\ n1(p) \in Nat /\ n1(p) <= l[p].left /\ l[p].left \in Nat
      /\ off[d] + n1(p) <= MAXSIZE /\ l[p] \in Call
  <2>1. off[d] \in 0..MAXSIZE /\ l[p] \in Call  BY Zenon, <1>1, <1>2 DEF Types
  <2>2. n1(p) \in Nat /\ n1(p) <= l[p].left /\ off[d] + n1(p) <= MAXSIZE
    BY Zenon, <1>1, Chunk DEF Place, At
  <2> QED  BY ONLY <2>1, <2>2, Sizes DEF Call
<1>4. /\ off' = [off EXCEPT ![d] = @ + n1(p)] /\ lock' = [lock EXCEPT ![f] = None]
      /\ logged' = [logged EXCEPT ![p] = {}] /\ UNCHANGED <<disk, size, content, calls>>
      /\ IF l[p].left = n1(p) THEN l' = [l EXCEPT ![p] = Idle]
         ELSE l' = [l EXCEPT ![p].pc = "filewrite", ![p].left = @ - n1(p)]
  BY Zenon DEF end_op
<1>5. /\ l' \in [Procs -> Call] /\ \A q \in Procs : q # p => l'[q] = l[q]
      /\ \/ l'[p].pc = "idle"
         \/ l'[p].pc = "filewrite" /\ l'[p].left > 0 /\ l'[p].d = d
  <2>1. CASE l[p].left = n1(p)
    <3>1. Idle \in Call /\ Idle.pc = "idle"  BY Zenon DEF Idle, Call, PCs
    <3> QED  BY Zenon, <1>1, <1>4, <2>1, <3>1 DEF Types
  <2>2. CASE l[p].left # n1(p)
    <3>1. l' = [l EXCEPT ![p].pc = "filewrite", ![p].left = @ - n1(p)]  BY Zenon, <1>4, <2>2
    <3>2. l[p].left - n1(p) \in Nat /\ l[p].left - n1(p) > 0  BY <1>3, <2>2
    <3> QED  BY Zenon, <1>1, <1>3, <3>1, <3>2 DEF Types, Call, PCs
  <2> QED  BY Zenon, <2>1, <2>2
<1>6. /\ off' \in [Descs -> 0..MAXSIZE] /\ \A e \in Descs : e # d => off'[e] = off[e]
      /\ lock' \in [Files -> Procs \cup {None}] /\ \A g \in Files : g # f => lock'[g] = lock[g]
      /\ logged' \in [Procs -> SUBSET Int] /\ logged'[p] = {}
      /\ \A q \in Procs : q # p => logged'[q] = logged[q]
  <2>1. off[d] + n1(p) \in 0..MAXSIZE  BY ONLY <1>3, Sizes
  <2> QED  BY Zenon, <1>1, <1>2, <1>4, <2>1 DEF Types
<1>7. Types'  BY Zenon, <1>1, <1>4, <1>5, <1>6 DEF Types, disk
<1>8. \A q \in Procs : q # p => /\ l'[q] = l[q] /\ logged'[q] = logged[q]
                                /\ Busy(q) => /\ lock'[File(q)] = lock[File(q)]
                                              /\ off'[l[q].d] = off[l[q].d]
  <2>1. SUFFICES ASSUME NEW q \in Procs, q # p, Busy(q)
                 PROVE  lock'[File(q)] = lock[File(q)] /\ off'[l[q].d] = off[l[q].d]
    BY Zenon, <1>5, <1>6
  <2>2. File(q) # f /\ File(q) \in Files /\ l[q].d \in Descs  BY Zenon, <1>2, <2>1, Holder
  <2>3. l[q].d # d  BY Zenon, <2>2 DEF File
  <2> QED  BY Zenon, <1>6, <2>2, <2>3
<1>9. ~At(p, "itrunc") /\ ~At(p, "itrunc")' /\ ~At(p, "writei")'
  BY Zenon, <1>1, <1>5 DEF At
<1>10. Place(p)'  BY Zenon, <1>2, <1>5 DEF Place, At
<1>11. Reserved(p)'  BY Zenon, <1>5, <1>6 DEF Reserved, Writing, Truncating
<1> QED  BY Zenon, <1>4, <1>7, <1>8, <1>9, <1>10, <1>11, Light

(* sys_open() keeps the invariant, also when it locks the inode for        *)
(* itrunc().                                                               *)
LEMMA Open ==
  ASSUME IInv, NEW p \in Procs, NEW d \in Descs, NEW t \in BOOLEAN, sys_open(p, d, t)
  PROVE  IInv'
<1> DEFINE f == InodeOf[d]
<1>1. /\ Types /\ At(p, "idle") /\ lock[f] = None /\ logged[p] = {}
      /\ \A q \in Procs : l[q].d # d
  BY Zenon DEF IInv, sys_open, Reserved, At
<1>2. f \in Files /\ p # None  BY Zenon, FileDataAssumption
<1>3. /\ off' = [off EXCEPT ![d] = 0] /\ calls' = calls + 1
      /\ UNCHANGED <<disk, size, logged, content>>
  BY Zenon DEF sys_open
<1> DEFINE new == [Idle EXCEPT !.pc = "itrunc", !.d = d]
<1>4. /\ new \in Call /\ new.pc = "itrunc" /\ new.pos = 0 /\ new.d = d /\ new.left = 0
  BY Zenon DEF Idle, Call, PCs
<1> HIDE DEF new
<1>5. /\ off' \in [Descs -> 0..MAXSIZE] /\ \A e \in Descs : e # d => off'[e] = off[e]
      /\ calls' \in Nat
  BY <1>1, <1>3, Sizes DEF Types
<1>6. /\ l' \in [Procs -> Call] /\ lock' \in [Files -> Procs \cup {None}]
      /\ \A q \in Procs : q # p => l'[q] = l[q]
      /\ \A g \in Files : g # f => lock'[g] = lock[g]
      /\ \/ l'[p] = new /\ lock'[f] = p
         \/ l'[p] = l[p] /\ lock' = lock
  <2>1. CASE t
    <3>1. lock' = [lock EXCEPT ![f] = p] /\ l' = [l EXCEPT ![p] = new]
      BY Zenon, <2>1 DEF sys_open, new
    <3> QED  BY Zenon, <1>1, <1>2, <1>4, <3>1 DEF Types
  <2>2. CASE ~t
    <3>1. lock' = lock /\ l' = l  BY Zenon, <2>2 DEF sys_open
    <3> QED  BY Zenon, <1>1, <3>1 DEF Types
  <2> QED  BY Zenon, <2>1, <2>2
<1>7. Types'  BY Zenon, <1>1, <1>3, <1>5, <1>6 DEF Types, disk
<1>8. \A q \in Procs : q # p => /\ l'[q] = l[q] /\ logged'[q] = logged[q]
                                /\ Busy(q) => /\ lock'[File(q)] = lock[File(q)]
                                              /\ off'[l[q].d] = off[l[q].d]
  <2>1. TAKE q \in Procs
  <2>2. Busy(q) => File(q) \in Files /\ File(q) # f /\ l[q].d \in Descs /\ l[q].d # d
    BY Zenon, <1>1, <1>2, Unlocked, Holder DEF File
  <2> QED  BY Zenon, <1>3, <1>5, <1>6, <2>2
<1>9. l[p].pc = "idle"  BY Zenon, <1>1 DEF At
<1>10. ~At(p, "itrunc") /\ (~At(p, "itrunc")' \/ l'[p].pos = 0) /\ ~At(p, "writei")'
  BY Zenon, <1>4, <1>6, <1>9 DEF At
<1>11. Place(p)'
  <2>1. CASE l'[p] = new /\ lock'[f] = p
    <3>1. File(p)' = f  BY Zenon, <1>4, <2>1 DEF File
    <3> QED  BY <1>4, <2>1, <3>1, Sizes DEF Place, At
  <2>2. CASE l'[p] = l[p]  BY Zenon, <1>9, <2>2 DEF Place, At
  <2> QED  BY Zenon, <1>6, <2>1, <2>2
<1>12. Reserved(p)'  BY Zenon, <1>1, <1>3 DEF Reserved
<1> QED  BY Zenon, <1>3, <1>7, <1>8, <1>10, <1>11, <1>12, Light

(* fileread() keeps the invariant: it moves an offset that no transaction  *)
(* uses.                                                                   *)
LEMMA ReadSome ==
  ASSUME IInv, NEW d \in Descs, NEW n \in Lens, fileread(d, n)
  PROVE  IInv'
<1> DEFINE f == InodeOf[d]
<1>1. Types /\ lock[f] = None /\ f \in Files /\ n \in Nat
  BY Zenon, FileDataAssumption DEF IInv, fileread
<1>2. off[d] \in Nat /\ size[f] \in 0..MAXSIZE  BY <1>1, Sizes DEF Types
<1>3. PICK stop : stop \in off[d]..(off[d] + Found(f, off[d], n)) /\ off' = [off EXCEPT ![d] = stop]
  BY Zenon DEF fileread
<1>4. stop \in 0..MAXSIZE
  <2>1. off[d] < off[d] + Found(f, off[d], n)  BY Zenon DEF fileread
  <2>2. off[d] + Found(f, off[d], n) <= size[f] /\ Found(f, off[d], n) \in Nat
    BY <1>1, <1>2, <2>1, Sizes DEF Found, Min2
  <2> HIDE DEF f
  <2> QED  BY <1>2, <1>3, <2>2, Sizes
<1>5. /\ off' \in [Descs -> 0..MAXSIZE] /\ \A e \in Descs : e # d => off'[e] = off[e]
  BY Zenon, <1>1, <1>3, <1>4 DEF Types
<1>6. UNCHANGED <<disk, size, lock, l, logged, content>> /\ calls' \in Nat
  BY <1>1 DEF fileread, Types
<1>7. Types'  BY Zenon, <1>1, <1>5, <1>6 DEF Types, disk
<1>8. \A g : Same(g)  BY Zenon, <1>6, AllSame DEF disk
<1>9. \A q \in Procs : Aside(q)
  <2>1. TAKE q \in Procs
  <2>2. Busy(q) => off'[l[q].d] = off[l[q].d]
    BY Zenon, <1>1, <1>5, Unlocked, Holder DEF File
  <2> QED  BY Zenon, <1>6, <1>8, <2>2 DEF Aside
<1>10. \A q \in Procs : /\ Place(q)' /\ Reserved(q)'
                        /\ (At(q, "writei") => Holds(File(q), l[q].pos))'
  BY Zenon, <1>9, Bystander
<1>11. \A g \in Files : (Truncated(g)' <=> Truncated(g)) /\ \A w \in Words : Passed(g, w)' <=> Passed(g, w)
  BY Zenon, <1>6 DEF Truncated, Passed, At, File
<1>12. Ptrs' = Ptrs /\ used' = used  BY Zenon, <1>6, <1>11, PtrsSame DEF disk
<1>13. OwnedBy(Ptrs, used)'  BY Zenon, <1>12 DEF IInv, OwnedBy
<1>14. \A g \in Files : ~Truncated(g)' => Holds(g, size[g])'
  BY Zenon, <1>8, <1>11, FileKept
<1> QED  BY Zenon, <1>7, <1>10, <1>13, <1>14 DEF IInv, Data

(* The new size is where the copying stopped, if that is beyond the end.   *)
LEMMA WriteEnds ==
  ASSUME IInv, NEW p \in Procs, writei_end(p)
  PROVE  IInv'
<1> DEFINE f == File(p)
<1>1. Types /\ At(p, "writei") /\ Busy(p) /\ Place(p) /\ Reserved(p) /\ l[p].pos = l[p].end
  BY Zenon DEF IInv, writei_end, At, Busy
<1>2. f \in Files /\ l[p].d \in Descs /\ (\A q \in Procs : Busy(q) /\ File(q) = f => q = p)
      /\ ~Truncated(f)
  BY Zenon, <1>1, Holder
<1>3. /\ l[p].pos \in Nat /\ size[f] \in 0..MAXSIZE /\ n1(p) \in Nat /\ off[l[p].d] \in Nat
      /\ l[p] \in Call
  <2>1. l[p] \in Call /\ size[f] \in 0..MAXSIZE /\ off[l[p].d] \in 0..MAXSIZE
    BY Zenon, <1>1, <1>2 DEF Types
  <2>2. l[p].pos \in Nat /\ n1(p) \in Nat  BY Zenon, <1>1, <2>1, Chunk DEF Call
  <2>3. 0..MAXSIZE \subseteq Nat  BY Sizes
  <2> QED  BY Zenon, <2>1, <2>2, <2>3
<1>4. l[p].pos <= MAXSIZE /\ l[p].left > 0 /\ off[l[p].d] + n1(p) <= MAXSIZE
  BY <1>1, <1>3, Sizes DEF Place, At
<1>5. /\ size' = [size EXCEPT ![f] = IF l[p].pos > @ THEN l[p].pos ELSE @]
      /\ logged' = [logged EXCEPT ![p] = @ \cup {0}] /\ l' = [l EXCEPT ![p].pc = "end_op"]
      /\ UNCHANGED <<disk, off, lock, content, calls>>
  BY Zenon DEF writei_end, Log
<1>6. /\ size' \in [Files -> 0..MAXSIZE] /\ \A g \in Files : g # f => size'[g] = size[g]
      /\ size'[f] = IF l[p].pos > size[f] THEN l[p].pos ELSE size[f]
  BY <1>1, <1>2, <1>3, <1>4, <1>5, Sizes DEF Types
<1>7. /\ l' \in [Procs -> Call] /\ l'[p].pc = "end_op" /\ l'[p].d = l[p].d
      /\ l'[p].left = l[p].left /\ \A q \in Procs : q # p => l'[q] = l[q]
  BY Zenon, <1>1, <1>3, <1>5 DEF Types, Call, PCs
<1>8. /\ logged' \in [Procs -> SUBSET Int] /\ logged'[p] = logged[p] \cup {0}
      /\ \A q \in Procs : q # p => logged'[q] = logged[q]
  BY <1>1, <1>5 DEF Types
<1>9. Types'  BY Zenon, <1>1, <1>5, <1>6, <1>7, <1>8 DEF Types, disk
<1>10. \A g \in Files : g # f => Same(g)
  BY Zenon, <1>5, <1>6 DEF Same, Keeps, Maps, Addr, NextAddr, disk
<1>11. \A q \in Procs : Writing(q) => Busy(q)  BY Zenon DEF Writing, Busy
<1>12. \A q \in Procs : q # p => Aside(q)
  BY Zenon, <1>2, <1>5, <1>7, <1>8, <1>10, <1>11, Holder DEF Aside
<1>13. ~At(p, "itrunc") /\ ~At(p, "itrunc")' /\ ~At(p, "writei")'
  BY Zenon, <1>1, <1>7 DEF At
<1>14. /\ \A g \in Files, w \in Words : Passed(g, w)' <=> Passed(g, w)
       /\ \A g \in Files : Truncated(g)' <=> Truncated(g)
  BY Zenon, <1>7, <1>13, PassedSame
<1>15. OwnedBy(Ptrs, used)'
  <2>1. Ptrs' = Ptrs /\ used' = used  BY Zenon, <1>5, <1>14, PtrsSame DEF disk
  <2> QED  BY Zenon, <2>1 DEF IInv, OwnedBy
<1>16. File(p)' = f /\ n1(p)' = n1(p) /\ off' = off  BY Zenon, <1>5, <1>7 DEF File, n1
<1>17. Place(p)'  BY Zenon, <1>1, <1>2, <1>4, <1>5, <1>7, <1>16 DEF Place, At
<1>18. Reserved(p)'
  <2>1. Writing(p) /\ Writing(p)'  BY Zenon, <1>1, <1>4, <1>7 DEF Writing, At
  <2>2. Maps(f)  BY Zenon, <1>5 DEF Maps, Addr, NextAddr, disk
  <2>3. \A x \in logged'[p] : x \in logged[p] \/ Planned(p, x)'  BY Zenon, <1>8 DEF Planned
  <2> QED  BY Zenon, <1>1, <1>4, <1>7, <1>16, <2>1, <2>2, <2>3, LogsMore
<1>19. Holds(f, size[f])'
  <2>1. Holds(f, size[f]) /\ Holds(f, l[p].pos)  BY Zenon, <1>1, <1>2 DEF IInv, Data
  <2>2. PICK g \in Files, n \in Nat : g = f /\ n = size'[f] /\ Holds(g, n)
    <3>1. size'[f] \in Nat /\ size'[f] \in {l[p].pos, size[f]}  BY <1>3, <1>6, Sizes
    <3> QED  BY Zenon, <1>2, <2>1, <3>1
  <2>3. Holds(g, n)'  BY ZenonT(60), <1>5, <2>2 DEF Holds, Byte, Addr, disk
  <2> QED  BY Zenon, <1>16, <2>2, <2>3
<1>20. \A g \in Files : ~Truncated(g)' => (~Truncated(g) /\ Same(g)) \/ Holds(g, size[g])'
  BY Zenon, <1>10, <1>14, <1>16, <1>19
<1> QED  BY Zenon, <1>9, <1>12, <1>13, <1>15, <1>17, <1>18, <1>20, Parts
-----------------------------------------------------------------------------
(* The block of a turn is one of the chunk's, and new unless the chunk     *)
(* begins within it.                                                       *)
LEMMA DivMono ==
  ASSUME NEW n \in Nat \ {0}, NEW i \in Nat, NEW j \in Nat, i <= j
  PROVE  i \div n <= j \div n
<1>1. /\ i \div n \in Nat /\ i % n \in 0..(n - 1) /\ i = n * (i \div n) + (i % n)
      /\ j \div n \in Nat /\ j % n \in 0..(n - 1) /\ j = n * (j \div n) + (j % n)
  OBVIOUS
<1>2. PICK a \in Nat, b \in Nat, r \in 0..(n - 1), s \in 0..(n - 1) :
        /\ a = i \div n /\ i = n * a + r
        /\ b = j \div n /\ j = n * b + s
  BY Zenon, <1>1
<1>3. ~(a > b)
  <2>1. SUFFICES ASSUME a > b  PROVE FALSE  BY Zenon
  <2>2. a - b \in Nat /\ a - b >= 1 /\ n * a = n * b + n * (a - b)  BY <2>1
  <2>3. n * (a - b) >= n  BY <2>2
  <2>4. n * a \in Nat /\ n * b \in Nat  OBVIOUS
  <2> QED  BY <1>2, <2>2, <2>3, <2>4
<1> QED  BY <1>2, <1>3

(* The block of a turn is in the plan of its chunk; if it is not           *)
(* allocated, its bit is.                                                  *)
LEMMA TurnPlanned ==
  ASSUME IInv, NEW p \in Procs, Turn(p)
  PROVE  /\ Writing(p) /\ Bn(p) \in Span(p)
         /\ Addr(File(p), Bn(p)) = 0 => Bn(p) \in News(p)
<1>1. /\ At(p, "writei") /\ File(p) \in Files /\ ~Truncated(File(p)) /\ l[p].pos \in Nat
      /\ l[p].end \in Nat /\ l[p].pos < l[p].end /\ Bn(p) \in Bns
  BY Zenon, TurnAt
<1>2. Types /\ Place(p)  BY Zenon DEF IInv
<1>3. /\ l[p].d \in Descs /\ l[p].left > 0 /\ Start(p) <= l[p].pos
      /\ l[p].end <= Start(p) + n1(p) /\ Start(p) <= size[File(p)]
  BY Zenon, <1>1, <1>2 DEF Place, At, Start
<1>4. Start(p) \in Nat /\ n1(p) \in Nat /\ size[File(p)] \in Nat
  BY <1>1, <1>2, <1>3, Chunk, Sizes DEF Types, Start
<1>5. Writing(p)  BY Zenon, <1>1, <1>3 DEF Writing, At
<1>6. l[p].pos <= Start(p) + n1(p) - 1 /\ Start(p) + n1(p) - 1 \in Nat  BY <1>1, <1>3, <1>4
<1>7. Start(p) \div BSIZE <= Bn(p) /\ Bn(p) <= Last(p)
  BY Zenon, <1>1, <1>3, <1>4, <1>6, DivMono, Sizes DEF Bn, Last
<1>8. Start(p) \div BSIZE \in Nat /\ Last(p) \in Nat /\ Bn(p) \in Nat
  BY Zenon, <1>1, <1>4, <1>6, DivMod DEF Last, Bn
<1>9. Bn(p) \in Span(p)  BY <1>7, <1>8 DEF Span
<1>10. ASSUME Addr(File(p), Bn(p)) = 0, Start(p) % BSIZE # 0, Bn(p) = Start(p) \div BSIZE
       PROVE  FALSE
  <2>1. PICK a \in Nat, r \in Words :
          a = Start(p) \div BSIZE /\ r = Start(p) % BSIZE /\ Start(p) = BSIZE * a + r
    BY Zenon, <1>4, DivMod
  <2>2. BSIZE \in Nat \ {0} /\ Words = 0..(BSIZE - 1)  BY Zenon, Sizes DEF Words
  <2>3. r # 0  BY Zenon, <1>10, <2>1
  <2>4. r \in 1..(BSIZE - 1) /\ r - 1 \in Words /\ BSIZE * a \in Nat
    BY ONLY <2>2, <2>3, a \in Nat, r \in Words
  <2>5. PICK m \in Nat : m = BSIZE * a  BY Zenon, <2>4
  <2>6. Start(p) - 1 = m + (r - 1) /\ Start(p) - 1 \in 0..(size[File(p)] - 1)
    <3>1. Start(p) = m + r  BY Zenon, <2>1, <2>5
    <3> QED  BY ONLY <1>3, <1>4, <2>2, <2>4, <3>1, m \in Nat
  <2>7. (BSIZE * a + (r - 1)) \div BSIZE = a  BY Zenon, <2>4, DivModIs
  <2>8. Holds(File(p), size[File(p)])  BY Zenon, <1>1 DEF IInv, Data
  <2>9. Addr(File(p), (Start(p) - 1) \div BSIZE) # 0  BY Zenon, <2>6, <2>8 DEF Holds
  <2> QED  BY Zenon, <1>10, <2>1, <2>5, <2>6, <2>7, <2>9
<1> QED  BY Zenon, <1>5, <1>9, <1>10 DEF News

(* log_write() of a set of blocks.                                         *)
LEMMA Logs ==
  ASSUME logged \in [Procs -> SUBSET Int], NEW p \in Procs, NEW L \in SUBSET Int,
         logged' = [logged EXCEPT ![p] = @ \cup L]
  PROVE  /\ logged' \in [Procs -> SUBSET Int] /\ logged'[p] = logged[p] \cup L
         /\ \A q \in Procs : q # p => logged'[q] = logged[q]
BY Zenon

(* A step changes one place j, of one file.                                *)
Points(f, j, b) ==
  \A g \in Files, k \in Places : Ptr(g, k)' = IF g = f /\ k = j THEN b ELSE Ptr(g, k)

(* A step that changes the block number of one place.                      *)
LEMMA PtrsExcept ==
  ASSUME NEW f \in Files, NEW j \in Places, NEW b, Points(f, j, b)
  PROVE  Ptrs' = [Ptrs EXCEPT ![<<f, j>>] = b]
<1>1. ASSUME NEW x \in Files \X Places
      PROVE  Ptr(x[1], x[2])' = IF x = <<f, j>> THEN b ELSE Ptr(x[1], x[2])
  <2>1. x[1] \in Files /\ x[2] \in Places /\ (x = <<f, j>> <=> x[1] = f /\ x[2] = j)  OBVIOUS
  <2> QED  BY Zenon, <2>1 DEF Points
<1>2. Ptrs' = [x \in Files \X Places |-> IF x = <<f, j>> THEN b ELSE Ptr(x[1], x[2])]
  BY Zenon, <1>1 DEF Ptrs
<1> QED  BY Zenon, <1>2 DEF Ptrs

(* A turn that allocates a block b for the place j of its file.            *)
LEMMA Allocates ==
  ASSUME IInv, NEW p \in Procs, Turn(p), NEW f \in Files, f = File(p),
         NEW b \in Blocks, b \notin used, used' = used \cup {b},
         NEW j \in Places, Ptr(f, j) = 0,
         Points(f, j, b),
         \A g \in Files : ~Truncated(g) => Keeps(g),
         NEW L \in SUBSET Int, logged' = [logged EXCEPT ![p] = @ \cup L],
         \A x \in L : Planned(p, x)',
         addrs' \in [Files -> [0..NDIRECT -> Blocks \cup {0}]], blk' \in [Blocks -> [Words -> Nat]],
         UNCHANGED <<size, off, lock, l, content, calls>>
  PROVE  IInv'
<1>1. /\ Types /\ OwnedBy(Ptrs, used) /\ Place(p) /\ Reserved(p)  BY Zenon DEF IInv
<1>2. At(p, "writei") /\ Busy(p) /\ ~Truncated(f) /\ Writing(p)  BY Zenon, TurnAt, TurnPlanned
<1>3. used' \subseteq Blocks /\ 0 \notin used /\ b # 0
  BY Zenon, <1>1, Sizes DEF Types
<1>4. /\ logged' \in [Procs -> SUBSET Int] /\ logged'[p] = logged[p] \cup L
      /\ \A q \in Procs : q # p => logged'[q] = logged[q]
  BY Zenon, <1>1, Logs DEF Types
<1>5. Types'  BY Zenon, <1>1, <1>3, <1>4 DEF Types
<1>6. OwnedBy(Ptrs, used)'
  <2>1. <<f, j>> \in DOMAIN Ptrs /\ Ptrs[<<f, j>>] = 0  BY Zenon, PtrsAt
  <2>2. OwnedBy([Ptrs EXCEPT ![<<f, j>>] = b], used \cup {b})
    BY Zenon, <1>1, <1>3, <2>1, TakeBlock
  <2>3. Ptrs' = [Ptrs EXCEPT ![<<f, j>>] = b]  BY Zenon, PtrsExcept
  <2> QED  BY ZenonT(60), <2>2, <2>3 DEF OwnedBy
<1>7. \A g \in Files : (Truncated(g)' <=> Truncated(g)) /\ (~Truncated(g) => Same(g))
  BY Zenon DEF Truncated, At, File, Same
<1>8. \A q \in Procs : q # p => Aside(q)
  <2>1. TAKE q \in Procs
  <2>2. ASSUME Writing(q)  PROVE Same(File(q))
    <3>1. File(q) \in Files /\ ~Truncated(File(q))  BY Zenon, <2>2, Writer
    <3> QED  BY Zenon, <1>7, <3>1
  <2> QED  BY Zenon, <1>4, <2>2 DEF Aside
<1>9. Place(p)'  BY Zenon, <1>1 DEF Place, At, File, n1
<1>10. Reserved(p)'
  <2>1. Maps(File(p)) /\ Writing(p)' /\ l[p].left > 0  BY Zenon, <1>2 DEF Writing, Keeps
  <2>2. \A x \in logged'[p] : x \in logged[p] \/ Planned(p, x)'  BY Zenon, <1>4
  <2> QED  BY Zenon, <1>1, <1>2, <2>1, <2>2, LogsMore
<1>11. Holds(File(p), l[p].pos)'
  <2>1. l[p].pos \in 0..MAXSIZE  BY TurnAt, Sizes
  <2>2. PICK n \in 0..MAXSIZE : n = l[p].pos  BY Zenon, <2>1
  <2>3. Holds(f, n) /\ Keeps(f)  BY Zenon, <1>2, <2>2 DEF IInv, Data
  <2>4. Holds(f, n)'  BY Zenon, <2>3, KeepsHolds
  <2>5. File(p)' = f  BY Zenon DEF File
  <2> QED  BY ZenonT(60), <2>2, <2>4, <2>5
<1> QED  BY Zenon, <1>5, <1>6, <1>7, <1>8, <1>9, <1>10, <1>11, Parts

(* A place is one of addrs, or a word of the indirect block.               *)
LEMMA PlaceCase ==
  ASSUME NEW k \in Places
  PROVE  /\ k <= NDIRECT => k \in 0..NDIRECT
         /\ ~(k <= NDIRECT) => k - NDIRECT - 1 \in Words /\ k # NDIRECT
<1>1. NDIRECT \in Nat \ {0} /\ BSIZE \in Nat \ {0}  BY Zenon, Sizes
<1> QED  BY <1>1 DEF Places, Words

(* balloc() takes a block that no file has.                                *)
LEMMA Takes ==
  ASSUME IInv, NEW p \in Procs, NEW b \in Blocks, NEW S \in SUBSET Int, balloc(p, b, S)
  PROVE  /\ b \notin used /\ b # 0 /\ used' = used \cup {b}
         /\ logged' = [logged EXCEPT ![p] = @ \cup ({BitmapBlock(b), b} \cup S)]
         /\ {BitmapBlock(b), b} \cup S \in SUBSET Int
         /\ \A g \in Files : addrs[g][NDIRECT] # b
         /\ \A g \in Files, bn \in Bns : ~Truncated(g) => Addr(g, bn) # b
<1>1. b \notin used /\ b # 0 /\ b \in Nat /\ used' = used \cup {b}
  BY Zenon, Sizes DEF balloc, FreeBlocks
<1>2. logged' = [logged EXCEPT ![p] = @ \cup ({BitmapBlock(b), b} \cup S)]
  BY Zenon DEF balloc, Log
<1>3. BPB \in Nat \ {0}  BY Zenon, Sizes
<1>4. BitmapBlock(b) \in Int  BY <1>1, <1>3 DEF BitmapBlock
<1>5. {BitmapBlock(b), b} \cup S \in SUBSET Int
  <2>1. b \in Int  BY <1>1
  <2> QED  BY Zenon, <1>4, <2>1
<1>6. \A g \in Files : addrs[g][NDIRECT] # b  BY Zenon, <1>1, Inds DEF IInv
<1>7. \A g \in Files, bn \in Bns : ~Truncated(g) => Addr(g, bn) # b
  BY Zenon, <1>1, Owner DEF IInv
<1> QED  BY Zenon, <1>1, <1>2, <1>5, <1>6, <1>7

(* bmap() keeps the invariant when it allocates the indirect block.        *)
LEMMA AllocatesIndirect ==
  ASSUME IInv, NEW p \in Procs, bmap_indirect(p)
  PROVE  IInv'
<1>1. Turn(p) /\ addrs[File(p)][NDIRECT] = 0 /\ UNCHANGED <<size, off, lock, l, content, calls>>
  BY Zenon DEF bmap_indirect
<1>2. PICK f \in Files : f = File(p)  BY Zenon, <1>1, TurnAt
<1>3. PICK b \in Blocks : /\ balloc(p, b, {}) /\ blk' = [blk EXCEPT ![b] = Zero]
                          /\ addrs' = [addrs EXCEPT ![f][NDIRECT] = b]
  BY Zenon, <1>2 DEF bmap_indirect, Zeroed
<1> DEFINE L == {BitmapBlock(b), b} \cup {}
<1>4. /\ b \notin used /\ b # 0 /\ used' = used \cup {b} /\ L \in SUBSET Int
      /\ logged' = [logged EXCEPT ![p] = @ \cup L]
      /\ \A g \in Files : addrs[g][NDIRECT] # b
      /\ \A g \in Files, bn \in Bns : ~Truncated(g) => Addr(g, bn) # b
  BY Zenon, <1>3, Takes
<1>5. Types /\ NDIRECT \in Nat \ {0} /\ BSIZE \in Nat \ {0}  BY Zenon, Sizes DEF IInv
<1>6. /\ addrs' \in [Files -> [0..NDIRECT -> Blocks \cup {0}]]
      /\ \A g \in Files, k \in 0..NDIRECT :
           addrs'[g][k] = IF g = f /\ k = NDIRECT THEN b ELSE addrs[g][k]
  BY Zenon, <1>3, <1>5 DEF Types
<1>7. Zero \in [Words -> Nat] /\ \A w \in Words : Zero[w] = 0  BY Zenon, <1>5 DEF Zero
<1>8. /\ blk' \in [Blocks -> [Words -> Nat]] /\ blk'[b] = Zero
      /\ \A c \in Blocks : c # b => blk'[c] = blk[c]
  BY Zenon, <1>3, <1>5, <1>7 DEF Types
<1>9. NDIRECT \in 0..NDIRECT /\ \A bn \in Bns : bn < NDIRECT => bn \in 0..NDIRECT /\ bn # NDIRECT
  BY <1>5, PlaceOf
<1>10. /\ addrs'[f][NDIRECT] = b /\ addrs[f][NDIRECT] = 0
       /\ \A g \in Files : g # f => addrs'[g][NDIRECT] = addrs[g][NDIRECT]
       /\ \A g \in Files : addrs[g][NDIRECT] \in Blocks \cup {0}
  <2>1. \A g \in Files : addrs[g][NDIRECT] \in Blocks \cup {0}  BY <1>5, <1>9 DEF Types
  <2> QED  BY Zenon, <1>1, <1>2, <1>6, <1>9, <2>1
<1>11. Points(f, NDIRECT, b)
  <2>1. SUFFICES ASSUME NEW g \in Files, NEW k \in Places
                 PROVE  Ptr(g, k)' = IF g = f /\ k = NDIRECT THEN b ELSE Ptr(g, k)
    BY Zenon DEF Points
  <2>2. CASE k <= NDIRECT  BY Zenon, <1>6, <2>2, PlaceCase DEF Ptr
  <2>3. CASE ~(k <= NDIRECT)
    <3>1. k # NDIRECT /\ k - NDIRECT - 1 \in Words  BY Zenon, <2>3, PlaceCase
    <3>2. Passed(g, k - NDIRECT - 1)' <=> Passed(g, k - NDIRECT - 1)
      BY Zenon, <1>1 DEF Passed, At, File
    <3>3. CASE g = f
      <4>1. Ptr(g, k) = 0  BY Zenon, <1>10, <2>3, <3>3 DEF Ptr
      <4>2. Ptr(g, k)' = 0  BY Zenon, <1>7, <1>8, <1>10, <2>3, <3>1, <3>3 DEF Ptr
      <4> QED  BY Zenon, <3>1, <4>1, <4>2
    <3>4. CASE g # f
      <4>1. addrs[g][NDIRECT] # 0 => blk'[addrs[g][NDIRECT]] = blk[addrs[g][NDIRECT]]
        BY Zenon, <1>4, <1>8, <1>10
      <4>2. Ptr(g, k)' = Ptr(g, k)  BY Zenon, <1>10, <2>3, <3>2, <3>4, <4>1 DEF Ptr
      <4> QED  BY Zenon, <3>1, <4>2
    <3> QED  BY Zenon, <3>3, <3>4
  <2> QED  BY Zenon, <2>2, <2>3
<1>12. ASSUME NEW g \in Files, ~Truncated(g)  PROVE Keeps(g)
  <2>1. addrs[g][NDIRECT] # 0 => addrs'[g][NDIRECT] = addrs[g][NDIRECT]
                                 /\ blk'[addrs[g][NDIRECT]] = blk[addrs[g][NDIRECT]]
    BY Zenon, <1>4, <1>8, <1>10
  <2>2. ASSUME NEW bn \in Bns, Addr(g, bn) # 0
        PROVE  NextAddr(g, bn) = Addr(g, bn) /\ blk'[Addr(g, bn)] = blk[Addr(g, bn)]
    <3>1. Addr(g, bn) \in Blocks /\ Addr(g, bn) # b
      BY Zenon, <1>4, <1>5, <1>12, <2>2, Owner DEF IInv, Types
    <3>2. blk'[Addr(g, bn)] = blk[Addr(g, bn)]  BY Zenon, <1>8, <3>1
    <3>3. CASE bn < NDIRECT  BY Zenon, <1>6, <1>9, <3>2, <3>3 DEF Addr, NextAddr
    <3>4. CASE ~(bn < NDIRECT)  BY Zenon, <2>1, <2>2, <3>2, <3>4 DEF Addr, NextAddr
    <3> QED  BY Zenon, <3>3, <3>4
  <2> QED  BY Zenon, <2>1, <2>2 DEF Keeps, Maps
<1>13. \A x \in L : Planned(p, x)'
  <2>1. File(p)' = f  BY Zenon, <1>1, <1>2 DEF File
  <2> QED  BY Zenon, <1>4, <1>10, <2>1 DEF Planned
<1>14. Ptr(f, NDIRECT) = 0 /\ NDIRECT \in Places  BY Zenon, <1>10, PlaceOf DEF Ptr
<1> HIDE DEF L
<1> QED  BY Zenon, <1>1, <1>2, <1>4, <1>6, <1>8, <1>11, <1>12, <1>13, <1>14, Allocates

(* bmap() keeps the invariant when it allocates a direct block.            *)
LEMMA AllocatesDirect ==
  ASSUME IInv, NEW p \in Procs, bmap(p), Bn(p) < NDIRECT
  PROVE  IInv'
<1>1. Turn(p) /\ UNCHANGED <<size, off, lock, l, content, calls>>  BY Zenon DEF bmap
<1>2. PICK f \in Files, bn \in Bns : f = File(p) /\ bn = Bn(p) /\ bn < NDIRECT /\ Addr(f, bn) = 0
  BY Zenon, <1>1, TurnAt DEF bmap
<1>3. PICK b \in Blocks : /\ balloc(p, b, {}) /\ blk' = [blk EXCEPT ![b] = Zero]
                          /\ addrs' = [addrs EXCEPT ![f][bn] = b]
  <2>1. ~(Bn(p) >= NDIRECT)  BY <1>2, Sizes DEF Bns
  <2> QED  BY Zenon, <1>2, <2>1 DEF bmap, Zeroed
<1> DEFINE L == {BitmapBlock(b), b} \cup {}
<1>4. /\ b \notin used /\ b # 0 /\ used' = used \cup {b} /\ L \in SUBSET Int
      /\ logged' = [logged EXCEPT ![p] = @ \cup L]
      /\ \A g \in Files : addrs[g][NDIRECT] # b
      /\ \A g \in Files, c \in Bns : ~Truncated(g) => Addr(g, c) # b
  BY Zenon, <1>3, Takes
<1>5. Types /\ NDIRECT \in Nat \ {0} /\ BSIZE \in Nat \ {0}  BY Zenon, Sizes DEF IInv
<1>6. /\ bn \in 0..NDIRECT /\ bn # NDIRECT /\ NDIRECT \in 0..NDIRECT /\ bn <= NDIRECT /\ bn \in Places
      /\ \A c \in Bns : c < NDIRECT => c \in 0..NDIRECT
  BY <1>2, <1>5 DEF Bns, MAXFILE, Places
<1>7. /\ addrs' \in [Files -> [0..NDIRECT -> Blocks \cup {0}]]
      /\ \A g \in Files, k \in 0..NDIRECT :
           addrs'[g][k] = IF g = f /\ k = bn THEN b ELSE addrs[g][k]
  BY Zenon, <1>3, <1>5, <1>6 DEF Types
<1>8. Zero \in [Words -> Nat]  BY Zenon, <1>5 DEF Zero
<1>9. /\ blk' \in [Blocks -> [Words -> Nat]]
      /\ \A c \in Blocks : c # b => blk'[c] = blk[c]
  BY Zenon, <1>3, <1>5, <1>8 DEF Types
<1>10. \A g \in Files : addrs[g][NDIRECT] \in Blocks \cup {0}  BY <1>5, <1>6 DEF Types
<1>11. \A g \in Files : /\ addrs'[g][NDIRECT] = addrs[g][NDIRECT]
                        /\ addrs[g][NDIRECT] # 0 => blk'[addrs[g][NDIRECT]] = blk[addrs[g][NDIRECT]]
  BY Zenon, <1>4, <1>6, <1>7, <1>9, <1>10
<1>12. Points(f, bn, b)
  <2>1. SUFFICES ASSUME NEW g \in Files, NEW k \in Places
                 PROVE  Ptr(g, k)' = IF g = f /\ k = bn THEN b ELSE Ptr(g, k)
    BY Zenon DEF Points
  <2>2. CASE k <= NDIRECT  BY Zenon, <1>7, <2>2, PlaceCase DEF Ptr
  <2>3. CASE ~(k <= NDIRECT)
    <3>1. Passed(g, k - NDIRECT - 1)' <=> Passed(g, k - NDIRECT - 1)
      BY Zenon, <1>1 DEF Passed, At, File
    <3>2. Ptr(g, k)' = Ptr(g, k)  BY Zenon, <1>11, <2>3, <3>1 DEF Ptr
    <3> QED  BY Zenon, <1>6, <2>3, <3>2
  <2> QED  BY Zenon, <2>2, <2>3
<1>13. ASSUME NEW g \in Files, ~Truncated(g)  PROVE Keeps(g)
  <2>1. ASSUME NEW c \in Bns, Addr(g, c) # 0
        PROVE  NextAddr(g, c) = Addr(g, c) /\ blk'[Addr(g, c)] = blk[Addr(g, c)]
    <3>1. Addr(g, c) \in Blocks /\ Addr(g, c) # b
      BY Zenon, <1>4, <1>5, <1>13, <2>1, Owner DEF IInv, Types
    <3>2. blk'[Addr(g, c)] = blk[Addr(g, c)]  BY Zenon, <1>9, <3>1
    <3>3. CASE c < NDIRECT  BY Zenon, <1>2, <1>6, <1>7, <2>1, <3>2, <3>3 DEF Addr, NextAddr
    <3>4. CASE ~(c < NDIRECT)  BY Zenon, <1>11, <2>1, <3>2, <3>4 DEF Addr, NextAddr
    <3> QED  BY Zenon, <3>3, <3>4
  <2> QED  BY Zenon, <1>11, <2>1 DEF Keeps, Maps
<1>14. \A x \in L : Planned(p, x)'
  <2>1. File(p)' = f /\ Span(p)' = Span(p) /\ News(p)' = News(p)
    BY Zenon, <1>1, <1>2 DEF File, Span, News, Start, Last, n1
  <2>2. Addr(f, bn)' = b  BY Zenon, <1>2, <1>6, <1>7 DEF Addr
  <2>3. bn \in Span(p) /\ bn \in News(p)  BY Zenon, <1>1, <1>2, TurnPlanned
  <2> QED  BY Zenon, <1>4, <2>1, <2>2, <2>3 DEF Planned
<1>15. Ptr(f, bn) = 0  BY Zenon, <1>2, <1>6 DEF Ptr, Addr
<1> HIDE DEF L
<1> QED  BY ZenonT(60), <1>1, <1>2, <1>4, <1>6, <1>7, <1>9, <1>12, <1>13, <1>14, <1>15, Allocates

(* bmap() keeps the invariant when it allocates a block and enters it in   *)
(* the indirect block, which no other file has.                            *)
LEMMA AllocatesEntry ==
  ASSUME IInv, NEW p \in Procs, bmap(p), ~(Bn(p) < NDIRECT)
  PROVE  IInv'
<1>1. Turn(p) /\ UNCHANGED <<size, off, lock, l, content, calls>>  BY Zenon DEF bmap
<1>2. PICK f \in Files, bn \in Bns : f = File(p) /\ bn = Bn(p) /\ Addr(f, bn) = 0
  BY Zenon, <1>1, TurnAt DEF bmap
<1>3. PICK ind : ind = addrs[f][NDIRECT]  BY Zenon
<1>4. PICK w : w = bn - NDIRECT  BY Zenon
<1>5. PICK b \in Blocks : /\ ind # 0 /\ balloc(p, b, {ind}) /\ addrs' = addrs
                          /\ blk' = [[blk EXCEPT ![b] = Zero] EXCEPT ![ind][w] = b]
  BY Zenon, <1>2, <1>3, <1>4 DEF bmap, Zeroed
<1>6. ind = addrs[f][NDIRECT] /\ w = bn - NDIRECT /\ ind # 0 /\ addrs' = addrs
  BY Zenon, <1>3, <1>4, <1>5
<1> DEFINE L == {BitmapBlock(b), b} \cup {ind}
<1>7. Types /\ NDIRECT \in Nat \ {0} /\ BSIZE \in Nat \ {0}  BY Zenon, Sizes DEF IInv
<1>8. w \in Words /\ NDIRECT \in 0..NDIRECT /\ ~(bn < NDIRECT) /\ Pl(bn) \in Places
      /\ Pl(bn) = bn + 1 /\ ~(Pl(bn) <= NDIRECT) /\ Pl(bn) - NDIRECT - 1 = w
  <2>1. bn \in Bns /\ ~(bn < NDIRECT) /\ w = bn - NDIRECT  BY Zenon, <1>2, <1>4
  <2> QED  BY ONLY <1>7, <2>1 DEF Bns, MAXFILE, Words, Pl, Places
<1>9. ind \in Blocks /\ ind \in Int /\ {ind} \in SUBSET Int  BY <1>6, <1>7, <1>8, Sizes DEF Types
<1>10. /\ b \notin used /\ b # 0 /\ used' = used \cup {b} /\ L \in SUBSET Int
       /\ logged' = [logged EXCEPT ![p] = @ \cup L]
       /\ \A g \in Files : addrs[g][NDIRECT] # b
       /\ \A g \in Files, c \in Bns : ~Truncated(g) => Addr(g, c) # b
  BY Zenon, <1>6, <1>5, <1>9, Takes
<1>11. ind # b /\ b \in Nat  BY Zenon, <1>6, <1>10, Sizes
<1>12. Zero \in [Words -> Nat]  BY Zenon, <1>7 DEF Zero
<1>13. /\ blk' \in [Blocks -> [Words -> Nat]]
       /\ \A c \in Blocks : c # b /\ c # ind => blk'[c] = blk[c]
       /\ \A v \in Words : blk'[ind][v] = IF v = w THEN b ELSE blk[ind][v]
  <2>1. blk \in [Blocks -> [Words -> Nat]]  BY Zenon, <1>7 DEF Types
  <2> QED  BY ONLY Zenon, <1>6, <1>5, <1>8, <1>9, <1>11, <1>12, <2>1, b \in Blocks
<1>14. \A g \in Files : addrs[g][NDIRECT] \in Blocks \cup {0}  BY <1>7, <1>8 DEF Types
<1>15. \A g \in Files : g # f /\ addrs[g][NDIRECT] # 0 =>
                         blk'[addrs[g][NDIRECT]] = blk[addrs[g][NDIRECT]]
  <2>1. TAKE g \in Files
  <2>2. g # f /\ addrs[g][NDIRECT] # 0 => addrs[g][NDIRECT] # ind  BY Zenon, <1>6, Inds DEF IInv
  <2> QED  BY Zenon, <1>10, <1>13, <1>14, <2>2
<1>16. ~Truncated(f)  BY Zenon, <1>1, <1>2, TurnAt
<1>17. Points(f, Pl(bn), b)
  <2>1. SUFFICES ASSUME NEW g \in Files, NEW k \in Places
                 PROVE  Ptr(g, k)' = IF g = f /\ k = Pl(bn) THEN b ELSE Ptr(g, k)
    BY Zenon DEF Points
  <2>2. CASE k <= NDIRECT  BY Zenon, <1>6, <1>8, <2>2 DEF Ptr
  <2>3. CASE ~(k <= NDIRECT)
    <3> DEFINE v == k - NDIRECT - 1
    <3>1. v \in Words  BY Zenon, <2>3, PlaceCase
    <3>2. Passed(g, v)' <=> Passed(g, v)  BY Zenon, <1>1 DEF Passed, At, File
    <3>3. CASE g # f
      <4>1. Ptr(g, k)' = Ptr(g, k)  BY Zenon, <1>6, <1>15, <2>3, <3>2, <3>3 DEF Ptr
      <4> QED  BY Zenon, <3>3, <4>1
    <3>4. CASE g = f
      <4>1. ~Passed(g, v)  BY Zenon, <1>16, <3>4 DEF Passed, Truncated
      <4>2. Ptr(g, k) = blk[ind][v] /\ Ptr(g, k)' = blk'[ind][v]
        BY Zenon, <1>6, <2>3, <3>2, <3>4, <4>1 DEF Ptr
      <4>3. v = w <=> k = Pl(bn)  BY <1>6, <1>7, <1>8 DEF Places, Bns
      <4> QED  BY Zenon, <1>13, <3>1, <3>4, <4>2, <4>3
    <3> QED  BY Zenon, <3>3, <3>4
  <2> QED  BY Zenon, <2>2, <2>3
<1>18. ASSUME NEW g \in Files, ~Truncated(g)  PROVE Keeps(g)
  <2>1. ASSUME NEW c \in Bns, Addr(g, c) # 0
        PROVE  NextAddr(g, c) = Addr(g, c) /\ blk'[Addr(g, c)] = blk[Addr(g, c)]
    <3>1. Addr(g, c) \in Blocks /\ Addr(g, c) # b /\ Addr(g, c) # ind
      BY Zenon, <1>6, <1>7, <1>10, <1>18, <2>1, Owner DEF IInv, Types
    <3>2. blk'[Addr(g, c)] = blk[Addr(g, c)]  BY Zenon, <1>13, <3>1
    <3>3. CASE c < NDIRECT  BY Zenon, <1>6, <3>2, <3>3 DEF Addr, NextAddr
    <3>4. CASE ~(c < NDIRECT)
      <4>1. CASE g # f  BY Zenon, <1>6, <1>15, <2>1, <3>2, <3>4, <4>1 DEF Addr, NextAddr
      <4>2. CASE g = f
        <5>1. c - NDIRECT \in Words /\ (c - NDIRECT = w => c = bn)
          BY <1>2, <1>6, <1>7, <3>4 DEF Bns, MAXFILE, Words
        <5>2. c # bn  BY Zenon, <1>2, <2>1, <4>2
        <5>3. blk'[ind][c - NDIRECT] = blk[ind][c - NDIRECT]  BY Zenon, <1>13, <5>1, <5>2
        <5> QED  BY Zenon, <1>6, <3>2, <3>4, <4>2, <5>3 DEF Addr, NextAddr
      <4> QED  BY Zenon, <4>1, <4>2
    <3> QED  BY Zenon, <3>3, <3>4
  <2> QED  BY Zenon, <1>6, <2>1 DEF Keeps, Maps
<1>19. \A x \in L : Planned(p, x)'
  <2>1. File(p)' = f /\ Span(p)' = Span(p) /\ News(p)' = News(p)
    BY Zenon, <1>1, <1>2 DEF File, Span, News, Start, Last, n1
  <2>2. addrs'[f][NDIRECT] = ind  BY Zenon, <1>6
  <2>3. Addr(f, bn)' = b  BY Zenon, <1>6, <1>8, <1>13, <2>2 DEF Addr
  <2>4. bn \in Span(p) /\ bn \in News(p)  BY Zenon, <1>1, <1>2, TurnPlanned
  <2> QED  BY Zenon, <1>6, <1>10, <2>1, <2>2, <2>3, <2>4 DEF Planned
<1>20. Ptr(f, Pl(bn)) = 0  BY Zenon, <1>2, <1>16, AddrPtr DEF IInv
<1>21. addrs' \in [Files -> [0..NDIRECT -> Blocks \cup {0}]]  BY Zenon, <1>6, <1>7 DEF Types
<1> HIDE DEF L
<1> QED  BY ZenonT(60), <1>1, <1>2, <1>8, <1>10, <1>13, <1>17, <1>18, <1>19, <1>20, <1>21, Allocates

(* bmap() keeps the invariant.                                             *)
LEMMA AllocatesBlock ==
  ASSUME IInv, NEW p \in Procs, bmap(p)
  PROVE  IInv'
BY Zenon, AllocatesDirect, AllocatesEntry
-----------------------------------------------------------------------------
(* The bytes a turn copies are those words of its block, and in no other.  *)
LEMMA CopiedWords ==
  ASSUME NEW i \in Nat, NEW j \in Nat, NEW k \in Nat, (i % BSIZE) + k <= BSIZE
  PROVE  /\ j \div BSIZE = i \div BSIZE =>
              (i <= j /\ j < i + k <=> i % BSIZE <= j % BSIZE /\ j % BSIZE < (i % BSIZE) + k)
         /\ i <= j /\ j < i + k => j \div BSIZE = i \div BSIZE
<1>1. PICK r \in Words, s \in Words : r = i % BSIZE /\ s = j % BSIZE  BY Zenon, DivMod
<1>2. BSIZE \in Nat \ {0} /\ r \in Nat /\ s \in Nat  BY Sizes DEF Words
<1>3. ASSUME j \div BSIZE = i \div BSIZE
      PROVE  i <= j /\ j < i + k <=> r <= s /\ s < r + k
  <2>1. j - i = s - r  BY Zenon, <1>1, <1>3, SameBlock
  <2> QED  BY <1>2, <2>1
<1>4. ASSUME i <= j, j < i + k  PROVE j \div BSIZE = i \div BSIZE
  <2>1. r + (j - i) < BSIZE  BY <1>1, <1>2, <1>4
  <2> QED  BY Zenon, <1>1, <1>4, <2>1, SameBlock
<1> QED  BY Zenon, <1>1, <1>3, <1>4

Copied(f, pos, k, v, b, r) ==
  /\ \A w \in Words : blk'[b][w] = IF r <= w /\ w < r + k THEN v ELSE blk[b][w]
  /\ \A i \in Offsets : content'[f][i] = IF pos <= i /\ i < pos + k THEN v ELSE content[f][i]

(* So the file still holds its bytes, and the copied ones.                 *)
LEMMA CopyHolds ==
  ASSUME NEW f \in Files, NEW pos \in Nat, NEW k \in Nat, NEW v, NEW n \in 0..MAXSIZE,
         NEW bn, bn = pos \div BSIZE, NEW r, r = pos % BSIZE, r + k <= BSIZE,
         NEW b, b = Addr(f, bn), b # 0,
         \A c \in Bns : Addr(f, c) # 0 =>
           /\ NextAddr(f, c) = Addr(f, c)
           /\ c # bn => blk'[Addr(f, c)] = blk[Addr(f, c)],
         Copied(f, pos, k, v, b, r),
         Holds(f, n) \/ (n = pos + k /\ Holds(f, pos))
  PROVE  Holds(f, n)'
<1>1. SUFFICES ASSUME NEW i \in 0..(n - 1)
               PROVE  /\ NextAddr(f, i \div BSIZE) # 0
                      /\ blk'[NextAddr(f, i \div BSIZE)][i % BSIZE] = content'[f][i]
  BY Zenon, NextIs DEF Holds, Byte
<1>2. i \in Offsets /\ i \in Nat  BY Sizes DEF Offsets
<1>3. i \div BSIZE \in Bns /\ i % BSIZE \in Words  BY Zenon, <1>2, BlockOf, DivMod
<1>4. /\ i \div BSIZE = bn =>
           (pos <= i /\ i < pos + k <=>
              r <= i % BSIZE /\ i % BSIZE < r + k)
      /\ pos <= i /\ i < pos + k => i \div BSIZE = bn
  BY Zenon, <1>2, CopiedWords
<1>5. CASE pos <= i /\ i < pos + k
  <2>1. i \div BSIZE = bn  BY Zenon, <1>4, <1>5
  <2>2. NextAddr(f, i \div BSIZE) = b  BY Zenon, <1>3, <2>1
  <2>3. blk'[b][i % BSIZE] = v  BY Zenon, <1>3, <1>4, <1>5, <2>1 DEF Copied
  <2> QED  BY Zenon, <1>2, <1>5, <2>2, <2>3 DEF Copied
<1>6. CASE ~(pos <= i /\ i < pos + k)
  <2>1. content'[f][i] = content[f][i]  BY Zenon, <1>2, <1>6 DEF Copied
  <2>2. Addr(f, i \div BSIZE) # 0 /\ Byte(f, i) = content[f][i]
    <3>1. CASE Holds(f, n)  BY Zenon, <3>1 DEF Holds
    <3>2. CASE n = pos + k /\ Holds(f, pos)
      <4>1. i \in 0..(pos - 1)  BY <1>2, <1>6, <3>2
      <4> QED  BY Zenon, <3>2, <4>1 DEF Holds
    <3> QED  BY Zenon, <3>1, <3>2
  <2>3. NextAddr(f, i \div BSIZE) = Addr(f, i \div BSIZE)  BY Zenon, <1>3, <2>2
  <2>4. blk'[Addr(f, i \div BSIZE)][i % BSIZE] = blk[Addr(f, i \div BSIZE)][i % BSIZE]
    <3>1. CASE i \div BSIZE = bn  BY Zenon, <1>3, <1>4, <1>6, <3>1 DEF Copied
    <3>2. CASE i \div BSIZE # bn  BY Zenon, <1>3, <2>2, <3>2
    <3> QED  BY Zenon, <3>1, <3>2
  <2> QED  BY Zenon, <2>1, <2>2, <2>3, <2>4 DEF Byte
<1> QED  BY Zenon, <1>5, <1>6
(* A turn of writei() copies k of the m bytes in the block b.              *)
LEMMA Copies ==
  ASSUME IInv, NEW p \in Procs, writei(p)
  PROVE  IInv'
<1>1. Turn(p) /\ UNCHANGED <<used, addrs, size, off, lock, calls>>  BY Zenon DEF writei
<1>2. PICK f \in Files, bn \in Bns, pos \in Nat :
        f = File(p) /\ bn = Bn(p) /\ pos = l[p].pos
  BY Zenon, <1>1, TurnAt
<1>3. PICK b, v, m, r : /\ b = Addr(f, bn) /\ v = l[p].val /\ r = Word(p)
                        /\ m = Min2(l[p].end - pos, BSIZE - r)
  BY Zenon
<1>4. PICK k \in 0..m :
        /\ blk' = [blk EXCEPT ![b] = [w \in Words |-> IF r <= w /\ w < r + k THEN v ELSE @[w]]]
        /\ content' = [content EXCEPT ![f] = [i \in Offsets |->
             IF pos <= i /\ i < pos + k THEN v ELSE @[i]]]
        /\ IF k = m THEN l' = [l EXCEPT ![p].pos = @ + m] /\ Log(p, {b})
                    ELSE l' = [l EXCEPT ![p].end = pos] /\ UNCHANGED logged
  BY Zenon, <1>2, <1>3 DEF writei
<1>5. Types /\ Place(p) /\ Reserved(p) /\ OwnedBy(Ptrs, used)  BY Zenon DEF IInv
<1>6. /\ At(p, "writei") /\ Busy(p) /\ ~Truncated(f) /\ Writing(p) /\ bn \in Span(p)
      /\ l[p].end \in Nat /\ pos < l[p].end /\ l[p].end <= MAXSIZE /\ r \in Words
  BY Zenon, <1>1, <1>2, <1>3, TurnAt, TurnPlanned
<1>7. b # 0 /\ bn = pos \div BSIZE /\ r = pos % BSIZE
  BY Zenon, <1>2, <1>3 DEF writei, Bn, Word
<1>8. /\ b \in Blocks
      /\ \A g \in Files : addrs[g][NDIRECT] # b
      /\ \A g \in Files, c \in Bns : ~Truncated(g) /\ (g # f \/ c # bn) => Addr(g, c) # b
  BY Zenon, <1>3, <1>5, <1>6, <1>7, Owner DEF Types
<1>9. /\ m \in Nat /\ k \in Nat /\ k <= m /\ pos + m <= l[p].end /\ r + k <= BSIZE /\ r \in Nat
  BY <1>2, <1>3, <1>6, Sizes DEF Min2, Words
<1>10. v \in Nat /\ l[p] \in Call  BY Zenon, <1>3, <1>5 DEF Types, Call
<1>11. /\ blk' \in [Blocks -> [Words -> Nat]]
       /\ \A c \in Blocks : c # b => blk'[c] = blk[c]
       /\ \A w \in Words : blk'[b][w] = IF r <= w /\ w < r + k THEN v ELSE blk[b][w]
  <2>1. blk \in [Blocks -> [Words -> Nat]]  BY Zenon, <1>5 DEF Types
  <2> QED  BY ONLY Zenon, <1>4, <1>8, <1>10, <2>1
<1>12. /\ content' \in [Files -> [Offsets -> Nat]]
       /\ \A g \in Files : g # f => content'[g] = content[g]
       /\ \A i \in Offsets :
            content'[f][i] = IF pos <= i /\ i < pos + k THEN v ELSE content[f][i]
  <2>1. content \in [Files -> [Offsets -> Nat]]  BY Zenon, <1>5 DEF Types
  <2> QED  BY ONLY Zenon, <1>4, <1>10, <2>1, f \in Files
<1>13. /\ l' \in [Procs -> Call] /\ \A q \in Procs : q # p => l'[q] = l[q]
       /\ l'[p].pc = l[p].pc /\ l'[p].d = l[p].d /\ l'[p].left = l[p].left
       /\ \/ k = m /\ l'[p].pos = pos + k /\ l'[p].end = l[p].end
          \/ k # m /\ l'[p].pos = pos /\ l'[p].end = pos
  <2>1. l \in [Procs -> Call]  BY Zenon, <1>5 DEF Types
  <2>2. CASE k = m
    <3>1. l' = [l EXCEPT ![p].pos = pos + k] /\ pos + k \in Nat  BY <1>2, <1>4, <1>9, <2>2
    <3> QED  BY ONLY Zenon, <1>10, <2>1, <2>2, <3>1, p \in Procs DEF Call
  <2>3. CASE k # m
    <3>1. l' = [l EXCEPT ![p].end = pos]  BY Zenon, <1>4, <2>3
    <3> QED  BY ONLY Zenon, <1>2, <1>10, <2>1, <2>3, <3>1, p \in Procs, pos \in Nat DEF Call
  <2> QED  BY Zenon, <2>2, <2>3
<1>14. /\ logged' \in [Procs -> SUBSET Int] /\ \A q \in Procs : q # p => logged'[q] = logged[q]
       /\ logged'[p] \subseteq logged[p] \cup {b}
  <2>1. logged \in [Procs -> SUBSET Int]  BY Zenon, <1>5 DEF Types
  <2>2. CASE k = m
    <3>1. {b} \in SUBSET Int  BY <1>8, Sizes
    <3>2. logged' = [logged EXCEPT ![p] = @ \cup {b}]  BY Zenon, <1>4, <2>2 DEF Log
    <3> QED  BY Zenon, <2>1, <3>1, <3>2, Logs
  <2>3. CASE k # m  BY Zenon, <1>4, <2>1, <2>3
  <2> QED  BY Zenon, <2>2, <2>3
<1>15. Types'  BY Zenon, <1>1, <1>5, <1>11, <1>12, <1>13, <1>14 DEF Types
<1>16. ~At(p, "itrunc") /\ ~At(p, "itrunc")' /\ At(p, "writei")'
  BY Zenon, <1>6, <1>13 DEF At
<1>17. /\ \A g \in Files, w \in Words : Passed(g, w)' <=> Passed(g, w)
       /\ \A g \in Files : Truncated(g)' <=> Truncated(g)
  BY Zenon, <1>13, <1>16, PassedSame
<1>18. \A g \in Files : addrs[g][NDIRECT] # 0 => blk'[addrs[g][NDIRECT]] = blk[addrs[g][NDIRECT]]
  <2>1. NDIRECT \in 0..NDIRECT  BY Sizes
  <2>2. \A g \in Files : addrs[g][NDIRECT] \in Blocks \cup {0}  BY <1>5, <2>1 DEF Types
  <2> QED  BY Zenon, <1>8, <1>11, <2>2
<1>19. OwnedBy(Ptrs, used)'
  <2>1. Ptrs' = Ptrs /\ used' = used  BY Zenon, <1>1, <1>17, <1>18, PtrsSame
  <2> QED  BY Zenon, <1>5, <2>1 DEF OwnedBy
<1>20. \A g \in Files, c \in Bns : NextAddr(g, c) = Addr(g, c)
  BY Zenon, <1>1, <1>18 DEF Addr, NextAddr
<1>21. \A g \in Files : Maps(g)  BY Zenon, <1>1, <1>20 DEF Maps
<1>22. \A g \in Files, c \in Bns : ~Truncated(g) /\ (g # f \/ c # bn) /\ Addr(g, c) # 0 =>
         blk'[Addr(g, c)] = blk[Addr(g, c)]
  <2>1. SUFFICES ASSUME NEW g \in Files, NEW c \in Bns, ~Truncated(g), g # f \/ c # bn,
                        Addr(g, c) # 0
                 PROVE  blk'[Addr(g, c)] = blk[Addr(g, c)]
    BY Zenon
  <2>2. Addr(g, c) \in Blocks  BY Zenon, <1>5, <2>1, Owner DEF Types
  <2> QED  BY Zenon, <1>8, <1>11, <2>1, <2>2
<1>23. \A g \in Files : g # f /\ ~Truncated(g) => Same(g)
  BY Zenon, <1>1, <1>12, <1>21, <1>22 DEF Same, Keeps
<1>24. \A q \in Procs : q # p => Aside(q)
  <2>1. SUFFICES ASSUME NEW q \in Procs, q # p, Writing(q)  PROVE Same(File(q))
    BY Zenon, <1>1, <1>13, <1>14 DEF Aside
  <2>2. ~Truncated(File(q)) /\ File(q) \in Files /\ File(q) # f
    BY Zenon, <1>2, <1>6, <2>1, Writer
  <2> QED  BY Zenon, <1>23, <2>2
<1>25. File(p)' = f /\ n1(p)' = n1(p)  BY Zenon, <1>2, <1>13 DEF File, n1
<1>26. Place(p)'
  <2>1. l[p].d \in Descs /\ off[l[p].d] \in Nat /\ n1(p) \in Nat
    <3>1. l[p].d \in Descs /\ off[l[p].d] \in 0..MAXSIZE /\ n1(p) \in Nat
      BY ZenonT(60), <1>5, <1>6, Holder, Chunk DEF Types
    <3> QED  BY ONLY <3>1, Sizes
  <2>2. /\ off[l[p].d] <= l'[p].pos /\ l'[p].pos <= l'[p].end
        /\ l'[p].end <= off[l[p].d] + n1(p)
    BY <1>2, <1>5, <1>6, <1>9, <1>13, <2>1 DEF Place, At
  <2> QED  BY Zenon, <1>1, <1>2, <1>5, <1>6, <1>13, <1>16, <1>25, <2>1, <2>2 DEF Place, At
<1>27. Reserved(p)'
  <2>1. Writing(p)' /\ l[p].left > 0  BY Zenon, <1>6, <1>13 DEF Writing
  <2>2. Span(p)' = Span(p)  BY Zenon, <1>1, <1>13, <1>25 DEF Span, Start, Last
  <2>3. Planned(p, b)'
    <3>1. Addr(f, bn)' = b  BY Zenon, <1>3, <1>20, NextIs
    <3> QED  BY Zenon, <1>6, <1>7, <1>25, <2>2, <3>1 DEF Planned
  <2>4. \A x \in logged'[p] : x \in logged[p] \/ Planned(p, x)'  BY Zenon, <1>14, <2>3
  <2> QED  BY Zenon, <1>1, <1>2, <1>5, <1>6, <1>13, <1>21, <2>1, <2>4, LogsMore
<1>28. ASSUME NEW n \in 0..MAXSIZE, Holds(f, n) \/ (n = pos + k /\ Holds(f, pos))
       PROVE  Holds(f, n)'
  <2>1. \A c \in Bns : Addr(f, c) # 0 =>
          /\ NextAddr(f, c) = Addr(f, c)
          /\ c # bn => blk'[Addr(f, c)] = blk[Addr(f, c)]
    BY Zenon, <1>6, <1>20, <1>22
  <2>2. Copied(f, pos, k, v, b, r)  BY Zenon, <1>11, <1>12 DEF Copied
  <2>3. k \in Nat /\ r + k <= BSIZE  BY Zenon, <1>9
  <2>4. b = Addr(f, bn) /\ b # 0 /\ bn = pos \div BSIZE /\ r = pos % BSIZE  BY Zenon, <1>3, <1>7
  <2> QED
    BY ONLY Zenon, f \in Files, pos \in Nat, n \in 0..MAXSIZE, <1>28, <2>1, <2>2, <2>3, <2>4,
            CopyHolds
<1>29. Holds(File(p), l[p].pos)'
  <2>1. Holds(f, pos)  BY ZenonT(60), <1>2, <1>6 DEF IInv, Data
  <2>2. pos \in 0..MAXSIZE /\ pos + m \in 0..MAXSIZE  BY <1>6, <1>9, Sizes
  <2>3. PICK n \in 0..MAXSIZE : n = l'[p].pos /\ (n = pos \/ n = pos + k)
    BY Zenon, <1>13, <2>2
  <2>4. Holds(f, n)'  BY Zenon, <1>28, <2>1, <2>3
  <2> QED  BY Zenon, <1>25, <2>3, <2>4
<1>30. Holds(f, size[f])'
  <2>1. PICK n \in 0..MAXSIZE : n = size[f]  BY Zenon, <1>5 DEF Types
  <2>2. Holds(f, n)  BY Zenon, <1>6, <2>1 DEF IInv, Data
  <2>3. Holds(f, n)'  BY Zenon, <1>28, <2>2
  <2> QED  BY Zenon, <1>1, <2>1, <2>3
<1>31. \A g \in Files : ~Truncated(g)' => (~Truncated(g) /\ Same(g)) \/ Holds(g, size[g])'
  BY Zenon, <1>17, <1>23, <1>30
<1> QED  BY Zenon, <1>15, <1>19, <1>24, <1>26, <1>27, <1>29, <1>31, Parts
-----------------------------------------------------------------------------
(* A step of itrunc() frees the block b of the place j of its file.        *)
LEMMA BitmapOf ==
  ASSUME NEW b \in Blocks
  PROVE  BitmapBlock(b) \in BitmapBlocks /\ BitmapBlock(b) \in Int
<1>1. BPB \in Nat \ {0} /\ NBLOCKS \in Nat /\ b \in Nat /\ b <= NBLOCKS  BY Sizes DEF Blocks
<1>2. b \div BPB <= NBLOCKS \div BPB  BY Zenon, <1>1, DivMono
<1>3. b \div BPB \in 0..(NBLOCKS \div BPB)  BY <1>1, <1>2
<1>4. BitmapBlock(b) \in BitmapBlocks  BY Zenon, <1>3 DEF BitmapBlock, BitmapBlocks
<1>5. BitmapBlock(b) \in Int  BY <1>1, <1>3 DEF BitmapBlock
<1> QED  BY Zenon, <1>4, <1>5

(* The words of the indirect block that a truncation has passed are those  *)
(* before pos: no other process truncates the file.                        *)
LEMMA PassedBy ==
  ASSUME IInv, NEW p \in Procs, At(p, "itrunc"), NEW f \in Files, f = File(p)
  PROVE  /\ \A w : Passed(f, w) <=> w < l[p].pos
         /\ \A q \in Procs : At(q, "itrunc") /\ File(q) = f => q = p
<1>1. \A q \in Procs : At(q, "itrunc") => Busy(q)  BY Zenon DEF At, Busy
<1>2. \A q \in Procs : At(q, "itrunc") /\ File(q) = f => q = p  BY Zenon, <1>1, Holder
<1> QED  BY Zenon, <1>2 DEF Passed

(* bfree() of the block of a place that is cleared, or passed.             *)
LEMMA FreesPtr ==
  ASSUME OwnedBy(Ptrs, used), NEW f \in Files, NEW j \in Places, NEW b, b = Ptr(f, j),
         used' = used \ {b}, Points(f, j, 0)
  PROVE  OwnedBy(Ptrs, used)'
<1>1. <<f, j>> \in DOMAIN Ptrs /\ Ptrs[<<f, j>>] = b  BY Zenon, PtrsAt
<1>2. OwnedBy([Ptrs EXCEPT ![<<f, j>>] = 0], used \ {Ptrs[<<f, j>>]})  BY Zenon, <1>1, GiveBlock
<1>3. PICK z : z = 0  BY Zenon
<1>4. Points(f, j, z)  BY Zenon, <1>3
<1>5. Ptrs' = [Ptrs EXCEPT ![<<f, j>>] = z]  BY Zenon, <1>4, PtrsExcept
<1> QED  BY Zenon, <1>1, <1>2, <1>3, <1>5 DEF OwnedBy

(* The parts of a step of itrunc() that frees the block b of the place j.  *)
LEMMA Frees ==
  ASSUME IInv, NEW p \in Procs, At(p, "itrunc"), NEW f \in Files, f = File(p),
         NEW j \in Places, NEW b, b = Ptr(f, j), used' = used \ {b}, Points(f, j, 0),
         Types', UNCHANGED <<blk, off, lock>>, Place(p)', ~At(p, "writei")',
         \A q \in Procs : q # p => l'[q] = l[q] /\ logged'[q] = logged[q],
         l'[p].pc \in {"itrunc", "end_op"}, l'[p].left = 0,
         logged'[p] \subseteq logged[p] \cup BitmapBlocks \cup {0},
         \A g \in Files : g # f => addrs'[g] = addrs[g] /\ size'[g] = size[g]
                                   /\ content'[g] = content[g],
         \/ At(p, "itrunc")' /\ File(p)' = f
         \/ Holds(f, size[f])'
  PROVE  IInv'
<1>1. Types /\ OwnedBy(Ptrs, used) /\ Reserved(p) /\ Place(p)  BY Zenon DEF IInv
<1>2. OwnedBy(Ptrs, used)'  BY Zenon, <1>1, FreesPtr
<1>3. \A g \in Files : g # f => Same(g)
  BY Zenon DEF Same, Keeps, Maps, Addr, NextAddr
<1>4. Busy(p)  BY Zenon DEF At, Busy
<1>5. \A q \in Procs : q # p => Aside(q)
  <2>1. SUFFICES ASSUME NEW q \in Procs, q # p, Writing(q)  PROVE Same(File(q))
    BY Zenon DEF Aside
  <2>2. File(q) \in Files /\ File(q) # f  BY Zenon, <1>4, <2>1, Writer
  <2> QED  BY Zenon, <1>3, <2>2
<1>6. Reserved(p)'
  <2>1. l[p].left = 0  BY Zenon, <1>1 DEF Place, At
  <2>2. Truncating(p)  BY Zenon, <2>1 DEF Truncating, At
  <2>3. logged'[p] \subseteq BitmapBlocks \cup {0}  BY Zenon, <1>1, <2>2 DEF Reserved
  <2>4. ~(l'[p].pc \in {"idle", "filewrite"}) /\ ~Writing(p)'
    BY ONLY l'[p].pc \in {"itrunc", "end_op"}, l'[p].left = 0 DEF Writing
  <2> QED  BY Zenon, <2>3, <2>4 DEF Reserved
<1>7. ASSUME NEW g \in Files, ~Truncated(g)'
      PROVE  (~Truncated(g) /\ Same(g)) \/ Holds(g, size[g])'
  <2>1. CASE g = f  BY Zenon, <1>7, <2>1 DEF Truncated
  <2>2. CASE g # f
    <3>1. ~Truncated(g)
      <4>1. SUFFICES ASSUME NEW q \in Procs, At(q, "itrunc"), File(q) = g  PROVE FALSE
        BY Zenon DEF Truncated
      <4>2. q # p  BY Zenon, <2>2, <4>1
      <4>3. At(q, "itrunc")' /\ File(q)' = g  BY Zenon, <4>1, <4>2 DEF At, File
      <4> QED  BY Zenon, <1>7, <4>3 DEF Truncated
    <3> QED  BY Zenon, <1>3, <2>2, <3>1
  <2> QED  BY Zenon, <2>1, <2>2
<1> QED  BY Zenon, <1>2, <1>5, <1>6, <1>7, Parts

(* itrunc() keeps the invariant when it frees a direct block.              *)
LEMMA TruncatesDirect ==
  ASSUME IInv, NEW p \in Procs, itrunc_direct(p)
  PROVE  IInv'
<1>1. At(p, "itrunc") /\ UNCHANGED <<blk, size, off, lock, l, content, calls>>
  BY Zenon DEF itrunc_direct
<1>2. Busy(p)  BY Zenon, <1>1 DEF At, Busy
<1>3. PICK f \in Files : f = File(p)  BY Zenon, <1>2, Holder
<1>4. PICK k \in 0..(NDIRECT - 1) : \E b : /\ b = addrs[f][k] /\ b # 0 /\ bfree(p, b)
                                           /\ addrs' = [addrs EXCEPT ![f][k] = 0]
  BY Zenon, <1>3 DEF itrunc_direct
<1>5. PICK b : b = addrs[f][k] /\ b # 0 /\ bfree(p, b) /\ addrs' = [addrs EXCEPT ![f][k] = 0]
  BY Zenon, <1>4
<1>6. Types /\ Place(p) /\ NDIRECT \in Nat \ {0} /\ BSIZE \in Nat \ {0}  BY Zenon, Sizes DEF IInv
<1>7. k \in 0..NDIRECT /\ k # NDIRECT /\ k <= NDIRECT /\ k \in Places  BY <1>6 DEF Places
<1>8. /\ addrs' \in [Files -> [0..NDIRECT -> Blocks \cup {0}]]
      /\ \A g \in Files : g # f => addrs'[g] = addrs[g]
      /\ \A j \in 0..NDIRECT : addrs'[f][j] = IF j = k THEN 0 ELSE addrs[f][j]
  BY Zenon, <1>5, <1>6, <1>7 DEF Types
<1>9. b \in Blocks  BY <1>5, <1>6, <1>7 DEF Types
<1>10. /\ used' = used \ {b} /\ logged' = [logged EXCEPT ![p] = @ \cup {BitmapBlock(b)}]
       /\ BitmapBlock(b) \in BitmapBlocks /\ {BitmapBlock(b)} \in SUBSET Int
  BY Zenon, <1>5, <1>9, BitmapOf DEF bfree, Log
<1>11. /\ logged' \in [Procs -> SUBSET Int] /\ logged'[p] = logged[p] \cup {BitmapBlock(b)}
       /\ \A q \in Procs : q # p => logged'[q] = logged[q]
  BY Zenon, <1>6, <1>10, Logs DEF Types
<1>12. Types'
  <2>1. used' \subseteq Blocks  BY Zenon, <1>6, <1>10 DEF Types
  <2> QED  BY Zenon, <1>1, <1>6, <1>8, <1>11, <2>1 DEF Types
<1>13. b = Ptr(f, k)  BY Zenon, <1>5, <1>7 DEF Ptr
<1>14. NDIRECT \in 0..NDIRECT  BY <1>6
<1>15. \A g \in Files : addrs'[g][NDIRECT] = addrs[g][NDIRECT]  BY Zenon, <1>7, <1>8, <1>14
<1>16. Points(f, k, 0)
  <2>1. SUFFICES ASSUME NEW g \in Files, NEW j \in Places
                 PROVE  Ptr(g, j)' = IF g = f /\ j = k THEN 0 ELSE Ptr(g, j)
    BY Zenon DEF Points
  <2>2. CASE j <= NDIRECT  BY Zenon, <1>8, <2>2, PlaceCase DEF Ptr
  <2>3. CASE ~(j <= NDIRECT)
    <3>1. Passed(g, j - NDIRECT - 1)' <=> Passed(g, j - NDIRECT - 1)
      BY Zenon, <1>1 DEF Passed, At, File
    <3>2. Ptr(g, j)' = Ptr(g, j)  BY Zenon, <1>1, <1>15, <2>3, <3>1 DEF Ptr
    <3> QED  BY Zenon, <1>7, <2>3, <3>2
  <2> QED  BY Zenon, <2>2, <2>3
<1>17. Place(p)' /\ At(p, "itrunc")' /\ File(p)' = f /\ l'[p].left = 0
  <2>1. l[p].left = 0  BY Zenon, <1>1, <1>6 DEF Place
  <2> QED  BY Zenon, <1>1, <1>3, <1>6, <2>1 DEF Place, At, File, n1
<1>18. l'[p].pc \in {"itrunc", "end_op"} /\ ~At(p, "writei")'  BY Zenon, <1>17 DEF At
<1>19. logged'[p] \subseteq logged[p] \cup BitmapBlocks \cup {0}  BY Zenon, <1>10, <1>11
<1>20. \A g \in Files : g # f => addrs'[g] = addrs[g] /\ size'[g] = size[g]
                                  /\ content'[g] = content[g]
  BY Zenon, <1>1, <1>8
<1>21. \A q \in Procs : q # p => l'[q] = l[q] /\ logged'[q] = logged[q]  BY Zenon, <1>1, <1>11
<1>22. UNCHANGED <<blk, off, lock>> /\ used' = used \ {b}  BY Zenon, <1>1, <1>10
<1> QED
  BY ZenonT(60), <1>1, <1>3, <1>7, <1>12, <1>13, <1>16, <1>17, <1>18, <1>19, <1>20, <1>21, <1>22, Frees

(* itrunc() keeps the invariant when it goes over a word of the indirect   *)
(* block.                                                                  *)
LEMMA TruncatesIndirect ==
  ASSUME IInv, NEW p \in Procs, itrunc_indirect(p)
  PROVE  IInv'
<1>1. At(p, "itrunc") /\ UNCHANGED <<addrs, blk, size, off, lock, content, calls>>
  BY Zenon DEF itrunc_indirect
<1>2. Busy(p)  BY Zenon, <1>1 DEF At, Busy
<1>3. PICK f \in Files : f = File(p)  BY Zenon, <1>2, Holder
<1>4. PICK ind, pos, b : ind = addrs[f][NDIRECT] /\ pos = l[p].pos /\ b = blk[ind][pos]  BY Zenon
<1>5. /\ ind # 0 /\ pos < BSIZE /\ l' = [l EXCEPT ![p].pos = @ + 1]
      /\ IF b # 0 THEN bfree(p, b) ELSE UNCHANGED <<used, logged>>
  BY Zenon, <1>3, <1>4 DEF itrunc_indirect
<1>6. Types /\ Place(p) /\ NDIRECT \in Nat \ {0} /\ BSIZE \in Nat \ {0} /\ l[p] \in Call
      /\ OwnedBy(Ptrs, used)
  BY Zenon, Sizes DEF IInv, Types
<1>7. pos \in Nat /\ pos \in Words /\ ~(pos < pos)  BY <1>4, <1>5, <1>6 DEF Call, Words
<1> DEFINE j == NDIRECT + 1 + pos
<1>8. j \in Places /\ ~(j <= NDIRECT) /\ j - NDIRECT - 1 = pos  BY <1>6, <1>7 DEF Places, Words
<1>9. (\A w : Passed(f, w) <=> w < pos) /\ \A q \in Procs : At(q, "itrunc") /\ File(q) = f => q = p
  BY Zenon, <1>1, <1>3, <1>4, PassedBy
<1>10. b = Ptr(f, j)  BY Zenon, <1>4, <1>5, <1>7, <1>8, <1>9 DEF Ptr
<1> HIDE DEF j
<1>11. b \in used \cup {0} /\ 0 \notin used /\ used \subseteq Blocks
  BY Zenon, <1>6, <1>8, <1>10, Unique, Sizes DEF Types
<1>12. /\ used' = used \ {b} /\ logged' \in [Procs -> SUBSET Int]
       /\ logged'[p] \subseteq logged[p] \cup BitmapBlocks
       /\ \A q \in Procs : q # p => logged'[q] = logged[q]
  <2>1. CASE b # 0
    <3>1. BitmapBlock(b) \in BitmapBlocks /\ {BitmapBlock(b)} \in SUBSET Int
      BY Zenon, <1>11, <2>1, BitmapOf
    <3>2. used' = used \ {b} /\ logged' = [logged EXCEPT ![p] = @ \cup {BitmapBlock(b)}]
      BY Zenon, <1>5, <2>1 DEF bfree, Log
    <3>3. /\ logged' \in [Procs -> SUBSET Int] /\ logged'[p] = logged[p] \cup {BitmapBlock(b)}
          /\ \A q \in Procs : q # p => logged'[q] = logged[q]
      BY Zenon, <1>6, <3>1, <3>2, Logs DEF Types
    <3> QED  BY Zenon, <3>1, <3>2, <3>3
  <2>2. CASE b = 0
    <3>1. used' = used /\ logged' = logged  BY Zenon, <1>5, <2>2
    <3>2. used \ {b} = used  BY Zenon, <1>11, <2>2
    <3> QED  BY Zenon, <1>6, <3>1, <3>2 DEF Types
  <2> QED  BY Zenon, <2>1, <2>2
<1>13. /\ l' \in [Procs -> Call] /\ l'[p].pos = pos + 1 /\ l'[p].pc = l[p].pc /\ l'[p].d = l[p].d
       /\ l'[p].left = l[p].left /\ \A q \in Procs : q # p => l'[q] = l[q]
  <2>1. l \in [Procs -> Call] /\ pos + 1 \in Nat /\ l' = [l EXCEPT ![p].pos = pos + 1]
    BY <1>4, <1>5, <1>6, <1>7 DEF Types
  <2> QED  BY ONLY Zenon, <1>6, <2>1, p \in Procs DEF Call
<1>14. Types'
  <2>1. used' \subseteq Blocks  BY Zenon, <1>11, <1>12
  <2> QED  BY Zenon, <1>1, <1>6, <1>12, <1>13, <2>1 DEF Types
<1>15. At(p, "itrunc")' /\ File(p)' = f /\ l'[p].left = 0
  <2>1. l[p].left = 0  BY Zenon, <1>1, <1>6 DEF Place
  <2> QED  BY Zenon, <1>1, <1>3, <1>13, <2>1 DEF At, File
<1>16. l'[p].pc \in {"itrunc", "end_op"} /\ ~At(p, "writei")'  BY Zenon, <1>15 DEF At
<1>17. Place(p)'
  <2>1. l'[p].pos <= BSIZE  BY <1>5, <1>6, <1>7, <1>13
  <2>2. l[p].d \in Descs /\ lock[f] = p  BY Zenon, <1>2, <1>3, Holder
  <2>3. l'[p].pc = "itrunc"  BY Zenon, <1>15 DEF At
  <2> QED  BY Zenon, <1>1, <1>13, <1>15, <2>1, <2>2, <2>3 DEF Place, At
<1>18. Points(f, j, 0)
  <2>1. SUFFICES ASSUME NEW g \in Files, NEW k \in Places
                 PROVE  Ptr(g, k)' = IF g = f /\ k = j THEN 0 ELSE Ptr(g, k)
    BY Zenon DEF Points
  <2>2. CASE k <= NDIRECT  BY Zenon, <1>1, <1>8, <2>2 DEF Ptr
  <2>3. CASE ~(k <= NDIRECT)
    <3> DEFINE w == k - NDIRECT - 1
    <3>1. w \in Words /\ w \in Nat  BY <1>6, <2>3, PlaceCase DEF Words
    <3>2. k = j <=> w = pos  BY <1>6, <1>7 DEF Places, j
    <3> HIDE DEF w
    <3>3. CASE g # f
      <4>1. Passed(g, w)' <=> Passed(g, w)
        <5>1. \A q \in Procs : q # p => (At(q, "itrunc")' <=> At(q, "itrunc")) /\ File(q)' = File(q)
          BY Zenon, <1>13 DEF At, File
        <5> QED  BY Zenon, <1>3, <1>13, <1>15, <3>3, <5>1 DEF Passed
      <4>2. Ptr(g, k)' = Ptr(g, k)  BY Zenon, <1>1, <2>3, <4>1 DEF Ptr, w
      <4> QED  BY Zenon, <3>3, <4>2
    <3>4. CASE g = f
      <4>1. Passed(f, w)' <=> w < pos + 1
        <5>1. \A q \in Procs : At(q, "itrunc")' /\ File(q)' = f => q = p
          BY Zenon, <1>9, <1>13 DEF At, File
        <5> QED  BY Zenon, <1>13, <1>15, <5>1 DEF Passed
      <4>2. w < pos + 1 <=> w < pos \/ w = pos  BY <1>7, <3>1
      <4>3. Passed(f, w)' <=> Passed(f, w) \/ k = j  BY Zenon, <1>9, <3>2, <4>1, <4>2
      <4> QED  BY Zenon, <1>1, <2>3, <3>4, <4>3 DEF Ptr, w
    <3> QED  BY Zenon, <3>3, <3>4
  <2> QED  BY Zenon, <2>2, <2>3
<1>19. logged'[p] \subseteq logged[p] \cup BitmapBlocks \cup {0}  BY Zenon, <1>12
<1>20. \A g \in Files : g # f => addrs'[g] = addrs[g] /\ size'[g] = size[g]
                                  /\ content'[g] = content[g]
  BY Zenon, <1>1
<1>21. \A q \in Procs : q # p => l'[q] = l[q] /\ logged'[q] = logged[q]  BY Zenon, <1>12, <1>13
<1>22. UNCHANGED <<blk, off, lock>> /\ used' = used \ {b}  BY Zenon, <1>1, <1>12
<1> QED
  BY Zenon, <1>1, <1>3, <1>8, <1>10, <1>14, <1>15, <1>16, <1>17, <1>18, <1>19, <1>20, <1>21, <1>22,
     Frees

(* itrunc() keeps the invariant when it frees the indirect block: every    *)
(* word of it is passed, and no block is lost.                             *)
LEMMA Truncates ==
  ASSUME IInv, NEW p \in Procs, itrunc(p)
  PROVE  IInv'
<1>1. At(p, "itrunc") /\ UNCHANGED <<blk, off, lock, calls>>  BY Zenon DEF itrunc
<1>2. Busy(p)  BY Zenon, <1>1 DEF At, Busy
<1>3. PICK f \in Files : f = File(p)  BY Zenon, <1>2, Holder
<1>4. PICK ind : ind = addrs[f][NDIRECT]  BY Zenon
<1>5. /\ NoDirect(f) /\ (ind # 0 => l[p].pos = BSIZE) /\ used' = used \ Rest(ind)
      /\ logged' = [logged EXCEPT ![p] = @ \cup ({BitmapBlock(b) : b \in Rest(ind)} \cup {0})]
      /\ addrs' = [addrs EXCEPT ![f][NDIRECT] = 0] /\ size' = [size EXCEPT ![f] = 0]
      /\ content' = [content EXCEPT ![f] = [i \in Offsets |-> 0]]
      /\ l' = [l EXCEPT ![p].pc = "end_op"]
  BY Zenon, <1>3, <1>4 DEF itrunc, Log
<1>6. Types /\ Place(p) /\ NDIRECT \in Nat \ {0} /\ BSIZE \in Nat \ {0} /\ l[p] \in Call
      /\ OwnedBy(Ptrs, used)
  BY Zenon, Sizes DEF IInv, Types
<1>7. NDIRECT \in 0..NDIRECT /\ NDIRECT \in Places /\ NDIRECT <= NDIRECT
  BY <1>6, PlaceOf
<1>8. ind = Ptr(f, NDIRECT)  BY Zenon, <1>4, <1>7 DEF Ptr
<1>9. ind \in used \cup {0} /\ 0 \notin used /\ used \subseteq Blocks
  BY Zenon, <1>6, <1>7, <1>8, Unique, Sizes DEF Types
<1>10. used' = used \ {ind}  BY Zenon, <1>5, <1>9 DEF Rest
<1> DEFINE L == {BitmapBlock(b) : b \in Rest(ind)} \cup {0}
<1>11. L \subseteq BitmapBlocks \cup {0} /\ L \in SUBSET Int
  <2>1. \A b \in Rest(ind) : BitmapBlock(b) \in BitmapBlocks /\ BitmapBlock(b) \in Int
    BY Zenon, <1>9, BitmapOf DEF Rest
  <2>2. 0 \in Int  OBVIOUS
  <2> QED  BY Zenon, <2>1, <2>2
<1> HIDE DEF L
<1>12. /\ logged' \in [Procs -> SUBSET Int] /\ logged'[p] = logged[p] \cup L
       /\ \A q \in Procs : q # p => logged'[q] = logged[q]
  BY ZenonT(60), <1>5, <1>6, <1>11, Logs DEF Types, L
<1>13. /\ addrs' \in [Files -> [0..NDIRECT -> Blocks \cup {0}]]
       /\ \A g \in Files : g # f => addrs'[g] = addrs[g]
       /\ \A k \in 0..NDIRECT : addrs'[f][k] = IF k = NDIRECT THEN 0 ELSE addrs[f][k]
  BY Zenon, <1>5, <1>6, <1>7 DEF Types
<1>14. /\ size' \in [Files -> 0..MAXSIZE] /\ size'[f] = 0
       /\ \A g \in Files : g # f => size'[g] = size[g]
  BY <1>5, <1>6, Sizes DEF Types
<1>15. /\ content' \in [Files -> [Offsets -> Nat]]
       /\ \A g \in Files : g # f => content'[g] = content[g]
  BY Zenon, <1>5, <1>6 DEF Types
<1>16. /\ l' \in [Procs -> Call] /\ l'[p].pc = "end_op" /\ l'[p].d = l[p].d
       /\ l'[p].left = l[p].left /\ \A q \in Procs : q # p => l'[q] = l[q]
  <2>1. l \in [Procs -> Call]  BY Zenon, <1>6 DEF Types
  <2> QED  BY ONLY Zenon, <1>5, <1>6, <2>1, p \in Procs DEF Call, PCs
<1>17. Types'
  <2>1. used' \subseteq Blocks  BY Zenon, <1>9, <1>10
  <2> QED  BY Zenon, <1>1, <1>6, <1>12, <1>13, <1>14, <1>15, <1>16, <2>1 DEF Types
<1>18. /\ \A w : Passed(f, w) <=> w < l[p].pos
       /\ \A q \in Procs : At(q, "itrunc") /\ File(q) = f => q = p
  BY Zenon, <1>1, <1>3, PassedBy
<1>19. ~At(p, "itrunc")' /\ ~At(p, "writei")' /\ l'[p].pc \in {"itrunc", "end_op"}
  BY Zenon, <1>16 DEF At
<1>20. Points(f, NDIRECT, 0)
  <2>1. SUFFICES ASSUME NEW g \in Files, NEW k \in Places
                 PROVE  Ptr(g, k)' = IF g = f /\ k = NDIRECT THEN 0 ELSE Ptr(g, k)
    BY Zenon DEF Points
  <2>2. CASE k <= NDIRECT  BY Zenon, <1>13, <2>2, PlaceCase DEF Ptr
  <2>3. CASE ~(k <= NDIRECT)
    <3> DEFINE w == k - NDIRECT - 1
    <3>1. w \in Words /\ w < BSIZE /\ k # NDIRECT  BY <1>6, <2>3, PlaceCase DEF Words
    <3> HIDE DEF w
    <3>2. CASE g # f
      <4>1. Passed(g, w)' <=> Passed(g, w)
        <5>1. \A q \in Procs : q # p => (At(q, "itrunc")' <=> At(q, "itrunc")) /\ File(q)' = File(q)
          BY Zenon, <1>16 DEF At, File
        <5> QED  BY Zenon, <1>3, <1>16, <1>19, <3>2, <5>1 DEF Passed
      <4>2. Ptr(g, k)' = Ptr(g, k)  BY Zenon, <1>1, <1>13, <2>3, <3>2, <4>1 DEF Ptr, w
      <4> QED  BY Zenon, <3>2, <4>2
    <3>3. CASE g = f
      <4>1. Ptr(g, k) = 0
        <5>1. ind # 0 => Passed(f, w)  BY Zenon, <1>5, <1>18, <3>1
        <5> QED  BY Zenon, <1>4, <2>3, <3>3, <5>1 DEF Ptr, w
      <4>2. addrs'[f][NDIRECT] = 0  BY Zenon, <1>7, <1>13
      <4>3. Ptr(g, k)' = 0  BY Zenon, <2>3, <3>3, <4>2 DEF Ptr
      <4> QED  BY Zenon, <4>1, <4>3
    <3> QED  BY Zenon, <3>2, <3>3
  <2> QED  BY Zenon, <2>2, <2>3
<1>21. l'[p].left = 0  BY Zenon, <1>1, <1>6, <1>16 DEF Place
<1>22. Place(p)'
  <2>1. l[p].d \in Descs /\ lock[f] = p  BY Zenon, <1>2, <1>3, Holder
  <2>2. File(p)' = f  BY Zenon, <1>3, <1>16 DEF File
  <2>3. n1(p)' = 0
    <3>1. max \in Nat \ {0}  BY Zenon, <1>6, Chunk
    <3> QED  BY <1>21, <3>1 DEF n1, Min2
  <2>4. off'[l'[p].d] \in 0..MAXSIZE  BY Zenon, <1>16, <1>17, <2>1 DEF Types
  <2>5. off'[l'[p].d] + 0 <= MAXSIZE  BY <2>4, Sizes
  <2> QED  BY Zenon, <1>1, <1>16, <2>1, <2>2, <2>3, <2>5 DEF Place, At
<1>23. Holds(f, size[f])'
  <2>1. 0..(0 - 1) = {}  OBVIOUS
  <2> QED  BY Zenon, <1>14, <2>1 DEF Holds
<1>24. logged'[p] \subseteq logged[p] \cup BitmapBlocks \cup {0}  BY Zenon, <1>11, <1>12
<1>25. \A g \in Files : g # f => addrs'[g] = addrs[g] /\ size'[g] = size[g]
                                  /\ content'[g] = content[g]
  BY Zenon, <1>13, <1>14, <1>15
<1>26. \A q \in Procs : q # p => l'[q] = l[q] /\ logged'[q] = logged[q]  BY Zenon, <1>12, <1>16
<1>27. UNCHANGED <<blk, off, lock>>  BY Zenon, <1>1
<1> QED
  BY Zenon, <1>1, <1>3, <1>7, <1>8, <1>10, <1>17, <1>19, <1>20, <1>21, <1>22, <1>23, <1>24, <1>25,
     <1>26, <1>27, Frees
-----------------------------------------------------------------------------
(* The initial state has no blocks and no calls.                           *)
LEMMA InitInv == Init => IInv
<1> SUFFICES ASSUME Init  PROVE IInv  OBVIOUS
<1>1. l = [p \in Procs |-> Idle] /\ logged = [p \in Procs |-> {}]  BY Zenon DEF Init
<1>2. /\ Idle \in Call /\ Idle.pc = "idle"
      /\ [w \in Words |-> 0] \in [Words -> Nat]
  BY DEF Call, PCs, Idle
<1>3. \A p \in Procs : l[p].pc = "idle" /\ logged[p] = {}  BY Zenon, <1>1, <1>2
<1>4. Types
  <2>1. used \subseteq Blocks /\ addrs \in [Files -> [0..NDIRECT -> Blocks \cup {0}]]
    BY Zenon DEF Init
  <2>2. size \in [Files -> 0..MAXSIZE] /\ off \in [Descs -> 0..MAXSIZE] /\ calls \in Nat
    BY Sizes DEF Init
  <2>3. blk \in [Blocks -> [Words -> Nat]]  BY Zenon, <1>2 DEF Init, Zero
  <2>4. content \in [Files -> [Offsets -> Nat]]  BY DEF Init
  <2>5. /\ lock \in [Files -> Procs \cup {None}] /\ l \in [Procs -> Call]
        /\ logged \in [Procs -> SUBSET Int]
    BY Zenon, <1>1, <1>2 DEF Init
  <2> QED  BY Zenon, <2>1, <2>2, <2>3, <2>4, <2>5 DEF Types
<1>5. OwnedBy(Ptrs, used)
  <2>1. used = {} /\ NDIRECT \in 0..NDIRECT  BY Sizes DEF Init
  <2>2. \A f \in Files : \A k \in 0..NDIRECT : addrs[f][k] = 0  BY Zenon DEF Init
  <2>3. ASSUME NEW f \in Files, NEW k \in Places  PROVE Ptr(f, k) = 0
    <3>1. k <= NDIRECT => k \in 0..NDIRECT  BY Sizes DEF Places
    <3> QED  BY Zenon, <2>1, <2>2, <3>1 DEF Ptr
  <2>4. \A x \in DOMAIN Ptrs : Ptrs[x] = 0
    <3>1. DOMAIN Ptrs = Files \X Places
          /\ \A x \in Files \X Places :
               x[1] \in Files /\ x[2] \in Places /\ Ptrs[x] = Ptr(x[1], x[2])
      BY DEF Ptrs
    <3> QED  BY Zenon, <2>3, <3>1
  <2> QED  BY Zenon, <2>1, <2>4 DEF OwnedBy
<1>6. Data
  <2>1. \A f \in Files : Holds(f, size[f])
    <3>1. \A f \in Files : size[f] = 0  BY Zenon DEF Init
    <3>2. 0..(0 - 1) = {}  OBVIOUS
    <3> QED  BY Zenon, <3>1, <3>2 DEF Holds
  <2>2. \A p \in Procs : ~At(p, "writei")  BY <1>3 DEF At
  <2> QED  BY Zenon, <2>1, <2>2 DEF Data
<1>7. \A p \in Procs : Place(p) /\ Reserved(p)
  <2>1. SUFFICES ASSUME NEW p \in Procs  PROVE Place(p) /\ Reserved(p)  OBVIOUS
  <2>2. l[p].pc = "idle" /\ logged[p] = {}  BY Zenon, <1>3
  <2>3. ~At(p, "writei") /\ ~At(p, "itrunc") /\ ~Writing(p) /\ ~Truncating(p)
    BY <2>2 DEF At, Writing, Truncating
  <2> QED  BY <2>2, <2>3 DEF Place, Reserved, At
<1> QED  BY Zenon, <1>4, <1>5, <1>6, <1>7 DEF IInv

(* Every step of the file system keeps the invariant.                      *)
LEMMA NextInv == IInv /\ [Next]_vars => IInv'
<1> SUFFICES ASSUME IInv, [Next]_vars  PROVE IInv'  OBVIOUS
<1>1. CASE \E p \in Procs : Step(p)
  <2>1. PICK p \in Procs : Step(p)  BY Zenon, <1>1
  <2> QED
    BY Zenon, <2>1, Chunks, ChunkFails, AllocatesIndirect, AllocatesBlock, Copies, WriteEnds,
       TruncatesDirect, TruncatesIndirect, Truncates, EndOp DEF Step
<1>2. CASE \E p \in Procs, d \in Descs : \/ \E n \in Lens : sys_write(p, d, n)
                                         \/ \E trunc \in BOOLEAN : sys_open(p, d, trunc)
  BY Zenon, <1>2, Write, Open
<1>3. CASE \E d \in Descs, n \in Lens : fileread(d, n)  BY Zenon, <1>3, ReadSome
<1>4. CASE UNCHANGED vars
  <2>1. UNCHANGED <<used, addrs, blk, size, off, lock, l, logged, content, calls>>
    BY Zenon, <1>4 DEF vars, disk
  <2>2. Types'  BY Zenon, <2>1 DEF IInv, Types
  <2>3. OwnedBy(Ptrs, used)'
    <3>1. \A f \in Files, w \in Words : Passed(f, w)' <=> Passed(f, w)
      BY Zenon, <2>1 DEF Passed, At, File
    <3>2. Ptrs' = Ptrs  BY Zenon, <2>1, <3>1, PtrsSame
    <3> QED  BY Zenon, <2>1, <3>2 DEF IInv, OwnedBy
  <2>4. \A p \in Procs : /\ Place(p)' /\ Reserved(p)'
                         /\ (At(p, "writei") => Holds(File(p), l[p].pos))'
    <3>1. \A p \in Procs : Aside(p)  BY Zenon, <2>1, AllSame DEF Aside
    <3> QED  BY Zenon, <3>1, Bystander
  <2>5. \A f \in Files : ~Truncated(f)' => Holds(f, size[f])'
    <3>1. \A f : Same(f)  BY Zenon, <2>1, AllSame
    <3>2. \A f \in Files : Truncated(f)' <=> Truncated(f)  BY Zenon, <2>1 DEF Truncated, At, File
    <3> QED  BY Zenon, <3>1, <3>2, FileKept
  <2> QED  BY Zenon, <2>2, <2>3, <2>4, <2>5 DEF IInv, Data
<1> QED  BY Zenon, <1>1, <1>2, <1>3, <1>4 DEF Next

(* Every reachable state satisfies the inductive invariant.                *)
THEOREM Inductive == Spec => []IInv
<1>1. Init => IInv  BY Zenon, InitInv
<1>2. IInv /\ [Next]_vars => IInv'  BY Zenon, NextInv
<1> QED  BY <1>1, <1>2, PTL DEF Spec

(* No block is lost, given out twice or freed while a file has it          *)
(* (balloc, bfree, bmap and itrunc), for any disk and any number of files  *)
(* and processes.                                                          *)
THEOREM BlocksOwnedCorrect == Spec => []BlocksOwned
<1>1. ASSUME IInv  PROVE BlocksOwned
  <2>1. Types /\ OwnedBy(Ptrs, used)  BY Zenon, <1>1 DEF IInv
  <2>2. 0 \notin used  BY Zenon, <2>1, Sizes DEF Types
  <2>3. \A f \in Files, k \in Places : Ptr(f, k) \in used \cup {0}  BY Zenon, <2>1, Unique
  <2>4. ASSUME NEW b \in used  PROVE \E f \in Files, k \in Places : b = Ptr(f, k)
    <3>1. PICK x \in Files \X Places : Ptrs[x] = b  BY Zenon, <2>1, PtrsAt DEF OwnedBy
    <3>2. x[1] \in Files /\ x[2] \in Places /\ b = Ptr(x[1], x[2])  BY Zenon, <3>1 DEF Ptrs
    <3> QED  BY Zenon, <3>2
  <2>5. used = {Ptr(f, k) : f \in Files, k \in Places} \ {0}
    BY ONLY <2>2, <2>3, <2>4, SMT
  <2>6. ASSUME NEW f \in Files, NEW g \in Files, NEW j \in Places, NEW k \in Places,
               Ptr(f, j) # 0, Ptr(g, k) = Ptr(f, j)
        PROVE  g = f /\ k = j
    BY Zenon, <2>1, <2>6, Unique
  <2>7. TypeOK  BY Zenon, <2>1 DEF Types, TypeOK
  <2> QED  BY ONLY <2>5, <2>6, <2>7, SMT DEF BlocksOwned
<1> QED  BY <1>1, Inductive, PTL

(* Files read back as they were written (bmap, readi and writei), for any  *)
(* size of a block and any number of direct blocks.                        *)
THEOREM ReadsBackCorrect == Spec => []ReadsBack
<1>1. ASSUME IInv  PROVE ReadsBack
  <2>1. SUFFICES ASSUME NEW f \in Files, lock[f] = None, NEW o \in 0..MAXSIZE, NEW n \in Lens
                 PROVE  /\ \A i \in o..(o + Found(f, o, n) - 1) : Addr(f, i \div BSIZE) # 0
                        /\ readi(f, o, n) = [k \in 1..Found(f, o, n) |-> content[f][o + k - 1]]
    BY Zenon DEF ReadsBack
  <2>2. Holds(f, size[f]) /\ size[f] \in Nat /\ o \in Nat /\ n \in Nat
    <3>1. ~Truncated(f)  BY Zenon, <1>1, <2>1, Unlocked
    <3>2. Holds(f, size[f]) /\ size[f] \in 0..MAXSIZE
      BY Zenon, <1>1, <3>1 DEF IInv, Data, Types
    <3> QED  BY <3>2, FileDataAssumption, Sizes
  <2> DEFINE m == Found(f, o, n)
  <2>3. m \in Nat /\ (m > 0 => o + m <= size[f])  BY <2>2 DEF Found, Min2
  <2> HIDE DEF m
  <2>4. \A i \in o..(o + m - 1) : i \in 0..(size[f] - 1)  BY <2>2, <2>3
  <2>5. \A k \in 1..m : o + k - 1 \in o..(o + m - 1)  BY <2>2, <2>3
  <2>6. \A i \in o..(o + m - 1) : Addr(f, i \div BSIZE) # 0  BY Zenon, <2>2, <2>4 DEF Holds
  <2>7. \A k \in 1..m : Byte(f, o + k - 1) = content[f][o + k - 1]
    BY Zenon, <2>2, <2>4, <2>5 DEF Holds
  <2>8. readi(f, o, n) = [k \in 1..m |-> Byte(f, o + k - 1)]  BY Zenon DEF readi, Byte, m
  <2>9. readi(f, o, n) = [k \in 1..m |-> content[f][o + k - 1]]  BY Zenon, <2>7, <2>8
  <2> QED  BY Zenon, <2>6, <2>9 DEF m
<1> QED  BY <1>1, Inductive, PTL

(* A chunk of n blocks' bytes is in n + 1 blocks, or in n if it begins     *)
(* with one.                                                               *)
LEMMA Chunked ==
  ASSUME NEW o \in Nat, NEW n \in Nat, NEW k \in Nat, k > 0, k <= n * BSIZE
  PROVE  /\ (o + k - 1) \div BSIZE <= o \div BSIZE + n
         /\ o % BSIZE = 0 => (o + k - 1) \div BSIZE <= o \div BSIZE + n - 1
<1>1. BSIZE \in Nat \ {0}  BY Zenon, Sizes
<1>2. PICK q \in Nat, r \in Words : q = o \div BSIZE /\ r = o % BSIZE /\ o = BSIZE * q + r
  BY Zenon, DivMod
<1>3. r \in 0..(BSIZE - 1) /\ BSIZE - 1 \in Words  BY <1>1 DEF Words
<1>4. n > 0  BY <1>1
<1>5. n * BSIZE = BSIZE * n /\ BSIZE * n \in Nat /\ BSIZE * q \in Nat  BY <1>1
<1>6. BSIZE * (q + n) = BSIZE * q + BSIZE * n
      /\ BSIZE * (q + (n - 1)) = BSIZE * q + BSIZE * n - BSIZE
  BY <1>1, <1>4
<1>7. PICK a \in Nat : a = BSIZE * (q + n) + (BSIZE - 1)  BY <1>1, <1>5, <1>6
<1>8. PICK b \in Nat : b = BSIZE * (q + (n - 1)) + (BSIZE - 1)  BY <1>1, <1>4
<1>9. o + k - 1 \in Nat /\ o + k - 1 <= a /\ (r = 0 => o + k - 1 <= b)
  BY <1>1, <1>2, <1>3, <1>5, <1>6, <1>7, <1>8
<1>10. a \div BSIZE = q + n /\ b \div BSIZE = q + (n - 1)
  <2>1. q + n \in Nat /\ q + (n - 1) \in Nat  BY <1>4
  <2> QED  BY Zenon, <1>3, <1>7, <1>8, <2>1, DivModIs
<1>11. (o + k - 1) \div BSIZE <= a \div BSIZE
       /\ (r = 0 => (o + k - 1) \div BSIZE <= b \div BSIZE)
  BY Zenon, <1>1, <1>9, DivMono
<1> QED  BY <1>2, <1>10, <1>11

(* What a chunk has logged is in its slots.                                *)
LEMMA ChunkSlots ==
  ASSUME Types, NEW p \in Procs, Place(p), Writing(p), NEW x, Planned(p, x)
  PROVE  \E i \in 1..MAXOPBLOCKS : x = Slot(p, i)
<1> DEFINE f == File(p)
           n == (MAXOPBLOCKS - 4) \div 2
           q == Start(p) \div BSIZE
           new == IF Start(p) % BSIZE = 0 THEN q ELSE q + 1
<1>1. MAXOPBLOCKS \in Nat /\ n \in Nat /\ 2 * n + 4 <= MAXOPBLOCKS /\ n > 0
      /\ max = n * BSIZE /\ BSIZE \in Nat
  <2>1. MAXOPBLOCKS \in Nat /\ MAXOPBLOCKS >= 6 /\ BSIZE \in Nat
    BY Zenon, Sizes, FileDataAssumption
  <2>2. MAXOPBLOCKS - 1 - 1 - 2 = MAXOPBLOCKS - 4  BY <2>1
  <2>3. max = n * BSIZE  BY <2>2 DEF max
  <2>4. n \in Nat /\ 2 * n + 4 <= MAXOPBLOCKS /\ n > 0  BY <2>1
  <2> QED  BY Zenon, <2>1, <2>3, <2>4
<1>2. Start(p) \in Nat /\ Span(p) \subseteq Bns /\ News(p) \subseteq Span(p)  BY Zenon, Spans
<1>3. q \in Nat /\ new \in {q, q + 1} /\ l[p].left # 0
  <2>1. l[p].left # 0  BY DEF Writing, Types, Call
  <2> QED  BY Zenon, <1>2, <2>1, DivMod
<1>4. /\ Last(p) \in Nat /\ Last(p) <= q + n
      /\ Start(p) % BSIZE = 0 => Last(p) <= q + n - 1
  <2>1. l[p].left > 0  BY Zenon DEF Writing
  <2>2. n1(p) \in Nat /\ n1(p) > 0 /\ n1(p) <= n * BSIZE  BY Zenon, <1>1, <2>1, Chunk
  <2>3. Start(p) + n1(p) - 1 \in Nat  BY <1>2, <2>2
  <2> QED  BY Zenon, <1>1, <1>2, <2>2, <2>3, Chunked, DivMod DEF Last
<1>5. \A bn \in Bns : bn \in Nat /\ Min2(bn, MAXFILE - 1) = bn  BY Sizes DEF Bns, Min2
<1>6. /\ Slot(p, 1) = 0
      /\ Slot(p, 2) = addrs[f][NDIRECT] /\ Slot(p, 3) = BitmapBlock(addrs[f][NDIRECT])
      /\ \A i \in 4..(n + 4) : Slot(p, i) = Addr(f, Min2(q + i - 4, MAXFILE - 1))
      /\ \A i \in (n + 5)..MAXOPBLOCKS :
           Slot(p, i) = BitmapBlock(Addr(f, Min2(new + i - (n + 5), MAXFILE - 1)))
  <2>1. \A i \in 4..(n + 4) : i # 1 /\ i # 2 /\ i # 3 /\ i <= n + 4  BY <1>1
  <2>2. \A i \in (n + 5)..MAXOPBLOCKS : i # 1 /\ i # 2 /\ i # 3 /\ ~(i <= n + 4)  BY <1>1
  <2>3. 2 # 1 /\ 3 # 1 /\ 3 # 2  OBVIOUS
  <2> QED  BY Zenon, <1>3, <2>1, <2>2, <2>3 DEF Slot, Start
<1> HIDE DEF n, q, new
<1>7. 1 \in 1..MAXOPBLOCKS /\ 2 \in 1..MAXOPBLOCKS /\ 3 \in 1..MAXOPBLOCKS  BY <1>1
<1>8. ASSUME NEW bn \in Span(p)  PROVE \E i \in 1..MAXOPBLOCKS : Addr(f, bn) = Slot(p, i)
  <2>1. bn \in Bns /\ bn \in Nat  BY Zenon, <1>2, <1>5
  <2>2. bn \in q..Last(p)  BY Zenon DEF Span, q
  <2>3. bn - q + 4 \in 4..(n + 4) /\ q + (bn - q + 4) - 4 = bn
        /\ bn - q + 4 \in 1..MAXOPBLOCKS
    BY ONLY <1>1, <1>3, <1>4, <2>1, <2>2
  <2> QED  BY Zenon, <1>5, <1>6, <2>1, <2>3
<1>9. ASSUME NEW bn \in News(p)
      PROVE  \E i \in 1..MAXOPBLOCKS : BitmapBlock(Addr(f, bn)) = Slot(p, i)
  <2>1. bn \in Bns /\ bn \in Nat  BY Zenon, <1>2, <1>5
  <2>2. bn \in q..Last(p)  BY Zenon DEF Span, News, q
  <2>3. Start(p) % BSIZE = 0 \/ bn # q  BY Zenon DEF News, q
  <2>4. bn >= new /\ bn <= new + n - 1
    BY ONLY <1>1, <1>3, <1>4, <2>1, <2>2, <2>3 DEF new
  <2>5. bn - new + (n + 5) \in (n + 5)..MAXOPBLOCKS /\ new + (bn - new + (n + 5)) - (n + 5) = bn
        /\ bn - new + (n + 5) \in 1..MAXOPBLOCKS
    BY ONLY <1>1, <1>3, <2>1, <2>4
  <2> QED  BY Zenon, <1>5, <1>6, <2>1, <2>5
<1> QED  BY Zenon, <1>6, <1>7, <1>8, <1>9 DEF Planned

(* No transaction logs more than begin_op() reserved for it, whatever      *)
(* reservation filewrite() computes its chunks from (filewrite, bmap and   *)
(* itrunc).                                                                *)
THEOREM ChunkFitsCorrect == Spec => []ChunkFits
<1>1. ASSUME IInv  PROVE ChunkFits
  <2>1. SUFFICES ASSUME NEW p \in Procs, NEW x \in logged[p]
                 PROVE  \E i \in 1..MAXOPBLOCKS : x = Slot(p, i)
    BY Zenon DEF ChunkFits
  <2>2. Types /\ Place(p) /\ Reserved(p) /\ l[p] \in Call  BY Zenon, <1>1 DEF IInv, Types
  <2>3. CASE Writing(p)  BY Zenon, <2>2, <2>3, ChunkSlots DEF Reserved
  <2>4. CASE ~Writing(p)
    <3>1. ~(l[p].pc \in {"idle", "filewrite"})  BY Zenon, <2>1, <2>2 DEF Reserved
    <3>2. Truncating(p)
      <4>1. l[p].pc \in PCs /\ l[p].left \in Nat  BY <2>2 DEF Call
      <4>2. l[p].pc = "writei" => l[p].left > 0  BY Zenon, <2>2 DEF Place
      <4>3. l[p].pc = "itrunc" => l[p].left = 0  BY Zenon, <2>2 DEF Place, At
      <4> QED  BY ONLY <2>4, <3>1, <4>1, <4>2, <4>3 DEF Writing, Truncating, PCs
    <3>3. x \in BitmapBlocks \cup {0} /\ l[p].left = 0
      BY Zenon, <2>1, <2>2, <3>2 DEF Reserved, Truncating
    <3>4. MAXOPBLOCKS \in Nat /\ NBLOCKS \div BPB \in Nat /\ NBLOCKS \div BPB + 2 <= MAXOPBLOCKS
      BY Sizes, FileDataAssumption
    <3>5. CASE x = 0  BY <3>4, <3>5 DEF Slot
    <3>6. CASE x # 0
      <4>1. PICK k \in 0..(NBLOCKS \div BPB) : x = -(1 + k)  BY Zenon, <3>3, <3>6 DEF BitmapBlocks
      <4>2. k + 2 \in 1..MAXOPBLOCKS /\ k + 2 # 1 /\ 1 - (k + 2) = -(1 + k)  BY <3>4
      <4>3. Slot(p, k + 2) = 1 - (k + 2)  BY Zenon, <3>3, <4>2 DEF Slot
      <4> QED  BY Zenon, <4>1, <4>2, <4>3
    <3> QED  BY Zenon, <3>5, <3>6
  <2> QED  BY Zenon, <2>3, <2>4
<1> QED  BY <1>1, Inductive, PTL
=============================================================================
