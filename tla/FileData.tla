------------------------------ MODULE FileData ------------------------------
(***************************************************************************)
(* The content of inodes in kernel/fs.c (balloc, bfree, bmap, itrunc,      *)
(* readi, writei) and the reads and writes of kernel/file.c on it.         *)
(* A block is BSIZE words; a word holds a byte of data, or a block number  *)
(* in an indirect block, so NINDIRECT = BSIZE.  Block number 0 is "none".  *)
(* A turn of a loop of writei() or itrunc() is a step, and so is each      *)
(* balloc(): the inode is locked meanwhile, the bit map is not.            *)
(***************************************************************************)
EXTENDS Integers

CONSTANTS
  Files,        \* inodes
  Descs,        \* open files; off is shared by the processes that have one
  InodeOf,      \* Descs -> Files: f->ip
  Procs,
  NDIRECT, BSIZE, MAXOPBLOCKS,
  NBLOCKS,      \* data blocks 1..NBLOCKS
  BPB,          \* bits per block of the free bit map
  Lens,         \* the n of a read or write
  MaxCalls,     \* bound on the number of calls in a behaviour
  None          \* no process, no descriptor

ASSUME FileDataAssumption ==
  /\ {NDIRECT, BSIZE, NBLOCKS, BPB} \subseteq Nat \ {0}
  /\ MAXOPBLOCKS \in Nat /\ MAXOPBLOCKS >= 6 /\ Lens \subseteq Nat /\ MaxCalls \in Nat
  /\ InodeOf \in [Descs -> Files] /\ None \notin Descs \cup Procs
  \* The bit map and an inode fit in a transaction
  /\ NBLOCKS \div BPB + 2 <= MAXOPBLOCKS

Blocks == 1..NBLOCKS
Words == 0..(BSIZE - 1)
MAXFILE == NDIRECT + BSIZE
MAXSIZE == MAXFILE * BSIZE      \* bytes of the largest file
Offsets == 0..(MAXSIZE - 1)
Zero == [w \in Words |-> 0]

VARIABLES
  used,     \* the free bit map: blocks marked in use
  addrs,    \* ip->addrs
  size,     \* ip->size
  blk,      \* the blocks
  off,      \* f->off
  lock,     \* ip->lock: the process that holds it
  l,        \* the call a process is in: its descriptor, the bytes left to write and their
            \* value, and the place and the end of the loop it is in
  logged,   \* the blocks a process's transaction has passed to log_write()
  content,  \* what each file should read as
  calls

disk == <<used, addrs, blk>>
vars == <<disk, size, off, lock, l, logged, content, calls>>

Idle == [pc |-> "idle", d |-> None, left |-> 0, val |-> 0, pos |-> 0, end |-> 0]

Init ==
  /\ used = {}
  /\ addrs = [f \in Files |-> [k \in 0..NDIRECT |-> 0]]
  /\ size = [f \in Files |-> 0]
  /\ blk = [b \in Blocks |-> Zero]
  /\ off = [d \in Descs |-> 0]
  /\ lock = [f \in Files |-> None]
  /\ l = [p \in Procs |-> Idle]
  /\ logged = [p \in Procs |-> {}]
  /\ content = [f \in Files |-> [i \in Offsets |-> 0]]
  /\ calls = 0

Min2(a, b) == IF a < b THEN a ELSE b
At(p, pc) == l[p].pc = pc
File(p) == InodeOf[l[p].d]

(***************************************************************************)
(* Blocks.  In logged, 0 is the inode's block and -k the k-th block of the *)
(* bit map.                                                                *)
(***************************************************************************)
BitmapBlock(b) == -(1 + b \div BPB)
Log(p, S) == logged' = [logged EXCEPT ![p] = @ \cup S]

FreeBlocks == Blocks \ used

\* The zeroing of a new block forgotten
Zeroed_not(b) == blk
Zeroed(b) == [blk EXCEPT ![b] = Zero]

\* balloc(): mark the first free block; the caller stores its number in a block of S or
\* in the inode.  A full disk is a panic.
balloc(p, b, S) ==
  /\ b \in FreeBlocks /\ \A c \in FreeBlocks : b <= c
  /\ used' = used \cup {b}
  /\ Log(p, {BitmapBlock(b), b} \cup S)

\* The block that block bn of the inode is in, 0 if it is not allocated
Addr(f, bn) ==
  IF bn < NDIRECT THEN addrs[f][bn]
  ELSE IF addrs[f][NDIRECT] = 0 THEN 0 ELSE blk[addrs[f][NDIRECT]][bn - NDIRECT]

\* The loop of writei() has another turn, for block bn of the file
Turn(p) == At(p, "writei") /\ l[p].pos < l[p].end
Bn(p) == l[p].pos \div BSIZE
Word(p) == l[p].pos % BSIZE

\* bmap(): allocate the indirect block
bmap_indirect(p) ==
  /\ Turn(p) /\ Bn(p) >= NDIRECT /\ addrs[File(p)][NDIRECT] = 0
  /\ \E b \in Blocks :
       /\ balloc(p, b, {})
       /\ blk' = Zeroed(b)
       /\ addrs' = [addrs EXCEPT ![File(p)][NDIRECT] = b]
  /\ UNCHANGED <<size, off, lock, l, content, calls>>

\* bmap(): allocate the block, and store its number
bmap(p) ==
  LET f == File(p)
      ind == addrs[f][NDIRECT]
  IN  /\ Turn(p) /\ Addr(f, Bn(p)) = 0
      /\ \E b \in Blocks :
           \/ /\ Bn(p) < NDIRECT
              /\ balloc(p, b, {})
              /\ blk' = Zeroed(b)
              /\ addrs' = [addrs EXCEPT ![f][Bn(p)] = b]
           \/ /\ Bn(p) >= NDIRECT /\ ind # 0
              /\ balloc(p, b, {ind})
              /\ blk' = [Zeroed(b) EXCEPT ![ind][Bn(p) - NDIRECT] = b]
              /\ UNCHANGED addrs
      /\ UNCHANGED <<size, off, lock, l, content, calls>>

(***************************************************************************)
(* writei(): a turn copies what lies in one block.  either_copyin() may    *)
(* fail after k bytes, which then are in the buffer, and not logged.       *)
(***************************************************************************)
writei(p) ==
  LET f == File(p)
      pos == l[p].pos
      b == Addr(f, Bn(p))
      m == Min2(l[p].end - pos, BSIZE - Word(p))
  IN  /\ Turn(p) /\ b # 0
      /\ \E k \in 0..m :
           /\ blk' = [blk EXCEPT ![b] = [w \in Words |->
                IF Word(p) <= w /\ w < Word(p) + k THEN l[p].val ELSE @[w]]]
           /\ content' = [content EXCEPT ![f] = [i \in Offsets |->
                IF pos <= i /\ i < pos + k THEN l[p].val ELSE @[i]]]
           /\ IF k = m THEN l' = [l EXCEPT ![p].pos = @ + m] /\ Log(p, {b})
                       ELSE l' = [l EXCEPT ![p].end = pos] /\ UNCHANGED logged
      /\ UNCHANGED <<used, addrs, size, off, lock, calls>>

\* The new size, and iupdate()
writei_end(p) ==
  /\ At(p, "writei") /\ l[p].pos = l[p].end
  /\ size' = [size EXCEPT ![File(p)] = IF l[p].pos > @ THEN l[p].pos ELSE @]
  /\ Log(p, {0})
  /\ l' = [l EXCEPT ![p].pc = "end_op"]
  /\ UNCHANGED <<disk, off, lock, content, calls>>

(***************************************************************************)
(* itrunc().                                                               *)
(***************************************************************************)
bfree(p, b) == used' = used \ {b} /\ Log(p, {BitmapBlock(b)})

itrunc_direct(p) ==
  /\ At(p, "itrunc")
  /\ \E k \in 0..(NDIRECT - 1) :
       /\ addrs[File(p)][k] # 0 /\ \A j \in 0..(k - 1) : addrs[File(p)][j] = 0
       /\ bfree(p, addrs[File(p)][k])
       /\ addrs' = [addrs EXCEPT ![File(p)][k] = 0]
  /\ UNCHANGED <<blk, size, off, lock, l, content, calls>>

\* The direct blocks are freed
NoDirect(f) == \A k \in 0..(NDIRECT - 1) : addrs[f][k] = 0

\* A turn of the loop over the indirect block
itrunc_indirect(p) ==
  LET ind == addrs[File(p)][NDIRECT]
      b == blk[ind][l[p].pos]
  IN  /\ At(p, "itrunc") /\ NoDirect(File(p)) /\ ind # 0 /\ l[p].pos < BSIZE
      /\ IF b # 0 THEN bfree(p, b) ELSE UNCHANGED <<used, logged>>
      /\ l' = [l EXCEPT ![p].pos = @ + 1]
      /\ UNCHANGED <<addrs, blk, size, off, lock, content, calls>>

\* The indirect block is not freed
Rest_kept(ind) == {}
Rest(ind) == {ind} \ {0}

\* Free the indirect block, size = 0, iupdate()
itrunc(p) ==
  LET ind == addrs[File(p)][NDIRECT]
  IN  /\ At(p, "itrunc") /\ NoDirect(File(p)) /\ (ind # 0 => l[p].pos = BSIZE)
      /\ used' = used \ Rest(ind)
      /\ Log(p, {BitmapBlock(b) : b \in Rest(ind)} \cup {0})
      /\ addrs' = [addrs EXCEPT ![File(p)][NDIRECT] = 0]
      /\ size' = [size EXCEPT ![File(p)] = 0]
      /\ content' = [content EXCEPT ![File(p)] = [i \in Offsets |-> 0]]
      /\ l' = [l EXCEPT ![p].pc = "end_op"]
      /\ UNCHANGED <<blk, off, lock, calls>>

(***************************************************************************)
(* System calls.                                                           *)
(***************************************************************************)
\* Each call writes bytes of its own value
sys_write(p, d, n) ==
  /\ At(p, "idle") /\ calls < MaxCalls /\ n > 0
  /\ calls' = calls + 1
  /\ l' = [l EXCEPT ![p] = [Idle EXCEPT !.pc = "filewrite", !.d = d, !.left = n, !.val = calls']]
  /\ UNCHANGED <<disk, size, off, lock, logged, content>>

\* One slop block too few
max_slop == ((MAXOPBLOCKS - 1 - 1) \div 2) * BSIZE

\* The bytes filewrite() writes in a transaction
max == ((MAXOPBLOCKS - 1 - 1 - 2) \div 2) * BSIZE
n1(p) == Min2(l[p].left, max)

\* writei() refuses to begin beyond the end of the file, or to go on beyond the largest
Refused(p) ==
  off[l[p].d] > size[File(p)] \/ off[l[p].d] + n1(p) > MAXSIZE

\* A chunk begins with begin_op(), ilock() and the tests of writei()
filewrite(p) ==
  LET o == off[l[p].d]
  IN  /\ At(p, "filewrite") /\ lock[File(p)] = None /\ ~Refused(p)
      /\ lock' = [lock EXCEPT ![File(p)] = p]
      /\ l' = [l EXCEPT ![p].pc = "writei", ![p].pos = o, ![p].end = o + n1(p)]
      /\ UNCHANGED <<disk, size, off, logged, content, calls>>

\* filewrite() returns -1
filewrite_fail(p) ==
  /\ At(p, "filewrite") /\ lock[File(p)] = None /\ Refused(p)
  /\ l' = [l EXCEPT ![p] = Idle]
  /\ UNCHANGED <<disk, size, off, lock, logged, content, calls>>

\* f->off += r, iunlock(), end_op(): writei() returned n1, however much it copied
end_op(p) ==
  /\ At(p, "end_op")
  /\ off' = [off EXCEPT ![l[p].d] = @ + n1(p)]
  /\ lock' = [lock EXCEPT ![File(p)] = None]
  /\ logged' = [logged EXCEPT ![p] = {}]
  /\ IF l[p].left = n1(p) THEN l' = [l EXCEPT ![p] = Idle]
     ELSE l' = [l EXCEPT ![p].pc = "filewrite", ![p].left = @ - n1(p)]
  /\ UNCHANGED <<disk, size, content, calls>>

\* The number of bytes readi() finds, and those bytes
Found(f, o, n) == IF o > size[f] THEN 0 ELSE Min2(n, size[f] - o)
readi(f, o, n) ==
  [k \in 1..Found(f, o, n) |-> blk[Addr(f, (o + k - 1) \div BSIZE)][(o + k - 1) % BSIZE]]

\* fileread(): the offset moves over all of them, or up to the block where either_copyout()
\* failed
fileread(d, n) ==
  LET f == InodeOf[d]
      o == off[d]
      e == o + Found(f, o, n)
  IN  /\ calls < MaxCalls /\ lock[f] = None /\ o < e
      /\ \E stop \in o..e :
           /\ stop \in {o, e} \/ stop % BSIZE = 0
           /\ off' = [off EXCEPT ![d] = stop]
      /\ calls' = calls + 1
      /\ UNCHANGED <<disk, size, lock, l, logged, content>>

\* Open the file again, with or without O_TRUNC
sys_open(p, d, trunc) ==
  LET f == InodeOf[d]
  IN  /\ At(p, "idle") /\ calls < MaxCalls /\ lock[f] = None /\ \A q \in Procs : l[q].d # d
      /\ off' = [off EXCEPT ![d] = 0]
      /\ calls' = calls + 1
      /\ IF trunc
         THEN /\ lock' = [lock EXCEPT ![f] = p]
              /\ l' = [l EXCEPT ![p] = [Idle EXCEPT !.pc = "itrunc", !.d = d]]
         ELSE UNCHANGED <<lock, l>>
      /\ UNCHANGED <<disk, size, logged, content>>

Step(p) ==
  \/ filewrite(p) \/ filewrite_fail(p) \/ bmap_indirect(p) \/ bmap(p) \/ writei(p)
  \/ writei_end(p) \/ itrunc_direct(p) \/ itrunc_indirect(p) \/ itrunc(p) \/ end_op(p)

Next ==
  \/ \E p \in Procs : Step(p)
  \/ \E p \in Procs, d \in Descs : \/ \E n \in Lens : sys_write(p, d, n)
                                   \/ \E trunc \in BOOLEAN : sys_open(p, d, trunc)
  \/ \E d \in Descs, n \in Lens : fileread(d, n)

Spec == Init /\ [][Next]_vars

\* Types; offsets and sizes stay within the largest file (writei(), filewrite()).
TypeOK ==
  /\ used \subseteq Blocks
  /\ addrs \in [Files -> [0..NDIRECT -> Blocks \cup {0}]]
  /\ size \in [Files -> 0..MAXSIZE]
  /\ blk \in [Blocks -> [Words -> Nat]]
  /\ off \in [Descs -> 0..MAXSIZE]

\* The places of an inode that hold block numbers: addrs, and the words of the indirect
\* block, but for those that itrunc() has gone over
Places == 0..(NDIRECT + BSIZE)
Passed(f, w) == \E p \in Procs : At(p, "itrunc") /\ File(p) = f /\ w < l[p].pos
Ptr(f, k) ==
  IF k <= NDIRECT THEN addrs[f][k]
  ELSE IF addrs[f][NDIRECT] = 0 \/ Passed(f, k - NDIRECT - 1) THEN 0
  ELSE blk[addrs[f][NDIRECT]][k - NDIRECT - 1]

\* Every block marked in use belongs to exactly one place of one file, and every block
\* of a file is marked, also in the middle of bmap() and itrunc() of several files:
\* balloc() never hands out a block in use, itrunc() frees none twice and loses none.
BlocksOwned ==
  /\ TypeOK
  /\ used = {Ptr(f, k) : f \in Files, k \in Places} \ {0}
  /\ \A f \in Files, j \in Places : Ptr(f, j) # 0 =>
       \A g \in Files, k \in Places : Ptr(g, k) = Ptr(f, j) => g = f /\ k = j

\* A read returns what was written, at every offset and for every length: the blocks
\* hold each file's bytes across the direct and the indirect part, after rewrites and
\* truncations, and also when a bad address cut a write short.  No read allocates a block.
ReadsBack ==
  \A f \in Files : lock[f] = None =>
    \A o \in 0..MAXSIZE, n \in Lens :
      /\ \A i \in o..(o + Found(f, o, n) - 1) : Addr(f, i \div BSIZE) # 0
      /\ readi(f, o, n) = [k \in 1..Found(f, o, n) |-> content[f][o + k - 1]]

\* The i-th block that a transaction may log, as filewrite() counts them: the inode, the
\* indirect block and its bit map block, the blocks of a chunk, one more where it begins
\* within a block, and a bit map block for each one that it can allocate; or, for
\* itrunc(), the inode and the bit map
Slot(p, i) ==
  LET f == File(p)
      o == off[l[p].d]
      n == (MAXOPBLOCKS - 4) \div 2
      new == IF o % BSIZE = 0 THEN o \div BSIZE ELSE o \div BSIZE + 1
      ind == addrs[f][NDIRECT]
      addr(bn) == Addr(f, Min2(bn, MAXFILE - 1))
  IN  IF i = 1 THEN 0
      ELSE IF l[p].left = 0 THEN 1 - i
      ELSE IF i = 2 THEN ind
      ELSE IF i = 3 THEN BitmapBlock(ind)
      ELSE IF i <= n + 4 THEN addr(o \div BSIZE + i - 4)
      ELSE BitmapBlock(addr(new + i - (n + 5)))

\* A transaction of filewrite() or of open() logs no more blocks than begin_op()
\* reserved for it ("to avoid exceeding the maximum log transaction size"): it logs only
\* the MAXOPBLOCKS blocks of its slots.
ChunkFits ==
  \A p \in Procs : \A x \in logged[p] : \E i \in 1..MAXOPBLOCKS : x = Slot(p, i)
====
