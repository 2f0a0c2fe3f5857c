---------------------------------- MODULE Vm ----------------------------------
(***************************************************************************)
(* Physical pages and page tables: kernel/kalloc.c, kernel/vm.c, exec(),   *)
(* growproc() and what fork() and wait() do to memory.  Any allocation may *)
(* fail: another process may hold the last pages at that moment, so a call *)
(* is one step in which the allocation after the first k fails.            *)
(* The functions below work on a record m: the free pages, the number of   *)
(* allocations that still succeed, the contents of pages, the page table   *)
(* at hand, the page just allocated, whether the last call succeeded, and  *)
(* whether the kernel has panicked.                                        *)
(***************************************************************************)
EXTENDS Integers, Sequences, FiniteSets, SequencesExt

CONSTANTS
  Procs, Init1,      \* slots of the process table; the first process
  NPAGES,            \* pages of physical memory
  PGSIZE, FAN,       \* bytes of a page; entries of a page table (2^FAN vpns in 3 levels)
  W,                 \* growproc() computes sizes modulo W (uint)
  Images,            \* programs: sequences of segments [vaddr, memsz, filesz]
  Incs,              \* arguments of sbrk()
  MaxSz,             \* sizes of processes stay below this bound
  Fails,             \* numbers of allocations after which one may fail
  MaxCalls

Pages == 1..NPAGES
NoPage == 0
MAXVPN == FAN * FAN * FAN
TRAMPOLINE == MAXVPN - 1
TRAPFRAME == MAXVPN - 2
PGROUNDUP(a) == (a + PGSIZE - 1) \div PGSIZE     \* in pages

ASSUME VmAssumption ==
  /\ Init1 \in Procs /\ {NPAGES, PGSIZE, FAN, W, MaxSz} \subseteq Nat \ {0}
  /\ MaxSz + PGSIZE <= W /\ PGROUNDUP(MaxSz) < TRAPFRAME

VARIABLES
  free,      \* kmem.freelist
  data,      \* what a page holds
  proc,      \* p->trapframe, p->pagetable, p->sz
  panicked,
  calls      \* calls so far, at most MaxCalls

vars == <<free, data, proc, panicked, calls>>

\* A page table: the root, the other table pages by level and index, and the leaf PTEs
Empty(root) == [root |-> root, tables |-> <<>>, leaf |-> <<>>]
Unused == [trapframe |-> NoPage, pagetable |-> Empty(NoPage), sz |-> 0]
Put(f, x, v) == [y \in DOMAIN f \cup {x} |-> IF y = x THEN v ELSE f[y]]
Drop(f, x) == [y \in DOMAIN f \ {x} |-> f[y]]

Memory(fr, k, dt, pt) ==
  [free |-> fr, left |-> k, data |-> dt, pt |-> pt, mem |-> NoPage, ok |-> TRUE, panic |-> FALSE]
\* F(m), with m evaluated once
With(m, F(_)) == CHOOSE y \in {F(x) : x \in {m}} : TRUE
Fail(m) == [m EXCEPT !.ok = FALSE]
Ok(m) == [m EXCEPT !.ok = TRUE]

(***************************************************************************)
(* kalloc.c.  Which free page is taken does not matter.                    *)
(***************************************************************************)
kalloc(m) ==
  IF m.left = 0 \/ m.free = {} THEN [m EXCEPT !.mem = NoPage, !.ok = FALSE]
  ELSE LET pg == CHOOSE x \in m.free : \A y \in m.free : x <= y
       IN  [m EXCEPT !.mem = pg, !.free = @ \ {pg}, !.left = @ - 1, !.ok = TRUE,
                     !.data = [@ EXCEPT ![pg] = "junk"]]

kfree(m, pg) ==
  [m EXCEPT !.free = @ \cup {pg}, !.panic = @ \/ pg \notin Pages \/ pg \in m.free]

memset(m, pg, v) == [m EXCEPT !.data = [@ EXCEPT ![pg] = v]]

(***************************************************************************)
(* vm.c                                                                    *)
(***************************************************************************)
\* The table pages on the way to the leaf of vpn, below the root
Path(vpn) == << <<2, vpn \div (FAN * FAN)>>, <<1, vpn \div FAN>> >>

walk_table(m, t) == With(m, LAMBDA x :
  IF ~x.ok \/ t \in DOMAIN x.pt.tables THEN x
  ELSE With(kalloc(x), LAMBDA n :
         IF n.ok THEN [memset(n, n.mem, "zero") EXCEPT !.pt.tables = Put(@, t, n.mem)] ELSE n))

\* walk() with alloc
walk(m, vpn) == FoldLeft(walk_table, Ok(m), Path(vpn))

\* walk() without: is there a leaf PTE?
Mapped(pt, vpn) == vpn \in DOMAIN pt.leaf

mappages(m, vpn, pg, u) == With(walk(m, vpn), LAMBDA n :
  IF ~n.ok THEN n
  ELSE [n EXCEPT !.pt.leaf = Put(@, vpn, [pa |-> pg, u |-> u]),
                 !.panic = @ \/ Mapped(n.pt, vpn)])

unmap_page(m, vpn, do_free) == With(m, LAMBDA x :
  IF ~Mapped(x.pt, vpn) THEN [x EXCEPT !.panic = TRUE]
  ELSE [(IF do_free THEN kfree(x, x.pt.leaf[vpn].pa) ELSE x) EXCEPT !.pt.leaf = Drop(@, vpn)])

Vpns(a, b) == [i \in 1..(IF b > a THEN b - a ELSE 0) |-> a + i - 1]

\* The last page is left
uvmunmap_short(m, vpn, npages, do_free) ==
  FoldLeft(LAMBDA n, v : unmap_page(n, v, do_free), m, Vpns(vpn, vpn + npages - 1))
uvmunmap(m, vpn, npages, do_free) ==
  FoldLeft(LAMBDA n, v : unmap_page(n, v, do_free), m, Vpns(vpn, vpn + npages))

uvmcreate(m) == With(kalloc(m), LAMBDA n :
  IF n.ok THEN [memset(n, n.mem, "zero") EXCEPT !.pt = Empty(n.mem)] ELSE n)

uvmdealloc(m, oldsz, newsz) ==
  IF newsz < oldsz /\ PGROUNDUP(newsz) < PGROUNDUP(oldsz)
  THEN uvmunmap(m, PGROUNDUP(newsz), PGROUNDUP(oldsz) - PGROUNDUP(newsz), TRUE)
  ELSE m

\* kalloc() failed, or mappages() after it: free the page and those from first on
uvmalloc_undo(m, first, vpn) == Fail(uvmdealloc(m, vpn * PGSIZE, first * PGSIZE))

\* One turn of the loop of uvmalloc()
uvmalloc_page(m, first, vpn) == With(m, LAMBDA x :
  IF ~x.ok THEN x
  ELSE With(kalloc(x), LAMBDA n :
         IF ~n.ok THEN uvmalloc_undo(n, first, vpn)
         ELSE With(mappages(memset(n, n.mem, "zero"), vpn, n.mem, TRUE), LAMBDA w :
                IF w.ok THEN w ELSE uvmalloc_undo(kfree(w, n.mem), first, vpn))))

uvmalloc(m, oldsz, newsz) ==
  LET first == PGROUNDUP(oldsz)
  IN  FoldLeft(LAMBDA n, v : uvmalloc_page(n, first, v), Ok(m), Vpns(first, PGROUNDUP(newsz)))

\* freewalk(): leaves must be gone; uvmfree()
uvmfree(m, sz) == With(uvmunmap(m, 0, PGROUNDUP(sz), TRUE), LAMBDA n :
  LET tables == {n.pt.tables[t] : t \in DOMAIN n.pt.tables} \cup {n.pt.root}
  IN  [n EXCEPT !.free = @ \cup tables, !.pt = Empty(NoPage),
                !.panic = @ \/ DOMAIN n.pt.leaf # {} \/ tables \cap n.free # {}])

proc_freepagetable(m, sz) ==
  uvmfree(uvmunmap(uvmunmap(m, TRAMPOLINE, 1, FALSE), TRAPFRAME, 1, FALSE), sz)

\* The trampoline is kernel text, in no page of Pages
proc_pagetable(m, trapframe) == With(uvmcreate(m), LAMBDA a :
  IF ~a.ok THEN a
  ELSE With(mappages(a, TRAMPOLINE, NoPage, FALSE), LAMBDA b :
         IF ~b.ok THEN Fail(uvmfree(b, 0))
         ELSE With(mappages(b, TRAPFRAME, trapframe, FALSE), LAMBDA c :
                IF c.ok THEN c ELSE Fail(uvmfree(uvmunmap(c, TRAMPOLINE, 1, FALSE), 0)))))

\* err: in uvmcopy() that unmaps the pages copied so far, but does not free them
uvmcopy_err_leak(m, vpn) == Fail(uvmunmap(m, 0, vpn, FALSE))
uvmcopy_err(m, vpn) == Fail(uvmunmap(m, 0, vpn, TRUE))

\* One turn of the loop of uvmcopy(), into the table at hand
uvmcopy_page(m, old, vpn) == With(m, LAMBDA x :
  IF ~x.ok THEN x
  ELSE With(kalloc(x), LAMBDA n :
         IF ~n.ok THEN uvmcopy_err(n, vpn)
         ELSE With(mappages(memset(n, n.mem, n.data[old.leaf[vpn].pa]), vpn, n.mem, old.leaf[vpn].u),
                   LAMBDA w : IF w.ok THEN w ELSE uvmcopy_err(kfree(w, n.mem), vpn))))

uvmcopy(m, old, sz) ==
  FoldLeft(LAMBDA n, v : uvmcopy_page(n, old, v), Ok(m), Vpns(0, PGROUNDUP(sz)))

uvmclear(m, vpn) == [m EXCEPT !.pt.leaf[vpn].u = FALSE]

(***************************************************************************)
(* System calls                                                            *)
(***************************************************************************)
Used(p) == proc[p].trapframe # NoPage
Call(k, pt) == Memory(free, k, data, pt)

\* The call ends with memory m, and slot p becomes r
Done(x, p, r) == \E m \in {x} :
  /\ calls < MaxCalls /\ calls' = calls + 1
  /\ panicked' = m.panic
  /\ free' = m.free
  /\ data' = [pg \in Pages |-> IF pg \in m.free THEN "junk" ELSE m.data[pg]]
  /\ proc' = [proc EXCEPT ![p] = r]

Slot(trapframe, pt, sz) == [trapframe |-> trapframe, pagetable |-> pt, sz |-> sz]

\* allocproc(): a trapframe and an empty page table; freeproc() on failure
allocproc(k) == With(kalloc(Call(k, Empty(NoPage))), LAMBDA t :
  IF ~t.ok THEN [m |-> t, trapframe |-> NoPage]
  ELSE With(proc_pagetable(t, t.mem), LAMBDA n :
         IF n.ok THEN [m |-> n, trapframe |-> t.mem]
         ELSE [m |-> Fail(kfree(n, t.mem)), trapframe |-> NoPage]))

freeproc(m, trapframe, sz) == proc_freepagetable(kfree(m, trapframe), sz)

fork(p, q, k) ==
  /\ Used(p) /\ ~Used(q)
  /\ \E a \in {allocproc(k)} :
       IF ~a.m.ok THEN Done(a.m, q, Unused)
       ELSE \E c \in {uvmcopy(a.m, proc[p].pagetable, proc[p].sz)} :
              IF ~c.ok THEN Done(freeproc(c, a.trapframe, 0), q, Unused)
              ELSE Done(c, q, Slot(a.trapframe, c.pt, proc[p].sz))

\* wait() of the parent, after exit()
wait(q) ==
  /\ Used(q) /\ q # Init1
  /\ Done(freeproc(Call(0, proc[q].pagetable), proc[q].trapframe, proc[q].sz), q, Unused)

\* sz + n in growproc() is a uint
Grown(sz, n) == (sz + n) % W

\* growproc(): the size uvmalloc() or uvmdealloc() returns
growproc(p, n, k) ==
  LET m == Call(k, proc[p].pagetable)
      sz == proc[p].sz
      new == Grown(sz, n)
      sz1 == IF (n > 0) = (new < sz) THEN sz ELSE new
  IN  /\ Used(p) /\ sz1 <= MaxSz
      /\ \E a \in {IF n > 0 THEN uvmalloc(m, sz, new) ELSE uvmdealloc(m, sz, new)} :
           Done(a, p, Slot(proc[p].trapframe, a.pt, IF a.ok THEN sz1 ELSE sz))

\* loadseg() fills what the file has, and the rest stays zero
loadseg(m, s) ==
  FoldLeft(LAMBDA n, v : [memset(n, n.pt.leaf[v].pa, "text") EXCEPT !.panic = @ \/ ~Mapped(n.pt, v)],
           m, Vpns(s.vaddr \div PGSIZE, PGROUNDUP(s.vaddr + s.filesz)))

\* One segment of exec(): x is the memory and the size so far
exec_seg(y, s) == With(y, LAMBDA x :
  LET top == s.vaddr + s.memsz
      sz == IF top < x.sz THEN x.sz ELSE top
  IN  IF ~x.m.ok \/ s.memsz < s.filesz THEN [x EXCEPT !.m = Fail(@)]
      ELSE With(uvmalloc(x.m, x.sz, top), LAMBDA a :
             IF ~a.ok THEN [m |-> a, sz |-> x.sz]
             ELSE IF s.vaddr % PGSIZE # 0 THEN [m |-> Fail(a), sz |-> sz]
             ELSE [m |-> loadseg(a, s), sz |-> sz]))

\* exec() after the segments: stack and guard page, arguments that may not fit
exec_stack(y, fits) == With(y, LAMBDA x :
  LET sz == PGROUNDUP(x.sz) * PGSIZE
  IN  IF ~x.m.ok THEN x
      ELSE With(uvmalloc(x.m, sz, sz + 2 * PGSIZE), LAMBDA a :
             IF ~a.ok THEN [m |-> a, sz |-> sz]
             ELSE With(uvmclear(a, PGROUNDUP(x.sz)), LAMBDA c :
                    [m |-> IF fits THEN c ELSE Fail(c), sz |-> sz + 2 * PGSIZE])))

\* exec() with page table t: reading the file may fail after the first i segments, and
\* after all of them the argument may not fit
exec_image(t, img, i) ==
  With(FoldLeft(exec_seg, [m |-> t, sz |-> 0], SubSeq(img, 1, IF i > Len(img) THEN Len(img) ELSE i)),
       LAMBDA x : exec_stack([x EXCEPT !.m = IF i < Len(img) THEN Fail(@) ELSE @], i > Len(img)))

\* sys_exec(): a page for the argument, which is freed on every path
exec(p, img, i, k) ==
  /\ Used(p)
  /\ \E argv \in {kalloc(Call(k, Empty(NoPage)))} :
       IF ~argv.ok THEN Done(argv, p, proc[p])
       ELSE \E t \in {proc_pagetable(argv, proc[p].trapframe)} :
              IF ~t.ok THEN Done(kfree(t, argv.mem), p, proc[p])
              ELSE \E x \in {exec_image(t, img, i)} :
                     /\ x.sz <= MaxSz
                     /\ IF ~x.m.ok THEN Done(kfree(proc_freepagetable(x.m, x.sz), argv.mem), p, proc[p])
                        ELSE Done(kfree(proc_freepagetable([x.m EXCEPT !.pt = proc[p].pagetable], proc[p].sz),
                                        argv.mem),
                                  p, Slot(proc[p].trapframe, x.m.pt, x.sz))

\* userinit(): one page for initcode
Boot ==
  With(kalloc(Memory(Pages, NPAGES, [pg \in Pages |-> "junk"], Empty(NoPage))), LAMBDA t :
    With(kalloc(proc_pagetable(t, t.mem)), LAMBDA u :
      [m |-> mappages(memset(u, u.mem, "text"), 0, u.mem, TRUE), trapframe |-> t.mem]))

Init ==
  \E boot \in {Boot} :
    /\ free = boot.m.free
    /\ data = boot.m.data
    /\ proc = [p \in Procs |-> IF p = Init1 THEN Slot(boot.trapframe, boot.m.pt, PGSIZE) ELSE Unused]
    /\ panicked = FALSE /\ calls = 0

(***************************************************************************)
(* copyin(), copyout() and copyinstr() on a page table                     *)
(***************************************************************************)
walkaddr(pt, va) == (va \div PGSIZE) < MAXVPN /\ Mapped(pt, va \div PGSIZE) /\ pt.leaf[va \div PGSIZE].u

\* Where in its page the address is does not count
Chunk_page(va, l) == IF PGSIZE < l THEN PGSIZE ELSE l
\* The bytes of one turn: to the end of the page, or to the end
Chunk(va, l) == LET n == PGSIZE - (va % PGSIZE) IN IF n > l THEN l ELSE n

\* The loop of copyin() and copyout(), with l bytes left
copyin(pt, va, len) ==
  LET ret[l \in 0..len] ==
        LET a == va + len - l
        IN  l = 0 \/ (walkaddr(pt, a) /\ ret[l - Chunk(a, l)])
  IN  ret[len]

Nul(pt, a) == data[pt.leaf[a \div PGSIZE].pa] = "zero"

\* The loop of copyinstr(): 0 if it meets a NUL
copyinstr(pt, va, max) ==
  LET ret[l \in 0..max] ==
        LET a == va + max - l
        IN  /\ l > 0 /\ walkaddr(pt, a)
            /\ \/ \E j \in 0..(Chunk(a, l) - 1) : Nul(pt, a + j)
               \/ ret[l - Chunk(a, l)]
  IN  ret[max]

Next ==
  \E p \in Procs, k \in Fails :
    \/ \E q \in Procs : fork(p, q, k)
    \/ \E n \in Incs : growproc(p, n, k)
    \/ \E img \in Images : \E i \in 0..(Len(img) + 1) : exec(p, img, i, k)
    \/ wait(p)

Spec == Init /\ [][Next]_vars

UsedProcs == {p \in Procs : Used(p)}
User(pt) == DOMAIN pt.leaf \ {TRAMPOLINE, TRAPFRAME}

\* Types; the size of a process stays within the bound, whatever growproc() is asked for.
TypeOK ==
  /\ free \subseteq Pages
  /\ data \in [Pages -> {"junk", "zero", "text"}]
  /\ \A p \in Procs : proc[p].sz \in 0..MaxSz /\ proc[p].trapframe \in Pages \cup {NoPage}

\* What a process holds: its trapframe, its tables and its user pages
Holds(p) ==
  LET pt == proc[p].pagetable
  IN  {<<"trapframe", 0, proc[p].trapframe>>, <<"root", 0, pt.root>>}
        \cup {<<"table", t, pt.tables[t]>> : t \in DOMAIN pt.tables}
        \cup {<<"user", v, pt.leaf[v].pa>> : v \in User(pt)}

\* Every page is free or held once, by one process: no failed call leaks a page, and no
\* page is shared or freed while it is mapped.  No kernel panic: never a remap, an unmap
\* of what is not mapped, a leaf in freewalk() or a double kfree().
PagesExact ==
  /\ TypeOK /\ ~panicked
  /\ UNION {{h[3] : h \in Holds(p)} : p \in UsedProcs} = Pages \ free
  /\ MapThenSumSet(LAMBDA p : Cardinality(Holds(p)), UsedProcs) = Cardinality(Pages \ free)

\* A process has exactly the pages its size says, and its trapframe where trampoline.S
\* expects it; no user page shows what the page held before kalloc().
SizeMapped ==
  \A p \in UsedProcs :
    /\ User(proc[p].pagetable) = 0..(PGROUNDUP(proc[p].sz) - 1)
    /\ proc[p].pagetable.leaf[TRAPFRAME].pa = proc[p].trapframe
    /\ \A v \in User(proc[p].pagetable) : data[proc[p].pagetable.leaf[v].pa] # "junk"

\* copyin(), copyout() and copyinstr() succeed exactly when every byte they touch is user
\* memory, whatever page boundaries and guard pages they cross.
CopyExact ==
  \A p \in UsedProcs, va \in 0..(MaxSz + PGSIZE), len \in 0..(3 * PGSIZE) :
    LET pt == proc[p].pagetable
    IN  /\ copyin(pt, va, len) = (\A b \in va..(va + len - 1) : walkaddr(pt, b))
        /\ copyinstr(pt, va, len) =
             \E j \in 0..(len - 1) : (\A i \in 0..j : walkaddr(pt, va + i)) /\ Nul(pt, va + j)
====
