--------------------------------- MODULE Fs ---------------------------------
(***************************************************************************)
(* The inode cache, directories and path names of kernel/fs.c, and the     *)
(* system calls of kernel/sysfile.c that walk and change the tree.         *)
(* A step is what a process does under one lock: an inode's sleep lock     *)
(* appears only where it is held over another step, and every icache.lock  *)
(* section is one step.  A directory's content is the function from names  *)
(* to inode numbers it stores (0: no entry); file data is in FileData.     *)
(* Blocks reach the disk through the log (module Log); transactions are    *)
(* not modelled here.                                                      *)
(***************************************************************************)
EXTENDS Naturals, FiniteSets, Sequences, TLC

CONSTANTS
  Procs,      \* processes
  NINODES,    \* sb.ninodes: inode numbers 1..NINODES
  NINODE,     \* entries of the inode cache
  Names,      \* names other than "." and ".."
  Calls,      \* the system calls the processes make
  MaxCalls,   \* bound on the number of calls in a behaviour
  None        \* no process holds the lock

ASSUME FsAssumption ==
  /\ NINODES \in Nat \ {0} /\ NINODE \in Nat /\ MaxCalls \in Nat
  /\ None \notin Procs /\ "." \notin Names /\ ".." \notin Names

Inums == 1..NINODES
ROOTINO == 1
Elems == Names \cup {".", ".."}

VARIABLES
  dinode,   \* inodes on disk: type and nlink
  dirent,   \* content of the directories
  ino,      \* cache entry of each inode: ref, valid, type, nlink, lock
  cwd,      \* p->cwd
  file,     \* the inode of the one file p may have open, 0 if none
  l,        \* a process's place in a call, and the call's local variables
  calls,    \* calls started
  lost      \* entries naming an inode that were freed with their directory

disk == <<dinode, dirent, lost>>
user == <<cwd, file, calls>>
vars == <<disk, ino, user, l>>

NoEntries == [e \in Elems |-> 0]
NoEntry == [ref |-> 0, valid |-> FALSE, type |-> "none", nlink |-> 0, lock |-> None]
Idle == [pc |-> "user", op |-> "none", new |-> <<>>, path |-> <<>>, parent |-> FALSE,
         name |-> ".", ip |-> 0, dp |-> 0, old |-> 0, put |-> <<>>, next |-> "user"]

Init ==
  /\ dinode = [i \in Inums |-> IF i = ROOTINO THEN [type |-> "dir", nlink |-> 1]
                                              ELSE [type |-> "none", nlink |-> 0]]
  /\ dirent = [i \in Inums |-> IF i = ROOTINO
                 THEN [NoEntries EXCEPT !["."] = ROOTINO, ![".."] = ROOTINO]
                 ELSE NoEntries]
  /\ ino = [i \in Inums |-> IF i = ROOTINO
              THEN [NoEntry EXCEPT !.ref = Cardinality(Procs)] ELSE NoEntry]
  /\ cwd = [p \in Procs |-> ROOTINO]
  /\ file = [p \in Procs |-> 0]
  /\ l = [p \in Procs |-> Idle]
  /\ calls = 0
  /\ lost = [i \in Inums |-> 0]

(***************************************************************************)
(* Operations on a cache f.                                                *)
(***************************************************************************)
\* iget(): find the entry of inode i, or take a free one
iget(f, i) ==
  IF f[i].ref > 0 THEN [f EXCEPT ![i].ref = @ + 1]
                  ELSE [f EXCEPT ![i] = [NoEntry EXCEPT !.ref = 1]]

NoSlot(f, i) == f[i].ref = 0 /\ Cardinality({j \in Inums : f[j].ref > 0}) >= NINODE

\* ilock(): read the inode from disk unless the entry is valid
ilock(f, i) ==
  IF f[i].valid THEN f
  ELSE [f EXCEPT ![i].valid = TRUE, ![i].type = dinode[i].type,
                 ![i].nlink = dinode[i].nlink]

CanLock(i) == ino[i].lock = None
NoType(f, i) == f[i].type = "none"

\* iupdate(): write the cached type and link count of each inode of S to disk
iupdate(f, S) ==
  [i \in Inums |-> IF i \in S THEN [type |-> f[i].type, nlink |-> f[i].nlink]
                              ELSE dinode[i]]

Go(p, r) == l' = [l EXCEPT ![p] = r @@ @]
Return(p) == l' = [l EXCEPT ![p] = Idle]

\* Drop the references of the sequence s, then continue at n
Put(s, n) == [pc |-> "iput", put |-> s, next |-> n, ip |-> 0, dp |-> 0, old |-> 0]

(***************************************************************************)
(* iput(): the last reference to an inode without links frees it.          *)
(***************************************************************************)
Frees(i) == ino[i].ref = 1 /\ ino[i].valid /\ ino[i].nlink = 0

\* Only the last reference is given up
Drop_last(f, i) == IF f[i].ref = 1 THEN [f EXCEPT ![i] = NoEntry] ELSE f
Drop(f, i) == IF f[i].ref = 1 THEN [f EXCEPT ![i] = [NoEntry EXCEPT !.lock = f[i].lock]]
                              ELSE [f EXCEPT ![i].ref = @ - 1]

\* ref-- and release(&icache.lock): go on with the next reference, or return
Dropped(p) ==
  LET i == Head(l[p].put) s == Tail(l[p].put)
  IN  /\ ino' = Drop(ino, i)
      /\ IF s = <<>> /\ l[p].next = "user" THEN Return(p)
         ELSE Go(p, [pc |-> IF s = <<>> THEN l[p].next ELSE "iput", put |-> s])

iput(p) ==
  /\ l[p].pc = "iput"
  /\ LET i == Head(l[p].put)
     IN  IF Frees(i)
         THEN /\ CanLock(i)
              /\ ino' = [ino EXCEPT ![i].lock = p]
              /\ Go(p, [pc |-> "free"])
         ELSE Dropped(p)
  /\ UNCHANGED <<disk, user>>

\* itrunc(ip), ip->type = 0, iupdate(ip)
iput_free(p) ==
  LET i == Head(l[p].put)
  IN  /\ l[p].pc = "free"
      /\ ino' = [ino EXCEPT ![i].type = "none"]
      /\ dinode' = iupdate(ino', {i})
      /\ dirent' = [dirent EXCEPT ![i] = NoEntries]
      /\ lost' = [j \in Inums |-> IF dinode'[j].type = "none" THEN 0
                   ELSE lost[j] + Cardinality({n \in Names : dirent[i][n] = j})]
      /\ Go(p, [pc |-> "freed"])
      /\ UNCHANGED user

\* The entry stays valid for whoever took a reference meanwhile
iput_unlock_valid(p) ==
  /\ l[p].pc = "freed"
  /\ ino' = [ino EXCEPT ![Head(l[p].put)].lock = None]
  /\ Go(p, [pc |-> "unref"])
  /\ UNCHANGED <<disk, user>>

\* ip->valid = 0, releasesleep()
iput_unlock(p) ==
  /\ l[p].pc = "freed"
  /\ ino' = [ino EXCEPT ![Head(l[p].put)].valid = FALSE, ![Head(l[p].put)].lock = None]
  /\ Go(p, [pc |-> "unref"])
  /\ UNCHANGED <<disk, user>>

iput_unref(p) == l[p].pc = "unref" /\ Dropped(p) /\ UNCHANGED <<disk, user>>

(***************************************************************************)
(* Path names.                                                             *)
(***************************************************************************)
\* namex() starts at the root or at the current directory, with iget() or idup()
Start(p, f, path, r) ==
  LET i == IF path.abs THEN ROOTINO ELSE cwd[p]
  IN  /\ ino' = iget(f, i)
      /\ Go(p, r @@ [pc |-> "namex", path |-> path.elems, ip |-> i])

\* A system call that takes a path
sys_call(p, c) ==
  /\ l[p].pc = "user" /\ calls < MaxCalls /\ c.op # "close"
  /\ calls' = calls + 1
  /\ Start(p, ino, c.path, [op |-> c.op, new |-> c.new,
                            parent |-> c.op \in {"unlink", "create", "mkdir"}])
  /\ UNCHANGED <<disk, cwd, file>>

\* Where a failed and a successful namex() return to
Failed(p) == IF l[p].old = 0 THEN "user" ELSE "link_bad"
Found(p) == IF l[p].old = 0 THEN l[p].op ELSE "link_new"

\* The inode p is about to lock, 0 if none
Wants(p) ==
  CASE l[p].pc = "namex" /\ l[p].path # <<>> -> l[p].ip
    [] l[p].pc \in {"open", "chdir", "link", "link_new", "unlink", "unlink_ip",
                    "create", "mkdir", "create_old", "create_init"} -> l[p].ip
    [] l[p].pc = "link_bad" -> l[p].old
    [] OTHER -> 0

\* p acquires the lock it wants; f is the cache with the inode read in
Locks(p, f) ==
  /\ Wants(p) # 0 /\ CanLock(Wants(p))
  /\ f = ilock(ino, Wants(p))
  /\ ~NoType(f, Wants(p))

\* One round of the loop: lock the directory, look the name up, unlock it
namex(p) ==
  LET i == l[p].ip
      f == ilock(ino, i)
      last == Len(l[p].path) = 1
      t == dirent[i][Head(l[p].path)]
      walked == [name |-> Head(l[p].path), path |-> Tail(l[p].path)]
  IN  /\ l[p].pc = "namex" /\ Locks(p, f)
      /\ \/ /\ f[i].type # "dir" \/ (t = 0 /\ ~(l[p].parent /\ last))
            /\ ino' = f
            /\ Go(p, [pc |-> "iput", put |-> <<i>>, next |-> Failed(p), ip |-> 0] @@ walked)
         \/ /\ f[i].type = "dir" /\ l[p].parent /\ last
            /\ ino' = f
            /\ Go(p, [pc |-> Found(p)] @@ walked)
         \/ /\ f[i].type = "dir" /\ t # 0 /\ ~(l[p].parent /\ last) /\ ~NoSlot(f, t)
            /\ ino' = iget(f, t)
            /\ Go(p, [pc |-> "iput", put |-> <<i>>, next |-> "namex", ip |-> t] @@ walked)
      /\ UNCHANGED <<disk, user>>

\* The path has no more elements
namex_end(p) ==
  /\ l[p].pc = "namex" /\ l[p].path = <<>>
  /\ Go(p, IF l[p].parent
           THEN [pc |-> "iput", put |-> <<l[p].ip>>, next |-> Failed(p), ip |-> 0]
           ELSE [pc |-> Found(p)])
  /\ UNCHANGED <<disk, ino, user>>

(***************************************************************************)
(* open() and close() of one descriptor, chdir().                          *)
(***************************************************************************)
\* The end of sys_open(), with the inode locked: f->ip = ip, or no free descriptor
Opens(p, i) ==
  IF file[p] = 0 THEN file' = [file EXCEPT ![p] = i] /\ Return(p)
                 ELSE UNCHANGED file /\ Go(p, Put(<<i>>, "user"))

\* open() without O_CREATE, in any mode: a directory only opens for reading
sys_open(p) ==
  LET i == l[p].ip
      f == ilock(ino, i)
  IN  /\ l[p].pc = "open" /\ Locks(p, f)
      /\ ino' = f
      /\ \/ Opens(p, i)
         \/ f[i].type = "dir" /\ Go(p, Put(<<i>>, "user")) /\ UNCHANGED file
      /\ UNCHANGED <<disk, cwd, calls>>

\* sys_close(): fileclose() puts the inode
sys_close(p) ==
  /\ l[p].pc = "user" /\ file[p] # 0
  /\ file' = [file EXCEPT ![p] = 0]
  /\ Go(p, Put(<<file[p]>>, "user"))
  /\ UNCHANGED <<disk, ino, cwd, calls>>

\* The new directory, or on failure it, is put
sys_chdir(p) ==
  LET f == ilock(ino, l[p].ip)
  IN  /\ l[p].pc = "chdir" /\ Locks(p, f)
      /\ ino' = f
      /\ IF f[l[p].ip].type # "dir" THEN Go(p, Put(<<l[p].ip>>, "user"))
         ELSE Go(p, [ip |-> l[p].ip] @@ Put(<<cwd[p]>>, "chdir_set"))
      /\ UNCHANGED <<disk, user>>

chdir_set(p) ==
  /\ l[p].pc = "chdir_set"
  /\ cwd' = [cwd EXCEPT ![p] = l[p].ip]
  /\ Return(p)
  /\ UNCHANGED <<disk, ino, file, calls>>

(***************************************************************************)
(* link().                                                                 *)
(***************************************************************************)
Linked(f, i) == [f EXCEPT ![i].nlink = @ + 1]

\* nlink++, then nameiparent(new)
sys_link(p) ==
  LET i == l[p].ip
      f == ilock(ino, i)
      up == Linked(f, i)
  IN  /\ l[p].pc = "link" /\ Locks(p, f)
      /\ \/ /\ f[i].type = "dir"
            /\ ino' = f
            /\ Go(p, Put(<<i>>, "user"))
            /\ UNCHANGED dinode
         \/ /\ f[i].type # "dir"
            /\ dinode' = iupdate(up, {i})
            /\ Start(p, up, l[p].new, [old |-> i, parent |-> TRUE])
      /\ UNCHANGED <<dirent, lost, user>>

\* dirlink() into the parent of the new name
link_new(p) ==
  LET d == l[p].ip
      f == ilock(ino, d)
  IN  /\ l[p].pc = "link_new" /\ Locks(p, f)
      /\ ino' = f
      /\ \/ /\ dirent[d][l[p].name] # 0
            /\ Go(p, [old |-> l[p].old] @@ Put(<<d>>, "link_bad"))
            /\ UNCHANGED dirent
         \/ /\ dirent[d][l[p].name] = 0
            /\ dirent' = [dirent EXCEPT ![d][l[p].name] = l[p].old]
            /\ Go(p, Put(<<d, l[p].old>>, "user"))
      /\ UNCHANGED <<dinode, lost, user>>

\* The label bad: the link count goes back
link_bad(p) ==
  LET i == l[p].old
      f == ilock(ino, i)
  IN  /\ l[p].pc = "link_bad" /\ Locks(p, f)
      /\ ino' = [f EXCEPT ![i].nlink = @ - 1]
      /\ dinode' = iupdate(ino', {i})
      /\ Go(p, Put(<<i>>, "user"))
      /\ UNCHANGED <<dirent, lost, user>>

(***************************************************************************)
(* unlink(): dp stays locked while ip is locked.                           *)
(***************************************************************************)
\* Cannot unlink "." or ".."
Dots(n) == n \in {".", ".."}

sys_unlink(p) ==
  LET d == l[p].ip
      f == ilock(ino, d)
      t == dirent[d][l[p].name]
  IN  /\ l[p].pc = "unlink" /\ Locks(p, f)
      /\ \/ /\ Dots(l[p].name) \/ t = 0
            /\ ino' = f
            /\ Go(p, Put(<<d>>, "user"))
         \/ /\ ~Dots(l[p].name) /\ t # 0 /\ ~NoSlot(f, t)
            /\ ino' = iget([f EXCEPT ![d].lock = p], t)
            /\ Go(p, [pc |-> "unlink_ip", dp |-> d, ip |-> t])
      /\ UNCHANGED <<disk, user>>

isdirempty(i) == \A n \in Names : dirent[i][n] = 0

\* Which removals take the link of ".." from the parent: none, those of directories
Dotted_none(f, t) == FALSE
Dotted(f, t) == f[t].type = "dir"

\* ip is locked: clear the entry, drop the parent's link for "..", release dp
unlink_ip(p) ==
  LET d == l[p].dp
      t == l[p].ip
      f == ilock(ino, t)
      g == [f EXCEPT ![d].nlink = IF Dotted(f, t) THEN @ - 1 ELSE @]
  IN  /\ l[p].pc = "unlink_ip" /\ Locks(p, f) /\ f[t].nlink > 0
      /\ f[t].type = "dir" => isdirempty(t)
      /\ dirent' = [dirent EXCEPT ![d][l[p].name] = 0]
      /\ dinode' = iupdate(g, {d})
      /\ ino' = [g EXCEPT ![d].lock = None, ![t].lock = p]
      /\ Go(p, [ip |-> t] @@ Put(<<d>>, "unlink_drop"))
      /\ UNCHANGED <<lost, user>>

\* The directory is not unlocked on the error path
Released_not(f, i) == f
Released(f, i) == [f EXCEPT ![i].lock = None]

\* The directory is not empty: put it, then release dp
unlink_bad(p) ==
  LET f == ilock(ino, l[p].ip)
  IN  \/ /\ l[p].pc = "unlink_ip" /\ Locks(p, f) /\ f[l[p].ip].nlink > 0
         /\ f[l[p].ip].type = "dir" /\ ~isdirempty(l[p].ip)
         /\ ino' = f
         /\ Go(p, [dp |-> l[p].dp] @@ Put(<<l[p].ip>>, "unlink_bad"))
         /\ UNCHANGED <<disk, user>>
      \/ /\ l[p].pc = "unlink_bad"
         /\ ino' = Released(ino, l[p].dp)
         /\ Go(p, Put(<<l[p].dp>>, "user"))
         /\ UNCHANGED <<disk, user>>

\* nlink--, iupdate(ip), iunlockput(ip)
unlink_drop(p) ==
  LET t == l[p].ip
  IN  /\ l[p].pc = "unlink_drop"
      /\ ino' = [ino EXCEPT ![t].nlink = @ - 1, ![t].lock = None]
      /\ dinode' = iupdate(ino', {t})
      /\ Go(p, Put(<<t>>, "user"))
      /\ UNCHANGED <<dirent, lost, user>>

(***************************************************************************)
(* create(): open() with O_CREATE, and mkdir().                            *)
(***************************************************************************)
\* The name exists: release the directory and take the inode; or keep the lock
create(p) ==
  LET d == l[p].ip
      f == ilock(ino, d)
      t == dirent[d][l[p].name]
  IN  /\ l[p].pc \in {"create", "mkdir"} /\ Locks(p, f)
      /\ \/ /\ t # 0 /\ ~NoSlot(f, t)
            /\ ino' = iget(f, t)
            /\ Go(p, [ip |-> t] @@ Put(<<d>>, "create_old"))
         \/ /\ t = 0
            /\ ino' = [f EXCEPT ![d].lock = p]
            /\ Go(p, [pc |-> "ialloc", dp |-> d, ip |-> 0])
      /\ UNCHANGED <<disk, user>>

\* An existing file is opened; anything else is an error
create_old(p) ==
  LET i == l[p].ip
      f == ilock(ino, i)
  IN  /\ l[p].pc = "create_old" /\ Locks(p, f)
      /\ ino' = f
      /\ IF l[p].op = "create" /\ f[i].type = "file" THEN Opens(p, i)
         ELSE Go(p, Put(<<i>>, "user")) /\ UNCHANGED file
      /\ UNCHANGED <<disk, cwd, calls>>

Free == {i \in Inums : dinode[i].type = "none"}

\* ialloc(): mark a free inode on disk
ialloc(p) ==
  /\ l[p].pc = "ialloc"
  /\ \E i \in Free :
       /\ \A j \in Free : i <= j
       /\ dinode' = [dinode EXCEPT ![i] =
            [type |-> IF l[p].op = "mkdir" THEN "dir" ELSE "file", nlink |-> 0]]
       /\ Go(p, [pc |-> "ialloc_iget", ip |-> i])
  /\ UNCHANGED <<dirent, lost, ino, user>>

ialloc_iget(p) ==
  /\ l[p].pc = "ialloc_iget" /\ ~NoSlot(ino, l[p].ip)
  /\ ino' = iget(ino, l[p].ip)
  /\ Go(p, [pc |-> "create_init"])
  /\ UNCHANGED <<disk, user>>

\* Set nlink, make "." and "..", link the name into dp and release dp
create_init(p) ==
  LET d == l[p].dp
      i == l[p].ip
      f == ilock(ino, i)
      dir == f[i].type = "dir"
      g == [f EXCEPT ![i].nlink = 1, ![d].nlink = IF dir THEN @ + 1 ELSE @]
      dots == IF dir THEN [NoEntries EXCEPT !["."] = i, ![".."] = d] ELSE NoEntries
  IN  /\ l[p].pc = "create_init" /\ Locks(p, f)
      /\ dinode' = iupdate(g, {i, d})
      /\ dirent' = [dirent EXCEPT ![i] = dots, ![d][l[p].name] = i]
      /\ ino' = [g EXCEPT ![d].lock = None, ![i].lock = p]
      /\ Go(p, [ip |-> i] @@ Put(<<d>>, "create_done"))
      /\ UNCHANGED <<lost, user>>

create_done(p) ==
  LET i == l[p].ip
  IN  /\ l[p].pc = "create_done"
      /\ ino' = [ino EXCEPT ![i].lock = None]
      /\ IF l[p].op = "create" THEN Opens(p, i)
         ELSE Go(p, Put(<<i>>, "user")) /\ UNCHANGED file
      /\ UNCHANGED <<disk, cwd, calls>>

\* The inode p calls iget() for in its next step, 0 if none
Gets(p) ==
  CASE l[p].pc = "ialloc_iget" -> l[p].ip
    [] l[p].pc = "namex" /\ l[p].path # <<>> -> dirent[l[p].ip][Head(l[p].path)]
    [] l[p].pc \in {"unlink", "create", "mkdir"} -> dirent[l[p].ip][l[p].name]
    [] OTHER -> 0

\* No free inode on disk, or no free entry in the cache: the kernel panics
exhausted(p) ==
  /\ \/ l[p].pc = "ialloc" /\ Free = {}
     \/ Gets(p) # 0 /\ NoSlot(ino, Gets(p))
  /\ Go(p, [pc |-> "exhausted"])
  /\ UNCHANGED <<disk, ino, user>>

Kernel(p) ==
  \/ iput(p) \/ iput_free(p) \/ iput_unlock(p) \/ iput_unref(p)
  \/ namex(p) \/ namex_end(p) \/ sys_open(p) \/ sys_chdir(p) \/ chdir_set(p)
  \/ sys_link(p) \/ link_new(p) \/ link_bad(p)
  \/ sys_unlink(p) \/ unlink_ip(p) \/ unlink_bad(p) \/ unlink_drop(p)
  \/ create(p) \/ create_old(p) \/ ialloc(p) \/ ialloc_iget(p) \/ create_init(p)
  \/ create_done(p) \/ exhausted(p)

\* The kernel has not panicked
Running == \A p \in Procs : l[p].pc # "exhausted"

Next == Running /\ \E p \in Procs : Kernel(p) \/ sys_close(p) \/ \E c \in Calls : sys_call(p, c)

Spec == Init /\ [][Next]_vars

\* The scheduler runs every process, and a sleep lock wakes its waiters
Fairness == \A p \in Procs : WF_vars(Running /\ Kernel(p))

LiveSpec == Spec /\ Fairness

\* Types; link counts and references never fall below zero (iput(), sys_unlink()).
TypeOK ==
  /\ dinode \in [Inums -> [type : {"none", "file", "dir"}, nlink : Nat]]
  /\ dirent \in [Inums -> [Elems -> Inums \cup {0}]]
  /\ ino \in [Inums -> [ref : Nat, valid : BOOLEAN, type : {"none", "file", "dir"},
                        nlink : Nat, lock : Procs \cup {None}]]
  /\ cwd \in [Procs -> Inums] /\ file \in [Procs -> Inums \cup {0}]

\* The assertions "ilock: no type" and "unlink: nlink < 1" hold: the inode a process
\* locks is allocated, and the one it unlinks has a link.
NoPanic ==
  \A p \in Procs : LET i == Wants(p) f == ilock(ino, i)
    IN  i # 0 /\ CanLock(i) => ~NoType(f, i) /\ (l[p].pc = "unlink_ip" => f[i].nlink > 0)

Count(S) == Cardinality(S)

\* ip->ref counts the pointers to the entry: current directories, open files and the
\* local variables of the calls in progress; so an entry in use is never recycled, and
\* "ip->ref == 1 means no other process can have ip locked": iput() never waits for the
\* sleep lock while it holds icache.lock, and nobody else gets the inode until it is free.
RefExact ==
  /\ TypeOK
  /\ \A p \in Procs : LET i == Head(l[p].put)
       IN  /\ l[p].pc = "iput" /\ Frees(i) => ino[i].lock = None
           /\ l[p].pc = "free" => ino[i].ref = 1
  /\ Running => \A i \in Inums : ino[i].ref =
         Count({p \in Procs : cwd[p] = i /\ "chdir_set" \notin {l[p].pc, l[p].next}})
       + Count({p \in Procs : file[p] = i})
       + Count({p \in Procs : l[p].ip = i /\ l[p].pc # "ialloc_iget"})
       + Count({p \in Procs : l[p].dp = i}) + Count({p \in Procs : l[p].old = i})
       + Count({<<p, k>> \in Procs \X (1..2) : k <= Len(l[p].put) /\ l[p].put[k] = i})

\* No name leads to the directory any more
Removed(i) == i # ROOTINO /\ \A d \in Inums, n \in Names : dirent[d][n] # i

\* An inode's link count on disk is the number of names of it, of ".." entries of its
\* subdirectories, of links being made or dropped, and of names freed with a directory;
\* and every name of a directory leads to an allocated inode.
LinkCounts ==
  /\ \A d \in Inums, e \in Elems :
       dirent[d][e] # 0 /\ ~(e = ".." /\ Removed(d)) => dinode[dirent[d][e]].type # "none"
  /\ \A i \in Inums : dinode[i].type # "none" => dinode[i].nlink =
         Count({<<d, n>> \in Inums \X Names : dirent[d][n] = i})
       + Count({d \in Inums : dirent[d][".."] = i /\ ~Removed(d)})
       + Count({p \in Procs : l[p].old = i})
       + Count({p \in Procs : l[p].ip = i /\ "unlink_drop" \in {l[p].pc, l[p].next}})
       + lost[i]

\* Every call returns, or the kernel has panicked for want of an inode: no lock is left
\* held on an error path, and no lookup goes round for ever.
CallReturns ==
  \A p \in Procs : (l[p].pc # "user") ~>
    (l[p].pc = "user" \/ ~Running)
====
