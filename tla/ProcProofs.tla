----------------------------- MODULE ProcProofs -----------------------------
(***************************************************************************)
(* Proofs about Proc for every size of the process table and every set of  *)
(* failures: a process has a parent that lives until it is freed, and      *)
(* exit() and wait() do not miss one another.                              *)
(***************************************************************************)
EXTENDS Proc, WellFoundedInduction, TLAPS

Types ==
  /\ state \in [Slots -> States]
  /\ parent \in [Slots -> Slots \cup {None}]
  /\ chan \in [Slots -> Slots \cup {None}]
  /\ killed \in [Slots -> BOOLEAN]
  /\ pid \in [Slots -> 0..MaxPid]
  /\ lock \in [Slots -> Slots \cup {None}]
  /\ nextpid \in 2..(MaxPid + 1)
  /\ pc \in [Slots -> PCs]
  /\ idx \in [Slots -> 0..(NPROC + 1)]
  /\ kids \in [Slots -> BOOLEAN]
  /\ orig \in [Slots -> Slots \cup {None}]

(* What p->state says about where the process is.                          *)
Places(p) ==
  /\ pc[p] = "none" <=> state[p] = "UNUSED"
  /\ pc[p] = "forkret" => state[p] = "RUNNABLE"
  /\ pc[p] \in {"user", "wait", "exit_parent", "exit_lock_parent", "exit_lock_self",
                "reparent"} => state[p] = "RUNNING"
  /\ pc[p] = "asleep" => state[p] \in {"SLEEPING", "RUNNABLE"} /\ chan[p] = p
  /\ pc[p] \in {"zombie", "dead"} <=> state[p] = "ZOMBIE"

(* The locks a process holds, and what original_parent is: the parent when *)
(* exit() read it, which may have exited since and left p to init.         *)
Locks(p) ==
  /\ pc[p] \in {"wait", "reparent", "zombie"} => lock[p] = p
  /\ pc[p] \in {"exit_lock_parent", "exit_lock_self", "reparent"} =>
       /\ orig[p] \in Slots /\ orig[p] # p
       /\ orig[p] = parent[p] \/ parent[p] = initproc
  /\ pc[p] \in {"exit_lock_self", "reparent"} => lock[orig[p]] = p

Family(p) ==
  /\ p = initproc => parent[p] = None /\ pc[p] \in {"forkret", "user", "wait", "asleep"}
  /\ state[p] = "UNUSED" => parent[p] = None
  /\ p # initproc /\ state[p] # "UNUSED" =>
       parent[p] \in Slots /\ parent[p] # p /\ state[parent[p]] \notin {"UNUSED", "ZOMBIE"}

(* wait(): no zombie behind the loop, nor when it sleeps.                  *)
Waits(p) ==
  /\ pc[p] = "wait" => idx[p] > 0
  /\ p # initproc => \A k \in Slots : parent[k] = p =>
       /\ pc[p] = "wait" /\ k < idx[p] => state[k] # "ZOMBIE"
       /\ pc[p] = "asleep" /\ state[p] = "SLEEPING" => state[k] # "ZOMBIE"

(* reparent(): no child behind the loop, and one where it is.              *)
Reparents(p) ==
  pc[p] = "reparent" =>
    /\ idx[p] > 0
    /\ \A k \in Slots : k < idx[p] => parent[k] # p
    /\ idx[p] \in Slots => parent[idx[p]] = p

Pids(p) ==
  /\ pid[p] < nextpid
  /\ state[p] # "UNUSED" => pid[p] > 0
  /\ \A q \in Slots : p # q /\ state[p] # "UNUSED" /\ state[q] # "UNUSED" => pid[p] # pid[q]

Good(p) == Places(p) /\ Locks(p) /\ Family(p) /\ Waits(p) /\ Reparents(p) /\ Pids(p)

IInv == Types /\ \A p \in Slots : Good(p)

-----------------------------------------------------------------------------
(* Slots are numbers from 1, and the first is init's.                      *)
LEMMA Slot ==
  /\ initproc \in Slots /\ None \notin Slots /\ Slots \subseteq Nat
  /\ \A i \in Slots : i > 0 /\ i <= NPROC
  /\ 0 \in 0..(NPROC + 1)
BY NPROCAssumption DEF Slots, None, initproc

(* A set of naturals that has an element has a least one.                  *)
LEMMA Least ==
  ASSUME NEW S \in SUBSET Nat, S # {}
  PROVE  \E m \in S : \A k \in S : m <= k
<1>1. PICK m \in S : \A k \in S : ~(<<k, m>> \in OpToRel(<, Nat))
  BY Zenon, WFMin, NatLessThanWellFounded
<1>2. \A k \in S : ~(k < m)  BY Zenon, <1>1 DEF OpToRel
<1> QED  BY <1>2

\* Slot j is the next child of p after slot i, or past the end
Scanned(p, i, j) ==
  /\ j \in (i + 1)..(NPROC + 1)
  /\ p # initproc => /\ j \in Slots => parent[j] = p
                     /\ \A k \in Slots : i < k /\ k < j => parent[k] # p

(* NextSlot(), the loop of reparent() and wait(), stops there.             *)
LEMMA NextSlotIs ==
  ASSUME NEW p \in Slots, NEW i \in 0..NPROC
  PROVE  Scanned(p, i, NextSlot(p, i))
<1>1. CASE p = initproc  BY <1>1, NPROCAssumption DEF Scanned, NextSlot
<1>2. CASE p # initproc
  <2> DEFINE S == {j \in (i + 1)..(NPROC + 1) : j = NPROC + 1 \/ parent[j] = p}
             P(j) == /\ j = NPROC + 1 \/ parent[j] = p
                     /\ \A k \in (i + 1)..(j - 1) : parent[k] # p
  <2>1. S \in SUBSET Nat /\ NPROC + 1 \in S  BY NPROCAssumption
  <2>2. PICK m \in S : \A y \in S : m <= y
    <3> HIDE DEF S
    <3> QED  BY Zenon, <2>1, Least
  <2>3. m \in (i + 1)..(NPROC + 1) /\ P(m)
    <3>1. \A k \in (i + 1)..(m - 1) : k \in (i + 1)..(NPROC + 1) /\ ~(m <= k)
      BY NPROCAssumption
    <3> QED  BY Zenon, <2>2, <3>1
  <2>4. NextSlot(p, i) = CHOOSE j \in (i + 1)..(NPROC + 1) : P(j)
    BY Zenon, <1>2 DEF NextSlot
  <2>5. NextSlot(p, i) \in (i + 1)..(NPROC + 1) /\ P(NextSlot(p, i))
    <3> HIDE DEF P
    <3> QED  BY Zenon, <2>3, <2>4
  <2>6. \A k \in Slots : i < k /\ k < NextSlot(p, i) => k \in (i + 1)..(NextSlot(p, i) - 1)
    BY <2>5, NPROCAssumption DEF Slots
  <2>7. NextSlot(p, i) \in Slots => NextSlot(p, i) # NPROC + 1  BY NPROCAssumption DEF Slots
  <2> QED  BY Zenon, <2>5, <2>6, <2>7 DEF Scanned
<1> QED  BY Zenon, <1>1, <1>2

(* What a step leaves as it is.                                            *)
FamilySame(q) ==
  /\ parent'[q] = parent[q] /\ (state'[q] = "UNUSED" <=> state[q] = "UNUSED")
  /\ q = initproc => pc'[q] \in {"forkret", "user", "wait", "asleep"}
  /\ \A k \in Slots : parent[q] = k /\ state[k] \notin {"UNUSED", "ZOMBIE"} =>
                       state'[k] \notin {"UNUSED", "ZOMBIE"}

WaitsSame(q) ==
  /\ pc'[q] = "wait" => pc[q] = "wait" /\ idx'[q] = idx[q]
  /\ pc'[q] = "asleep" /\ state'[q] = "SLEEPING" => pc[q] = "asleep" /\ state[q] = "SLEEPING"
  /\ \A k \in Slots : q # initproc /\ parent'[k] = q /\ state'[k] = "ZOMBIE" =>
                       parent[k] = q /\ state[k] = "ZOMBIE"

ReparentsSame(q) ==
  pc'[q] = "reparent" =>
    /\ pc[q] = "reparent" /\ idx'[q] = idx[q]
    /\ \A k \in Slots : parent'[k] = q <=> parent[k] = q

(* A process keeps its family, and a loop what it has done, in every step  *)
(* that leaves them as they are.                                           *)
LEMMA FamilyKept ==
  ASSUME NEW q \in Slots, Family(q), FamilySame(q)  PROVE Family(q)'
BY Zenon DEF Family, FamilySame

LEMMA WaitsKept ==
  ASSUME NEW q \in Slots, Waits(q), WaitsSame(q)  PROVE Waits(q)'
BY Zenon DEF Waits, WaitsSame

LEMMA ReparentsKept ==
  ASSUME NEW q \in Slots, Reparents(q), ReparentsSame(q)  PROVE Reparents(q)'
BY Zenon DEF Reparents, ReparentsSame

(* The slots before the next child: those before this one, this one, and   *)
(* those between the two.                                                  *)
LEMMA Passed ==
  ASSUME NEW c \in Slots, NEW j \in (c + 1)..(NPROC + 1)
  PROVE  j > 0 /\ j # c /\ \A k \in Slots : k < c \/ k = c \/ c < k
BY NPROCAssumption DEF Slots

(* wait() begins its loop: no child is behind it.                          *)
LEMMA WaitsBegin ==
  ASSUME NEW q \in Slots, Scanned(q, 0, NextSlot(q, 0)), idx'[q] = NextSlot(q, 0),
         parent' = parent, pc'[q] = "wait"
  PROVE  Waits(q)'
<1>1. NextSlot(q, 0) > 0  BY ONLY Scanned(q, 0, NextSlot(q, 0)), NPROCAssumption DEF Scanned
<1>2. \A k \in Slots : q # initproc /\ k < NextSlot(q, 0) => parent[k] # q
  <2>1. \A k \in Slots : 0 < k  BY ONLY Slot
  <2> QED  BY Zenon, <2>1 DEF Scanned
<1> QED  BY Zenon, <1>1, <1>2 DEF Waits

(* The loop of wait() goes on to the next child: the one it passes is not  *)
(* a zombie, or no child.                                                  *)
LEMMA WaitsOn ==
  ASSUME NEW q \in Slots, NEW j, Waits(q), pc[q] = "wait", idx[q] \in Slots,
         Scanned(q, idx[q], j), idx'[q] = j, pc' = pc, parent' = parent, state' = state,
         parent[idx[q]] = q => state[idx[q]] # "ZOMBIE"
  PROVE  Waits(q)'
<1>1. j \in (idx[q] + 1)..(NPROC + 1)  BY Zenon DEF Scanned
<1>2. j > 0 /\ \A k \in Slots : k < idx[q] \/ k = idx[q] \/ idx[q] < k
  BY Zenon, <1>1, Passed
<1>3. \A k \in Slots : q # initproc /\ parent[k] = q /\ k < j => state[k] # "ZOMBIE"
  BY Zenon, <1>2 DEF Scanned, Waits
<1> QED  BY Zenon, <1>2, <1>3 DEF Waits

(* fork(): the child has a parent that runs, and a pid of its own.         *)
LEMMA ForkInv ==
  ASSUME IInv, NEW p \in Slots, NEW np \in Slots, fork(p, np)
  PROVE  IInv'
<1> USE DEF IInv
<1>2. Types'
  BY Slot, PidAssumption DEF fork, MayCall, Free, local, Types, Scanned, States, PCs
<1>3. ASSUME NEW q \in Slots  PROVE Good(q)'
  <2>1. Good(p) /\ Good(q) /\ Good(initproc)  BY Zenon, Slot
  <2>2. Places(q)'  BY Zenon, <2>1, Slot DEF fork, MayCall, Free, local, Types, Good, Places
  <2>3. Locks(q)'  BY Zenon, <2>1, Slot DEF fork, MayCall, Free, local, Types, Good, Places, Locks
  <2>4. Family(q)'
    <3>1. /\ state[np] = "UNUSED" /\ state' = [state EXCEPT ![np] = "RUNNABLE"]
          /\ parent' = [parent EXCEPT ![np] = p] /\ pc' = [pc EXCEPT ![np] = "forkret"]
          /\ pc[p] = "user"
      BY Zenon DEF fork, MayCall
    <3>2. state[p] = "RUNNING" /\ np # initproc /\ np # p
      BY Zenon, <2>1, <3>1 DEF Good, Places, Family
    <3>3. CASE q = np
      <4>1. parent'[q] = p /\ state'[q] = "RUNNABLE" /\ state'[p] = "RUNNING"
        BY Zenon, <3>1, <3>2, <3>3 DEF Types
      <4> QED  BY Zenon, <3>2, <3>3, <4>1 DEF Family
    <3>4. CASE q # np
      <4>1. FamilySame(q)
        BY Zenon, <2>1, <3>1, <3>2, <3>4 DEF Types, Good, Family, FamilySame
      <4> QED  BY Zenon, <2>1, <4>1, FamilyKept DEF Good
    <3> QED  BY Zenon, <3>3, <3>4
  <2>5. Waits(q)'
    <3>1. WaitsSame(q)  BY Zenon, <2>1 DEF fork, MayCall, local, Types, WaitsSame
    <3> QED  BY Zenon, <2>1, <3>1, WaitsKept DEF Good
  <2>6. Reparents(q)'
    <3>1. parent[np] = None  BY Zenon DEF fork, Good, Family
    <3>2. ReparentsSame(q)
      BY Zenon, <2>1, <3>1, Slot DEF fork, MayCall, local, Types, ReparentsSame
    <3> QED  BY Zenon, <2>1, <3>2, ReparentsKept DEF Good
  <2>7. Pids(q)'  BY <2>1, Slot DEF fork, MayCall, Free, local, Types, Good, Locks, Pids
  <2> QED  BY Zenon, <2>2, <2>3, <2>4, <2>5, <2>6, <2>7 DEF Good
<1> QED  BY Zenon, <1>2, <1>3

(* allocproc() fails: only the pid of an UNUSED slot changes.              *)
LEMMA ForkNoTrapframeInv ==
  ASSUME IInv, NEW p \in Slots, NEW np \in Slots, fork_no_trapframe(p, np)
  PROVE  IInv'
<1> USE DEF IInv
<1>2. Types'
  BY Slot, PidAssumption
  DEF fork_no_trapframe, MayCall, Free, local, Types, Scanned, States, PCs
<1>3. ASSUME NEW q \in Slots  PROVE Good(q)'
  <2>1. Good(p) /\ Good(q) /\ Good(initproc)  BY Zenon, Slot
  <2>2. Places(q)'
    BY Zenon, <2>1, Slot DEF fork_no_trapframe, MayCall, Free, local, Types, Good, Places
  <2>3. Locks(q)'
    BY Zenon, <2>1, Slot DEF fork_no_trapframe, MayCall, Free, local, Types, Good, Places, Locks
  <2>4. Family(q)'
    BY Zenon, <2>1, Slot DEF fork_no_trapframe, MayCall, Free, local, Types, Good, Places, Family
  <2>5. Waits(q)'
    <3>1. WaitsSame(q)  BY Zenon, <2>1 DEF fork_no_trapframe, local, Types, WaitsSame
    <3> QED  BY Zenon, <2>1, <3>1, WaitsKept DEF Good
  <2>6. Reparents(q)'
    <3>1. ReparentsSame(q)  BY Zenon, <2>1 DEF fork_no_trapframe, local, Types, ReparentsSame
    <3> QED  BY Zenon, <2>1, <3>1, ReparentsKept DEF Good
  <2>7. Pids(q)'
    BY <2>1, Slot DEF fork_no_trapframe, MayCall, Free, local, Types, Good, Locks, Pids
  <2> QED  BY Zenon, <2>2, <2>3, <2>4, <2>5, <2>6, <2>7 DEF Good
<1> QED  BY Zenon, <1>2, <1>3

(* freeproc() undoes allocproc().                                          *)
LEMMA ForkNoMemoryInv ==
  ASSUME IInv, NEW p \in Slots, NEW np \in Slots, fork_no_memory(p, np)
  PROVE  IInv'
<1> USE DEF IInv
<1>2. Types'
  BY Slot, PidAssumption
  DEF fork_no_memory, MayCall, Free, freed, local, Types, Scanned, States, PCs
<1>3. ASSUME NEW q \in Slots  PROVE Good(q)'
  <2>1. Good(p) /\ Good(q) /\ Good(initproc)  BY Zenon, Slot
  <2>2. Places(q)'
    BY Zenon, <2>1, Slot DEF fork_no_memory, MayCall, Free, freed, local, Types, Good, Places
  <2>3. Locks(q)'
    BY Zenon, <2>1, Slot DEF fork_no_memory, MayCall, Free, freed, local, Types, Good, Places, Locks
  <2>4. Family(q)'
    BY ZenonT(60), <2>1, Slot
       DEF fork_no_memory, MayCall, Free, freed, local, Types, Good, Places, Family
  <2>5. Waits(q)'
    <3>1. WaitsSame(q)  BY Zenon, Slot DEF fork_no_memory, freed, local, Types, WaitsSame
    <3> QED  BY Zenon, <2>1, <3>1, WaitsKept DEF Good
  <2>6. Reparents(q)'
    <3>1. parent[np] = None  BY Zenon DEF fork_no_memory, Good, Family
    <3>2. ReparentsSame(q)
      BY Zenon, <2>1, <3>1, Slot DEF fork_no_memory, freed, local, Types, ReparentsSame
    <3> QED  BY Zenon, <2>1, <3>2, ReparentsKept DEF Good
  <2>7. Pids(q)'
    BY <2>1, Slot DEF fork_no_memory, MayCall, Free, freed, local, Types, Good, Locks, Pids
  <2> QED  BY Zenon, <2>2, <2>3, <2>4, <2>5, <2>6, <2>7 DEF Good
<1> QED  BY Zenon, <1>2, <1>3

(* kill(): a sleeper becomes RUNNABLE, which only a process in wait() is.  *)
LEMMA KillInv ==
  ASSUME IInv, NEW p \in Slots, NEW k \in KillPids, kill(p, k)
  PROVE  IInv'
<1> USE DEF IInv
<1>2. Types'
  BY ZenonT(60), Slot, PidAssumption DEF kill, MayCall, Free, local, Types, Scanned, States, PCs
<1>3. ASSUME NEW q \in Slots  PROVE Good(q)'
  <2>1. Good(p) /\ Good(q) /\ Good(initproc)  BY Zenon, Slot
  <2>2. Places(q)'  BY <2>1, Slot DEF kill, MayCall, Free, local, Types, Good, Places
  <2>3. Locks(q)'  BY Zenon, <2>1, Slot DEF kill, MayCall, Free, local, Types, Good, Places, Locks
  <2>4. Family(q)'  BY <2>1, Slot DEF kill, MayCall, Free, local, Types, Good, Places, Family
  <2>5. Waits(q)'
    <3>1. WaitsSame(q)  BY ZenonT(60), <2>1 DEF kill, local, Types, WaitsSame
    <3> QED  BY Zenon, <2>1, <3>1, WaitsKept DEF Good
  <2>6. Reparents(q)'
    <3>1. ReparentsSame(q)  BY Zenon, <2>1 DEF kill, local, Types, ReparentsSame
    <3> QED  BY Zenon, <2>1, <3>1, ReparentsKept DEF Good
  <2>7. Pids(q)'  BY <2>1, Slot DEF kill, MayCall, Free, local, Types, Good, Locks, Pids
  <2> QED  BY Zenon, <2>2, <2>3, <2>4, <2>5, <2>6, <2>7 DEF Good
<1> QED  BY Zenon, <1>2, <1>3

(* The first switch to a process.                                          *)
LEMMA SchedulerForkretInv ==
  ASSUME IInv, NEW p \in Slots, scheduler_forkret(p)
  PROVE  IInv'
<1> USE DEF IInv
<1>2. Types'
  BY Zenon, Slot, PidAssumption DEF scheduler_forkret, Free, local, Types, Scanned, States, PCs
<1>3. ASSUME NEW q \in Slots  PROVE Good(q)'
  <2>1. Good(p) /\ Good(q) /\ Good(initproc)  BY Zenon, Slot
  <2>2. Places(q)'  BY Zenon, <2>1, Slot DEF scheduler_forkret, Free, local, Types, Good, Places
  <2>3. Locks(q)'  BY <2>1, Slot DEF scheduler_forkret, Free, local, Types, Good, Places, Locks
  <2>4. Family(q)'
    BY ZenonT(60), <2>1, Slot DEF scheduler_forkret, Free, local, Types, Good, Places, Family
  <2>5. Waits(q)'
    <3>1. WaitsSame(q)  BY Zenon, <2>1 DEF scheduler_forkret, local, Types, WaitsSame
    <3> QED  BY Zenon, <2>1, <3>1, WaitsKept DEF Good
  <2>6. Reparents(q)'
    <3>1. ReparentsSame(q)  BY Zenon, <2>1 DEF scheduler_forkret, local, Types, ReparentsSame
    <3> QED  BY Zenon, <2>1, <3>1, ReparentsKept DEF Good
  <2>7. Pids(q)'  BY ZenonT(60), <2>1, Slot DEF scheduler_forkret, Free, local, Types, Good, Locks, Pids
  <2> QED  BY Zenon, <2>2, <2>3, <2>4, <2>5, <2>6, <2>7 DEF Good
<1> QED  BY Zenon, <1>2, <1>3

(* Back from sleep() in wait(), with the lock, to the start of the loop.   *)
LEMMA SchedulerWaitInv ==
  ASSUME IInv, NEW p \in Slots, scheduler_wait(p)
  PROVE  IInv'
<1> USE DEF IInv
<1>1. Scanned(p, 0, NextSlot(p, 0)) /\ 0 \in 0..NPROC
  <2>1. 0 \in 0..NPROC  BY Slot, NPROCAssumption DEF scheduler_wait, Slots
  <2> QED  BY Zenon, <2>1, NextSlotIs
<1>2. Types'
  BY <1>1, Slot, PidAssumption DEF scheduler_wait, Free, Types, Scanned, States, PCs
<1>3. ASSUME NEW q \in Slots  PROVE Good(q)'
  <2>1. Good(p) /\ Good(q) /\ Good(initproc)  BY Zenon, Slot
  <2>2. Places(q)'  BY ZenonT(60), <2>1, Slot DEF scheduler_wait, Free, Types, Good, Scanned, Places
  <2>3. Locks(q)'  BY <2>1, Slot DEF scheduler_wait, Free, Types, Good, Scanned, Places, Locks
  <2>4. Family(q)'
    BY ZenonT(60), <2>1, Slot DEF scheduler_wait, Free, Types, Good, Scanned, Places, Family
  <2>5. Waits(q)'
    <3>1. CASE q = p
      <4>1. idx'[p] = NextSlot(p, 0) /\ parent' = parent /\ pc'[p] = "wait"
        BY Zenon DEF scheduler_wait, Types
      <4> QED  BY Zenon, <1>1, <3>1, <4>1, WaitsBegin
    <3>2. CASE q # p
      <4>1. WaitsSame(q)  BY Zenon, <3>2 DEF scheduler_wait, Types, WaitsSame
      <4> QED  BY Zenon, <2>1, <4>1, WaitsKept DEF Good
    <3> QED  BY Zenon, <3>1, <3>2
  <2>6. Reparents(q)'
    <3>1. ReparentsSame(q)  BY Zenon, <2>1 DEF scheduler_wait, Types, ReparentsSame
    <3> QED  BY Zenon, <2>1, <3>1, ReparentsKept DEF Good
  <2>7. Pids(q)'  BY ZenonT(60), <2>1, Slot DEF scheduler_wait, Free, Types, Good, Scanned, Locks, Pids
  <2> QED  BY Zenon, <2>2, <2>3, <2>4, <2>5, <2>6, <2>7 DEF Good
<1> QED  BY Zenon, <1>2, <1>3

(* The last switch away from a process.                                    *)
LEMMA SchedulerReleaseInv ==
  ASSUME IInv, NEW p \in Slots, scheduler_release(p)
  PROVE  IInv'
<1> USE DEF IInv
<1>2. Types'
  BY Zenon, Slot, PidAssumption DEF scheduler_release, local, Types, Scanned, States, PCs
<1>3. ASSUME NEW q \in Slots  PROVE Good(q)'
  <2>1. Good(p) /\ Good(q) /\ Good(initproc)  BY Zenon, Slot
  <2>2. Places(q)'  BY Zenon, <2>1, Slot DEF scheduler_release, local, Types, Good, Places
  <2>3. Locks(q)'  BY ZenonT(60), <2>1, Slot DEF scheduler_release, local, Types, Good, Places, Locks
  <2>4. Family(q)'  BY Zenon, <2>1, Slot DEF scheduler_release, local, Types, Good, Places, Family
  <2>5. Waits(q)'
    <3>1. WaitsSame(q)  BY Zenon, <2>1 DEF scheduler_release, local, Types, WaitsSame
    <3> QED  BY Zenon, <2>1, <3>1, WaitsKept DEF Good
  <2>6. Reparents(q)'
    <3>1. ReparentsSame(q)  BY Zenon, <2>1 DEF scheduler_release, local, Types, ReparentsSame
    <3> QED  BY Zenon, <2>1, <3>1, ReparentsKept DEF Good
  <2>7. Pids(q)'  BY Zenon, <2>1, Slot DEF scheduler_release, local, Types, Good, Locks, Pids
  <2> QED  BY Zenon, <2>2, <2>3, <2>4, <2>5, <2>6, <2>7 DEF Good
<1> QED  BY Zenon, <1>2, <1>3

(* wait() takes the lock before its loop starts.                           *)
LEMMA WaitInv ==
  ASSUME IInv, NEW p \in Slots, wait(p)
  PROVE  IInv'
<1> USE DEF IInv
<1>1. Scanned(p, 0, NextSlot(p, 0)) /\ 0 \in 0..NPROC
  <2>1. 0 \in 0..NPROC  BY Slot, NPROCAssumption DEF wait, Slots
  <2> QED  BY Zenon, <2>1, NextSlotIs
<1>2. Types'  BY <1>1, Slot, PidAssumption DEF wait, MayCall, Free, Types, Scanned, States, PCs
<1>3. ASSUME NEW q \in Slots  PROVE Good(q)'
  <2>1. Good(p) /\ Good(q) /\ Good(initproc)  BY Zenon, Slot
  <2>2. Places(q)'  BY Zenon, <2>1, Slot DEF wait, MayCall, Free, Types, Good, Scanned, Places
  <2>3. Locks(q)'  BY <2>1, Slot DEF wait, MayCall, Free, Types, Good, Scanned, Places, Locks
  <2>4. Family(q)'
    BY Zenon, <2>1, Slot DEF wait, MayCall, Free, Types, Good, Scanned, Places, Family
  <2>5. Waits(q)'
    <3>1. CASE q = p
      <4>1. idx'[p] = NextSlot(p, 0) /\ parent' = parent /\ pc'[p] = "wait"
        BY Zenon DEF wait, Types
      <4> QED  BY Zenon, <1>1, <3>1, <4>1, WaitsBegin
    <3>2. CASE q # p
      <4>1. WaitsSame(q)  BY Zenon, <3>2 DEF wait, MayCall, Types, WaitsSame
      <4> QED  BY Zenon, <2>1, <4>1, WaitsKept DEF Good
    <3> QED  BY Zenon, <3>1, <3>2
  <2>6. Reparents(q)'
    <3>1. ReparentsSame(q)  BY Zenon, <2>1 DEF wait, MayCall, Types, ReparentsSame
    <3> QED  BY Zenon, <2>1, <3>1, ReparentsKept DEF Good
  <2>7. Pids(q)'  BY Zenon, <2>1, Slot DEF wait, MayCall, Free, Types, Good, Scanned, Locks, Pids
  <2> QED  BY Zenon, <2>2, <2>3, <2>4, <2>5, <2>6, <2>7 DEF Good
<1> QED  BY Zenon, <1>2, <1>3

(* A slot that is no child of p.                                           *)
LEMMA WaitSkipInv ==
  ASSUME IInv, NEW p \in Slots, wait_skip(p)
  PROVE  IInv'
<1> USE DEF IInv
<1>1. Scanned(p, idx[p], NextSlot(p, idx[p])) /\ idx[p] \in 0..NPROC
  <2>1. idx[p] \in 0..NPROC  BY Slot, NPROCAssumption DEF wait_skip, Slots
  <2> QED  BY Zenon, <2>1, NextSlotIs
<1>2. Types'  BY <1>1, Slot, PidAssumption DEF wait_skip, Types, Scanned, States, PCs
<1>3. ASSUME NEW q \in Slots  PROVE Good(q)'
  <2>1. Good(p) /\ Good(q) /\ Good(initproc)  BY Zenon, Slot
  <2>2. Places(q)'  BY Zenon, <2>1, Slot DEF wait_skip, Types, Good, Scanned, Places
  <2>3. Locks(q)'  BY Zenon, <2>1, Slot DEF wait_skip, Types, Good, Scanned, Places, Locks
  <2>4. Family(q)'  BY Zenon, <2>1, Slot DEF wait_skip, Types, Good, Scanned, Places, Family
  <2>5. Waits(q)'
    <3>1. CASE q = p
      <4>1. /\ pc[p] = "wait" /\ idx[p] \in Slots /\ idx'[p] = NextSlot(p, idx[p])
            /\ pc' = pc /\ parent' = parent /\ state' = state
            /\ parent[idx[p]] = p => state[idx[p]] # "ZOMBIE"
        BY Zenon DEF wait_skip, Types
      <4> QED  BY Zenon, <1>1, <2>1, <3>1, <4>1, WaitsOn DEF Good
    <3>2. CASE q # p
      <4>1. WaitsSame(q)  BY Zenon, <3>2 DEF wait_skip, Types, WaitsSame
      <4> QED  BY Zenon, <2>1, <4>1, WaitsKept DEF Good
    <3> QED  BY Zenon, <3>1, <3>2
  <2>6. Reparents(q)'
    <3>1. ReparentsSame(q)  BY Zenon, <2>1 DEF wait_skip, Types, ReparentsSame
    <3> QED  BY Zenon, <2>1, <3>1, ReparentsKept DEF Good
  <2>7. Pids(q)'  BY Zenon, <2>1, Slot DEF wait_skip, Types, Good, Scanned, Locks, Pids
  <2> QED  BY Zenon, <2>2, <2>3, <2>4, <2>5, <2>6, <2>7 DEF Good
<1> QED  BY Zenon, <1>2, <1>3

(* A child that has not exited: it cannot while p holds its own lock.      *)
LEMMA WaitKidInv ==
  ASSUME IInv, NEW p \in Slots, wait_kid(p)
  PROVE  IInv'
<1> USE DEF IInv
<1>1. Scanned(p, idx[p], NextSlot(p, idx[p])) /\ idx[p] \in 0..NPROC
  <2>1. idx[p] \in 0..NPROC  BY Slot, NPROCAssumption DEF wait_kid, Slots
  <2> QED  BY Zenon, <2>1, NextSlotIs
<1>2. Types'  BY <1>1, Slot, PidAssumption DEF wait_kid, Free, Types, Scanned, States, PCs
<1>3. ASSUME NEW q \in Slots  PROVE Good(q)'
  <2>1. Good(p) /\ Good(q) /\ Good(initproc)  BY Zenon, Slot
  <2>2. Places(q)'  BY Zenon, <2>1, Slot DEF wait_kid, Free, Types, Good, Scanned, Places
  <2>3. Locks(q)'  BY Zenon, <2>1, Slot DEF wait_kid, Free, Types, Good, Scanned, Places, Locks
  <2>4. Family(q)'  BY ZenonT(60), <2>1, Slot DEF wait_kid, Free, Types, Good, Scanned, Places, Family
  <2>5. Waits(q)'
    <3>1. CASE q = p
      <4>1. /\ pc[p] = "wait" /\ idx[p] \in Slots /\ idx'[p] = NextSlot(p, idx[p])
            /\ pc' = pc /\ parent' = parent /\ state' = state
            /\ parent[idx[p]] = p => state[idx[p]] # "ZOMBIE"
        BY Zenon DEF wait_kid, Types
      <4> QED  BY Zenon, <1>1, <2>1, <3>1, <4>1, WaitsOn DEF Good
    <3>2. CASE q # p
      <4>1. WaitsSame(q)  BY Zenon, <3>2 DEF wait_kid, Types, WaitsSame
      <4> QED  BY Zenon, <2>1, <4>1, WaitsKept DEF Good
    <3> QED  BY Zenon, <3>1, <3>2
  <2>6. Reparents(q)'
    <3>1. ReparentsSame(q)  BY Zenon, <2>1 DEF wait_kid, Types, ReparentsSame
    <3> QED  BY Zenon, <2>1, <3>1, ReparentsKept DEF Good
  <2>7. Pids(q)'  BY Zenon, <2>1, Slot DEF wait_kid, Free, Types, Good, Scanned, Locks, Pids
  <2> QED  BY Zenon, <2>2, <2>3, <2>4, <2>5, <2>6, <2>7 DEF Good
<1> QED  BY Zenon, <1>2, <1>3

(* A zombie is freed.  It is the parent of none: parents are alive.        *)
LEMMA WaitReapInv ==
  ASSUME IInv, NEW p \in Slots, wait_reap(p)
  PROVE  IInv'
<1> USE DEF IInv
<1>1. PICK z \in Slots : z = idx[p]  BY Zenon DEF wait_reap
<1>4. /\ pc[p] = "wait" /\ parent[z] = p /\ state[z] = "ZOMBIE"
      /\ pid' = [pid EXCEPT ![z] = 0] /\ parent' = [parent EXCEPT ![z] = None]
      /\ chan' = [chan EXCEPT ![z] = None] /\ killed' = [killed EXCEPT ![z] = FALSE]
      /\ state' = [state EXCEPT ![z] = "UNUSED"]
      /\ lock' = [lock EXCEPT ![p] = None] /\ idx' = [idx EXCEPT ![p] = 0]
      /\ kids' = [kids EXCEPT ![p] = FALSE]
      /\ pc' = [pc EXCEPT ![p] = "user", ![z] = "none"]
      /\ nextpid' = nextpid /\ orig' = orig
  BY Zenon, <1>1 DEF wait_reap, freed, wait_return
<1>2. Types'
  <2>1. 0 \in 0..MaxPid  BY ONLY PidAssumption
  <2> QED  BY Zenon, <1>4, <2>1, Slot DEF Types, States, PCs
<1>3. ASSUME NEW q \in Slots  PROVE Good(q)'
  <2>1. Good(p) /\ Good(q) /\ Good(initproc)  BY Zenon, Slot
  <2>2. Places(q)'
    <3>1. pc[z] \in {"zombie", "dead"} /\ z # p  BY Zenon, <1>4 DEF Good, Places
    <3>2. /\ q # z => state'[q] = state[q] /\ chan'[q] = chan[q]
          /\ pc'[q] = IF q = z THEN "none" ELSE IF q = p THEN "user" ELSE pc[q]
          /\ q = z => state'[q] = "UNUSED"
      BY Zenon, <1>4, <3>1 DEF Types
    <3>3. CASE q = z  BY Zenon, <3>1, <3>2, <3>3 DEF Places
    <3>4. CASE q = p
      <4>1. state[p] = "RUNNING"  BY Zenon, <1>4, <2>1 DEF Good, Places
      <4> QED  BY Zenon, <3>1, <3>2, <3>4, <4>1 DEF Places
    <3>5. CASE q # z /\ q # p
      <4>1. state'[q] = state[q] /\ chan'[q] = chan[q] /\ pc'[q] = pc[q]  BY Zenon, <3>2, <3>5
      <4> QED  BY ZenonT(60), <2>1, <4>1 DEF Good, Places
    <3> QED  BY Zenon, <3>3, <3>4, <3>5
  <2>3. Locks(q)'
    BY <2>1, Slot DEF wait_reap, Free, freed, wait_return, Types, Good, Places, Locks
  <2>4. Family(q)'
    BY ZenonT(60), <2>1, Slot DEF wait_reap, Free, freed, wait_return, Types, Good, Places, Family
  <2>5. Waits(q)'
    <3>1. WaitsSame(q)  BY Zenon, <1>4, Slot DEF Types, WaitsSame
    <3> QED  BY Zenon, <2>1, <3>1, WaitsKept DEF Good
  <2>6. Reparents(q)'
    <3>1. ReparentsSame(q)  BY ZenonT(60), <1>4, Slot DEF Types, ReparentsSame
    <3> QED  BY Zenon, <2>1, <3>1, ReparentsKept DEF Good
  <2>7. Pids(q)'
    BY <2>1, Slot DEF wait_reap, Free, freed, wait_return, Types, Good, Locks, Pids
  <2> QED  BY Zenon, <2>2, <2>3, <2>4, <2>5, <2>6, <2>7 DEF Good
<1> QED  BY Zenon, <1>2, <1>3

(* The zombie stays.                                                       *)
LEMMA WaitBadAddrInv ==
  ASSUME IInv, NEW p \in Slots, wait_bad_addr(p)
  PROVE  IInv'
<1> USE DEF IInv
<1>2. Types'
  BY Zenon, Slot, PidAssumption DEF wait_bad_addr, Free, wait_return, Types, Scanned, States, PCs
<1>3. ASSUME NEW q \in Slots  PROVE Good(q)'
  <2>1. Good(p) /\ Good(q) /\ Good(initproc)  BY Zenon, Slot
  <2>2. Places(q)'  BY ZenonT(60), <2>1, Slot DEF wait_bad_addr, Free, wait_return, Types, Good, Places
  <2>3. Locks(q)'
    BY <2>1, Slot DEF wait_bad_addr, Free, wait_return, Types, Good, Places, Locks
  <2>4. Family(q)'
    BY Zenon, <2>1, Slot DEF wait_bad_addr, Free, wait_return, Types, Good, Places, Family
  <2>5. Waits(q)'
    <3>1. WaitsSame(q)  BY Zenon, <2>1 DEF wait_bad_addr, wait_return, Types, WaitsSame
    <3> QED  BY Zenon, <2>1, <3>1, WaitsKept DEF Good
  <2>6. Reparents(q)'
    <3>1. ReparentsSame(q)  BY Zenon, <2>1 DEF wait_bad_addr, wait_return, Types, ReparentsSame
    <3> QED  BY Zenon, <2>1, <3>1, ReparentsKept DEF Good
  <2>7. Pids(q)'
    BY Zenon, <2>1, Slot DEF wait_bad_addr, Free, wait_return, Types, Good, Locks, Pids
  <2> QED  BY Zenon, <2>2, <2>3, <2>4, <2>5, <2>6, <2>7 DEF Good
<1> QED  BY Zenon, <1>2, <1>3

(* wait() returns with nothing.                                            *)
LEMMA WaitNoneInv ==
  ASSUME IInv, NEW p \in Slots, wait_none(p)
  PROVE  IInv'
<1> USE DEF IInv
<1>2. Types'  BY Zenon, Slot, PidAssumption DEF wait_none, wait_return, Types, Scanned, States, PCs
<1>3. ASSUME NEW q \in Slots  PROVE Good(q)'
  <2>1. Good(p) /\ Good(q) /\ Good(initproc)  BY Zenon, Slot
  <2>2. Places(q)'  BY Zenon, <2>1, Slot DEF wait_none, wait_return, Types, Good, Places
  <2>3. Locks(q)'  BY <2>1, Slot DEF wait_none, wait_return, Types, Good, Places, Locks
  <2>4. Family(q)'  BY Zenon, <2>1, Slot DEF wait_none, wait_return, Types, Good, Places, Family
  <2>5. Waits(q)'
    <3>1. WaitsSame(q)  BY Zenon, <2>1 DEF wait_none, wait_return, Types, WaitsSame
    <3> QED  BY Zenon, <2>1, <3>1, WaitsKept DEF Good
  <2>6. Reparents(q)'
    <3>1. ReparentsSame(q)  BY Zenon, <2>1 DEF wait_none, wait_return, Types, ReparentsSame
    <3> QED  BY Zenon, <2>1, <3>1, ReparentsKept DEF Good
  <2>7. Pids(q)'  BY Zenon, <2>1, Slot DEF wait_none, wait_return, Types, Good, Locks, Pids
  <2> QED  BY Zenon, <2>2, <2>3, <2>4, <2>5, <2>6, <2>7 DEF Good
<1> QED  BY Zenon, <1>2, <1>3

(* The loop is over, so no child of p is a zombie.                         *)
LEMMA WaitSleepInv ==
  ASSUME IInv, NEW p \in Slots, wait_sleep(p)
  PROVE  IInv'
<1> USE DEF IInv
<1>2. Types'  BY Zenon, Slot, PidAssumption DEF wait_sleep, wait_return, Types, Scanned, States, PCs
<1>3. ASSUME NEW q \in Slots  PROVE Good(q)'
  <2>1. Good(p) /\ Good(q) /\ Good(initproc)  BY Zenon, Slot
  <2>2. Places(q)'  BY ZenonT(60), <2>1, Slot DEF wait_sleep, wait_return, Types, Good, Places
  <2>3. Locks(q)'  BY <2>1, Slot DEF wait_sleep, wait_return, Types, Good, Places, Locks
  <2>4. Family(q)'  BY ZenonT(60), <2>1, Slot DEF wait_sleep, wait_return, Types, Good, Places, Family
  <2>5. Waits(q)'
    <3>1. CASE q = p
      <4>1. \A k \in Slots : k < idx[p]
        <5>1. idx[p] \in 0..(NPROC + 1) /\ idx[p] \notin Slots /\ idx[p] > 0
          BY Zenon, <2>1 DEF wait_sleep, Types, Good, Waits
        <5> QED  BY <5>1, NPROCAssumption DEF Slots
      <4>2. \A k \in Slots : p # initproc /\ parent[k] = p => state[k] # "ZOMBIE"
        BY Zenon, <2>1, <4>1 DEF wait_sleep, Good, Waits
      <4>3. parent' = parent /\ pc'[p] = "asleep" /\ state' = [state EXCEPT ![p] = "SLEEPING"]
        BY Zenon DEF wait_sleep, Types
      <4> QED  BY Zenon, <3>1, <4>2, <4>3 DEF Types, Waits
    <3>2. CASE q # p
      <4>1. /\ parent' = parent /\ pc'[q] = pc[q] /\ idx'[q] = idx[q]
            /\ \A k \in Slots : state'[k] = "ZOMBIE" => state[k] = "ZOMBIE"
            /\ state'[q] = state[q]
        BY Zenon, <3>2 DEF wait_sleep, wait_return, Types
      <4> QED  BY Zenon, <2>1, <4>1 DEF Good, Waits
    <3> QED  BY Zenon, <3>1, <3>2
  <2>6. Reparents(q)'
    <3>1. ReparentsSame(q)  BY Zenon, <2>1 DEF wait_sleep, wait_return, Types, ReparentsSame
    <3> QED  BY Zenon, <2>1, <3>1, ReparentsKept DEF Good
  <2>7. Pids(q)'
    <3>1. /\ state[p] = "RUNNING" /\ state' = [state EXCEPT ![p] = "SLEEPING"]
          /\ pid' = pid /\ nextpid' = nextpid
      BY Zenon, <2>1 DEF wait_sleep, Good, Places
    <3>2. \A k \in Slots : state'[k] = "UNUSED" <=> state[k] = "UNUSED"  BY Zenon, <3>1 DEF Types
    <3> QED  BY Zenon, <2>1, <3>1, <3>2 DEF Good, Pids
  <2> QED  BY Zenon, <2>2, <2>3, <2>4, <2>5, <2>6, <2>7 DEF Good
<1> QED  BY Zenon, <1>2, <1>3

(* exit() wakes init.                                                      *)
LEMMA ExitInv ==
  ASSUME IInv, NEW p \in Slots, exit(p)
  PROVE  IInv'
<1> USE DEF IInv
<1>2. Types'
  BY Zenon, Slot, PidAssumption DEF exit, Free, wakeup1, local, Types, Scanned, States, PCs
<1>3. ASSUME NEW q \in Slots  PROVE Good(q)'
  <2>1. Good(p) /\ Good(q) /\ Good(initproc)  BY Zenon, Slot
  <2>2. Places(q)'  BY ZenonT(60), <2>1, Slot DEF exit, Free, wakeup1, local, Types, Good, Places
  <2>3. Locks(q)'  BY <2>1, Slot DEF exit, Free, wakeup1, local, Types, Good, Places, Locks
  <2>4. Family(q)'  BY ZenonT(60), <2>1, Slot DEF exit, Free, wakeup1, local, Types, Good, Places, Family
  <2>5. Waits(q)'
    <3>1. WaitsSame(q)  BY Zenon, <2>1 DEF exit, wakeup1, local, Types, WaitsSame
    <3> QED  BY Zenon, <2>1, <3>1, WaitsKept DEF Good
  <2>6. Reparents(q)'
    <3>1. ReparentsSame(q)  BY Zenon, <2>1 DEF exit, wakeup1, local, Types, ReparentsSame
    <3> QED  BY Zenon, <2>1, <3>1, ReparentsKept DEF Good
  <2>7. Pids(q)'  BY <2>1, Slot DEF exit, Free, wakeup1, local, Types, Good, Locks, Pids
  <2> QED  BY Zenon, <2>2, <2>3, <2>4, <2>5, <2>6, <2>7 DEF Good
<1> QED  BY Zenon, <1>2, <1>3

(* exit() reads the parent.                                                *)
LEMMA ExitParentInv ==
  ASSUME IInv, NEW p \in Slots, exit_parent(p)
  PROVE  IInv'
<1> USE DEF IInv
<1>2. Types'  BY Zenon, Slot, PidAssumption DEF exit_parent, Free, Types, Scanned, States, PCs
<1>3. ASSUME NEW q \in Slots  PROVE Good(q)'
  <2>1. Good(p) /\ Good(q) /\ Good(initproc)  BY Zenon, Slot
  <2>2. Places(q)'  BY ZenonT(60), <2>1, Slot DEF exit_parent, Free, Types, Good, Places
  <2>3. Locks(q)'  BY <2>1, Slot DEF exit_parent, Types, Good, Places, Locks, Family
  <2>4. Family(q)'  BY Zenon, <2>1, Slot DEF exit_parent, Free, Types, Good, Places, Family
  <2>5. Waits(q)'
    <3>1. WaitsSame(q)  BY Zenon, <2>1 DEF exit_parent, Types, WaitsSame
    <3> QED  BY Zenon, <2>1, <3>1, WaitsKept DEF Good
  <2>6. Reparents(q)'
    <3>1. ReparentsSame(q)  BY Zenon, <2>1 DEF exit_parent, Types, ReparentsSame
    <3> QED  BY Zenon, <2>1, <3>1, ReparentsKept DEF Good
  <2>7. Pids(q)'  BY Zenon, <2>1, Slot DEF exit_parent, Free, Types, Good, Locks, Pids
  <2> QED  BY Zenon, <2>2, <2>3, <2>4, <2>5, <2>6, <2>7 DEF Good
<1> QED  BY Zenon, <1>2, <1>3

(* exit() has the lock of original_parent.                                 *)
LEMMA ExitLockParentInv ==
  ASSUME IInv, NEW p \in Slots, exit_lock_parent(p)
  PROVE  IInv'
<1> USE DEF IInv
<1>2. Types'
  BY Zenon, Slot, PidAssumption DEF exit_lock_parent, Free, local, Types, Scanned, States, PCs
<1>3. ASSUME NEW q \in Slots  PROVE Good(q)'
  <2>1. Good(p) /\ Good(q) /\ Good(initproc)  BY Zenon, Slot
  <2>2. Places(q)'  BY ZenonT(60), <2>1, Slot DEF exit_lock_parent, Free, local, Types, Good, Places
  <2>3. Locks(q)'  BY <2>1, Slot DEF exit_lock_parent, Free, local, Types, Good, Places, Locks
  <2>4. Family(q)'
    BY Zenon, <2>1, Slot DEF exit_lock_parent, Free, local, Types, Good, Places, Family
  <2>5. Waits(q)'
    <3>1. WaitsSame(q)  BY Zenon, <2>1 DEF exit_lock_parent, local, Types, WaitsSame
    <3> QED  BY Zenon, <2>1, <3>1, WaitsKept DEF Good
  <2>6. Reparents(q)'
    <3>1. ReparentsSame(q)  BY Zenon, <2>1 DEF exit_lock_parent, local, Types, ReparentsSame
    <3> QED  BY Zenon, <2>1, <3>1, ReparentsKept DEF Good
  <2>7. Pids(q)'  BY Zenon, <2>1, Slot DEF exit_lock_parent, Free, local, Types, Good, Locks, Pids
  <2> QED  BY Zenon, <2>2, <2>3, <2>4, <2>5, <2>6, <2>7 DEF Good
<1> QED  BY Zenon, <1>2, <1>3

(* exit() has both locks, and the loop of reparent() starts.               *)
LEMMA ExitLockSelfInv ==
  ASSUME IInv, NEW p \in Slots, exit_lock_self(p)
  PROVE  IInv'
<1> USE DEF IInv
<1>1. Scanned(p, 0, NextSlot(p, 0)) /\ 0 \in 0..NPROC
  <2>1. 0 \in 0..NPROC  BY Slot, NPROCAssumption DEF exit_lock_self, Slots
  <2> QED  BY Zenon, <2>1, NextSlotIs
<1>2. Types'
  BY <1>1, Slot, PidAssumption DEF exit_lock_self, Free, Types, Scanned, States, PCs
<1>3. ASSUME NEW q \in Slots  PROVE Good(q)'
  <2>1. Good(p) /\ Good(q) /\ Good(initproc)  BY Zenon, Slot
  <2>2. Places(q)'  BY Zenon, <2>1, Slot DEF exit_lock_self, Free, Types, Good, Scanned, Places
  <2>3. Locks(q)'  BY <2>1, Slot DEF exit_lock_self, Free, Types, Good, Scanned, Places, Locks
  <2>4. Family(q)'
    BY Zenon, <2>1, Slot DEF exit_lock_self, Free, Types, Good, Scanned, Places, Family
  <2>5. Waits(q)'
    <3>1. WaitsSame(q)  BY Zenon, <2>1 DEF exit_lock_self, Types, WaitsSame
    <3> QED  BY Zenon, <2>1, <3>1, WaitsKept DEF Good
  <2>6. Reparents(q)'
    <3>1. CASE q = p
      <4>1. p # initproc /\ parent' = parent /\ idx'[p] = NextSlot(p, 0)
        BY Zenon, <2>1 DEF exit_lock_self, Types, Good, Family
      <4> QED  BY <1>1, <3>1, <4>1, Slot DEF Scanned, Reparents
    <3>2. CASE q # p
      BY Zenon, <2>1, <3>2 DEF exit_lock_self, Types, Good, Reparents
    <3> QED  BY Zenon, <3>1, <3>2
  <2>7. Pids(q)'  BY Zenon, <2>1, Slot DEF exit_lock_self, Free, Types, Good, Scanned, Locks, Pids
  <2> QED  BY Zenon, <2>2, <2>3, <2>4, <2>5, <2>6, <2>7 DEF Good
<1> QED  BY Zenon, <1>2, <1>3

(* A child goes to init, which never exits.                                *)
LEMMA ReparentInv ==
  ASSUME IInv, NEW p \in Slots, reparent(p)
  PROVE  IInv'
<1> USE DEF IInv
<1>1. Scanned(p, idx[p], NextSlot(p, idx[p])) /\ idx[p] \in 0..NPROC
  <2>1. idx[p] \in 0..NPROC  BY Slot, NPROCAssumption DEF reparent, Slots
  <2> QED  BY Zenon, <2>1, NextSlotIs
<1>2. Types'  BY <1>1, Slot, PidAssumption DEF reparent, Free, Types, Scanned, States, PCs
<1>3. ASSUME NEW q \in Slots  PROVE Good(q)'
  <2>1. Good(p) /\ Good(q) /\ Good(initproc)  BY Zenon, Slot
  <2>2. Places(q)'  BY Zenon, <2>1, Slot DEF reparent, Free, Types, Good, Scanned, Places
  <2>3. Locks(q)'  BY Zenon, <2>1, Slot DEF reparent, Free, Types, Good, Scanned, Places, Locks
  <2>4. Family(q)'
    <3>1. /\ idx[p] \in Slots /\ parent[idx[p]] = p /\ p # initproc
          /\ parent' = [parent EXCEPT ![idx[p]] = initproc] /\ state' = state /\ pc' = pc
      BY Zenon, <2>1 DEF reparent, Good, Reparents, Family
    <3>2. CASE q = idx[p]
      <4>1. q # initproc /\ state[q] # "UNUSED"
        BY Zenon, <2>1, <3>1, <3>2, Slot DEF Good, Family
      <4>2. state[initproc] \notin {"UNUSED", "ZOMBIE"}  BY Zenon, <2>1 DEF Good, Places, Family
      <4>3. parent'[q] = initproc  BY Zenon, <3>1, <3>2 DEF Types
      <4> QED  BY Zenon, <3>1, <4>1, <4>2, <4>3, Slot DEF Family
    <3>3. CASE q # idx[p]
      <4>1. FamilySame(q)  BY Zenon, <2>1, <3>1, <3>3 DEF Types, Good, Family, FamilySame
      <4> QED  BY Zenon, <2>1, <4>1, FamilyKept DEF Good
    <3> QED  BY Zenon, <3>2, <3>3
  <2>5. Waits(q)'
    <3>1. WaitsSame(q)  BY Zenon, <2>1 DEF reparent, Types, WaitsSame
    <3> QED  BY Zenon, <2>1, <3>1, WaitsKept DEF Good
  <2>6. Reparents(q)'
    <3> DEFINE c == idx[p]
               j == NextSlot(p, c)
    <3>1. /\ c \in Slots /\ parent[c] = p /\ p # initproc /\ pc[p] = "reparent"
          /\ \A k \in Slots : k < c => parent[k] # p
          /\ pc' = pc /\ idx' = [idx EXCEPT ![p] = j]
          /\ parent' = [parent EXCEPT ![c] = initproc]
      BY Zenon, <2>1 DEF reparent, Good, Reparents, Family
    <3>2. \A k \in Slots : parent'[k] = IF k = c THEN initproc ELSE parent[k]
      BY Zenon, <3>1 DEF Types
    <3>3. CASE q = p
      <4>1. /\ j \in (c + 1)..(NPROC + 1)
            /\ j \in Slots => parent[j] = p
            /\ \A k \in Slots : c < k /\ k < j => parent[k] # p
        BY Zenon, <1>1, <3>1 DEF Scanned
      <4>2. j > 0 /\ j # c /\ \A k \in Slots : k < c \/ k = c \/ c < k
        BY Zenon, <3>1, <4>1, Passed
      <4>3. idx'[p] = j  BY Zenon, <3>1 DEF Types
      <4> HIDE DEF c, j
      <4>4. \A k \in Slots : k < j => parent'[k] # p  BY Zenon, <3>1, <3>2, <4>1, <4>2
      <4>5. j \in Slots => parent'[j] = p  BY Zenon, <3>2, <4>1, <4>2
      <4> QED  BY Zenon, <3>3, <4>2, <4>3, <4>4, <4>5 DEF Reparents
    <3>4. CASE q # p
      <4>1. pc[q] = "reparent" => q # initproc  BY Zenon, <2>1 DEF Good, Family
      <4>2. ReparentsSame(q)
        BY Zenon, <3>1, <3>2, <3>4, <4>1 DEF Types, ReparentsSame
      <4> QED  BY Zenon, <2>1, <4>2, ReparentsKept DEF Good
    <3> QED  BY Zenon, <3>3, <3>4
  <2>7. Pids(q)'  BY Zenon, <2>1, Slot DEF reparent, Free, Types, Good, Scanned, Locks, Pids
  <2> QED  BY Zenon, <2>2, <2>3, <2>4, <2>5, <2>6, <2>7 DEF Good
<1> QED  BY Zenon, <1>2, <1>3

(* The loop of reparent() is over, so p has no child left.  Its parent is  *)
(* original_parent, whose lock p holds and which it wakes, or init.        *)
LEMMA ExitZombieInv ==
  ASSUME IInv, NEW p \in Slots, exit_zombie(p)
  PROVE  IInv'
<1> USE DEF IInv
<1>2. Types'  BY Zenon, Slot, PidAssumption DEF exit_zombie, wakeup1, Types, Scanned, States, PCs
<1>3. ASSUME NEW q \in Slots  PROVE Good(q)'
  <2>1. Good(p) /\ Good(q) /\ Good(initproc)  BY Zenon, Slot
  <2>2. Places(q)'
    <3>1. /\ pc[p] = "reparent" /\ pc' = [pc EXCEPT ![p] = "zombie"] /\ chan' = chan
          /\ state' = [state EXCEPT ![orig[p]] = wakeup1(orig[p]), ![p] = "ZOMBIE"]
      BY Zenon DEF exit_zombie
    <3>2. CASE q = p
      <4>1. pc'[q] = "zombie" /\ state'[q] = "ZOMBIE"  BY Zenon, <3>1, <3>2 DEF Types
      <4> QED  BY Zenon, <4>1 DEF Places
    <3>3. CASE q # p
      <4>1. /\ pc'[q] = pc[q] /\ chan'[q] = chan[q]
            /\ state'[q] = state[q] \/ state'[q] = wakeup1(q)
        BY Zenon, <3>1, <3>3 DEF Types
      <4> QED  BY ZenonT(60), <2>1, <4>1 DEF Good, Places, wakeup1
    <3> QED  BY Zenon, <3>2, <3>3
  <2>3. Locks(q)'  BY <2>1, Slot DEF exit_zombie, wakeup1, Types, Good, Places, Locks
  <2>4. Family(q)'
    <3>1. /\ \A k \in Slots : parent[k] # p
          /\ p # initproc /\ state[p] = "RUNNING" /\ orig[p] # p
      <4>1. \A k \in Slots : k < idx[p]
        <5>1. idx[p] \in 0..(NPROC + 1) /\ idx[p] \notin Slots /\ idx[p] > 0
          BY Zenon, <2>1 DEF exit_zombie, Types, Good, Reparents
        <5> QED  BY <5>1, NPROCAssumption DEF Slots
      <4> QED  BY Zenon, <2>1, <4>1 DEF exit_zombie, Good, Reparents, Family, Places, Locks
    <3>2. /\ \A k \in Slots : k # p => /\ state'[k] = "UNUSED" <=> state[k] = "UNUSED"
                                       /\ state'[k] = "ZOMBIE" <=> state[k] = "ZOMBIE"
          /\ parent' = parent /\ \A k \in Slots : k # p => pc'[k] = pc[k]
          /\ state'[p] = "ZOMBIE"
      BY Zenon DEF exit_zombie, wakeup1, Types
    <3> QED  BY Zenon, <2>1, <3>1, <3>2, Slot DEF Good, Family
  <2>5. Waits(q)'
    <3>1. /\ orig[p] \in Slots /\ orig[p] # p /\ lock[orig[p]] = p
          /\ orig[p] = parent[p] \/ parent[p] = initproc
      BY Zenon, <2>1 DEF exit_zombie, Good, Locks
    <3>2. /\ pc' = [pc EXCEPT ![p] = "zombie"] /\ idx' = [idx EXCEPT ![p] = 0]
          /\ parent' = parent
          /\ state' = [state EXCEPT ![orig[p]] = wakeup1(orig[p]), ![p] = "ZOMBIE"]
      BY Zenon DEF exit_zombie
    <3>3. \A k \in Slots : state'[k] = IF k = p THEN "ZOMBIE"
                                       ELSE IF k = orig[p] THEN wakeup1(k) ELSE state[k]
      BY Zenon, <3>1, <3>2 DEF Types
    <3>4. CASE q # initproc /\ parent[p] = q
      <4>1. q = orig[p] /\ q # p  BY Zenon, <3>1, <3>4
      <4>2. pc'[q] = pc[q] /\ pc[q] # "wait"
        BY Zenon, <2>1, <3>1, <3>2, <4>1 DEF Types, Good, Locks
      <4>3. pc[q] = "asleep" => chan[q] = q  BY Zenon, <2>1 DEF Good, Places
      <4>4. pc[q] = "asleep" => state'[q] # "SLEEPING"  BY Zenon, <3>3, <4>1, <4>3 DEF wakeup1
      <4> QED  BY Zenon, <4>2, <4>4 DEF Waits
    <3>5. CASE ~(q # initproc /\ parent[p] = q)
      <4>1. pc'[q] = IF q = p THEN "zombie" ELSE pc[q]  BY Zenon, <3>2 DEF Types
      <4>2. q # p => idx'[q] = idx[q]  BY Zenon, <3>2 DEF Types
      <4>3. \A k \in Slots : k # p => /\ state'[k] = "SLEEPING" => state[k] = "SLEEPING"
                                      /\ state'[k] = "ZOMBIE" => state[k] = "ZOMBIE"
        BY Zenon, <3>3 DEF wakeup1
      <4>4. \A k \in Slots : q # initproc /\ parent'[k] = q /\ state'[k] = "ZOMBIE" =>
                             parent[k] = q /\ state[k] = "ZOMBIE"
        BY Zenon, <3>2, <3>5, <4>3
      <4>5. q = p => pc'[q] = "zombie"  BY Zenon, <4>1
      <4>6. q # p => pc'[q] = pc[q]  BY Zenon, <4>1
      <4>7. WaitsSame(q)
        <5>1. CASE q = p  BY Zenon, <5>1, <4>4, <4>5 DEF WaitsSame
        <5>2. CASE q # p  BY Zenon, <5>2, <4>2, <4>3, <4>4, <4>6 DEF WaitsSame
        <5> QED  BY Zenon, <5>1, <5>2
      <4> QED  BY Zenon, <2>1, <4>7, WaitsKept DEF Good
    <3> QED  BY Zenon, <3>4, <3>5
  <2>6. Reparents(q)'
    <3>1. ReparentsSame(q)  BY Zenon, <2>1 DEF exit_zombie, wakeup1, Types, ReparentsSame
    <3> QED  BY Zenon, <2>1, <3>1, ReparentsKept DEF Good
  <2>7. Pids(q)'
    <3>1. \A k \in Slots : state'[k] = "UNUSED" <=> state[k] = "UNUSED"
      BY Zenon, <2>1 DEF exit_zombie, wakeup1, Types, Good, Places
    <3> QED  BY Zenon, <2>1, <3>1 DEF exit_zombie, Good, Pids
  <2> QED  BY Zenon, <2>2, <2>3, <2>4, <2>5, <2>6, <2>7 DEF Good
<1> QED  BY Zenon, <1>2, <1>3

-----------------------------------------------------------------------------
(* The initial state: init alone, ready to run.                            *)
LEMMA InitInv == Init => IInv
<1> SUFFICES ASSUME Init  PROVE IInv
  BY Zenon
<1> USE DEF Init
<1>1. Types  BY Slot, PidAssumption DEF Types, States, PCs
<1>2. ASSUME NEW p \in Slots  PROVE Good(p)
  <2>1. Places(p) /\ Locks(p)  BY Zenon DEF Places, Locks
  <2>2. Family(p)  BY Zenon, Slot DEF Family
  <2>3. Waits(p) /\ Reparents(p)  BY Zenon DEF Waits, Reparents
  <2>4. Pids(p)  BY DEF Pids
  <2> QED  BY Zenon, <2>1, <2>2, <2>3, <2>4 DEF Good
<1> QED  BY Zenon, <1>1, <1>2 DEF IInv

(* Every step keeps the inductive invariant.                               *)
LEMMA NextInv == IInv /\ [Next]_vars => IInv'
<1> SUFFICES ASSUME IInv, [Next]_vars  PROVE IInv'
  BY Zenon
<1>1. ASSUME NEW p \in Slots, Call(p)  PROVE IInv'
  BY Zenon, <1>1, ForkInv, ForkNoTrapframeInv, ForkNoMemoryInv, KillInv, WaitInv, ExitInv DEF Call
<1>2. ASSUME NEW p \in Slots, Kernel(p)  PROVE IInv'
  BY Zenon, <1>2, SchedulerForkretInv, SchedulerWaitInv, SchedulerReleaseInv, WaitSkipInv,
     WaitKidInv,
     WaitReapInv, WaitBadAddrInv, WaitNoneInv, WaitSleepInv, ExitParentInv, ExitLockParentInv,
     ExitLockSelfInv, ReparentInv, ExitZombieInv DEF Kernel
<1>3. ASSUME UNCHANGED vars  PROVE IInv'
  <2>1. Types'  BY Zenon, <1>3 DEF IInv, Types, vars, local
  <2>2. ASSUME NEW p \in Slots  PROVE Good(p)'
    BY <1>3 DEF IInv, Good, Places, Locks, Family, Waits, Reparents, Pids, vars, local
  <2> QED  BY Zenon, <2>1, <2>2 DEF IInv
<1> QED  BY Zenon, <1>1, <1>2, <1>3 DEF Next

(* The inductive invariant holds.                                          *)
THEOREM Inductive == Spec => []IInv
BY InitInv, NextInv, PTL DEF Spec

(* The parent of every process is alive, for any number of processes: an   *)
(* exiting process gives every child away before it turns ZOMBIE (exit(),  *)
(* reparent()).                                                            *)
THEOREM ParentAliveCorrect == Spec => []ParentAlive
<1>1. IInv => ParentAlive
  <2> SUFFICES ASSUME IInv  PROVE ParentAlive
    BY Zenon
  <2>1. \A p \in Slots : Family(p) /\ Pids(p)  BY Zenon DEF IInv, Good
  <2>2. TypeOK  BY Zenon, <2>1 DEF IInv, Types, TypeOK, Pids
  <2>3. \A p \in Slots \ {initproc} : state[p] # "UNUSED" =>
          parent[p] \in Slots /\ state[parent[p]] \notin {"UNUSED", "ZOMBIE"}
    BY Zenon, <2>1 DEF Family
  <2> QED  BY Zenon, <2>2, <2>3 DEF ParentAlive
<1> QED  BY <1>1, Inductive, PTL

(* "hold p->lock for the whole time to avoid lost wakeups from a child's   *)
(* exit()": no process but init sleeps in wait() with a child that has     *)
(* exited, for any number of processes (proc.c:404).                       *)
THEOREM NoMissedExitCorrect == Spec => []NoMissedExit
<1>1. IInv => NoMissedExit
  BY Zenon DEF IInv, Good, Waits, NoMissedExit
<1> QED  BY <1>1, Inductive, PTL

-----------------------------------------------------------------------------
(* The slots that freeproc() has reset carry no kill().                    *)
Clean == \A q \in Slots : state[q] = "UNUSED" /\ pid[q] = 0 => ~killed[q]

(* How a slot is freed, and taken again.                                   *)
Reuse(q) ==
  /\ state[q] = "ZOMBIE" /\ state'[q] # "ZOMBIE" =>
       /\ state'[q] = "UNUSED" /\ pc[q] = "dead" /\ lock[q] = None
       /\ pc[parent[q]] = "wait" /\ lock[parent[q]] = parent[q]
  /\ state[q] = "UNUSED" /\ pid[q] = 0 /\ state'[q] = "RUNNABLE" => ~killed'[q]

(* Calls keep the reset slots clean: kill() of a pid other than 0 finds a  *)
(* slot that has been given a pid.                                         *)
LEMMA CallReuse ==
  ASSUME 0 \notin KillPids, IInv, Clean, NEW p \in Slots, Call(p)
  PROVE  Clean' /\ \A q \in Slots : Reuse(q)
<1> USE DEF IInv
<1>1. ASSUME NEW np \in Slots, fork(p, np)  PROVE Clean' /\ \A q \in Slots : Reuse(q)
  BY Zenon, <1>1 DEF fork, Types, Clean, Reuse
<1>2. ASSUME NEW np \in Slots, fork_no_trapframe(p, np)
      PROVE  Clean' /\ \A q \in Slots : Reuse(q)
  BY <1>2 DEF fork_no_trapframe, Types, Clean, Reuse
<1>3. ASSUME NEW np \in Slots, fork_no_memory(p, np)
      PROVE  Clean' /\ \A q \in Slots : Reuse(q)
  BY Zenon, <1>3 DEF fork_no_memory, freed, Types, Clean, Reuse
<1>4. ASSUME NEW k \in KillPids, kill(p, k)  PROVE Clean' /\ \A q \in Slots : Reuse(q)
  BY <1>4 DEF kill, Types, Clean, Reuse
<1>5. ASSUME wait(p)  PROVE Clean' /\ \A q \in Slots : Reuse(q)
  BY Zenon, <1>5 DEF wait, Types, Clean, Reuse
<1>6. ASSUME exit(p)  PROVE Clean' /\ \A q \in Slots : Reuse(q)
  BY Zenon, <1>6, Slot DEF exit, wakeup1, Types, Clean, Reuse
<1> QED  BY Zenon, <1>1, <1>2, <1>3, <1>4, <1>5, <1>6 DEF Call

(* In the kernel only wait() frees a slot: a zombie whose lock is free has *)
(* left its stack.                                                         *)
LEMMA KernelReuse ==
  ASSUME IInv, Clean, NEW p \in Slots, Kernel(p)
  PROVE  Clean' /\ \A q \in Slots : Reuse(q)
<1> USE DEF IInv
<1>1. \A q \in Slots : Places(q) /\ Locks(q)  BY Zenon DEF Good
<1>2. CASE wait_reap(p)
  <2>1. PICK z \in Slots : z = idx[p]  BY Zenon, <1>2 DEF wait_reap
  <2>2. /\ pc[p] = "wait" /\ parent[z] = p /\ lock[z] = None /\ state[z] = "ZOMBIE"
        /\ pid' = [pid EXCEPT ![z] = 0] /\ killed' = [killed EXCEPT ![z] = FALSE]
        /\ state' = [state EXCEPT ![z] = "UNUSED"]
    BY Zenon, <1>2, <2>1 DEF wait_reap, freed, Free
  <2>3. pc[z] = "dead" /\ lock[p] = p
    BY Zenon, <1>1, <2>2, Slot DEF Places, Locks
  <2> QED  BY Zenon, <2>2, <2>3 DEF Types, Clean, Reuse
<1>3. CASE scheduler_forkret(p) \/ scheduler_wait(p)
  BY <1>3 DEF scheduler_forkret, scheduler_wait, Types, Clean, Reuse
<1>4. CASE wait_sleep(p)
  <2>1. state[p] = "RUNNING"  BY Zenon, <1>1, <1>4 DEF wait_sleep, Places
  <2> QED  BY Zenon, <1>4, <2>1 DEF wait_sleep, Types, Clean, Reuse
<1>5. CASE exit_zombie(p)
  <2>1. state[p] = "RUNNING" /\ orig[p] \in Slots
    BY Zenon, <1>1, <1>5 DEF exit_zombie, Places, Locks
  <2> QED  BY Zenon, <1>5, <2>1 DEF exit_zombie, wakeup1, Types, Clean, Reuse
<1>6. CASE UNCHANGED <<state, pid, killed>>
  BY Zenon, <1>6 DEF Clean, Reuse
<1> QED
  BY Zenon, <1>2, <1>3, <1>4, <1>5, <1>6
  DEF Kernel, scheduler_release, wait_skip, wait_kid, wait_bad_addr, wait_none, exit_parent,
      exit_lock_parent, exit_lock_self, reparent

(* A child is freed by its parent alone, while no CPU is on its kernel     *)
(* stack and no process holds its lock, and whoever gets a slot from       *)
(* freeproc() has not been killed, for any number of processes (wait(),    *)
(* freeproc(), allocproc()).  No process has the pid 0, which UNUSED slots *)
(* have: a kill() of it would mark one of them.                            *)
THEOREM CleanReuseCorrect ==
  ASSUME 0 \notin KillPids
  PROVE  Spec => CleanReuse
<1>1. Init => Clean  BY Zenon DEF Init, Clean
<1>2. IInv /\ Clean /\ [Next]_vars => Clean'
  <2> SUFFICES ASSUME IInv, Clean, [Next]_vars  PROVE Clean'
    BY Zenon
  <2>1. CASE UNCHANGED vars  BY Zenon, <2>1 DEF vars, Clean
  <2> QED  BY Zenon, <2>1, CallReuse, KernelReuse DEF Next
<1>3. IInv /\ Clean /\ [Next]_vars =>
        [\A q \in Slots :
           /\ state[q] = "ZOMBIE" /\ state'[q] # "ZOMBIE" =>
                /\ state'[q] = "UNUSED" /\ pc[q] = "dead" /\ lock[q] = None
                /\ pc[parent[q]] = "wait" /\ lock[parent[q]] = parent[q]
           /\ state[q] = "UNUSED" /\ pid[q] = 0 /\ state'[q] = "RUNNABLE" =>
                ~killed'[q]]_vars
  <2> SUFFICES ASSUME IInv, Clean, Next  PROVE \A q \in Slots : Reuse(q)
    BY Zenon DEF Reuse
  <2> QED  BY Zenon, CallReuse, KernelReuse DEF Next
<1> QED  BY <1>1, <1>2, <1>3, Inductive, PTL DEF Spec, CleanReuse
=============================================================================
