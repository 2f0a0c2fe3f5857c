-------------------------------- MODULE Proc --------------------------------
(***************************************************************************)
(* kernel/proc.c: the life of a process, from fork to the wait that frees  *)
(* it, with the lock of every process-table slot.                          *)
(*                                                                         *)
(* A code section that holds one p->lock and acquires no other is one      *)
(* action, enabled while that lock is free.  exit() and wait() hold        *)
(* several at a time: there every acquire is an action.  A lock that is    *)
(* held across actions is in "lock".                                       *)
(***************************************************************************)
EXTENDS Integers, FiniteSets

CONSTANTS NPROC,     \* slots of the process table
          MaxPid,    \* bound: the last pid that allocpid hands out
          KillPids,  \* arguments of kill() that are tried
          Failures   \* what can fail: "trapframe", "memory", "copyout"

ASSUME NPROCAssumption == NPROC \in Nat \ {0}
ASSUME PidAssumption == MaxPid \in Nat \ {0} /\ KillPids \subseteq Nat

Slots == 1..NPROC
initproc == 1        \* userinit() takes the first slot
None == 0            \* no process, a null pointer

VARIABLES
  state,    \* p->state
  parent,   \* p->parent
  chan,     \* p->chan: a process sleeping in wait() sleeps on itself
  killed,   \* p->killed
  pid,      \* p->pid
  lock,     \* the process that holds p->lock between actions
  nextpid,
  pc,       \* where the process is
  idx,      \* the slot that a loop over proc[] has come to
  kids,     \* havekids, in wait()
  orig      \* original_parent, in exit()

vars == <<state, parent, chan, killed, pid, lock, nextpid, pc, idx, kids, orig>>
local == <<idx, kids, orig>>

States == {"UNUSED", "SLEEPING", "RUNNABLE", "RUNNING", "ZOMBIE"}

PCs == {"none", "forkret", "user", "wait", "asleep", "exit_parent",
        "exit_lock_parent", "exit_lock_self", "reparent", "zombie", "dead"}

Free(i) == lock[i] = None

(* The loops of wait() and reparent() go through proc[] and stop at the    *)
(* children of p; they read pp->parent without a lock.  Only p itself      *)
(* changes which processes are its children, by fork and wait, so that the *)
(* slots between two children can be passed in one step.  Init also gets   *)
(* children from others: its loop goes slot by slot.                       *)
NextSlot(p, i) ==
  IF p = initproc THEN i + 1
  ELSE CHOOSE j \in (i + 1)..(NPROC + 1) :
         /\ j = NPROC + 1 \/ parent[j] = p
         /\ \A k \in (i + 1)..(j - 1) : parent[k] # p

(* After userinit(): one process, ready to run.                            *)
Init ==
  /\ state = [p \in Slots |-> IF p = initproc THEN "RUNNABLE" ELSE "UNUSED"]
  /\ parent = [p \in Slots |-> None]
  /\ chan = [p \in Slots |-> None]
  /\ killed = [p \in Slots |-> FALSE]
  /\ pid = [p \in Slots |-> IF p = initproc THEN 1 ELSE 0]
  /\ lock = [p \in Slots |-> None]
  /\ nextpid = 2
  /\ pc = [p \in Slots |-> IF p = initproc THEN "forkret" ELSE "none"]
  /\ idx = [p \in Slots |-> 0]
  /\ kids = [p \in Slots |-> FALSE]
  /\ orig = [p \in Slots |-> None]

-----------------------------------------------------------------------------
(* A process in user space enters the kernel; usertrap() sends a killed    *)
(* one to exit().                                                          *)
MayCall(p) == pc[p] = "user" /\ ~killed[p]

(* fork(): allocproc() finds an UNUSED slot np and locks it; the lock is   *)
(* released when the child is RUNNABLE.  Which of several UNUSED slots it  *)
(* is depends on what was free when the scan passed.                       *)
fork(p, np) ==
  /\ MayCall(p) /\ nextpid <= MaxPid
  /\ state[np] = "UNUSED" /\ Free(np)
  /\ pid' = [pid EXCEPT ![np] = nextpid]
  /\ nextpid' = nextpid + 1
  /\ parent' = [parent EXCEPT ![np] = p]
  /\ state' = [state EXCEPT ![np] = "RUNNABLE"]
  /\ pc' = [pc EXCEPT ![np] = "forkret"]
  /\ UNCHANGED <<chan, killed, lock, local>>

(* allocproc() without memory for the trapframe: the slot stays UNUSED and *)
(* keeps the pid.                                                          *)
fork_no_trapframe(p, np) ==
  /\ "trapframe" \in Failures
  /\ MayCall(p) /\ nextpid <= MaxPid
  /\ state[np] = "UNUSED" /\ Free(np)
  /\ pid' = [pid EXCEPT ![np] = nextpid]
  /\ nextpid' = nextpid + 1
  /\ UNCHANGED <<state, parent, chan, killed, lock, pc, local>>

(* freeproc() resets the slot.                                             *)
freed(np) ==
  /\ pid' = [pid EXCEPT ![np] = 0]
  /\ parent' = [parent EXCEPT ![np] = None]
  /\ chan' = [chan EXCEPT ![np] = None]
  /\ killed' = [killed EXCEPT ![np] = FALSE]
  /\ state' = [state EXCEPT ![np] = "UNUSED"]

(* proc_pagetable() or uvmcopy() fails: freeproc() undoes allocproc().     *)
fork_no_memory(p, np) ==
  /\ "memory" \in Failures
  /\ MayCall(p) /\ nextpid <= MaxPid
  /\ state[np] = "UNUSED" /\ Free(np)
  /\ nextpid' = nextpid + 1
  /\ freed(np)
  /\ UNCHANGED <<lock, pc, local>>

(* Mutant: the victim is left asleep.                                      *)
kill_asleep(p, k) ==
  /\ MayCall(p)
  /\ \E q \in Slots :
       /\ pid[q] = k /\ \A r \in 1..(q-1) : pid[r] # k
       /\ Free(q)
       /\ killed' = [killed EXCEPT ![q] = TRUE]
       /\ UNCHANGED state
  /\ UNCHANGED <<parent, chan, pid, lock, nextpid, pc, local>>

(* kill(k): the first slot with that pid, whatever its state.              *)
kill(p, k) ==
  /\ MayCall(p)
  /\ \E q \in Slots :
       /\ pid[q] = k /\ \A r \in 1..(q-1) : pid[r] # k
       /\ Free(q)
       /\ killed' = [killed EXCEPT ![q] = TRUE]
       /\ state' = IF state[q] = "SLEEPING"
                     THEN [state EXCEPT ![q] = "RUNNABLE"] ELSE state
  /\ UNCHANGED <<parent, chan, pid, lock, nextpid, pc, local>>

-----------------------------------------------------------------------------
(* scheduler() takes p->lock and switches to a RUNNABLE process: a new one *)
(* goes to forkret(), which releases the lock; one that slept in wait()    *)
(* tidies up and scans again, with the lock.                               *)
scheduler_forkret(p) ==
  /\ pc[p] = "forkret" /\ state[p] = "RUNNABLE" /\ Free(p)
  /\ state' = [state EXCEPT ![p] = "RUNNING"]
  /\ pc' = [pc EXCEPT ![p] = "user"]
  /\ UNCHANGED <<parent, chan, killed, pid, lock, nextpid, local>>

scheduler_wait(p) ==
  /\ pc[p] = "asleep" /\ state[p] = "RUNNABLE" /\ Free(p)
  /\ state' = [state EXCEPT ![p] = "RUNNING"]
  /\ lock' = [lock EXCEPT ![p] = p]
  /\ chan' = [chan EXCEPT ![p] = None]
  /\ pc' = [pc EXCEPT ![p] = "wait"]
  /\ idx' = [idx EXCEPT ![p] = NextSlot(p, 0)]
  /\ kids' = [kids EXCEPT ![p] = FALSE]
  /\ UNCHANGED <<parent, killed, pid, nextpid, orig>>

(* swtch() away from an exited process; the scheduler releases its lock.   *)
scheduler_release(p) ==
  /\ pc[p] = "zombie"
  /\ lock' = [lock EXCEPT ![p] = None]
  /\ pc' = [pc EXCEPT ![p] = "dead"]
  /\ UNCHANGED <<state, parent, chan, killed, pid, nextpid, local>>

-----------------------------------------------------------------------------
(* wait(): p->lock is held from here to the return or to the sleep.        *)
wait(p) ==
  /\ MayCall(p) /\ Free(p)
  /\ lock' = [lock EXCEPT ![p] = p]
  /\ pc' = [pc EXCEPT ![p] = "wait"]
  /\ idx' = [idx EXCEPT ![p] = NextSlot(p, 0)]
  /\ kids' = [kids EXCEPT ![p] = FALSE]
  /\ UNCHANGED <<state, parent, chan, killed, pid, nextpid, orig>>

(* One turn of the loop.                                                   *)
wait_skip(p) ==
  /\ pc[p] = "wait" /\ idx[p] \in Slots
  /\ parent[idx[p]] # p
  /\ idx' = [idx EXCEPT ![p] = NextSlot(p, @)]
  /\ UNCHANGED <<state, parent, chan, killed, pid, lock, nextpid, pc, kids, orig>>

wait_kid(p) ==
  /\ pc[p] = "wait" /\ idx[p] \in Slots
  /\ parent[idx[p]] = p /\ Free(idx[p])
  /\ state[idx[p]] # "ZOMBIE"
  /\ kids' = [kids EXCEPT ![p] = TRUE]
  /\ idx' = [idx EXCEPT ![p] = NextSlot(p, @)]
  /\ UNCHANGED <<state, parent, chan, killed, pid, lock, nextpid, pc, orig>>

(* wait() leaves with p->lock released.                                    *)
wait_return(p) ==
  /\ lock' = [lock EXCEPT ![p] = None]
  /\ idx' = [idx EXCEPT ![p] = 0]
  /\ kids' = [kids EXCEPT ![p] = FALSE]

(* Mutant: the child is freed without its lock.                            *)
wait_reap_unlocked(p) ==
  /\ pc[p] = "wait" /\ idx[p] \in Slots
  /\ parent[idx[p]] = p
  /\ state[idx[p]] = "ZOMBIE"
  /\ freed(idx[p])
  /\ wait_return(p)
  /\ pc' = [pc EXCEPT ![p] = "user", ![idx[p]] = "none"]
  /\ UNCHANGED <<nextpid, orig>>

wait_reap(p) ==
  /\ pc[p] = "wait" /\ idx[p] \in Slots
  /\ parent[idx[p]] = p /\ Free(idx[p])
  /\ state[idx[p]] = "ZOMBIE"
  /\ freed(idx[p])
  /\ wait_return(p)
  /\ pc' = [pc EXCEPT ![p] = "user", ![idx[p]] = "none"]
  /\ UNCHANGED <<nextpid, orig>>

(* The status does not fit in the caller's memory: the zombie stays.       *)
wait_bad_addr(p) ==
  /\ "copyout" \in Failures
  /\ pc[p] = "wait" /\ idx[p] \in Slots
  /\ parent[idx[p]] = p /\ Free(idx[p])
  /\ state[idx[p]] = "ZOMBIE"
  /\ wait_return(p)
  /\ pc' = [pc EXCEPT ![p] = "user"]
  /\ UNCHANGED <<state, parent, chan, killed, pid, nextpid, orig>>

wait_none(p) ==
  /\ pc[p] = "wait" /\ idx[p] \notin Slots
  /\ ~kids[p] \/ killed[p]
  /\ wait_return(p)
  /\ pc' = [pc EXCEPT ![p] = "user"]
  /\ UNCHANGED <<state, parent, chan, killed, pid, nextpid, orig>>

(* sleep(p, &p->lock): the scheduler releases p->lock after the switch.    *)
wait_sleep(p) ==
  /\ pc[p] = "wait" /\ idx[p] \notin Slots
  /\ kids[p] /\ ~killed[p]
  /\ chan' = [chan EXCEPT ![p] = p]
  /\ state' = [state EXCEPT ![p] = "SLEEPING"]
  /\ wait_return(p)
  /\ pc' = [pc EXCEPT ![p] = "asleep"]
  /\ UNCHANGED <<parent, killed, pid, nextpid, orig>>

-----------------------------------------------------------------------------
(* wakeup1(q), for a process q in wait(); the caller holds q->lock.        *)
wakeup1(q) ==
  IF chan[q] = q /\ state[q] = "SLEEPING" THEN "RUNNABLE" ELSE state[q]

(* exit(), by choice or sent there by usertrap() because it is killed:     *)
(* init is woken before any other lock is taken.                           *)
exit(p) ==
  /\ pc[p] = "user" /\ p # initproc
  /\ Free(initproc)
  /\ state' = [state EXCEPT ![initproc] = wakeup1(initproc)]
  /\ pc' = [pc EXCEPT ![p] = "exit_parent"]
  /\ UNCHANGED <<parent, chan, killed, pid, lock, nextpid, local>>

(* Mutant: p->lock is kept while the parent's is acquired.                 *)
exit_parent_locked(p) ==
  /\ pc[p] = "exit_parent" /\ Free(p)
  /\ lock' = [lock EXCEPT ![p] = p]
  /\ orig' = [orig EXCEPT ![p] = parent[p]]
  /\ pc' = [pc EXCEPT ![p] = "exit_lock_parent"]
  /\ UNCHANGED <<state, parent, chan, killed, pid, nextpid, idx, kids>>

exit_parent(p) ==
  /\ pc[p] = "exit_parent" /\ Free(p)
  /\ orig' = [orig EXCEPT ![p] = parent[p]]
  /\ pc' = [pc EXCEPT ![p] = "exit_lock_parent"]
  /\ UNCHANGED <<state, parent, chan, killed, pid, lock, nextpid, idx, kids>>

exit_lock_parent(p) ==
  /\ pc[p] = "exit_lock_parent" /\ Free(orig[p])
  /\ lock' = [lock EXCEPT ![orig[p]] = p]
  /\ pc' = [pc EXCEPT ![p] = "exit_lock_self"]
  /\ UNCHANGED <<state, parent, chan, killed, pid, nextpid, local>>

(* Mutant: reparent() is not called.                                       *)
exit_lock_self_keep(p) ==
  /\ pc[p] = "exit_lock_self" /\ Free(p)
  /\ lock' = [lock EXCEPT ![p] = p]
  /\ pc' = [pc EXCEPT ![p] = "reparent"]
  /\ idx' = [idx EXCEPT ![p] = NPROC + 1]
  /\ UNCHANGED <<state, parent, chan, killed, pid, nextpid, kids, orig>>

exit_lock_self(p) ==
  /\ pc[p] = "exit_lock_self" /\ Free(p)
  /\ lock' = [lock EXCEPT ![p] = p]
  /\ pc' = [pc EXCEPT ![p] = "reparent"]
  /\ idx' = [idx EXCEPT ![p] = NextSlot(p, 0)]
  /\ UNCHANGED <<state, parent, chan, killed, pid, nextpid, kids, orig>>

(* reparent(p): one turn of the loop.                                      *)
reparent(p) ==
  /\ pc[p] = "reparent" /\ idx[p] \in Slots
  /\ Free(idx[p])
  /\ parent' = [parent EXCEPT ![idx[p]] = initproc]
  /\ idx' = [idx EXCEPT ![p] = NextSlot(p, @)]
  /\ UNCHANGED <<state, chan, killed, pid, lock, nextpid, pc, kids, orig>>

(* Mutant: the parent is not woken.                                        *)
exit_zombie_silent(p) ==
  /\ pc[p] = "reparent" /\ idx[p] \notin Slots
  /\ state' = [state EXCEPT ![p] = "ZOMBIE"]
  /\ lock' = [lock EXCEPT ![orig[p]] = None]
  /\ pc' = [pc EXCEPT ![p] = "zombie"]
  /\ idx' = [idx EXCEPT ![p] = 0]
  /\ orig' = [orig EXCEPT ![p] = None]
  /\ UNCHANGED <<parent, chan, killed, pid, nextpid, kids>>

(* wakeup1(original_parent); the child turns ZOMBIE and releases the       *)
(* parent, then goes to the scheduler with its own lock.                   *)
exit_zombie(p) ==
  /\ pc[p] = "reparent" /\ idx[p] \notin Slots
  /\ state' = [state EXCEPT ![orig[p]] = wakeup1(orig[p]), ![p] = "ZOMBIE"]
  /\ lock' = [lock EXCEPT ![orig[p]] = None]
  /\ pc' = [pc EXCEPT ![p] = "zombie"]
  /\ idx' = [idx EXCEPT ![p] = 0]
  /\ orig' = [orig EXCEPT ![p] = None]
  /\ UNCHANGED <<parent, chan, killed, pid, nextpid, kids>>

Call(p) ==
  \/ \E np \in Slots : \/ fork(p, np) \/ fork_no_trapframe(p, np)
                       \/ fork_no_memory(p, np)
  \/ \E k \in KillPids : kill(p, k)
  \/ wait(p)
  \/ exit(p)

(* What a process does once it is in the kernel.                           *)
Kernel(p) ==
  \/ scheduler_forkret(p) \/ scheduler_wait(p) \/ scheduler_release(p)
  \/ wait_skip(p) \/ wait_kid(p) \/ wait_reap(p)
  \/ wait_bad_addr(p) \/ wait_none(p) \/ wait_sleep(p)
  \/ exit_parent(p) \/ exit_lock_parent(p) \/ exit_lock_self(p)
  \/ reparent(p) \/ exit_zombie(p)

Next == \E p \in Slots : Call(p) \/ Kernel(p)

Spec == Init /\ [][Next]_vars

(* Every process in the kernel goes on: each has a CPU, and acquire(),     *)
(* which spins on an atomic swap, gets a lock that is free again and       *)
(* again.  A killed process exits, and init calls wait() for ever          *)
(* (user/init.c).                                                          *)
Fairness ==
  /\ \A p \in Slots : /\ SF_vars(Kernel(p))
                      /\ SF_vars(killed[p] /\ exit(p))
  /\ SF_vars(wait(initproc))

LiveSpec == Spec /\ Fairness

-----------------------------------------------------------------------------
(* Types; the loops over the table stay within it (reparent, wait).        *)
TypeOK ==
  /\ state \in [Slots -> States]
  /\ parent \in [Slots -> Slots \cup {None}]
  /\ chan \in [Slots -> Slots \cup {None}]
  /\ killed \in [Slots -> BOOLEAN]
  /\ pid \in [Slots -> 0..MaxPid]
  /\ lock \in [Slots -> Slots \cup {None}]
  /\ nextpid \in 2..(MaxPid + 1)
  /\ pc \in [Slots -> PCs]
  /\ idx \in [Slots -> 0..(NPROC + 1)]
  /\ kids \in [Slots -> BOOLEAN]
  /\ orig \in [Slots -> Slots \cup {None}]
  /\ \A p, q \in Slots : p # q /\ state[p] # "UNUSED" /\ state[q] # "UNUSED"
                         => pid[p] # pid[q] /\ pid[p] > 0

(* The parent of every process is alive: it can still call wait().  An     *)
(* exiting process gives every child away before it turns ZOMBIE, although *)
(* its loop reads pp->parent without a lock (proc.c:310-326).              *)
ParentAlive ==
  TypeOK /\ \A p \in Slots \ {initproc} : state[p] # "UNUSED" =>
    parent[p] \in Slots /\ state[parent[p]] \notin {"UNUSED", "ZOMBIE"}

(* "hold p->lock for the whole time to avoid lost wakeups from a child's   *)
(* exit()": a process other than init never sleeps in wait() with a child  *)
(* that has exited (proc.c:404, 380-386).                                  *)
NoMissedExit ==
  \A p, q \in Slots :
    /\ p # initproc /\ pc[p] = "asleep" /\ state[p] = "SLEEPING"
    /\ parent[q] = p
    => state[q] # "ZOMBIE"

(* The lock that a process is about to acquire, None if there is none.     *)
Wants(p) ==
  CASE pc[p] \in {"exit_parent", "exit_lock_self"} -> p
    [] pc[p] = "exit_lock_parent" -> orig[p]
    [] pc[p] \in {"reparent", "wait"} /\ idx[p] \in Slots ->
         IF parent[idx[p]] = p THEN idx[p] ELSE None
    [] OTHER -> None

(* Processes never wait for one another's p->lock in a circle, what the    *)
(* "parent-then-child rule" of proc.c:374 is for.                          *)
NoLockCycle ==
  \A S \in SUBSET Slots \ {{}} :
    \E p \in S : Wants(p) = None \/ lock[Wants(p)] \notin S

(* A child is freed by its parent alone, once, while no CPU is on its      *)
(* kernel stack any more and no process holds its lock (proc.c:418-430),   *)
(* and whoever gets the slot from freeproc() has not been killed.  (A      *)
(* failed allocproc() leaves its pid in the UNUSED slot, and a kill() of   *)
(* it marks the next process there.)                                       *)
CleanReuse ==
  [][\A q \in Slots :
       /\ state[q] = "ZOMBIE" /\ state'[q] # "ZOMBIE" =>
            /\ state'[q] = "UNUSED" /\ pc[q] = "dead" /\ lock[q] = None
            /\ pc[parent[q]] = "wait" /\ lock[parent[q]] = parent[q]
       /\ state[q] = "UNUSED" /\ pid[q] = 0 /\ state'[q] = "RUNNABLE" =>
            ~killed'[q]]_vars

(* A killed process exits, wherever the kill finds it.                     *)
KilledExits ==
  \A p \in Slots \ {initproc} :
    killed[p] /\ state[p] # "UNUSED" ~> state[p] \in {"ZOMBIE", "UNUSED"}
=============================================================================
