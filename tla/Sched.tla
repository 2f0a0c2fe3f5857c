-------------------------------- MODULE Sched --------------------------------
(***************************************************************************)
(* Harts, spin locks, interrupts and context switches: kernel/spinlock.c,  *)
(* scheduler(), sched(), yield() and sleep() of kernel/proc.c, the trap    *)
(* handlers of kernel/trap.c, and sys_sleep() as the kernel code they run. *)
(* A thread is a process or a hart's scheduler.  An interrupt handler runs *)
(* on the stack of the thread it interrupts, and moves to another hart     *)
(* with it.  acquire() is two steps, push_off() and the atomic swap, but   *)
(* one in scheduler(), whose thread shares nothing with its handler.       *)
(***************************************************************************)
EXTENDS Integers

CONSTANTS
  Cpus, Cpu0,      \* harts; the one that counts ticks
  Procs, None,
  NextProc(_),     \* the order of the process table; None comes after the last
  FirstProc,
  MaxLate,         \* ticks after which a sleeper's lateness is no longer counted
  Naps,            \* arguments of sleep()
  Victims          \* processes that may be killed

ASSUME SchedAssumption ==
  /\ Cpu0 \in Cpus /\ FirstProc \in Procs
  /\ Cpus \cap Procs = {} /\ None \notin Cpus \cup Procs
  /\ \A p \in Procs : NextProc(p) \in Procs \cup {None}
  /\ MaxLate \in Nat /\ Naps \subseteq 1..MaxLate

Threads == Cpus \cup Procs

VARIABLES
  cpu,        \* struct cpu: noff, intena; and the interrupt enable bit of the hart
  on,         \* the thread a hart runs
  tickslock, plock,      \* the hart that holds tickslock, p->lock
  state, killed,         \* p->state, p->killed
  pc,         \* where a thread is
  trap,       \* where the interrupt handler on a thread's stack is
  intena,     \* the local variable of sched()
  nxt,        \* the process a scheduler looks at
  todo,       \* processes wakeup(&ticks) has yet to look at
  elapsed, n  \* ticks - ticks0 and n of sys_sleep()

vars == <<cpu, on, tickslock, plock, state, killed, pc, trap, intena, nxt, todo, elapsed, n>>
sleepvars == <<elapsed, n>>

Init ==
  /\ cpu = [c \in Cpus |-> [noff |-> 0, intena |-> FALSE, ie |-> TRUE]]
  /\ on = [c \in Cpus |-> c]
  /\ tickslock = None /\ plock = [p \in Procs |-> None]
  /\ state = [p \in Procs |-> "RUNNABLE"] /\ killed = [p \in Procs |-> FALSE]
  /\ pc = [t \in Threads |-> IF t \in Cpus THEN "scan" ELSE "forkret"]
  /\ trap = [t \in Threads |-> "none"]
  /\ intena = [p \in Procs |-> FALSE]
  /\ nxt = [c \in Cpus |-> FirstProc]
  /\ todo = {}
  /\ elapsed = [p \in Procs |-> 0] /\ n = [p \in Procs |-> 0]

(***************************************************************************)
(* push_off(), pop_off()                                                   *)
(***************************************************************************)
push_off(k) ==
  [noff |-> k.noff + 1, ie |-> FALSE, intena |-> IF k.noff = 0 THEN k.ie ELSE k.intena]

pop_off(k) == [k EXCEPT !.noff = @ - 1, !.ie = (k.noff = 1 /\ k.intena) \/ k.ie]

Cpu(c, k) == cpu' = [cpu EXCEPT ![c] = k]
Go(t, s) == pc' = [pc EXCEPT ![t] = s]
Trap(t, s) == trap' = [trap EXCEPT ![t] = s]

\* Thread t runs on hart c, at s, and no interrupt handler is on its stack
At(c, t, s) == on[c] = t /\ pc[t] = s /\ trap[t] = "none"
\* The interrupt handler on the stack of t is at s
In(c, t, s) == on[c] = t /\ trap[t] = s

\* The first half of an acquire(), in the thread's code or in its interrupt handler
Push == [sys |-> "sys_spin", re_acq |-> "re_spin",
         exit |-> "exit_spin"]
TrapPush == [clk |-> "clk_spin", yield |-> "yield_spin"]

acquire_push(c, t) ==
  /\ \/ /\ trap[t] = "none" /\ pc[t] \in {"sys", "re_acq", "exit"}
        /\ Go(t, Push[pc[t]]) /\ UNCHANGED trap
     \/ /\ trap[t] \in DOMAIN TrapPush
        /\ Trap(t, TrapPush[trap[t]]) /\ UNCHANGED pc
  /\ on[c] = t
  /\ Cpu(c, push_off(cpu[c]))
  /\ UNCHANGED <<on, tickslock, plock, state, killed, intena, nxt, todo, sleepvars>>

(***************************************************************************)
(* scheduler(), sched()                                                    *)
(***************************************************************************)
Advance(c) == nxt' = [nxt EXCEPT ![c] = IF NextProc(nxt[c]) = None THEN FirstProc ELSE NextProc(nxt[c])]

\* The process is not runnable: release p->lock, and enable interrupts at the end of the scan
scheduler_skip(c) ==
  LET p == nxt[c]
  IN  /\ At(c, c, "scan") /\ plock[p] = None /\ state[p] # "RUNNABLE"
      /\ Cpu(c, [pop_off(push_off(cpu[c])) EXCEPT !.ie = @ \/ NextProc(p) = None])
      /\ Go(c, "scan") /\ Advance(c)
      /\ UNCHANGED <<on, tickslock, plock, state, killed, trap, intena, todo, sleepvars>>

\* sched() resumes with the intena of the hart
Resumed_hart(k, p) == k
\* sched() resumes: it restores intena
Resumed(k, p) == [k EXCEPT !.intena = IF pc[p] = "forkret" THEN @ ELSE intena[p]]

\* The process is runnable: swtch() to it
scheduler_run(c) ==
  LET p == nxt[c]
  IN  /\ At(c, c, "scan") /\ plock[p] = None /\ state[p] = "RUNNABLE"
      /\ plock' = [plock EXCEPT ![p] = c]
      /\ state' = [state EXCEPT ![p] = "RUNNING"]
      /\ on' = [on EXCEPT ![c] = p]
      /\ pc' = [pc EXCEPT ![c] = "back", ![p] = IF @ = "sched" THEN "woke" ELSE @]
      /\ trap' = [trap EXCEPT ![p] = IF @ = "sched" THEN "woke" ELSE @]
      /\ Cpu(c, Resumed(push_off(cpu[c]), p))
      /\ intena' = [intena EXCEPT ![p] = FALSE]
      /\ UNCHANGED <<tickslock, killed, nxt, todo, sleepvars>>

\* The process is done running for now
scheduler_back(c) ==
  /\ At(c, c, "back")
  /\ plock' = [plock EXCEPT ![nxt[c]] = None]
  /\ Cpu(c, [pop_off(cpu[c]) EXCEPT !.ie = @ \/ NextProc(nxt[c]) = None])
  /\ Go(c, "scan") /\ Advance(c)
  /\ UNCHANGED <<on, tickslock, state, killed, trap, intena, todo, sleepvars>>

Switching(p) == trap[p] = "sched" \/ (trap[p] = "none" /\ pc[p] = "sched")

\* sched(): save intena and swtch() to the scheduler
sched(c, p) ==
  /\ on[c] = p /\ Switching(p)
  /\ intena' = [intena EXCEPT ![p] = cpu[c].intena]
  /\ on' = [on EXCEPT ![c] = c]
  /\ UNCHANGED <<cpu, tickslock, plock, state, killed, pc, trap, nxt, todo, sleepvars>>

(***************************************************************************)
(* sys_sleep() and sleep()                                                 *)
(***************************************************************************)
forkret(c, p) ==
  /\ At(c, p, "forkret") /\ plock[p] = c
  /\ plock' = [plock EXCEPT ![p] = None]
  /\ Cpu(c, pop_off(cpu[c]))
  /\ Go(p, "usertrapret")
  /\ UNCHANGED <<on, tickslock, state, killed, trap, intena, nxt, todo, sleepvars>>

\* usertrap(): a killed process exits, with interrupts still off
syscall(c, p, k) ==
  /\ At(c, p, "user")
  /\ IF killed[p] THEN Go(p, "exit") /\ Cpu(c, [cpu[c] EXCEPT !.ie = FALSE]) /\ UNCHANGED n
                  ELSE Go(p, "sys") /\ n' = [n EXCEPT ![p] = k] /\ UNCHANGED cpu
  /\ UNCHANGED <<on, tickslock, plock, state, killed, trap, intena, nxt, todo, elapsed>>

sys_sleep(c, p) ==
  /\ At(c, p, "sys_spin") /\ tickslock = None
  /\ tickslock' = c
  /\ Go(p, "loop")
  /\ UNCHANGED <<cpu, on, plock, state, killed, trap, intena, nxt, todo, sleepvars>>

\* ticks - ticks0 < n; n is 0 outside sys_sleep()
Early(p) == elapsed[p] < n[p]

\* The time has come, or the process was killed
sleep_done(c, p) ==
  /\ At(c, p, "loop") /\ (Early(p) => killed[p])
  /\ tickslock' = None
  /\ Cpu(c, pop_off(cpu[c]))
  /\ Go(p, "sysret")
  /\ elapsed' = [elapsed EXCEPT ![p] = 0] /\ n' = [n EXCEPT ![p] = 0]
  /\ UNCHANGED <<on, plock, state, killed, trap, intena, nxt, todo>>

\* sleep(): push_off() of acquire(&p->lock)
sleep(c, p) ==
  /\ At(c, p, "loop") /\ Early(p) /\ ~killed[p]
  /\ Cpu(c, push_off(cpu[c]))
  /\ Go(p, "slp_spin")
  /\ UNCHANGED <<on, tickslock, plock, state, killed, trap, intena, nxt, todo, sleepvars>>

sleep_lock(c, p) ==
  /\ At(c, p, "slp_spin") /\ plock[p] = None
  /\ plock' = [plock EXCEPT ![p] = c]
  /\ Go(p, "slp")
  /\ UNCHANGED <<cpu, on, tickslock, state, killed, trap, intena, nxt, todo, sleepvars>>

\* The lock is only released once the process has switched
sleep_sleep_held(c, p) ==
  /\ At(c, p, "slp")
  /\ state' = [state EXCEPT ![p] = "SLEEPING"]
  /\ Go(p, "sched")
  /\ UNCHANGED <<cpu, on, tickslock, plock, killed, trap, intena, nxt, todo, sleepvars>>

\* With p->lock: release tickslock, state = SLEEPING, and on to sched()
sleep_sleep(c, p) ==
  /\ At(c, p, "slp")
  /\ tickslock' = None
  /\ state' = [state EXCEPT ![p] = "SLEEPING"]
  /\ Cpu(c, pop_off(cpu[c]))
  /\ Go(p, "sched")
  /\ UNCHANGED <<on, plock, killed, trap, intena, nxt, todo, sleepvars>>

\* Back from sched(): release p->lock, then acquire(lk) again
sleep_woke(c, p) ==
  /\ At(c, p, "woke")
  /\ plock' = [plock EXCEPT ![p] = None]
  /\ Cpu(c, pop_off(cpu[c]))
  /\ Go(p, "re_acq")
  /\ UNCHANGED <<on, tickslock, state, killed, trap, intena, nxt, todo, sleepvars>>

sleep_relock(c, p) ==
  /\ At(c, p, "re_spin") /\ tickslock = None
  /\ tickslock' = c
  /\ Go(p, "loop")
  /\ UNCHANGED <<cpu, on, plock, state, killed, trap, intena, nxt, todo, sleepvars>>

\* usertrap() after syscall(): a killed process exits
usertrap_end(c, p) ==
  /\ At(c, p, "sysret")
  /\ Go(p, IF killed[p] THEN "exit" ELSE "usertrapret")
  /\ UNCHANGED <<cpu, on, tickslock, plock, state, killed, trap, intena, nxt, todo, sleepvars>>

\* intr_off(), and sret enables interrupts in user mode
usertrapret(c, p) ==
  /\ At(c, p, "usertrapret")
  /\ Go(p, "user")
  /\ Cpu(c, [cpu[c] EXCEPT !.ie = TRUE])
  /\ UNCHANGED <<on, tickslock, plock, state, killed, trap, intena, nxt, todo, sleepvars>>

\* The end of exit(): ZOMBIE under p->lock, and sched() for the last time
exit(c, p) ==
  /\ At(c, p, "exit_spin") /\ plock[p] = None
  /\ plock' = [plock EXCEPT ![p] = c]
  /\ state' = [state EXCEPT ![p] = "ZOMBIE"]
  /\ Go(p, "sched")
  /\ UNCHANGED <<cpu, on, tickslock, killed, trap, intena, nxt, todo, sleepvars>>

\* A process kills q; it is in the kernel for this step only
kill(c, p, q) ==
  /\ At(c, p, "user") /\ q \in Victims /\ ~killed[q] /\ plock[q] = None
  /\ killed' = [killed EXCEPT ![q] = TRUE]
  /\ state' = IF state[q] = "SLEEPING" THEN [state EXCEPT ![q] = "RUNNABLE"] ELSE state
  /\ UNCHANGED <<cpu, on, tickslock, plock, pc, trap, intena, nxt, todo, sleepvars>>

(***************************************************************************)
(* Timer interrupts.                                                       *)
(***************************************************************************)
\* devintr(): only one hart counts
interrupt(c, t) ==
  /\ on[c] = t /\ trap[t] = "none" /\ cpu[c].ie
  /\ Trap(t, IF c = Cpu0 THEN "clk" ELSE "end")
  /\ Cpu(c, [cpu[c] EXCEPT !.ie = FALSE])
  /\ UNCHANGED <<on, tickslock, plock, state, killed, pc, intena, nxt, todo, sleepvars>>

\* ticks++ seen from the processes that have set ticks0
Tick == [p \in Procs |-> IF n[p] = 0 \/ pc[p] \in {"sys", "sys_spin"} THEN 0
                           ELSE IF elapsed[p] < MaxLate THEN elapsed[p] + 1 ELSE MaxLate]

\* wakeup() misses the first process
clockintr_second(c, t) ==
  /\ In(c, t, "clk_spin") /\ tickslock = None
  /\ tickslock' = c
  /\ elapsed' = Tick
  /\ todo' = Procs \ {FirstProc}
  /\ Trap(t, "wake")
  /\ UNCHANGED <<cpu, on, plock, state, killed, pc, intena, nxt, n>>

clockintr(c, t) ==
  /\ In(c, t, "clk_spin") /\ tickslock = None
  /\ tickslock' = c
  /\ elapsed' = Tick
  /\ todo' = Procs
  /\ Trap(t, "wake")
  /\ UNCHANGED <<cpu, on, plock, state, killed, pc, intena, nxt, n>>

\* One turn of wakeup(&ticks), with q->lock.  The only channel here is &ticks
wakeup(c, t, q) ==
  /\ In(c, t, "wake") /\ q \in todo /\ plock[q] = None
  /\ \A x \in todo : NextProc(x) # q
  /\ state' = IF state[q] = "SLEEPING" THEN [state EXCEPT ![q] = "RUNNABLE"] ELSE state
  /\ todo' = todo \ {q}
  /\ UNCHANGED <<cpu, on, tickslock, plock, killed, pc, trap, intena, nxt, sleepvars>>

clockintr_end(c, t) ==
  /\ In(c, t, "wake") /\ todo = {}
  /\ tickslock' = None
  /\ Cpu(c, pop_off(cpu[c]))
  /\ Trap(t, "end")
  /\ UNCHANGED <<on, plock, state, killed, pc, intena, nxt, todo, sleepvars>>

\* The scheduler goes on where it was, a killed process exits if it comes from user
\* space, and any other process yields
trap_end(c, t) ==
  /\ In(c, t, "end")
  /\ CASE t \in Cpus -> Trap(t, "none") /\ Cpu(c, [cpu[c] EXCEPT !.ie = TRUE]) /\ UNCHANGED pc
       [] t \in Procs /\ pc[t] = "user" /\ killed[t] -> Trap(t, "none") /\ Go(t, "exit") /\ UNCHANGED cpu
       [] OTHER -> Trap(t, "yield") /\ UNCHANGED <<cpu, pc>>
  /\ UNCHANGED <<on, tickslock, plock, state, killed, intena, nxt, todo, sleepvars>>

\* Without p->lock
yield_unlocked(c, p) ==
  /\ In(c, p, "yield_spin")
  /\ state' = [state EXCEPT ![p] = "RUNNABLE"]
  /\ Trap(p, "sched")
  /\ UNCHANGED <<cpu, on, tickslock, plock, killed, pc, intena, nxt, todo, sleepvars>>

yield(c, p) ==
  /\ In(c, p, "yield_spin") /\ plock[p] = None
  /\ plock' = [plock EXCEPT ![p] = c]
  /\ state' = [state EXCEPT ![p] = "RUNNABLE"]
  /\ Trap(p, "sched")
  /\ UNCHANGED <<cpu, on, tickslock, killed, pc, intena, nxt, todo, sleepvars>>

\* release(&p->lock), and the handler returns to what it interrupted, with interrupts on
yield_back(c, p) ==
  /\ In(c, p, "woke")
  /\ plock' = [plock EXCEPT ![p] = None]
  /\ Cpu(c, [pop_off(cpu[c]) EXCEPT !.ie = TRUE])
  /\ Trap(p, "none")
  /\ UNCHANGED <<on, tickslock, state, killed, pc, intena, nxt, todo, sleepvars>>

Handler(c, t) ==
  \/ acquire_push(c, t)
  \/ clockintr(c, t) \/ (\E q \in Procs : wakeup(c, t, q)) \/ clockintr_end(c, t) \/ trap_end(c, t)

Scheduler(c) == scheduler_skip(c) \/ scheduler_run(c) \/ scheduler_back(c)

Process(c, p) ==
  \/ sched(c, p) \/ forkret(c, p) \/ sys_sleep(c, p) \/ sleep_done(c, p) \/ sleep(c, p)
  \/ sleep_lock(c, p) \/ sleep_sleep(c, p) \/ sleep_woke(c, p) \/ sleep_relock(c, p)
  \/ usertrap_end(c, p) \/ usertrapret(c, p) \/ exit(c, p) \/ yield(c, p) \/ yield_back(c, p)

Next ==
  \E c \in Cpus :
    \/ Scheduler(c)
    \/ \E t \in Threads : Handler(c, t)
    \/ \E p \in Procs : Process(c, p)
    \/ \E t \in Threads : interrupt(c, t)
    \/ \E p \in Procs : (\E k \in Naps : syscall(c, p, k)) \/ (\E q \in Procs : kill(c, p, q))

Spec == Init /\ [][Next]_vars

\* Types; a hart never nests more than two push_off()s, and forgets none (spinlock.c).
TypeOK ==
  /\ \A c \in Cpus : cpu[c].noff \in 0..2 /\ on[c] \in Procs \cup {c}
  /\ tickslock \in Cpus \cup {None} /\ plock \in [Procs -> Cpus \cup {None}]
  /\ state \in [Procs -> {"RUNNABLE", "RUNNING", "SLEEPING", "ZOMBIE"}]
  /\ elapsed \in [Procs -> 0..MaxLate] /\ todo \subseteq Procs

\* What sched() insists on: the caller holds p->lock and nothing else, interrupts are
\* off, and the state is no longer RUNNING.
SchedOK ==
  \A c \in Cpus, p \in Procs : on[c] = p /\ Switching(p) =>
    /\ plock[p] = c /\ tickslock # c
    /\ cpu[c].noff = 1 /\ ~cpu[c].ie
    /\ state[p] # "RUNNING"

\* What acquire() insists on: no hart spins for a lock it holds, so no interrupt handler
\* finds its lock with the code it interrupted.
NoSelfSpin ==
  \A c \in Cpus : LET t == on[c] IN
    /\ tickslock = c => trap[t] \notin {"clk", "clk_spin"} /\ (trap[t] = "none" => pc[t] \notin {"sys_spin", "re_spin"})
    /\ trap[t] = "yield_spin" => plock[t] # c
    /\ t \in Procs /\ trap[t] = "none" /\ pc[t] \in {"slp_spin", "exit_spin"} => plock[t] # c
    /\ trap[t] = "wake" => \A q \in todo : plock[q] # c

\* The assertions of sched(), acquire(), push_off() and pop_off() hold, whatever is
\* interrupted and wherever a thread goes on.
NoPanic == TypeOK /\ SchedOK /\ NoSelfSpin

\* Interrupts are on wherever kernel code runs with no lock and no handler below it, on
\* whichever hart the thread came back: sched() keeps intena with the thread.  (A new
\* process may enter forkret() with them off: it has no intena yet.)
InterruptsBack ==
  \A c \in Cpus : LET t == on[c] IN
    trap[t] = "none" /\ pc[t] \in {"user", "sys", "re_acq", "sysret"} =>
      cpu[c].noff = 0 /\ cpu[c].ie

\* A process runs on one hart at most, and a process that can be chosen is not on any:
\* its registers are saved before p->lock is free.
RunsOnce ==
  \A p \in Procs :
    LET harts == {c \in Cpus : on[c] = p}
    IN  /\ \A c, d \in harts : c = d
        /\ state[p] = "RUNNABLE" /\ harts # {} => plock[p] \in harts
        /\ state[p] = "RUNNING" => harts # {}

\* No wakeup is lost: a process asleep past its time is one that clockintr() has yet to
\* look at.
NoLostWakeup ==
  \A p \in Procs : state[p] = "SLEEPING" /\ ~Early(p) => p \in todo
====
