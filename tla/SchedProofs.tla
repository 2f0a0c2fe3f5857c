--------------------------- MODULE SchedProofs ------------------------------
(***************************************************************************)
(* The inductive invariant of Sched: which thread is on which hart, which  *)
(* locks it holds and how deep it is in push_off()s.  Then what a step of  *)
(* a thread that stays on its hart must do to keep it, that the steps of   *)
(* sys_sleep(), sleep() and the interrupt handler do, and that the         *)
(* switches and the wakeups keep it too: it holds for any number of harts  *)
(* and processes.                                                          *)
(***************************************************************************)
EXTENDS Sched, TLAPS

CpuType == [noff : 0..2, intena : BOOLEAN, ie : BOOLEAN]
States == {"RUNNABLE", "RUNNING", "SLEEPING", "ZOMBIE"}
\* Where kernel code runs without a lock, so that an interrupt may come
Open == {"usertrapret", "user", "sys", "re_acq", "sysret", "exit"}
PCs == Open \cup {"forkret", "sys_spin", "loop", "slp_spin", "slp", "sched", "woke",
                  "re_spin", "exit_spin"}
Traps == {"none", "clk", "clk_spin", "wake", "end", "yield", "yield_spin", "sched", "woke"}

Types ==
  /\ cpu \in [Cpus -> CpuType] /\ on \in [Cpus -> Threads]
  /\ tickslock \in Cpus \cup {None} /\ plock \in [Procs -> Cpus \cup {None}]
  /\ state \in [Procs -> States]
  /\ pc \in [Threads -> PCs \cup {"scan", "back"}] /\ trap \in [Threads -> Traps]
  /\ nxt \in [Cpus -> Procs]

\* The push_off()s that a thread has not yet undone
Depth(t) ==
  IF trap[t] = "none"
    THEN IF pc[t] \in {"slp_spin", "slp"} THEN 2
         ELSE IF pc[t] \in Open \cup {"scan"} THEN 0 ELSE 1
    ELSE IF trap[t] \in {"clk", "end", "yield"} THEN 0 ELSE 1

\* A thread that holds tickslock, and a process that holds its own p->lock
HasTicks(t) == trap[t] = "wake" \/ (trap[t] = "none" /\ pc[t] \in {"loop", "slp_spin", "slp"})
HasOwn(t) ==
  \/ trap[t] \in {"sched", "woke"}
  \/ trap[t] = "none" /\ pc[t] \in {"forkret", "slp", "sched", "woke"}

\* A scheduler scans or waits for its process; only code that may be interrupted has an
\* interrupt handler above it, and a scheduler's does not yield
Shapes ==
  /\ \A c \in Cpus : pc[c] \in {"scan", "back"}
                     /\ trap[c] \in {"none", "clk", "clk_spin", "wake", "end"}
  /\ \A p \in Procs : pc[p] \in PCs
  /\ \A t \in Threads : trap[t] # "none" => pc[t] \in Open \cup {"scan"}

\* A hart runs its scheduler or the process this has chosen, no process twice
Running ==
  /\ \A c \in Cpus : on[c] = c \/ (on[c] \in Procs /\ nxt[c] = on[c] /\ pc[c] = "back")
  /\ \A c, d \in Cpus : on[c] = on[d] => c = d

\* RUNNING is between the choice and sched()
StatesFit ==
  /\ \A c \in Cpus, p \in Procs : on[c] = p => (state[p] = "RUNNING" <=> ~Switching(p))
  /\ \A p \in Procs : (\A c \in Cpus : on[c] # p) =>
       state[p] # "RUNNING" /\ (Switching(p) \/ (trap[p] = "none" /\ pc[p] = "forkret"))
  /\ \A p \in Procs : state[p] \in {"SLEEPING", "ZOMBIE"} => trap[p] = "none" /\ pc[p] = "sched"

HartsFit ==
  \A c \in Cpus : /\ cpu[c].noff = Depth(on[c])
                  /\ cpu[c].ie => Depth(on[c]) = 0 /\ trap[on[c]] = "none"
                  /\ trap[on[c]] \in {"clk_spin", "wake"} => ~cpu[c].intena

TicksFit == \A c \in Cpus : tickslock = c <=> HasTicks(on[c])

LocksFit ==
  \A c \in Cpus, p \in Procs :
    plock[p] = c <=> \/ on[c] = p /\ HasOwn(p)
                     \/ on[c] = c /\ pc[c] = "back" /\ nxt[c] = p

IInv == Types /\ Shapes /\ Running /\ StatesFit /\ HartsFit /\ TicksFit /\ LocksFit

-----------------------------------------------------------------------------
\* push_off() and pop_off() on the record of a hart.
LEMMA PushIs ==
  ASSUME NEW k \in CpuType
  PROVE  /\ k.noff < 2 => push_off(k) \in CpuType
         /\ push_off(k).noff = k.noff + 1 /\ push_off(k).ie = FALSE
         /\ push_off(k).intena = IF k.noff = 0 THEN k.ie ELSE k.intena
BY DEF CpuType, push_off

\* pop_off() enables interrupts only with the last one, as they were before the first.
LEMMA PopIs ==
  ASSUME NEW k \in CpuType, k.noff > 0
  PROVE  /\ pop_off(k) \in CpuType
         /\ pop_off(k).noff = k.noff - 1 /\ pop_off(k).intena = k.intena
         /\ pop_off(k).ie <=> (k.noff = 1 /\ k.intena) \/ k.ie
<1>1. k.noff \in 1..2 /\ k.ie \in BOOLEAN /\ k.intena \in BOOLEAN
      /\ k = [noff |-> k.noff, intena |-> k.intena, ie |-> k.ie]
  BY DEF CpuType
<1> DEFINE e == (k.noff = 1 /\ k.intena) \/ k.ie
<1>2. e \in BOOLEAN  BY Zenon
<1> HIDE DEF e
<1>3. pop_off(k) = [k EXCEPT !.noff = @ - 1, !.ie = e]  BY Zenon DEF pop_off, e
<1>4. pop_off(k) = [noff |-> k.noff - 1, intena |-> k.intena, ie |-> e]  BY Zenon, <1>1, <1>3
<1>5. pop_off(k) \in CpuType  BY <1>1, <1>2, <1>4 DEF CpuType
<1>6. pop_off(k).noff = k.noff - 1 /\ pop_off(k).intena = k.intena /\ pop_off(k).ie = e
  BY <1>4
<1> QED  BY Zenon, <1>5, <1>6 DEF e

-----------------------------------------------------------------------------
\* What a step of thread t on hart c must do for the invariant, when neither t leaves the
\* hart nor another thread comes to it.
Moves(c, t) ==
  /\ on[c] = t /\ on' = on /\ nxt' = nxt
  /\ pc' \in [Threads -> PCs \cup {"scan", "back"}] /\ trap' \in [Threads -> Traps]
  /\ \A u \in Threads \ {t} : pc'[u] = pc[u] /\ trap'[u] = trap[u]
  /\ t \in Cpus => pc'[t] = pc[t] /\ trap'[t] \in {"none", "clk", "clk_spin", "wake", "end"}
  /\ t \in Procs => pc'[t] \in PCs
  /\ trap'[t] # "none" => pc'[t] \in Open \cup {"scan"}

SetsCpu(c, t) ==
  /\ cpu' \in [Cpus -> CpuType] /\ \A d \in Cpus \ {c} : cpu'[d] = cpu[d]
  /\ cpu'[c].noff = Depth(t)' /\ (cpu'[c].ie => Depth(t)' = 0 /\ trap'[t] = "none")
  /\ trap'[t] \in {"clk_spin", "wake"} => ~cpu'[c].intena

SetsTicks(c, t) ==
  /\ tickslock' = IF HasTicks(t)' <=> HasTicks(t) THEN tickslock
                  ELSE IF HasTicks(t) THEN None ELSE c
  /\ HasTicks(t)' /\ ~HasTicks(t) => tickslock = None

SetsLock(c, t) ==
  /\ plock' = IF t \in Cpus \/ (HasOwn(t)' <=> HasOwn(t)) THEN plock
              ELSE [plock EXCEPT ![t] = IF HasOwn(t) THEN None ELSE c]
  /\ t \in Procs /\ HasOwn(t)' /\ ~HasOwn(t) => plock[t] = None

SetsState(t) ==
  /\ state' \in [Procs -> States]
  /\ \A q \in Procs \ {t} : state'[q] = state[q]
  /\ t \in Procs =>
       /\ state'[t] = "RUNNING" <=> ~Switching(t)'
       /\ state'[t] \in {"SLEEPING", "ZOMBIE"} => trap'[t] = "none" /\ pc'[t] = "sched"

Local(c, t) == Moves(c, t) /\ SetsCpu(c, t) /\ SetsTicks(c, t) /\ SetsLock(c, t) /\ SetsState(t)

\* Such a step keeps the invariant.
LEMMA LocalInv ==
  ASSUME IInv, NEW c \in Cpus, NEW t \in Threads, Local(c, t)
  PROVE  IInv'
<1> USE SchedAssumption DEF Threads, Local
<1>1. \A d \in Cpus \ {c} : on[d] # t  BY Zenon DEF IInv, Running, Moves
<1>2. Types'  BY Zenon DEF IInv, Types, Moves, SetsCpu, SetsTicks, SetsLock, SetsState
<1>3. Shapes'  BY DEF IInv, Types, Shapes, Moves
<1>4. Running'  BY DEF IInv, Running, Types, Moves
<1>5. \A u \in Threads \ {t} :
        /\ Depth(u)' = Depth(u) /\ (HasTicks(u)' <=> HasTicks(u))
        /\ (HasOwn(u)' <=> HasOwn(u)) /\ (Switching(u)' <=> Switching(u))
  BY ZenonT(60) DEF Moves, Depth, HasTicks, HasOwn, Switching
<1>6. StatesFit'
  BY <1>1, <1>5 DEF IInv, StatesFit, Moves, SetsState
<1>7. HartsFit'
  BY <1>1, <1>5 DEF IInv, Types, HartsFit, Moves, SetsCpu
<1>8. TicksFit'
  BY <1>1, <1>5 DEF IInv, Types, TicksFit, Moves, SetsTicks
<1>9. LocksFit'
  BY <1>1, <1>5 DEF IInv, Types, Running, LocksFit, Moves, SetsLock
<1> QED  BY Zenon, <1>2, <1>3, <1>4, <1>6, <1>7, <1>8, <1>9 DEF IInv

\* The hart of a thread, as the steps below need it.
LEMMA HartIs ==
  ASSUME IInv, NEW c \in Cpus, NEW t \in Threads, on[c] = t
  PROVE  /\ cpu[c] \in CpuType /\ cpu[c].noff = Depth(t)
         /\ cpu[c].ie => Depth(t) = 0 /\ trap[t] = "none"
         /\ trap[t] \in {"clk_spin", "wake"} => ~cpu[c].intena
         /\ t \in Procs \/ t = c
         /\ t \in Procs => t \notin Cpus /\ pc[t] \in PCs
         /\ t = c => t \notin Procs /\ pc[t] \in {"scan", "back"}
                    /\ trap[t] \in {"none", "clk", "clk_spin", "wake", "end"}
         /\ trap[t] # "none" => pc[t] \in Open \cup {"scan"}
         /\ t \in Procs => (state[t] = "RUNNING" <=> ~Switching(t))
BY SchedAssumption DEF IInv, Types, Shapes, Running, StatesFit, HartsFit, Threads

\* A push_off(), a pop_off(), and a change of the interrupt enable bit, on hart c.
LEMMA CpuPush ==
  ASSUME IInv, NEW c \in Cpus, cpu[c].noff < 2,
         cpu' = [cpu EXCEPT ![c] = push_off(cpu[c])]
  PROVE  /\ cpu' \in [Cpus -> CpuType] /\ \A d \in Cpus \ {c} : cpu'[d] = cpu[d]
         /\ cpu'[c].noff = cpu[c].noff + 1 /\ ~cpu'[c].ie
         /\ cpu'[c].intena = IF cpu[c].noff = 0 THEN cpu[c].ie ELSE cpu[c].intena
<1>1. cpu[c] \in CpuType /\ cpu \in [Cpus -> CpuType]  BY Zenon DEF IInv, Types
<1>2. /\ push_off(cpu[c]) \in CpuType /\ push_off(cpu[c]).noff = cpu[c].noff + 1
      /\ push_off(cpu[c]).ie = FALSE
      /\ push_off(cpu[c]).intena = IF cpu[c].noff = 0 THEN cpu[c].ie ELSE cpu[c].intena
  BY ZenonT(30), <1>1, PushIs
<1> QED  BY Zenon, <1>1, <1>2

\* The same for pop_off().
LEMMA CpuPop ==
  ASSUME IInv, NEW c \in Cpus, cpu[c].noff > 0, ~cpu[c].ie,
         cpu' = [cpu EXCEPT ![c] = pop_off(cpu[c])]
  PROVE  /\ cpu' \in [Cpus -> CpuType] /\ \A d \in Cpus \ {c} : cpu'[d] = cpu[d]
         /\ cpu'[c].noff = cpu[c].noff - 1 /\ cpu'[c].intena = cpu[c].intena
         /\ cpu'[c].ie <=> cpu[c].noff = 1 /\ cpu[c].intena
<1>1. cpu[c] \in CpuType /\ cpu \in [Cpus -> CpuType]  BY Zenon DEF IInv, Types
<1>2. /\ pop_off(cpu[c]) \in CpuType /\ pop_off(cpu[c]).noff = cpu[c].noff - 1
      /\ pop_off(cpu[c]).intena = cpu[c].intena
      /\ pop_off(cpu[c]).ie <=> cpu[c].noff = 1 /\ cpu[c].intena
  BY Zenon, <1>1, PopIs
<1>3. cpu'[c] = pop_off(cpu[c])  BY Zenon, <1>1
<1>4. cpu' \in [Cpus -> CpuType] /\ \A d \in Cpus \ {c} : cpu'[d] = cpu[d]  BY Zenon, <1>1, <1>2
<1> QED  BY Zenon, <1>2, <1>3, <1>4

\* The same for intr_on() and intr_off().
LEMMA CpuIntr ==
  ASSUME IInv, NEW c \in Cpus, NEW b \in BOOLEAN,
         cpu' = [cpu EXCEPT ![c] = [cpu[c] EXCEPT !.ie = b]]
  PROVE  /\ cpu' \in [Cpus -> CpuType] /\ \A d \in Cpus \ {c} : cpu'[d] = cpu[d]
         /\ cpu'[c].noff = cpu[c].noff /\ cpu'[c].ie = b
<1>1. cpu[c] \in CpuType /\ cpu \in [Cpus -> CpuType]  BY Zenon DEF IInv, Types
<1>2. [cpu[c] EXCEPT !.ie = b] \in CpuType /\ [cpu[c] EXCEPT !.ie = b].noff = cpu[c].noff
      /\ [cpu[c] EXCEPT !.ie = b].ie = b
  BY Zenon, <1>1 DEF CpuType
<1> QED  BY Zenon, <1>1, <1>2

\* A step that moves t within its code, or within an interrupt handler.
LEMMA MovesTo ==
  ASSUME IInv, NEW c \in Cpus, NEW t \in Threads, on[c] = t, UNCHANGED <<on, nxt>>,
         NEW s \in PCs, NEW h \in Traps, t \in Procs,
         pc' = [pc EXCEPT ![t] = s], trap' = [trap EXCEPT ![t] = h],
         h # "none" => s \in Open
  PROVE  Moves(c, t) /\ pc'[t] = s /\ trap'[t] = h
BY Zenon, SchedAssumption DEF Moves, IInv, Types, Threads

\* acquire(), first half
LEMMA PushInv ==
  ASSUME IInv, NEW c \in Cpus, NEW t \in Threads, acquire_push(c, t)
  PROVE  Local(c, t)
<1>1. /\ on[c] = t /\ cpu' = [cpu EXCEPT ![c] = push_off(cpu[c])]
      /\ UNCHANGED <<on, tickslock, plock, state, nxt>>
  BY Zenon DEF acquire_push, Cpu
<1>2. /\ pc' \in [Threads -> PCs \cup {"scan", "back"}] /\ trap' \in [Threads -> Traps]
      /\ \A u \in Threads \ {t} : pc'[u] = pc[u] /\ trap'[u] = trap[u]
      /\ \/ trap[t] = "none" /\ pc[t] = "sys" /\ trap'[t] = "none" /\ pc'[t] = "sys_spin"
         \/ trap[t] = "none" /\ pc[t] = "re_acq" /\ trap'[t] = "none" /\ pc'[t] = "re_spin"
         \/ trap[t] = "none" /\ pc[t] = "exit" /\ trap'[t] = "none" /\ pc'[t] = "exit_spin"
         \/ trap[t] = "clk" /\ trap'[t] = "clk_spin" /\ pc'[t] = pc[t]
         \/ trap[t] = "yield" /\ trap'[t] = "yield_spin" /\ pc'[t] = pc[t]
  BY DEF IInv, Types, PCs, Traps, Open, acquire_push, Go, Trap, Push, TrapPush
<1>3. /\ Depth(t) = 0 /\ Depth(t)' = 1 /\ ~HasTicks(t) /\ ~HasTicks(t)'
      /\ ~HasOwn(t) /\ ~HasOwn(t)' /\ ~Switching(t)' /\ ~Switching(t)
  BY Zenon, <1>2 DEF Depth, HasTicks, HasOwn, Switching, Open
<1>4. Moves(c, t)
  <2>1. /\ t \in Procs => t \notin Cpus /\ pc[t] \in PCs
        /\ t \in Cpus => pc[t] \in {"scan", "back"}
                        /\ trap[t] \in {"none", "clk", "clk_spin", "wake", "end"}
        /\ trap[t] # "none" => pc[t] \in Open \cup {"scan"}
    BY Zenon, <1>1, SchedAssumption, HartIs DEF Threads, IInv, Shapes
  <2>2. t \in Procs => pc'[t] \in PCs  BY Zenon, <1>2, <2>1 DEF PCs, Open
  <2>3. t \in Cpus => pc'[t] = pc[t] /\ trap'[t] \in {"none", "clk", "clk_spin", "wake", "end"}
    BY Zenon, <1>2, <2>1
  <2>4. trap'[t] # "none" => pc'[t] \in Open \cup {"scan"}  BY Zenon, <1>2, <2>1
  <2> QED  BY Zenon, <1>1, <1>2, <2>2, <2>3, <2>4 DEF Moves
<1>5. SetsCpu(c, t)
  <2>1. cpu[c].noff = 0 /\ cpu[c].noff < 2  BY <1>1, <1>3, HartIs
  <2>2. /\ cpu' \in [Cpus -> CpuType] /\ \A d \in Cpus \ {c} : cpu'[d] = cpu[d]
        /\ cpu'[c].noff = cpu[c].noff + 1 /\ ~cpu'[c].ie
        /\ cpu'[c].intena = IF cpu[c].noff = 0 THEN cpu[c].ie ELSE cpu[c].intena
    BY Zenon, <1>1, <2>1, CpuPush
  <2>3. trap'[t] = "clk_spin" => ~cpu[c].ie  BY Zenon, <1>1, <1>2, HartIs
  <2>4. trap'[t] # "wake"  BY Zenon, <1>2
  <2> QED  BY <1>3, <2>1, <2>2, <2>3, <2>4 DEF SetsCpu
<1>6. SetsTicks(c, t) /\ SetsLock(c, t)  BY Zenon, <1>1, <1>3 DEF SetsTicks, SetsLock
<1>7. SetsState(t)  BY ZenonT(60), <1>1, <1>3, HartIs DEF SetsState, IInv, Types
<1> QED  BY Zenon, <1>4, <1>5, <1>6, <1>7 DEF Local

\* forkret() releases the p->lock that scheduler() took.
LEMMA ForkretInv ==
  ASSUME IInv, NEW c \in Cpus, NEW p \in Procs, forkret(c, p)
  PROVE  Local(c, p)
<1>0. p \in Threads /\ p \notin Cpus  BY Zenon, SchedAssumption DEF Threads
<1>1. /\ on[c] = p /\ pc[p] = "forkret" /\ trap[p] = "none"
      /\ cpu' = [cpu EXCEPT ![c] = pop_off(cpu[c])]
      /\ plock' = [plock EXCEPT ![p] = None]
      /\ UNCHANGED <<on, tickslock, state, nxt>>
      /\ pc' = [pc EXCEPT ![p] = "usertrapret"] /\ trap' = [trap EXCEPT ![p] = "none"]
  BY Zenon, <1>0 DEF forkret, At, Go, Cpu, IInv, Types
<1>2. Moves(c, p) /\ pc'[p] = "usertrapret" /\ trap'[p] = "none"
  BY ZenonT(60), <1>0, <1>1, MovesTo DEF PCs, Traps, Open
<1>3. /\ Depth(p) = 1 /\ Depth(p)' = 0 /\ ~HasTicks(p) /\ ~HasTicks(p)'
      /\ HasOwn(p) /\ ~HasOwn(p)' /\ ~Switching(p) /\ ~Switching(p)'
  BY Zenon, <1>1, <1>2 DEF Depth, HasTicks, HasOwn, Switching, Open
<1>4. SetsCpu(c, p)
  <2>1. cpu[c].noff = 1 /\ cpu[c].noff > 0 /\ ~cpu[c].ie  BY <1>0, <1>1, <1>3, HartIs
  <2>2. /\ cpu' \in [Cpus -> CpuType] /\ \A d \in Cpus \ {c} : cpu'[d] = cpu[d]
        /\ cpu'[c].noff = cpu[c].noff - 1 /\ (cpu'[c].ie <=> cpu[c].noff = 1 /\ cpu[c].intena)
    BY Zenon, <1>1, <2>1, CpuPop
  <2> QED  BY <1>2, <1>3, <2>1, <2>2 DEF SetsCpu
<1>5. SetsTicks(c, p)  BY Zenon, <1>1, <1>3 DEF SetsTicks
<1>6. SetsLock(c, p)  BY Zenon, <1>0, <1>1, <1>3 DEF SetsLock
<1>7. SetsState(p)  BY Zenon, <1>0, <1>1, <1>2, <1>3, HartIs DEF SetsState, IInv, Types, States
<1> QED  BY Zenon, <1>2, <1>4, <1>5, <1>6, <1>7 DEF Local

\* sys_sleep() has tickslock.
LEMMA SysSleepInv ==
  ASSUME IInv, NEW c \in Cpus, NEW p \in Procs, sys_sleep(c, p)
  PROVE  Local(c, p)
<1>0. p \in Threads /\ p \notin Cpus  BY Zenon, SchedAssumption DEF Threads
<1>1. /\ on[c] = p /\ pc[p] = "sys_spin" /\ trap[p] = "none" /\ tickslock = None
      /\ tickslock' = c
      /\ UNCHANGED <<cpu, on, plock, state, nxt>>
      /\ pc' = [pc EXCEPT ![p] = "loop"] /\ trap' = [trap EXCEPT ![p] = "none"]
  BY Zenon, <1>0 DEF sys_sleep, At, Go, IInv, Types
<1>2. Moves(c, p) /\ pc'[p] = "loop" /\ trap'[p] = "none"
  BY ZenonT(60), <1>0, <1>1, MovesTo DEF PCs, Traps, Open
<1>3. /\ Depth(p) = 1 /\ Depth(p)' = 1 /\ ~HasTicks(p) /\ HasTicks(p)'
      /\ ~HasOwn(p) /\ ~HasOwn(p)' /\ ~Switching(p) /\ ~Switching(p)'
  BY Zenon, <1>1, <1>2 DEF Depth, HasTicks, HasOwn, Switching, Open
<1>4. SetsCpu(c, p)  BY <1>0, <1>1, <1>2, <1>3, HartIs DEF SetsCpu, IInv, Types
<1>5. SetsTicks(c, p)  BY Zenon, <1>1, <1>3 DEF SetsTicks
<1>6. SetsLock(c, p)  BY Zenon, <1>0, <1>1, <1>3 DEF SetsLock
<1>7. SetsState(p)  BY Zenon, <1>0, <1>1, <1>2, <1>3, HartIs DEF SetsState, IInv, Types, States
<1> QED  BY Zenon, <1>2, <1>4, <1>5, <1>6, <1>7 DEF Local

\* sys_sleep() releases tickslock.
LEMMA SleepDoneInv ==
  ASSUME IInv, NEW c \in Cpus, NEW p \in Procs, sleep_done(c, p)
  PROVE  Local(c, p)
<1>0. p \in Threads /\ p \notin Cpus  BY Zenon, SchedAssumption DEF Threads
<1>1. /\ on[c] = p /\ pc[p] = "loop" /\ trap[p] = "none"
      /\ cpu' = [cpu EXCEPT ![c] = pop_off(cpu[c])] /\ tickslock' = None
      /\ UNCHANGED <<on, plock, state, nxt>>
      /\ pc' = [pc EXCEPT ![p] = "sysret"] /\ trap' = [trap EXCEPT ![p] = "none"]
  BY Zenon, <1>0 DEF sleep_done, At, Go, Cpu, IInv, Types
<1>2. Moves(c, p) /\ pc'[p] = "sysret" /\ trap'[p] = "none"
  BY ZenonT(60), <1>0, <1>1, MovesTo DEF PCs, Traps, Open
<1>3. /\ Depth(p) = 1 /\ Depth(p)' = 0 /\ HasTicks(p) /\ ~HasTicks(p)'
      /\ ~HasOwn(p) /\ ~HasOwn(p)' /\ ~Switching(p) /\ ~Switching(p)'
  BY Zenon, <1>1, <1>2 DEF Depth, HasTicks, HasOwn, Switching, Open
<1>4. SetsCpu(c, p)
  <2>1. cpu[c].noff = 1 /\ cpu[c].noff > 0 /\ ~cpu[c].ie  BY <1>0, <1>1, <1>3, HartIs
  <2>2. /\ cpu' \in [Cpus -> CpuType] /\ \A d \in Cpus \ {c} : cpu'[d] = cpu[d]
        /\ cpu'[c].noff = cpu[c].noff - 1 /\ (cpu'[c].ie <=> cpu[c].noff = 1 /\ cpu[c].intena)
    BY Zenon, <1>1, <2>1, CpuPop
  <2> QED  BY <1>2, <1>3, <2>1, <2>2 DEF SetsCpu
<1>5. SetsTicks(c, p)  BY Zenon, <1>1, <1>3 DEF SetsTicks
<1>6. SetsLock(c, p)  BY Zenon, <1>0, <1>1, <1>3 DEF SetsLock
<1>7. SetsState(p)  BY Zenon, <1>0, <1>1, <1>2, <1>3, HartIs DEF SetsState, IInv, Types, States
<1> QED  BY Zenon, <1>2, <1>4, <1>5, <1>6, <1>7 DEF Local

\* sleep() goes for p->lock with tickslock.
LEMMA SleepInv ==
  ASSUME IInv, NEW c \in Cpus, NEW p \in Procs, sleep(c, p)
  PROVE  Local(c, p)
<1>0. p \in Threads /\ p \notin Cpus  BY Zenon, SchedAssumption DEF Threads
<1>1. /\ on[c] = p /\ pc[p] = "loop" /\ trap[p] = "none"
      /\ cpu' = [cpu EXCEPT ![c] = push_off(cpu[c])]
      /\ UNCHANGED <<on, tickslock, plock, state, nxt>>
      /\ pc' = [pc EXCEPT ![p] = "slp_spin"] /\ trap' = [trap EXCEPT ![p] = "none"]
  BY Zenon, <1>0 DEF sleep, At, Go, Cpu, IInv, Types
<1>2. Moves(c, p) /\ pc'[p] = "slp_spin" /\ trap'[p] = "none"
  BY ZenonT(60), <1>0, <1>1, MovesTo DEF PCs, Traps, Open
<1>3. /\ Depth(p) = 1 /\ Depth(p)' = 2 /\ HasTicks(p) /\ HasTicks(p)'
      /\ ~HasOwn(p) /\ ~HasOwn(p)' /\ ~Switching(p) /\ ~Switching(p)'
  BY Zenon, <1>1, <1>2 DEF Depth, HasTicks, HasOwn, Switching, Open
<1>4. SetsCpu(c, p)
  <2>1. cpu[c].noff = 1 /\ cpu[c].noff < 2  BY <1>0, <1>1, <1>3, HartIs
  <2>2. /\ cpu' \in [Cpus -> CpuType] /\ \A d \in Cpus \ {c} : cpu'[d] = cpu[d]
        /\ cpu'[c].noff = cpu[c].noff + 1 /\ ~cpu'[c].ie
    BY Zenon, <1>1, <2>1, CpuPush
  <2> QED  BY <1>2, <1>3, <2>1, <2>2 DEF SetsCpu
<1>5. SetsTicks(c, p)  BY Zenon, <1>1, <1>3 DEF SetsTicks
<1>6. SetsLock(c, p)  BY Zenon, <1>0, <1>1, <1>3 DEF SetsLock
<1>7. SetsState(p)  BY Zenon, <1>0, <1>1, <1>2, <1>3, HartIs DEF SetsState, IInv, Types, States
<1> QED  BY Zenon, <1>2, <1>4, <1>5, <1>6, <1>7 DEF Local

\* sleep() has both locks.
LEMMA SleepLockInv ==
  ASSUME IInv, NEW c \in Cpus, NEW p \in Procs, sleep_lock(c, p)
  PROVE  Local(c, p)
<1>0. p \in Threads /\ p \notin Cpus  BY Zenon, SchedAssumption DEF Threads
<1>1. /\ on[c] = p /\ pc[p] = "slp_spin" /\ trap[p] = "none" /\ plock[p] = None
      /\ plock' = [plock EXCEPT ![p] = c]
      /\ UNCHANGED <<cpu, on, tickslock, state, nxt>>
      /\ pc' = [pc EXCEPT ![p] = "slp"] /\ trap' = [trap EXCEPT ![p] = "none"]
  BY Zenon, <1>0 DEF sleep_lock, At, Go, IInv, Types
<1>2. Moves(c, p) /\ pc'[p] = "slp" /\ trap'[p] = "none"
  BY ZenonT(60), <1>0, <1>1, MovesTo DEF PCs, Traps, Open
<1>3. /\ Depth(p) = 2 /\ Depth(p)' = 2 /\ HasTicks(p) /\ HasTicks(p)'
      /\ ~HasOwn(p) /\ HasOwn(p)' /\ ~Switching(p) /\ ~Switching(p)'
  BY Zenon, <1>1, <1>2 DEF Depth, HasTicks, HasOwn, Switching, Open
<1>4. SetsCpu(c, p)  BY <1>0, <1>1, <1>2, <1>3, HartIs DEF SetsCpu, IInv, Types
<1>5. SetsTicks(c, p)  BY Zenon, <1>1, <1>3 DEF SetsTicks
<1>6. SetsLock(c, p)  BY Zenon, <1>0, <1>1, <1>3 DEF SetsLock
<1>7. SetsState(p)  BY Zenon, <1>0, <1>1, <1>2, <1>3, HartIs DEF SetsState, IInv, Types, States
<1> QED  BY Zenon, <1>2, <1>4, <1>5, <1>6, <1>7 DEF Local

\* sleep() releases tickslock and calls sched() with p->lock.
LEMMA SleepSleepInv ==
  ASSUME IInv, NEW c \in Cpus, NEW p \in Procs, sleep_sleep(c, p)
  PROVE  Local(c, p)
<1>0. p \in Threads /\ p \notin Cpus  BY Zenon, SchedAssumption DEF Threads
<1>1. /\ on[c] = p /\ pc[p] = "slp" /\ trap[p] = "none"
      /\ cpu' = [cpu EXCEPT ![c] = pop_off(cpu[c])] /\ tickslock' = None
      /\ state' = [state EXCEPT ![p] = "SLEEPING"]
      /\ UNCHANGED <<on, plock, nxt>>
      /\ pc' = [pc EXCEPT ![p] = "sched"] /\ trap' = [trap EXCEPT ![p] = "none"]
  BY Zenon, <1>0 DEF sleep_sleep, At, Go, Cpu, IInv, Types
<1>2. Moves(c, p) /\ pc'[p] = "sched" /\ trap'[p] = "none"
  BY ZenonT(60), <1>0, <1>1, MovesTo DEF PCs, Traps, Open
<1>3. /\ Depth(p) = 2 /\ Depth(p)' = 1 /\ HasTicks(p) /\ ~HasTicks(p)'
      /\ HasOwn(p) /\ HasOwn(p)' /\ ~Switching(p) /\ Switching(p)'
  BY Zenon, <1>1, <1>2 DEF Depth, HasTicks, HasOwn, Switching, Open
<1>4. SetsCpu(c, p)
  <2>1. cpu[c].noff = 2 /\ cpu[c].noff > 0 /\ ~cpu[c].ie  BY <1>0, <1>1, <1>3, HartIs
  <2>2. /\ cpu' \in [Cpus -> CpuType] /\ \A d \in Cpus \ {c} : cpu'[d] = cpu[d]
        /\ cpu'[c].noff = cpu[c].noff - 1 /\ (cpu'[c].ie <=> cpu[c].noff = 1 /\ cpu[c].intena)
    BY Zenon, <1>1, <2>1, CpuPop
  <2> QED  BY <1>2, <1>3, <2>1, <2>2 DEF SetsCpu
<1>5. SetsTicks(c, p)  BY Zenon, <1>1, <1>3 DEF SetsTicks
<1>6. SetsLock(c, p)  BY Zenon, <1>0, <1>1, <1>3 DEF SetsLock
<1>7. SetsState(p)  BY <1>0, <1>1, <1>2, <1>3, HartIs DEF SetsState, IInv, Types, States
<1> QED  BY Zenon, <1>2, <1>4, <1>5, <1>6, <1>7 DEF Local

\* sleep() releases p->lock after sched().
LEMMA SleepWokeInv ==
  ASSUME IInv, NEW c \in Cpus, NEW p \in Procs, sleep_woke(c, p)
  PROVE  Local(c, p)
<1>0. p \in Threads /\ p \notin Cpus  BY Zenon, SchedAssumption DEF Threads
<1>1. /\ on[c] = p /\ pc[p] = "woke" /\ trap[p] = "none"
      /\ cpu' = [cpu EXCEPT ![c] = pop_off(cpu[c])]
      /\ plock' = [plock EXCEPT ![p] = None]
      /\ UNCHANGED <<on, tickslock, state, nxt>>
      /\ pc' = [pc EXCEPT ![p] = "re_acq"] /\ trap' = [trap EXCEPT ![p] = "none"]
  BY Zenon, <1>0 DEF sleep_woke, At, Go, Cpu, IInv, Types
<1>2. Moves(c, p) /\ pc'[p] = "re_acq" /\ trap'[p] = "none"
  BY ZenonT(60), <1>0, <1>1, MovesTo DEF PCs, Traps, Open
<1>3. /\ Depth(p) = 1 /\ Depth(p)' = 0 /\ ~HasTicks(p) /\ ~HasTicks(p)'
      /\ HasOwn(p) /\ ~HasOwn(p)' /\ ~Switching(p) /\ ~Switching(p)'
  BY Zenon, <1>1, <1>2 DEF Depth, HasTicks, HasOwn, Switching, Open
<1>4. SetsCpu(c, p)
  <2>1. cpu[c].noff = 1 /\ cpu[c].noff > 0 /\ ~cpu[c].ie  BY <1>0, <1>1, <1>3, HartIs
  <2>2. /\ cpu' \in [Cpus -> CpuType] /\ \A d \in Cpus \ {c} : cpu'[d] = cpu[d]
        /\ cpu'[c].noff = cpu[c].noff - 1 /\ (cpu'[c].ie <=> cpu[c].noff = 1 /\ cpu[c].intena)
    BY Zenon, <1>1, <2>1, CpuPop
  <2> QED  BY <1>2, <1>3, <2>1, <2>2 DEF SetsCpu
<1>5. SetsTicks(c, p)  BY Zenon, <1>1, <1>3 DEF SetsTicks
<1>6. SetsLock(c, p)  BY Zenon, <1>0, <1>1, <1>3 DEF SetsLock
<1>7. SetsState(p)  BY Zenon, <1>0, <1>1, <1>2, <1>3, HartIs DEF SetsState, IInv, Types, States
<1> QED  BY Zenon, <1>2, <1>4, <1>5, <1>6, <1>7 DEF Local

-----------------------------------------------------------------------------
\* sleep() has tickslock again.
LEMMA SleepRelockInv ==
  ASSUME IInv, NEW c \in Cpus, NEW p \in Procs, sleep_relock(c, p)
  PROVE  Local(c, p)
<1>0. p \in Threads /\ p \notin Cpus  BY Zenon, SchedAssumption DEF Threads
<1>1. /\ on[c] = p /\ pc[p] = "re_spin" /\ trap[p] = "none" /\ tickslock = None
      /\ tickslock' = c
      /\ UNCHANGED <<cpu, on, plock, state, nxt>>
      /\ pc' = [pc EXCEPT ![p] = "loop"] /\ trap' = [trap EXCEPT ![p] = "none"]
  BY Zenon, <1>0 DEF sleep_relock, At, Go, IInv, Types
<1>2. Moves(c, p) /\ pc'[p] = "loop" /\ trap'[p] = "none"
  BY ZenonT(60), <1>0, <1>1, MovesTo DEF PCs, Traps, Open
<1>3. /\ Depth(p) = 1 /\ Depth(p)' = 1 /\ ~HasTicks(p) /\ HasTicks(p)'
      /\ ~HasOwn(p) /\ ~HasOwn(p)' /\ ~Switching(p) /\ ~Switching(p)'
  BY Zenon, <1>1, <1>2 DEF Depth, HasTicks, HasOwn, Switching, Open
<1>4. SetsCpu(c, p)  BY <1>0, <1>1, <1>2, <1>3, HartIs DEF SetsCpu, IInv, Types
<1>5. SetsTicks(c, p)  BY Zenon, <1>1, <1>3 DEF SetsTicks
<1>6. SetsLock(c, p)  BY Zenon, <1>0, <1>1, <1>3 DEF SetsLock
<1>7. SetsState(p)  BY Zenon, <1>0, <1>1, <1>2, <1>3, HartIs DEF SetsState, IInv, Types, States
<1> QED  BY Zenon, <1>2, <1>4, <1>5, <1>6, <1>7 DEF Local

\* The end of usertrap().
LEMMA UsertrapEndInv ==
  ASSUME IInv, NEW c \in Cpus, NEW p \in Procs, usertrap_end(c, p)
  PROVE  Local(c, p)
<1>0. p \in Threads /\ p \notin Cpus  BY Zenon, SchedAssumption DEF Threads
<1>1. /\ on[c] = p /\ pc[p] = "sysret" /\ trap[p] = "none"
      /\ pc'[p] \in {"exit", "usertrapret"}
      /\ UNCHANGED <<cpu, on, tickslock, plock, state, nxt>>
      /\ pc' = [pc EXCEPT ![p] = (IF killed[p] THEN "exit" ELSE "usertrapret")]
      /\ trap' = [trap EXCEPT ![p] = "none"]
  BY Zenon, <1>0 DEF usertrap_end, At, Go, IInv, Types
<1>2. Moves(c, p) /\ pc'[p] = (IF killed[p] THEN "exit" ELSE "usertrapret") /\ trap'[p] = "none"
  <2>1. (IF killed[p] THEN "exit" ELSE "usertrapret") \in PCs  BY Zenon DEF PCs, Open
  <2> QED  BY ZenonT(60), <1>0, <1>1, <2>1, MovesTo DEF Traps
<1>3. /\ Depth(p) = 0 /\ Depth(p)' = 0 /\ ~HasTicks(p) /\ ~HasTicks(p)'
      /\ ~HasOwn(p) /\ ~HasOwn(p)' /\ ~Switching(p) /\ ~Switching(p)'
  BY Zenon, <1>1, <1>2 DEF Depth, HasTicks, HasOwn, Switching, Open
<1>4. SetsCpu(c, p)  BY <1>0, <1>1, <1>2, <1>3, HartIs DEF SetsCpu, IInv, Types
<1>5. SetsTicks(c, p)  BY Zenon, <1>1, <1>3 DEF SetsTicks
<1>6. SetsLock(c, p)  BY Zenon, <1>0, <1>1, <1>3 DEF SetsLock
<1>7. SetsState(p)  BY Zenon, <1>0, <1>1, <1>2, <1>3, HartIs DEF SetsState, IInv, Types, States
<1> QED  BY Zenon, <1>2, <1>4, <1>5, <1>6, <1>7 DEF Local

\* usertrapret() goes back to user mode with interrupts on.
LEMMA UsertrapretInv ==
  ASSUME IInv, NEW c \in Cpus, NEW p \in Procs, usertrapret(c, p)
  PROVE  Local(c, p)
<1>0. p \in Threads /\ p \notin Cpus  BY Zenon, SchedAssumption DEF Threads
<1>1. /\ on[c] = p /\ pc[p] = "usertrapret" /\ trap[p] = "none"
      /\ cpu' = [cpu EXCEPT ![c] = [cpu[c] EXCEPT !.ie = TRUE]]
      /\ UNCHANGED <<on, tickslock, plock, state, nxt>>
      /\ pc' = [pc EXCEPT ![p] = "user"] /\ trap' = [trap EXCEPT ![p] = "none"]
  BY Zenon, <1>0 DEF usertrapret, At, Go, Cpu, IInv, Types
<1>2. Moves(c, p) /\ pc'[p] = "user" /\ trap'[p] = "none"
  BY ZenonT(60), <1>0, <1>1, MovesTo DEF PCs, Traps, Open
<1>3. /\ Depth(p) = 0 /\ Depth(p)' = 0 /\ ~HasTicks(p) /\ ~HasTicks(p)'
      /\ ~HasOwn(p) /\ ~HasOwn(p)' /\ ~Switching(p) /\ ~Switching(p)'
  BY Zenon, <1>1, <1>2 DEF Depth, HasTicks, HasOwn, Switching, Open
<1>4. SetsCpu(c, p)
  <2>1. cpu[c].noff = 0  BY Zenon, <1>0, <1>1, <1>3, HartIs
  <2>2. /\ cpu' \in [Cpus -> CpuType] /\ \A d \in Cpus \ {c} : cpu'[d] = cpu[d]
        /\ cpu'[c].noff = cpu[c].noff /\ cpu'[c].ie = TRUE
    BY Zenon, <1>1, <2>1, CpuIntr
  <2> QED  BY Zenon, <1>2, <1>3, <2>1, <2>2 DEF SetsCpu
<1>5. SetsTicks(c, p)  BY Zenon, <1>1, <1>3 DEF SetsTicks
<1>6. SetsLock(c, p)  BY Zenon, <1>0, <1>1, <1>3 DEF SetsLock
<1>7. SetsState(p)  BY Zenon, <1>0, <1>1, <1>2, <1>3, HartIs DEF SetsState, IInv, Types, States
<1> QED  BY Zenon, <1>2, <1>4, <1>5, <1>6, <1>7 DEF Local

\* exit() calls sched() with p->lock.
LEMMA ExitInv ==
  ASSUME IInv, NEW c \in Cpus, NEW p \in Procs, exit(c, p)
  PROVE  Local(c, p)
<1>0. p \in Threads /\ p \notin Cpus  BY Zenon, SchedAssumption DEF Threads
<1>1. /\ on[c] = p /\ pc[p] = "exit_spin" /\ trap[p] = "none" /\ plock[p] = None
      /\ plock' = [plock EXCEPT ![p] = c] /\ state' = [state EXCEPT ![p] = "ZOMBIE"]
      /\ UNCHANGED <<cpu, on, tickslock, nxt>>
      /\ pc' = [pc EXCEPT ![p] = "sched"] /\ trap' = [trap EXCEPT ![p] = "none"]
  BY Zenon, <1>0 DEF exit, At, Go, IInv, Types
<1>2. Moves(c, p) /\ pc'[p] = "sched" /\ trap'[p] = "none"
  BY ZenonT(60), <1>0, <1>1, MovesTo DEF PCs, Traps, Open
<1>3. /\ Depth(p) = 1 /\ Depth(p)' = 1 /\ ~HasTicks(p) /\ ~HasTicks(p)'
      /\ ~HasOwn(p) /\ HasOwn(p)' /\ ~Switching(p) /\ Switching(p)'
  BY Zenon, <1>1, <1>2 DEF Depth, HasTicks, HasOwn, Switching, Open
<1>4. SetsCpu(c, p)  BY <1>0, <1>1, <1>2, <1>3, HartIs DEF SetsCpu, IInv, Types
<1>5. SetsTicks(c, p)  BY Zenon, <1>1, <1>3 DEF SetsTicks
<1>6. SetsLock(c, p)  BY Zenon, <1>0, <1>1, <1>3 DEF SetsLock
<1>7. SetsState(p)  BY <1>0, <1>1, <1>2, <1>3, HartIs DEF SetsState, IInv, Types, States
<1> QED  BY Zenon, <1>2, <1>4, <1>5, <1>6, <1>7 DEF Local

\* yield() calls sched() with p->lock.
LEMMA YieldInv ==
  ASSUME IInv, NEW c \in Cpus, NEW p \in Procs, yield(c, p)
  PROVE  Local(c, p)
<1>0. p \in Threads /\ p \notin Cpus  BY Zenon, SchedAssumption DEF Threads
<1>1. /\ on[c] = p /\ trap[p] = "yield_spin" /\ plock[p] = None
      /\ plock' = [plock EXCEPT ![p] = c] /\ state' = [state EXCEPT ![p] = "RUNNABLE"]
      /\ UNCHANGED <<cpu, on, tickslock, nxt>>
      /\ pc' = [pc EXCEPT ![p] = pc[p]] /\ trap' = [trap EXCEPT ![p] = "sched"]
  BY Zenon, <1>0 DEF yield, In, Trap, IInv, Types
<1>2. Moves(c, p) /\ pc'[p] = pc[p] /\ trap'[p] = "sched"
  <2>1. pc[p] \in Open /\ pc[p] \in PCs  BY Zenon, <1>0, <1>1, HartIs DEF PCs
  <2> QED  BY ZenonT(30), <1>0, <1>1, <2>1, MovesTo DEF Traps
<1>3. /\ Depth(p) = 1 /\ Depth(p)' = 1 /\ ~HasTicks(p) /\ ~HasTicks(p)'
      /\ ~HasOwn(p) /\ HasOwn(p)' /\ ~Switching(p) /\ Switching(p)'
  BY Zenon, <1>1, <1>2 DEF Depth, HasTicks, HasOwn, Switching, Open
<1>4. SetsCpu(c, p)  BY <1>0, <1>1, <1>2, <1>3, HartIs DEF SetsCpu, IInv, Types
<1>5. SetsTicks(c, p)  BY Zenon, <1>1, <1>3 DEF SetsTicks
<1>6. SetsLock(c, p)  BY Zenon, <1>0, <1>1, <1>3 DEF SetsLock
<1>7. SetsState(p)  BY <1>0, <1>1, <1>2, <1>3, HartIs DEF SetsState, IInv, Types, States
<1> QED  BY Zenon, <1>2, <1>4, <1>5, <1>6, <1>7 DEF Local

\* usertrap(): into a system call, or to exit() with interrupts off.
LEMMA SyscallInv ==
  ASSUME IInv, NEW c \in Cpus, NEW p \in Procs, NEW k \in Naps, syscall(c, p, k)
  PROVE  Local(c, p)
<1>0. p \in Threads /\ p \notin Cpus  BY Zenon, SchedAssumption DEF Threads
<1>1. /\ on[c] = p /\ pc[p] = "user" /\ trap[p] = "none"
      /\ UNCHANGED <<on, tickslock, plock, state, nxt>>
      /\ trap' = [trap EXCEPT ![p] = "none"]
  BY Zenon, <1>0 DEF syscall, At, IInv, Types
<1>2. PICK s \in {"exit", "sys"} :
        /\ pc' = [pc EXCEPT ![p] = s]
        /\ \/ cpu' = [cpu EXCEPT ![c] = [cpu[c] EXCEPT !.ie = FALSE]]
           \/ cpu' = cpu
  BY Zenon DEF syscall, Go, Cpu
<1>3. Moves(c, p) /\ pc'[p] = s /\ trap'[p] = "none"
  BY ZenonT(60), <1>0, <1>1, <1>2, MovesTo DEF PCs, Traps, Open
<1>4. /\ Depth(p) = 0 /\ Depth(p)' = 0 /\ ~HasTicks(p) /\ ~HasTicks(p)'
      /\ ~HasOwn(p) /\ ~HasOwn(p)' /\ ~Switching(p) /\ ~Switching(p)'
  BY Zenon, <1>1, <1>2, <1>3 DEF Depth, HasTicks, HasOwn, Switching, Open
<1>5. SetsCpu(c, p)
  <2>1. cpu[c].noff = 0 /\ cpu \in [Cpus -> CpuType]
    BY Zenon, <1>0, <1>1, <1>4, HartIs DEF IInv, Types
  <2>2. CASE cpu' = [cpu EXCEPT ![c] = [cpu[c] EXCEPT !.ie = FALSE]]
    <3>1. /\ cpu' \in [Cpus -> CpuType] /\ \A d \in Cpus \ {c} : cpu'[d] = cpu[d]
          /\ cpu'[c].noff = cpu[c].noff
      BY ZenonT(30), <2>2, CpuIntr
    <3> QED  BY ZenonT(30), <1>3, <1>4, <2>1, <3>1 DEF SetsCpu
  <2>3. CASE cpu' = cpu
    BY ZenonT(30), <1>3, <1>4, <2>1, <2>3 DEF SetsCpu
  <2> QED  BY Zenon, <1>2, <2>2, <2>3
<1>6. SetsTicks(c, p)  BY Zenon, <1>1, <1>4 DEF SetsTicks
<1>7. SetsLock(c, p)  BY Zenon, <1>0, <1>1, <1>4 DEF SetsLock
<1>8. SetsState(p)  BY Zenon, <1>0, <1>1, <1>3, <1>4, HartIs DEF SetsState, IInv, Types, States
<1> QED  BY Zenon, <1>3, <1>5, <1>6, <1>7, <1>8 DEF Local

\* The interrupt handler returns from yield() with interrupts on.
LEMMA YieldBackInv ==
  ASSUME IInv, NEW c \in Cpus, NEW p \in Procs, yield_back(c, p)
  PROVE  Local(c, p)
<1>0. p \in Threads /\ p \notin Cpus  BY Zenon, SchedAssumption DEF Threads
<1>1. /\ on[c] = p /\ trap[p] = "woke"
      /\ cpu' = [cpu EXCEPT ![c] = [pop_off(cpu[c]) EXCEPT !.ie = TRUE]]
      /\ plock' = [plock EXCEPT ![p] = None]
      /\ UNCHANGED <<on, tickslock, state, nxt>>
      /\ pc' = [pc EXCEPT ![p] = pc[p]] /\ trap' = [trap EXCEPT ![p] = "none"]
  BY Zenon, <1>0 DEF yield_back, In, Cpu, Trap, IInv, Types
<1>2. pc[p] \in Open /\ pc[p] \in PCs  BY Zenon, <1>0, <1>1, HartIs DEF PCs
<1>3. Moves(c, p) /\ pc'[p] = pc[p] /\ trap'[p] = "none"
  BY ZenonT(30), <1>0, <1>1, <1>2, MovesTo DEF Traps
<1>4. /\ Depth(p) = 1 /\ Depth(p)' = 0 /\ ~HasTicks(p) /\ ~HasTicks(p)'
      /\ HasOwn(p) /\ ~HasOwn(p)' /\ ~Switching(p) /\ ~Switching(p)'
  BY Zenon, <1>1, <1>2, <1>3 DEF Depth, HasTicks, HasOwn, Switching, Open
<1>5. SetsCpu(c, p)
  <2>1. cpu[c].noff = 1 /\ cpu[c] \in CpuType /\ cpu \in [Cpus -> CpuType]
    BY <1>0, <1>1, <1>4, HartIs DEF IInv, Types
  <2>2. pop_off(cpu[c]) \in CpuType /\ pop_off(cpu[c]).noff = 0  BY <2>1, PopIs
  <2> DEFINE k == [pop_off(cpu[c]) EXCEPT !.ie = TRUE]
  <2>3. k \in CpuType /\ k.noff = 0  BY Zenon, <2>2 DEF CpuType
  <2>4. cpu' = [cpu EXCEPT ![c] = k]  BY Zenon, <1>1
  <2> HIDE DEF k
  <2> QED  BY Zenon, <1>3, <1>4, <2>1, <2>3, <2>4 DEF SetsCpu
<1>6. SetsTicks(c, p)  BY Zenon, <1>1, <1>4 DEF SetsTicks
<1>7. SetsLock(c, p)  BY Zenon, <1>0, <1>1, <1>4 DEF SetsLock
<1>8. SetsState(p)  BY Zenon, <1>0, <1>1, <1>3, <1>4, HartIs DEF SetsState, IInv, Types, States
<1> QED  BY Zenon, <1>3, <1>5, <1>6, <1>7, <1>8 DEF Local

\* A step within the interrupt handler on the stack of a process or of a scheduler.
LEMMA TrapTo ==
  ASSUME IInv, NEW c \in Cpus, NEW t \in Threads, on[c] = t, UNCHANGED <<on, nxt, pc>>,
         NEW h \in {"none", "clk", "clk_spin", "wake", "end"},
         trap' = [trap EXCEPT ![t] = h],
         h # "none" => pc[t] \in Open \cup {"scan"}
  PROVE  Moves(c, t) /\ pc'[t] = pc[t] /\ trap'[t] = h
BY Zenon, SchedAssumption DEF Moves, IInv, Types, Shapes, Threads, Traps

\* An interrupt comes only where no lock is held.
LEMMA InterruptInv ==
  ASSUME IInv, NEW c \in Cpus, NEW t \in Threads, interrupt(c, t)
  PROVE  Local(c, t)
<1>1. /\ on[c] = t /\ trap[t] = "none" /\ cpu[c].ie
      /\ cpu' = [cpu EXCEPT ![c] = [cpu[c] EXCEPT !.ie = FALSE]]
      /\ UNCHANGED <<on, tickslock, plock, state, pc, nxt>>
  BY Zenon DEF interrupt, Cpu
<1>2. PICK h \in {"clk", "end"} : trap' = [trap EXCEPT ![t] = h]
  BY Zenon DEF interrupt, Trap
<1>3. Depth(t) = 0  BY ZenonT(60), <1>1, HartIs
<1>4. pc[t] \in Open \cup {"scan"}
  <2>1. pc[t] \in PCs \cup {"scan", "back"}  BY Zenon DEF IInv, Types
  <2> QED  BY <1>1, <1>3, <2>1 DEF Depth, PCs
<1>5. Moves(c, t) /\ pc'[t] = pc[t] /\ trap'[t] = h
  <2>1. h \in {"none", "clk", "clk_spin", "wake", "end"} /\ UNCHANGED <<on, nxt, pc>>
    BY Zenon, <1>1
  <2>2. on[c] = t /\ trap' = [trap EXCEPT ![t] = h]  BY Zenon, <1>1, <1>2
  <2> QED
    BY Zenon, <1>4, <2>1, <2>2, SchedAssumption DEF Moves, IInv, Types, Shapes, Threads, Traps
<1>6. /\ Depth(t)' = 0 /\ ~HasTicks(t) /\ ~HasTicks(t)'
      /\ ~HasOwn(t) /\ ~HasOwn(t)' /\ ~Switching(t) /\ ~Switching(t)'
  BY Zenon, <1>1, <1>2, <1>4, <1>5 DEF Depth, HasTicks, HasOwn, Switching, Open
<1>7. SetsCpu(c, t)
  <2>1. cpu[c].noff = 0  BY Zenon, <1>1, <1>3, HartIs
  <2>2. /\ cpu' \in [Cpus -> CpuType] /\ \A d \in Cpus \ {c} : cpu'[d] = cpu[d]
        /\ cpu'[c].noff = cpu[c].noff /\ cpu'[c].ie = FALSE
    BY Zenon, <1>1, CpuIntr
  <2> QED  BY Zenon, <1>5, <1>6, <2>1, <2>2 DEF SetsCpu
<1>8. SetsTicks(c, t) /\ SetsLock(c, t)  BY Zenon, <1>1, <1>6 DEF SetsTicks, SetsLock
<1>9. SetsState(t)  BY <1>1, <1>6, HartIs DEF SetsState, IInv, Types
<1> QED  BY Zenon, <1>5, <1>7, <1>8, <1>9 DEF Local

\* clockintr() has tickslock.
LEMMA ClockInv ==
  ASSUME IInv, NEW c \in Cpus, NEW t \in Threads, clockintr(c, t)
  PROVE  Local(c, t)
<1>1. /\ on[c] = t /\ trap[t] = "clk_spin" /\ tickslock = None /\ tickslock' = c
      /\ trap' = [trap EXCEPT ![t] = "wake"]
      /\ UNCHANGED <<cpu, on, plock, state, pc, nxt>>
  BY Zenon DEF clockintr, In, Trap
<1>2. pc[t] \in Open \cup {"scan"}  BY Zenon, <1>1, HartIs
<1>3. Moves(c, t) /\ pc'[t] = pc[t] /\ trap'[t] = "wake"  BY ZenonT(60), <1>1, <1>2, TrapTo
<1>4. /\ Depth(t) = 1 /\ Depth(t)' = 1 /\ ~HasTicks(t) /\ HasTicks(t)'
      /\ ~HasOwn(t) /\ ~HasOwn(t)' /\ ~Switching(t) /\ ~Switching(t)'
  BY Zenon, <1>1, <1>2, <1>3 DEF Depth, HasTicks, HasOwn, Switching, Open
<1>5. SetsCpu(c, t)  BY <1>1, <1>3, <1>4, HartIs DEF SetsCpu, IInv, Types
<1>6. SetsTicks(c, t) /\ SetsLock(c, t)  BY ZenonT(30), <1>1, <1>4 DEF SetsTicks, SetsLock
<1>7. SetsState(t)  BY ZenonT(60), <1>1, <1>4, HartIs DEF SetsState, IInv, Types
<1> QED  BY Zenon, <1>3, <1>5, <1>6, <1>7 DEF Local

\* clockintr() releases tickslock.
LEMMA ClockEndInv ==
  ASSUME IInv, NEW c \in Cpus, NEW t \in Threads, clockintr_end(c, t)
  PROVE  Local(c, t)
<1>1. /\ on[c] = t /\ trap[t] = "wake" /\ tickslock' = None
      /\ cpu' = [cpu EXCEPT ![c] = pop_off(cpu[c])]
      /\ trap' = [trap EXCEPT ![t] = "end"]
      /\ UNCHANGED <<on, plock, state, pc, nxt>>
  BY Zenon DEF clockintr_end, In, Trap, Cpu
<1>2. pc[t] \in Open \cup {"scan"}  BY Zenon, <1>1, HartIs
<1>3. Moves(c, t) /\ pc'[t] = pc[t] /\ trap'[t] = "end"  BY ZenonT(60), <1>1, <1>2, TrapTo
<1>4. /\ Depth(t) = 1 /\ Depth(t)' = 0 /\ HasTicks(t) /\ ~HasTicks(t)'
      /\ ~HasOwn(t) /\ ~HasOwn(t)' /\ ~Switching(t) /\ ~Switching(t)'
  BY Zenon, <1>1, <1>2, <1>3 DEF Depth, HasTicks, HasOwn, Switching, Open
<1>5. SetsCpu(c, t)
  <2>1. cpu[c].noff = 1 /\ cpu[c].noff > 0 /\ ~cpu[c].ie /\ ~cpu[c].intena
    <3>1. /\ cpu[c].noff = Depth(t) /\ (cpu[c].ie => Depth(t) = 0)
          /\ (trap[t] \in {"clk_spin", "wake"} => ~cpu[c].intena)
      BY ZenonT(60), <1>1, HartIs
    <3> QED  BY <1>1, <1>4, <3>1
  <2>2. /\ cpu' \in [Cpus -> CpuType] /\ \A d \in Cpus \ {c} : cpu'[d] = cpu[d]
        /\ cpu'[c].noff = cpu[c].noff - 1
        /\ (cpu'[c].ie <=> cpu[c].noff = 1 /\ cpu[c].intena)
    BY Zenon, <1>1, <2>1, CpuPop
  <2>3. ~cpu'[c].ie  BY Zenon, <2>1, <2>2
  <2>4. cpu'[c].noff = 0  BY <2>1, <2>2
  <2> QED  BY ZenonT(30), <1>3, <1>4, <2>2, <2>3, <2>4 DEF SetsCpu
<1>6. SetsTicks(c, t) /\ SetsLock(c, t)  BY ZenonT(30), <1>1, <1>4 DEF SetsTicks, SetsLock
<1>7. SetsState(t)  BY <1>1, <1>4, HartIs DEF SetsState, IInv, Types
<1> QED  BY Zenon, <1>3, <1>5, <1>6, <1>7 DEF Local

\* The interrupt handler is done with devintr(): kerneltrap() of a scheduler returns,
\* usertrap() of a killed process calls exit(), and any other process yields.
LEMMA TrapEndInv ==
  ASSUME IInv, NEW c \in Cpus, NEW t \in Threads, trap_end(c, t)
  PROVE  Local(c, t)
<1>1. /\ on[c] = t /\ trap[t] = "end"
      /\ UNCHANGED <<on, tickslock, plock, state, nxt>>
  BY Zenon DEF trap_end, In
<1>2. pc[t] \in Open \cup {"scan"} /\ (t \in Procs => t \notin Cpus /\ pc[t] \in PCs)
      /\ (t \in Procs \/ t = c)
  BY ZenonT(60), <1>1, HartIs
<1>3. /\ Depth(t) = 0 /\ ~HasTicks(t) /\ ~HasOwn(t) /\ ~Switching(t)
      /\ cpu[c].noff = 0 /\ ~cpu[c].ie /\ cpu \in [Cpus -> CpuType]
  BY ZenonT(60), <1>1, HartIs DEF Depth, HasTicks, HasOwn, Switching, IInv, Types
<1>4. CASE t \in Cpus
  <2>1. /\ trap' = [trap EXCEPT ![t] = "none"] /\ UNCHANGED <<on, nxt, pc>>
        /\ cpu' = [cpu EXCEPT ![c] = [cpu[c] EXCEPT !.ie = TRUE]]
    <3>1. t \notin Procs  BY Zenon, <1>4, SchedAssumption
    <3> QED  BY Zenon, <1>1, <1>4, <3>1 DEF trap_end, Trap, Cpu, In
  <2>2. Moves(c, t) /\ pc'[t] = pc[t] /\ trap'[t] = "none"  BY ZenonT(30), <1>1, <2>1, TrapTo
  <2>3. t \notin Procs /\ pc[t] = "scan"
    BY Zenon, <1>1, <1>2, <1>4, SchedAssumption DEF IInv, Shapes, Open
  <2>4. Depth(t)' = 0 /\ ~HasTicks(t)'  BY Zenon, <2>2, <2>3 DEF Depth, HasTicks
  <2>5. SetsCpu(c, t)
    <3>1. /\ cpu' \in [Cpus -> CpuType] /\ \A d \in Cpus \ {c} : cpu'[d] = cpu[d]
          /\ cpu'[c].noff = cpu[c].noff
      BY ZenonT(30), <2>1, CpuIntr
    <3> QED  BY Zenon, <1>3, <2>2, <2>4, <3>1 DEF SetsCpu
  <2>6. SetsTicks(c, t) /\ SetsLock(c, t)
    BY Zenon, <1>1, <1>3, <1>4, <2>3, <2>4 DEF SetsTicks, SetsLock
  <2>7. SetsState(t)  BY Zenon, <1>1, <2>3 DEF SetsState, IInv, Types
  <2> QED  BY Zenon, <2>2, <2>5, <2>6, <2>7 DEF Local
<1>5. CASE t \in Procs
  <2>1. PICK s \in Open, h \in {"none", "yield"} :
          pc' = [pc EXCEPT ![t] = s] /\ trap' = [trap EXCEPT ![t] = h] /\ cpu' = cpu
    <3>1. pc = [pc EXCEPT ![t] = pc[t]]  BY Zenon DEF IInv, Types
    <3>2. pc[t] \in Open /\ "exit" \in Open /\ t \notin Cpus  BY Zenon, <1>2, <1>5 DEF PCs, Open
    <3> QED  BY Zenon, <1>5, <3>1, <3>2 DEF trap_end, Trap, Go
  <2>2. s \in PCs /\ h \in Traps  BY Zenon DEF PCs, Traps
  <2>3. Moves(c, t) /\ pc'[t] = s /\ trap'[t] = h
    <3>1. UNCHANGED <<on, nxt>> /\ (h # "none" => s \in Open)  BY Zenon, <1>1
    <3>2. pc' = [pc EXCEPT ![t] = s] /\ trap' = [trap EXCEPT ![t] = h]  BY Zenon, <2>1
    <3>3. on[c] = t  BY Zenon, <1>1
    <3> QED
      BY Zenon, <1>5, <2>2, <3>1, <3>2, <3>3, SchedAssumption DEF Moves, IInv, Types, Threads
  <2>4. Depth(t)' = 0 /\ ~HasTicks(t)' /\ ~HasOwn(t)' /\ ~Switching(t)'
    BY Zenon, <2>1, <2>3 DEF Depth, HasTicks, HasOwn, Switching, Open
  <2>5. SetsCpu(c, t)  BY Zenon, <1>3, <2>1, <2>3, <2>4 DEF SetsCpu
  <2>6. SetsTicks(c, t) /\ SetsLock(c, t)  BY Zenon, <1>1, <1>3, <2>4 DEF SetsTicks, SetsLock
  <2>7. SetsState(t)  BY ZenonT(60), <1>1, <1>3, <2>4, HartIs DEF SetsState, IInv, Types
  <2> QED  BY Zenon, <2>3, <2>5, <2>6, <2>7 DEF Local
<1> QED  BY Zenon, <1>2, <1>4, <1>5
-----------------------------------------------------------------------------
\* wakeup() and kill() make a sleeper runnable that is on no hart, since its p->lock is
\* free.
LEMMA AwakeInv ==
  ASSUME IInv, NEW q \in Procs, plock[q] = None,
         UNCHANGED <<cpu, on, tickslock, plock, pc, trap, nxt>>,
         state' = IF state[q] = "SLEEPING" THEN [state EXCEPT ![q] = "RUNNABLE"] ELSE state
  PROVE  IInv'
<1>1. Types'  BY Zenon DEF IInv, Types, States
<1>2. Shapes' /\ Running'  BY Zenon DEF IInv, Shapes, Running
<1>3. HartsFit' /\ TicksFit' /\ LocksFit'
  BY DEF IInv, HartsFit, TicksFit, LocksFit, Depth, HasTicks, HasOwn
<1>4. StatesFit'
  <2>1. CASE state[q] # "SLEEPING"
    BY Zenon, <2>1 DEF IInv, StatesFit, Switching
  <2>2. CASE state[q] = "SLEEPING"
    <3>1. trap[q] = "none" /\ pc[q] = "sched"  BY Zenon, <2>2 DEF IInv, StatesFit
    <3>2. HasOwn(q) /\ Switching(q)  BY Zenon, <3>1 DEF HasOwn, Switching
    <3>3. \A c \in Cpus : on[c] # q
      BY Zenon, <3>2, SchedAssumption DEF IInv, LocksFit
    <3>4. state'[q] = "RUNNABLE" /\ \A p \in Procs \ {q} : state'[p] = state[p]
      BY Zenon, <2>2 DEF IInv, Types
    <3> QED  BY <3>1, <3>2, <3>3, <3>4 DEF IInv, StatesFit, Switching
  <2> QED  BY Zenon, <2>1, <2>2
<1> QED  BY Zenon, <1>1, <1>2, <1>3, <1>4 DEF IInv

-----------------------------------------------------------------------------
\* scheduler() passes over a process.
LEMMA SkipInv ==
  ASSUME IInv, NEW c \in Cpus, scheduler_skip(c)
  PROVE  IInv'
<1> USE SchedAssumption
<1>1. /\ on[c] = c /\ pc[c] = "scan" /\ trap[c] = "none" /\ c \in Threads /\ c \notin Procs
      /\ UNCHANGED <<on, tickslock, plock, state, trap>> /\ pc' = pc
  BY Zenon DEF scheduler_skip, At, Go, IInv, Types, Threads
<1>2. /\ nxt' \in [Cpus -> Procs] /\ \A d \in Cpus \ {c} : nxt'[d] = nxt[d]
  BY Zenon DEF scheduler_skip, Advance, IInv, Types
<1>3. /\ cpu' \in [Cpus -> CpuType] /\ \A d \in Cpus \ {c} : cpu'[d] = cpu[d]
      /\ cpu'[c].noff = 0
  <2>1. cpu[c] \in CpuType /\ cpu[c].noff = 0 /\ cpu \in [Cpus -> CpuType]
    BY Zenon, <1>1, HartIs DEF Depth, IInv, Types
  <2>2. push_off(cpu[c]) \in CpuType /\ push_off(cpu[c]).noff = 1
    <3>1. cpu[c].noff < 2 /\ cpu[c].noff + 1 = 1  BY <2>1
    <3> QED  BY ZenonT(30), <2>1, <3>1, PushIs
  <2>3. pop_off(push_off(cpu[c])) \in CpuType /\ pop_off(push_off(cpu[c])).noff = 0
    BY <2>2, PopIs
  <2> DEFINE j == pop_off(push_off(cpu[c]))
             k == [j EXCEPT !.ie = @ \/ NextProc(nxt[c]) = None]
  <2>4. k \in CpuType /\ k.noff = 0
    <3> HIDE DEF j
    <3>1. j \in CpuType /\ j.noff = 0  BY Zenon, <2>3 DEF j
    <3>2. (j.ie \/ NextProc(nxt[c]) = None) \in BOOLEAN  BY Zenon
    <3> QED  BY ZenonT(30), <3>1, <3>2 DEF CpuType
  <2>5. cpu' = [cpu EXCEPT ![c] = k]  BY Zenon DEF scheduler_skip, Cpu
  <2> HIDE DEF k
  <2> QED  BY Zenon, <2>1, <2>4, <2>5
<1>4. Types'  BY Zenon, <1>1, <1>2, <1>3 DEF IInv, Types
<1>5. Shapes' /\ StatesFit' /\ TicksFit'
  BY <1>1 DEF IInv, Shapes, StatesFit, TicksFit, Switching, HasTicks
<1>6. Running'  BY ZenonT(60), <1>1, <1>2 DEF IInv, Running
<1>7. HartsFit'
  BY <1>1, <1>3 DEF IInv, HartsFit, Depth
<1>8. LocksFit'
  BY <1>1, <1>2 DEF IInv, LocksFit, HasOwn
<1> QED  BY Zenon, <1>4, <1>5, <1>6, <1>7, <1>8 DEF IInv

\* scheduler() has its hart back and releases p->lock.
LEMMA BackInv ==
  ASSUME IInv, NEW c \in Cpus, scheduler_back(c)
  PROVE  IInv'
<1> USE SchedAssumption
<1>1. /\ on[c] = c /\ pc[c] = "back" /\ trap[c] = "none" /\ c \in Threads /\ c \notin Procs
      /\ UNCHANGED <<on, tickslock, state, trap>>
      /\ pc' = [pc EXCEPT ![c] = "scan"] /\ plock' = [plock EXCEPT ![nxt[c]] = None]
      /\ nxt[c] \in Procs
  BY Zenon DEF scheduler_back, At, Go, IInv, Types, Threads
<1>2. /\ nxt' \in [Cpus -> Procs] /\ \A d \in Cpus \ {c} : nxt'[d] = nxt[d]
  BY Zenon DEF scheduler_back, Advance, IInv, Types
<1>3. /\ cpu' \in [Cpus -> CpuType] /\ \A d \in Cpus \ {c} : cpu'[d] = cpu[d]
      /\ cpu'[c].noff = 0
  <2>1. cpu[c] \in CpuType /\ cpu[c].noff = 1 /\ cpu \in [Cpus -> CpuType]
    BY <1>1, HartIs DEF Depth, IInv, Types, Open
  <2>2. pop_off(cpu[c]) \in CpuType /\ pop_off(cpu[c]).noff = 0
    BY <2>1, PopIs
  <2> DEFINE j == pop_off(cpu[c])
             k == [j EXCEPT !.ie = @ \/ NextProc(nxt[c]) = None]
  <2>4. k \in CpuType /\ k.noff = 0
    <3> HIDE DEF j
    <3>1. j \in CpuType /\ j.noff = 0  BY Zenon, <2>2 DEF j
    <3>2. (j.ie \/ NextProc(nxt[c]) = None) \in BOOLEAN  BY Zenon
    <3> QED  BY Zenon, <3>1, <3>2 DEF CpuType
  <2>5. cpu' = [cpu EXCEPT ![c] = k]  BY Zenon DEF scheduler_back, Cpu
  <2> HIDE DEF k
  <2>6. cpu'[c] = k /\ \A d \in Cpus \ {c} : cpu'[d] = cpu[d]  BY ZenonT(30), <2>1, <2>5
  <2>7. cpu' \in [Cpus -> CpuType]  BY ZenonT(30), <2>1, <2>4, <2>5
  <2> QED  BY Zenon, <2>4, <2>6, <2>7
<1>4. pc'[c] = "scan" /\ \A u \in Threads \ {c} : pc'[u] = pc[u]
  BY Zenon, <1>1 DEF IInv, Types
<1>5. Types'
  BY Zenon, <1>1, <1>2, <1>3 DEF IInv, Types
<1>6. Shapes' /\ StatesFit' /\ TicksFit'
  <2>1. \A p \in Procs : pc'[p] = pc[p]  BY Zenon, <1>1, <1>4 DEF Threads
  <2>2. Shapes'  BY Zenon, <1>1, <1>4, <2>1 DEF IInv, Shapes, Threads
  <2>3. StatesFit'  BY <1>1, <2>1 DEF IInv, StatesFit, Switching
  <2>4. TicksFit'  BY Zenon, <1>1, <1>4 DEF IInv, TicksFit, HasTicks, Types, Running
  <2> QED  BY Zenon, <2>2, <2>3, <2>4
<1>7. Running'  BY ZenonT(60), <1>1, <1>2, <1>4 DEF IInv, Running, Threads
<1>8. HartsFit'
  BY <1>1, <1>3, <1>4 DEF IInv, HartsFit, Depth, Types, Running
<1>9. LocksFit'
  <2>1. \A p \in Procs : HasOwn(p)' <=> HasOwn(p)  BY Zenon, <1>1, <1>4 DEF HasOwn, Threads
  <2>2. \A d \in Cpus \ {c} : pc'[d] = pc[d]  BY Zenon, <1>4 DEF Threads
  <2>3. plock[nxt[c]] = c  BY Zenon, <1>1 DEF IInv, LocksFit
  <2>4. plock'[nxt[c]] = None /\ \A p \in Procs \ {nxt[c]} : plock'[p] = plock[p]
    BY Zenon, <1>1 DEF IInv, Types
  <2> SUFFICES ASSUME NEW d \in Cpus, NEW p \in Procs
               PROVE  plock'[p] = d <=> \/ on'[d] = p /\ HasOwn(p)'
                                        \/ on'[d] = d /\ pc'[d] = "back" /\ nxt'[d] = p
    BY Zenon DEF LocksFit
  <2>5. plock[p] = d <=> \/ on[d] = p /\ HasOwn(p)
                         \/ on[d] = d /\ pc[d] = "back" /\ nxt[d] = p
    BY Zenon DEF IInv, LocksFit
  <2>6. on' = on /\ on[c] = c /\ c \notin Procs /\ None # d /\ pc'[c] = "scan" /\ pc[c] = "back"
    BY Zenon, <1>1, <1>4
  <2>7. CASE d = c  BY Zenon, <2>1, <2>3, <2>4, <2>5, <2>6, <2>7
  <2>8. CASE d # c
    <3>1. pc'[d] = pc[d] /\ nxt'[d] = nxt[d]  BY Zenon, <1>2, <2>2, <2>8
    <3> QED  BY Zenon, <2>1, <2>3, <2>4, <2>5, <2>6, <2>8, <3>1
  <2> QED  BY ZenonT(30), <2>7, <2>8
<1> QED  BY Zenon, <1>5, <1>6, <1>7, <1>8, <1>9 DEF IInv

\* scheduler() switches to a process.
LEMMA RunInv ==
  ASSUME IInv, intena \in [Procs -> BOOLEAN], NEW c \in Cpus, scheduler_run(c)
  PROVE  IInv'
<1> USE SchedAssumption
<1>0. PICK p \in Procs : p = nxt[c]  BY Zenon DEF IInv, Types
<1>1. /\ p \in Procs /\ p \notin Cpus /\ c \notin Procs /\ p \in Threads /\ c \in Threads
      /\ on[c] = c /\ pc[c] = "scan" /\ trap[c] = "none"
      /\ plock[p] = None /\ state[p] = "RUNNABLE"
      /\ plock' = [plock EXCEPT ![p] = c] /\ state' = [state EXCEPT ![p] = "RUNNING"]
      /\ on' = [on EXCEPT ![c] = p] /\ UNCHANGED <<tickslock, nxt>>
      /\ pc' = [pc EXCEPT ![c] = "back", ![p] = IF @ = "sched" THEN "woke" ELSE @]
      /\ trap' = [trap EXCEPT ![p] = IF @ = "sched" THEN "woke" ELSE @]
  BY Zenon, <1>0 DEF scheduler_run, At, IInv, Types, Threads
<1>2. /\ pc'[c] = "back" /\ pc'[p] = (IF pc[p] = "sched" THEN "woke" ELSE pc[p])
      /\ trap'[p] = (IF trap[p] = "sched" THEN "woke" ELSE trap[p]) /\ trap'[c] = "none"
      /\ \A u \in Threads \ {c, p} : pc'[u] = pc[u] /\ trap'[u] = trap[u]
      /\ pc' \in [Threads -> PCs \cup {"scan", "back"}] /\ trap' \in [Threads -> Traps]
  BY ZenonT(60), <1>1 DEF IInv, Types, PCs, Traps
<1>3. \A d \in Cpus : on[d] # p
  <2> SUFFICES ASSUME NEW d \in Cpus, on[d] = p PROVE FALSE  BY Zenon
  <2>1. Switching(p)  BY Zenon, <1>1 DEF IInv, StatesFit
  <2>2. HasOwn(p)  BY Zenon, <2>1 DEF Switching, HasOwn
  <2>3. plock[p] = d  BY <1>1, <2>2 DEF IInv, LocksFit
  <2> QED  BY Zenon, <1>1, <2>3
<1>4. Switching(p) \/ (trap[p] = "none" /\ pc[p] = "forkret")
  BY Zenon, <1>1, <1>3 DEF IInv, StatesFit
<1>5. \/ trap'[p] = "none" /\ pc'[p] \in {"forkret", "woke"}
      \/ trap'[p] = "woke" /\ pc'[p] = pc[p] /\ pc[p] \in Open
  <2>1. trap[p] # "none" => pc[p] \in Open
    BY Zenon, <1>1 DEF IInv, Shapes, PCs, Open
  <2> QED  BY Zenon, <1>1, <1>2, <1>4, <2>1 DEF Switching, Open
<1>6. Depth(p)' = 1 /\ ~HasTicks(p)' /\ HasOwn(p)' /\ ~Switching(p)'
  BY Zenon, <1>5 DEF Depth, HasTicks, HasOwn, Switching, Open
<1>7. on'[c] = p /\ \A d \in Cpus \ {c} : on'[d] = on[d] /\ on[d] # c /\ on[d] # p
  BY ZenonT(60), <1>1, <1>3 DEF IInv, Types, Running
<1>8. /\ cpu' \in [Cpus -> CpuType] /\ \A d \in Cpus \ {c} : cpu'[d] = cpu[d]
      /\ cpu'[c].noff = 1 /\ ~cpu'[c].ie
  <2>1. cpu[c] \in CpuType /\ cpu[c].noff = 0 /\ cpu \in [Cpus -> CpuType]
    BY Zenon, <1>1, HartIs DEF Depth, IInv, Types
  <2> DEFINE j == push_off(cpu[c])
             k == Resumed(j, p)
  <2>2. j \in CpuType /\ j.noff = 1 /\ j.ie = FALSE
    <3>1. cpu[c].noff < 2 /\ cpu[c].noff + 1 = 1  BY <2>1
    <3> QED  BY Zenon, <2>1, <3>1, PushIs
  <2> HIDE DEF j
  <2>3. intena[p] \in BOOLEAN  BY Zenon, <1>1
  <2>4. k \in CpuType /\ k.noff = 1 /\ k.ie = FALSE  BY Zenon, <2>2, <2>3 DEF CpuType, Resumed
  <2>5. cpu' = [cpu EXCEPT ![c] = k]  BY Zenon, <1>0 DEF scheduler_run, Cpu, j
  <2> HIDE DEF k
  <2> QED  BY Zenon, <2>1, <2>4, <2>5
<1>9. Types'
  BY ZenonT(60), <1>1, <1>2, <1>8 DEF IInv, Types, States
<1>10. Shapes'
  BY <1>1, <1>2, <1>5 DEF IInv, Shapes, PCs, Open, Threads
<1>11. Running'
  <2>1. \A d \in Cpus \ {c} : pc'[d] = pc[d]  BY Zenon, <1>1, <1>2 DEF Threads
  <2>2. \A d \in Cpus : on'[d] = d \/ (on'[d] \in Procs /\ nxt[d] = on'[d] /\ pc'[d] = "back")
    <3>1. \A d \in Cpus : on[d] = d \/ (on[d] \in Procs /\ nxt[d] = on[d] /\ pc[d] = "back")
      BY Zenon DEF IInv, Running
    <3>2. on'[c] \in Procs /\ nxt[c] = on'[c] /\ pc'[c] = "back"  BY Zenon, <1>0, <1>2, <1>7
    <3> QED  BY ZenonT(30), <1>7, <2>1, <3>1, <3>2
  <2>3. \A d, e \in Cpus : on'[d] = on'[e] => d = e  BY Zenon, <1>7 DEF IInv, Running
  <2> QED  BY ZenonT(30), <1>1, <2>2, <2>3 DEF Running
<1>12. \A u \in Threads \ {c, p} :
         /\ Depth(u)' = Depth(u) /\ (HasTicks(u)' <=> HasTicks(u))
         /\ (HasOwn(u)' <=> HasOwn(u)) /\ (Switching(u)' <=> Switching(u))
  BY Zenon, <1>2 DEF Depth, HasTicks, HasOwn, Switching
<1>13. \A d \in Cpus \ {c} : on'[d] = on[d] /\ on[d] \in Threads \ {c, p}
  BY Zenon, <1>7 DEF IInv, Types
<1>14. StatesFit'
  <2>1. state'[p] = "RUNNING" /\ \A q \in Procs \ {p} : state'[q] = state[q]
    BY Zenon, <1>1 DEF IInv, Types
  <2>2. \A q \in Procs \ {p} : q \in Threads \ {c, p} /\ \A d \in Cpus : on'[d] = q <=> on[d] = q
    BY Zenon, <1>1, <1>7 DEF Threads
  <2>3. ASSUME NEW d \in Cpus, NEW q \in Procs, on'[d] = q
        PROVE  state'[q] = "RUNNING" <=> ~Switching(q)'
    <3>1. CASE q = p  BY Zenon, <1>6, <2>1, <3>1
    <3>2. CASE q # p
      <4>1. on[d] = q /\ state'[q] = state[q] /\ (Switching(q)' <=> Switching(q))
        BY Zenon, <1>12, <2>1, <2>2, <2>3, <3>2
      <4>2. state[q] = "RUNNING" <=> ~Switching(q)  BY Zenon, <4>1 DEF IInv, StatesFit
      <4> QED  BY Zenon, <4>1, <4>2
    <3> QED  BY Zenon, <3>1, <3>2
  <2>4. ASSUME NEW q \in Procs, \A d \in Cpus : on'[d] # q
        PROVE  /\ state'[q] # "RUNNING"
               /\ Switching(q)' \/ (trap'[q] = "none" /\ pc'[q] = "forkret")
    <3>1. q # p /\ q \in Threads \ {c, p}  BY Zenon, <1>7, <2>2, <2>4
    <3>2. \A d \in Cpus : on[d] # q  BY Zenon, <2>2, <2>4, <3>1
    <3>3. state[q] # "RUNNING" /\ (Switching(q) \/ (trap[q] = "none" /\ pc[q] = "forkret"))
      BY Zenon, <3>2 DEF IInv, StatesFit
    <3>4. /\ state'[q] = state[q] /\ (Switching(q)' <=> Switching(q))
          /\ trap'[q] = trap[q] /\ pc'[q] = pc[q]
      BY ZenonT(30), <1>2, <1>12, <2>1, <3>1
    <3> QED  BY Zenon, <3>3, <3>4
  <2>5. ASSUME NEW q \in Procs, state'[q] \in {"SLEEPING", "ZOMBIE"}
        PROVE  trap'[q] = "none" /\ pc'[q] = "sched"
    <3>1. q # p /\ q \in Threads \ {c, p} /\ state'[q] = state[q]  BY Zenon, <2>1, <2>2, <2>5
    <3>2. trap[q] = "none" /\ pc[q] = "sched"  BY ZenonT(60), <2>5, <3>1 DEF IInv, StatesFit
    <3> QED  BY Zenon, <1>2, <3>1, <3>2
  <2> QED  BY Zenon, <2>3, <2>4, <2>5 DEF StatesFit
<1>15. HartsFit'
  <2>1. trap'[p] \notin {"clk_spin", "wake"}  BY Zenon, <1>5
  <2>2. \A d \in Cpus \ {c} : trap'[on'[d]] = trap[on[d]] /\ Depth(on[d])' = Depth(on[d])
    <3> TAKE d \in Cpus \ {c}
    <3>1. PICK u \in Threads \ {c, p} : u = on[d] /\ u = on'[d]  BY Zenon, <1>13
    <3>2. Depth(u)' = Depth(u) /\ trap'[u] = trap[u]  BY ZenonT(30), <1>2, <1>12
    <3> QED  BY ZenonT(30), <3>1, <3>2 DEF Depth
  <2> QED  BY <1>6, <1>7, <1>8, <1>13, <2>1, <2>2 DEF IInv, HartsFit
<1>16. TicksFit'
  <2>1. ~HasTicks(c)  BY Zenon, <1>1 DEF HasTicks
  <2>2. tickslock # c  BY Zenon, <1>1, <2>1 DEF IInv, TicksFit
  <2> QED  BY Zenon, <1>1, <1>6, <1>7, <1>12, <1>13, <2>2 DEF IInv, TicksFit
<1>17. LocksFit'
  <2>1. plock'[p] = c /\ \A q \in Procs \ {p} : plock'[q] = plock[q]
    BY Zenon, <1>1 DEF IInv, Types
  <2>2. \A d \in Cpus \ {c} : d \in Threads \ {c, p} /\ pc'[d] = pc[d]
    BY Zenon, <1>1, <1>2 DEF Threads
  <2>3. \A q \in Procs \ {p} : q \in Threads \ {c, p}  BY Zenon, <1>1 DEF Threads
  <2> SUFFICES ASSUME NEW d \in Cpus, NEW q \in Procs
               PROVE  plock'[q] = d <=> \/ on'[d] = q /\ HasOwn(q)'
                                        \/ on'[d] = d /\ pc'[d] = "back" /\ nxt'[d] = q
    BY Zenon DEF LocksFit
  <2>4. plock[q] = d <=> \/ on[d] = q /\ HasOwn(q)
                         \/ on[d] = d /\ pc[d] = "back" /\ nxt[d] = q
    BY Zenon DEF IInv, LocksFit
  <2>5. plock[p] = None /\ None # d /\ nxt' = nxt /\ p \notin Cpus  BY Zenon, <1>1
  <2>6. CASE d = c
    <3>1. on'[d] = p /\ d # p /\ on[d] = c /\ c # q /\ pc[d] = "scan"  BY Zenon, <1>1, <1>7, <2>6
    <3> QED  BY Zenon, <1>6, <2>1, <2>4, <2>6, <3>1
  <2>7. CASE d # c
    <3>1. on'[d] = on[d] /\ on[d] # p /\ pc'[d] = pc[d]  BY Zenon, <1>7, <2>2, <2>7
    <3>2. CASE q = p
      <4>1. plock'[q] = c /\ plock[q] # d  BY Zenon, <2>1, <2>5, <3>2
      <4> QED  BY Zenon, <2>4, <2>5, <2>7, <3>1, <3>2, <4>1
    <3>3. CASE q # p
      <4>1. plock'[q] = plock[q] /\ (HasOwn(q)' <=> HasOwn(q))  BY Zenon, <1>12, <2>1, <2>3, <3>3
      <4> QED  BY Zenon, <2>4, <2>5, <3>1, <4>1
    <3> QED  BY Zenon, <3>2, <3>3
  <2> QED  BY Zenon, <2>6, <2>7
<1> QED  BY Zenon, <1>9, <1>10, <1>11, <1>14, <1>15, <1>16, <1>17 DEF IInv

\* sched() gives the hart back to its scheduler.
LEMMA SchedInv ==
  ASSUME IInv, NEW c \in Cpus, NEW p \in Procs, sched(c, p)
  PROVE  IInv'
<1> USE SchedAssumption
<1>1. /\ on[c] = p /\ Switching(p) /\ on' = [on EXCEPT ![c] = c]
      /\ UNCHANGED <<cpu, tickslock, plock, state, pc, trap, nxt>>
  BY Zenon DEF sched
<1>2. /\ c \notin Procs /\ p \notin Cpus /\ p \in Threads /\ c \in Threads
      /\ nxt[c] = p /\ pc[c] = "back" /\ trap[c] = "none"
  BY Zenon, <1>1 DEF IInv, Running, Shapes, Threads, Open
<1>3. on'[c] = c /\ \A d \in Cpus \ {c} : on'[d] = on[d] /\ on[d] # p /\ on[d] # c
  BY <1>1, <1>2 DEF IInv, Types, Running
<1>4. /\ Depth(c) = 1 /\ ~HasTicks(c) /\ Depth(p) = 1 /\ ~HasTicks(p) /\ HasOwn(p)
  BY ZenonT(30), <1>1, <1>2 DEF Depth, HasTicks, HasOwn, Switching, Open
<1>5. Types'  BY Zenon, <1>1, <1>2 DEF IInv, Types
<1>6. Shapes'  BY Zenon, <1>1 DEF IInv, Shapes
<1>7. Running'
  <2>1. \A d \in Cpus : on'[d] = IF d = c THEN c ELSE on[d]  BY Zenon, <1>3
  <2>2. Running  BY Zenon DEF IInv
  <2>3. nxt' = nxt /\ pc' = pc  BY Zenon, <1>1
  <2>4. \A d \in Cpus : d # c => on[d] # c  BY ZenonT(60), <1>3
  <2> QED  BY ONLY <2>1, <2>2, <2>3, <2>4 DEF Running
<1>8. StatesFit'
  <2>1. state[p] # "RUNNING"  BY Zenon, <1>1 DEF IInv, StatesFit
  <2>2. \A q \in Procs \ {p} : \A d \in Cpus : on'[d] = q <=> on[d] = q  BY Zenon, <1>1, <1>2, <1>3
  <2>3. \A d \in Cpus : on'[d] # p  BY Zenon, <1>2, <1>3
  <2>4. \A q \in Procs : Switching(q)' <=> Switching(q)  BY Zenon, <1>1 DEF Switching
  <2> QED  BY <1>1, <2>1, <2>2, <2>3, <2>4 DEF IInv, StatesFit
<1>9. HartsFit'
  <2>1. cpu[c].noff = 1 /\ ~cpu[c].ie
    <3>1. cpu[c].noff = Depth(p) /\ (cpu[c].ie => Depth(p) = 0)  BY Zenon, <1>1 DEF IInv, HartsFit
    <3> QED  BY <1>4, <3>1
  <2>2. pc' = pc /\ trap' = trap /\ cpu' = cpu  BY Zenon, <1>1
  <2>3. \A u \in Threads : Depth(u)' = Depth(u)  BY Zenon, <2>2 DEF Depth
  <2> SUFFICES ASSUME NEW d \in Cpus
               PROVE  /\ cpu'[d].noff = Depth(on[d])'
                      /\ cpu'[d].ie => Depth(on[d])' = 0 /\ trap'[on'[d]] = "none"
                      /\ trap'[on'[d]] \in {"clk_spin", "wake"} => ~cpu'[d].intena
    BY Zenon DEF HartsFit
  <2>4. PICK u \in Threads : u = on'[d] /\ (d = c => u = c) /\ (d # c => u = on[d])
    BY Zenon, <1>2, <1>3 DEF IInv, Types
  <2>5. Depth(on[d])' = Depth(u)  BY Zenon, <2>3, <2>4 DEF Depth
  <2>6. CASE d = c  BY ZenonT(30), <1>2, <1>4, <2>1, <2>2, <2>4, <2>5, <2>6
  <2>7. CASE d # c
    <3>1. /\ cpu[d].noff = Depth(u) /\ (cpu[d].ie => Depth(u) = 0 /\ trap[u] = "none")
          /\ trap[u] \in {"clk_spin", "wake"} => ~cpu[d].intena
      BY Zenon, <2>4, <2>7 DEF IInv, HartsFit
    <3> QED  BY Zenon, <2>2, <2>4, <2>5, <3>1
  <2> QED  BY Zenon, <2>6, <2>7
<1>10. TicksFit'
  <2>1. \A u \in Threads : HasTicks(u)' <=> HasTicks(u)  BY Zenon, <1>1 DEF HasTicks
  <2> QED  BY <1>1, <1>2, <1>3, <1>4, <2>1 DEF IInv, TicksFit, Types
<1>11. LocksFit'
  <2>1. \A u \in Threads : HasOwn(u)' <=> HasOwn(u)  BY Zenon, <1>1 DEF HasOwn
  <2>2. plock[p] = c  BY Zenon, <1>1, <1>4 DEF IInv, LocksFit
  <2> QED  BY <1>1, <1>2, <1>3, <1>4, <2>1, <2>2 DEF IInv, LocksFit, Threads
<1> QED  BY Zenon, <1>5, <1>6, <1>7, <1>8, <1>9, <1>10, <1>11 DEF IInv

-----------------------------------------------------------------------------
\* sched() keeps a Boolean.
Saved == intena \in [Procs -> BOOLEAN]

\* The initial state has it all.
LEMMA InitInv ==
  ASSUME Init
  PROVE  IInv /\ Saved
<1> USE SchedAssumption DEF Init
<1>1. Types  BY DEF Types, CpuType, Threads, PCs, States, Traps
<1>2. Shapes  BY Zenon DEF Shapes, Threads, PCs
<1>3. Running  BY Zenon DEF Running
<1>4. StatesFit  BY Zenon DEF StatesFit, Threads
<1>5. \A c \in Cpus : pc[c] = "scan" /\ trap[c] = "none" /\ on[c] = c  BY Zenon DEF Threads
<1>6. HartsFit  BY ZenonT(60), <1>5 DEF HartsFit, Depth
<1>7. TicksFit  BY ZenonT(60), <1>5 DEF TicksFit, HasTicks
<1>8. LocksFit  BY ZenonT(60), <1>5 DEF LocksFit
<1> QED  BY Zenon, <1>1, <1>2, <1>3, <1>4, <1>6, <1>7, <1>8 DEF IInv, Saved

\* A step of a thread that stays on its hart, whatever it is.
Stays(c, t) ==
  \/ acquire_push(c, t)
  \/ clockintr(c, t)
  \/ clockintr_end(c, t)
  \/ trap_end(c, t)
  \/ interrupt(c, t)
  \/ (t \in Procs /\ forkret(c, t))
  \/ (t \in Procs /\ sys_sleep(c, t))
  \/ (t \in Procs /\ sleep_done(c, t))
  \/ (t \in Procs /\ sleep(c, t))
  \/ (t \in Procs /\ sleep_lock(c, t))
  \/ (t \in Procs /\ sleep_sleep(c, t))
  \/ (t \in Procs /\ sleep_woke(c, t))
  \/ (t \in Procs /\ sleep_relock(c, t))
  \/ (t \in Procs /\ usertrap_end(c, t))
  \/ (t \in Procs /\ usertrapret(c, t))
  \/ (t \in Procs /\ exit(c, t))
  \/ (t \in Procs /\ yield(c, t))
  \/ (t \in Procs /\ yield_back(c, t))
  \/ (t \in Procs /\ \E k \in Naps : syscall(c, t, k))

\* Each of them keeps the invariant, and the intena that sched() has saved.
LEMMA StaysInv ==
  ASSUME IInv, NEW c \in Cpus, NEW t \in Threads, Stays(c, t)
  PROVE  Local(c, t) /\ UNCHANGED intena
<1>1. CASE acquire_push(c, t)  BY ZenonT(30), <1>1, PushInv DEF acquire_push
<1>2. CASE clockintr(c, t)  BY Zenon, <1>2, ClockInv DEF clockintr
<1>3. CASE clockintr_end(c, t)  BY Zenon, <1>3, ClockEndInv DEF clockintr_end
<1>4. CASE trap_end(c, t)  BY Zenon, <1>4, TrapEndInv DEF trap_end
<1>5. CASE interrupt(c, t)  BY Zenon, <1>5, InterruptInv DEF interrupt
<1>6. CASE t \in Procs /\ forkret(c, t)  BY Zenon, <1>6, ForkretInv DEF forkret
<1>7. CASE t \in Procs /\ sys_sleep(c, t)  BY Zenon, <1>7, SysSleepInv DEF sys_sleep
<1>8. CASE t \in Procs /\ sleep_done(c, t)  BY Zenon, <1>8, SleepDoneInv DEF sleep_done
<1>9. CASE t \in Procs /\ sleep(c, t)  BY Zenon, <1>9, SleepInv DEF sleep
<1>10. CASE t \in Procs /\ sleep_lock(c, t)  BY Zenon, <1>10, SleepLockInv DEF sleep_lock
<1>11. CASE t \in Procs /\ sleep_sleep(c, t)  BY Zenon, <1>11, SleepSleepInv DEF sleep_sleep
<1>12. CASE t \in Procs /\ sleep_woke(c, t)  BY Zenon, <1>12, SleepWokeInv DEF sleep_woke
<1>13. CASE t \in Procs /\ sleep_relock(c, t)  BY Zenon, <1>13, SleepRelockInv DEF sleep_relock
<1>14. CASE t \in Procs /\ usertrap_end(c, t)  BY Zenon, <1>14, UsertrapEndInv DEF usertrap_end
<1>15. CASE t \in Procs /\ usertrapret(c, t)  BY Zenon, <1>15, UsertrapretInv DEF usertrapret
<1>16. CASE t \in Procs /\ exit(c, t)  BY Zenon, <1>16, ExitInv DEF exit
<1>17. CASE t \in Procs /\ yield(c, t)  BY Zenon, <1>17, YieldInv DEF yield
<1>18. CASE t \in Procs /\ yield_back(c, t)  BY ZenonT(30), <1>18, YieldBackInv DEF yield_back
<1>19. CASE t \in Procs /\ \E k \in Naps : syscall(c, t, k)  BY Zenon, <1>19, SyscallInv DEF syscall
<1> QED
  BY Zenon, <1>1, <1>2, <1>3, <1>4, <1>5, <1>6, <1>7, <1>8, <1>9, <1>10, <1>11, <1>12, <1>13,
     <1>14, <1>15, <1>16, <1>17, <1>18, <1>19 DEF Stays

\* The steps of the kernel: one of a thread that stays, or a switch, a scan or a wakeup.
LEMMA NextIs ==
  ASSUME Next
  PROVE  \E c \in Cpus :
           \/ \E t \in Threads : Stays(c, t)
           \/ scheduler_skip(c) \/ scheduler_run(c) \/ scheduler_back(c)
           \/ \E p \in Procs : sched(c, p)
           \/ \E t \in Threads, q \in Procs : wakeup(c, t, q)
           \/ \E p \in Procs, q \in Procs : kill(c, p, q)
<1> PICK c \in Cpus :
      \/ Scheduler(c)
      \/ \E t \in Threads : Handler(c, t)
      \/ \E p \in Procs : Process(c, p)
      \/ \E t \in Threads : interrupt(c, t)
      \/ \E p \in Procs : (\E k \in Naps : syscall(c, p, k)) \/ (\E q \in Procs : kill(c, p, q))
  BY Zenon DEF Next
<1> USE DEF Stays
<1>1. CASE Scheduler(c)  BY Zenon, <1>1 DEF Scheduler
<1>2. ASSUME NEW t \in Threads, Handler(c, t) PROVE
         (\E q \in Procs : wakeup(c, t, q)) \/ Stays(c, t)
  BY Zenon, <1>2 DEF Handler
<1>3. ASSUME NEW p \in Procs, Process(c, p) PROVE sched(c, p) \/ Stays(c, p)
  BY Zenon, <1>3 DEF Process
<1>4. ASSUME NEW t \in Threads, interrupt(c, t) PROVE Stays(c, t)  BY Zenon, <1>4
<1>5. ASSUME NEW p \in Procs, NEW k \in Naps, syscall(c, p, k) PROVE Stays(c, p)  BY Zenon, <1>5
<1>6. \A p \in Procs : p \in Threads  BY Zenon DEF Threads
<1> HIDE DEF Stays
<1> QED  BY Zenon, <1>1, <1>2, <1>3, <1>4, <1>5, <1>6

\* Every step keeps the invariant.
LEMMA NextInv ==
  ASSUME IInv, Saved, Next
  PROVE  IInv' /\ Saved'
<1>1. ASSUME NEW c \in Cpus, NEW t \in Threads, Stays(c, t) PROVE IInv' /\ Saved'
  BY Zenon, <1>1, StaysInv, LocalInv DEF Saved
<1>2. ASSUME NEW c \in Cpus, scheduler_skip(c) PROVE IInv' /\ Saved'
  <2>1. UNCHANGED intena  BY Zenon, <1>2 DEF scheduler_skip
  <2> QED  BY Zenon, <1>2, <2>1, SkipInv DEF Saved
<1>3. ASSUME NEW c \in Cpus, scheduler_run(c) PROVE IInv' /\ Saved'
  <2>1. intena' = [intena EXCEPT ![nxt[c]] = FALSE]  BY Zenon, <1>3 DEF scheduler_run
  <2>2. Saved'  BY ZenonT(30), <2>1 DEF Saved
  <2>3. intena \in [Procs -> BOOLEAN]  BY Zenon DEF Saved
  <2> QED  BY Zenon, <1>3, <2>2, <2>3, RunInv
<1>4. ASSUME NEW c \in Cpus, scheduler_back(c) PROVE IInv' /\ Saved'
  <2>1. UNCHANGED intena  BY Zenon, <1>4 DEF scheduler_back
  <2> QED  BY Zenon, <1>4, <2>1, BackInv DEF Saved
<1>5. ASSUME NEW c \in Cpus, NEW p \in Procs, sched(c, p) PROVE IInv' /\ Saved'
  <2>1. intena' = [intena EXCEPT ![p] = cpu[c].intena]  BY Zenon, <1>5 DEF sched
  <2>2. cpu[c].intena \in BOOLEAN  BY Zenon DEF IInv, Types, CpuType
  <2>3. Saved'  BY Zenon, <2>1, <2>2 DEF Saved
  <2> QED  BY Zenon, <1>5, <2>3, SchedInv
<1>6. ASSUME NEW c \in Cpus, NEW t \in Threads, NEW q \in Procs, wakeup(c, t, q)
      PROVE  IInv' /\ Saved'
  <2>1. /\ plock[q] = None /\ UNCHANGED intena
        /\ UNCHANGED <<cpu, on, tickslock, plock, pc, trap, nxt>>
        /\ state' = IF state[q] = "SLEEPING" THEN [state EXCEPT ![q] = "RUNNABLE"] ELSE state
    BY Zenon, <1>6 DEF wakeup
  <2> QED  BY Zenon, <2>1, AwakeInv DEF Saved
<1>7. ASSUME NEW c \in Cpus, NEW p \in Procs, NEW q \in Procs, kill(c, p, q) PROVE IInv' /\ Saved'
  <2>1. /\ plock[q] = None /\ UNCHANGED intena
        /\ UNCHANGED <<cpu, on, tickslock, plock, pc, trap, nxt>>
        /\ state' = IF state[q] = "SLEEPING" THEN [state EXCEPT ![q] = "RUNNABLE"] ELSE state
    BY Zenon, <1>7 DEF kill
  <2> QED  BY Zenon, <2>1, AwakeInv DEF Saved
<1> QED  BY Zenon, <1>1, <1>2, <1>3, <1>4, <1>5, <1>6, <1>7, NextIs

\* The invariant holds in every state: who runs where, who holds which lock, and how deep
\* each hart is in push_off()s.
THEOREM Inductive == Spec => [](IInv /\ Saved)
<1>1. Init => IInv /\ Saved  BY Zenon, InitInv
<1>2. ASSUME IInv, Saved, [Next]_vars PROVE (IInv /\ Saved)'
  <2>1. CASE Next  BY Zenon, <1>2, <2>1, NextInv
  <2>2. CASE UNCHANGED vars
    <3>1. UNCHANGED <<cpu, on, tickslock, plock, state, pc, trap, intena, nxt>>
      BY Zenon, <2>2 DEF vars
    <3>2. Types' /\ Shapes' /\ Running' /\ Saved'
      BY Zenon, <1>2, <3>1 DEF IInv, Saved, Types, Shapes, Running
    <3>3. /\ cpu' = cpu /\ on' = on /\ tickslock' = tickslock /\ plock' = plock
          /\ state' = state /\ pc' = pc /\ trap' = trap /\ nxt' = nxt
      BY Zenon, <3>1
    <3>4. StatesFit' /\ LocksFit'
      <4>1. StatesFit'  BY Zenon, <1>2, <3>3 DEF IInv, StatesFit, Switching
      <4>2. LocksFit'  BY <1>2, <3>3 DEF IInv, LocksFit, HasOwn
      <4> QED  BY Zenon, <4>1, <4>2
    <3>5. HartsFit' /\ TicksFit'
      BY Zenon, <1>2, <3>3 DEF IInv, HartsFit, TicksFit, Depth, HasTicks
    <3> QED  BY Zenon, <3>2, <3>4, <3>5 DEF IInv
  <2> QED  BY Zenon, <1>2, <2>1, <2>2
<1> QED  BY <1>1, <1>2, PTL DEF Spec

-----------------------------------------------------------------------------
\* The checks of sched() hold.
LEMMA SchedOKInv ==
  ASSUME IInv
  PROVE  SchedOK
<1> SUFFICES ASSUME NEW c \in Cpus, NEW p \in Procs, on[c] = p, Switching(p)
             PROVE  /\ plock[p] = c /\ tickslock # c
                    /\ cpu[c].noff = 1 /\ ~cpu[c].ie
                    /\ state[p] # "RUNNING"
  BY Zenon DEF SchedOK
<1>1. HasOwn(p) /\ ~HasTicks(p) /\ Depth(p) = 1
  BY Zenon DEF Switching, HasOwn, HasTicks, Depth, Open
<1>2. plock[p] = c /\ tickslock # c  BY Zenon, <1>1 DEF IInv, TicksFit, LocksFit
<1>3. cpu[c].noff = Depth(p) /\ (cpu[c].ie => Depth(p) = 0)  BY Zenon DEF IInv, HartsFit
<1>4. state[p] # "RUNNING"  BY Zenon DEF IInv, StatesFit
<1> QED  BY <1>1, <1>2, <1>3, <1>4

\* No hart waits for a lock that it holds.
LEMMA NoSelfSpinInv ==
  ASSUME IInv, todo \subseteq Procs
  PROVE  NoSelfSpin
<1> USE SchedAssumption
<1> SUFFICES ASSUME NEW c \in Cpus, NEW t \in Threads, t = on[c]
      PROVE
        /\ tickslock = c => /\ trap[t] \notin {"clk", "clk_spin"}
                            /\ (trap[t] = "none" => pc[t] \notin {"sys_spin", "re_spin"})
        /\ trap[t] = "yield_spin" => plock[t] # c
        /\ t \in Procs /\ trap[t] = "none" /\ pc[t] \in {"slp_spin", "exit_spin"} => plock[t] # c
        /\ trap[t] = "wake" => \A q \in todo : plock[q] # c
  BY Zenon DEF NoSelfSpin, IInv, Types
<1>1. tickslock = c => HasTicks(t)  BY Zenon DEF IInv, TicksFit
<1>2. t \in Procs => t # c  BY Zenon
<1>3. t \in Procs /\ plock[t] = c => HasOwn(t)  BY Zenon, <1>2 DEF IInv, LocksFit
<1>4. trap[t] = "yield_spin" => t \in Procs  BY Zenon DEF IInv, Shapes, Threads
<1>5. trap[t] = "wake" => \A q \in todo : plock[q] # c
  <2> SUFFICES ASSUME trap[t] = "wake", NEW q \in todo, plock[q] = c PROVE FALSE  BY Zenon
  <2>1. q \in Procs /\ ~HasOwn(t) /\ pc[t] \in Open \cup {"scan"}  BY Zenon DEF HasOwn, IInv, Shapes
  <2> QED  BY <2>1 DEF IInv, LocksFit, Open
<1> QED  BY Zenon, <1>1, <1>3, <1>4, <1>5 DEF HasTicks, HasOwn

-----------------------------------------------------------------------------

\* What NoLostWakeup needs: a process on its way to sleep is early, since sys_sleep() holds
\* tickslock from its test to the SLEEPING state.
Sleeps ==
  /\ elapsed \in [Procs -> 0..MaxLate] /\ n \in [Procs -> 0..MaxLate] /\ todo \subseteq Procs
  /\ \A p \in Procs : trap[p] = "none" /\ pc[p] \in {"slp_spin", "slp"} => Early(p)
  /\ NoLostWakeup

\* A process that holds tickslock, or is about to sleep, is on a hart.
LEMMA TicksHeld ==
  ASSUME IInv, tickslock = None, NEW p \in Procs
  PROVE  ~HasTicks(p)
<1> SUFFICES ASSUME HasTicks(p) PROVE FALSE  BY Zenon
<1>1. PICK c \in Cpus : on[c] = p
  BY Zenon DEF IInv, StatesFit, Switching, HasTicks
<1>2. tickslock = c  BY Zenon, <1>1 DEF IInv, TicksFit
<1> QED  BY Zenon, <1>2, SchedAssumption

\* Steps that neither reset the clock of a process nor let wakeup() go on.
LEMMA SleepsSame ==
  ASSUME IInv, Sleeps, NEW c \in Cpus, NEW t \in Threads, Local(c, t),
         UNCHANGED <<elapsed, n, todo>>,
         t \in Procs /\ trap'[t] = "none" /\ pc'[t] \in {"slp_spin", "slp"} => Early(t),
         t \in Procs /\ state'[t] = "SLEEPING" => Early(t)
  PROVE  Sleeps'
<1>1. /\ \A u \in Procs \ {t} : pc'[u] = pc[u] /\ trap'[u] = trap[u]
      /\ \A q \in Procs \ {t} : state'[q] = state[q]
  BY Zenon DEF Local, Moves, SetsState, Threads
<1>2. \A p \in Procs : Early(p)' <=> Early(p)  BY Zenon DEF Early
<1>3. \A p \in Procs : trap'[p] = "none" /\ pc'[p] \in {"slp_spin", "slp"} => Early(p)'
  BY Zenon, <1>1, <1>2 DEF Sleeps
<1>4. NoLostWakeup'  BY Zenon, <1>1, <1>2 DEF Sleeps, NoLostWakeup
<1> QED  BY Zenon, <1>3, <1>4 DEF Sleeps

\* A thread that stays keeps it.
LEMMA StaysSleeps ==
  ASSUME IInv, Sleeps, NEW c \in Cpus, NEW t \in Threads, Stays(c, t)
  PROVE  Sleeps'
<1>1. Local(c, t)  BY Zenon, StaysInv
<1>2. /\ on[c] = t /\ pc \in [Threads -> PCs \cup {"scan", "back"}] /\ trap \in [Threads -> Traps]
      /\ state \in [Procs -> States]
      /\ (trap[t] # "none" => pc[t] \in Open \cup {"scan"})
  BY Zenon, <1>1 DEF Local, Moves, IInv, Types, Shapes
<1>3. t \in Procs /\ state'[t] = "SLEEPING" => trap'[t] = "none" /\ pc'[t] = "sched"
  BY Zenon, <1>1 DEF Local, SetsState
\* Nothing to show where the thread ends up neither asleep nor on its way
<1>4. ASSUME UNCHANGED <<elapsed, n, todo>>,
             trap'[t] # "none" \/ pc'[t] \notin {"slp_spin", "slp", "sched"}
      PROVE  Sleeps'
  BY Zenon, <1>1, <1>3, <1>4, SleepsSame
<1>5. CASE acquire_push(c, t)
  <2>1. UNCHANGED <<elapsed, n, todo>>  BY Zenon, <1>5 DEF acquire_push, sleepvars
  <2>2. trap'[t] # "none" \/ pc'[t] \notin {"slp_spin", "slp", "sched"}
    BY <1>2, <1>5 DEF acquire_push, Go, Trap, Push, TrapPush
  <2> QED  BY Zenon, <1>4, <2>1, <2>2
<1>6. CASE clockintr_end(c, t)
  <2>1. UNCHANGED <<elapsed, n, todo>>  BY Zenon, <1>6 DEF clockintr_end, sleepvars
  <2>2. trap'[t] # "none" \/ pc'[t] \notin {"slp_spin", "slp", "sched"}
    BY Zenon, <1>2, <1>6 DEF clockintr_end, Trap
  <2> QED  BY Zenon, <1>4, <2>1, <2>2
<1>7. CASE interrupt(c, t)
  <2>1. UNCHANGED <<elapsed, n, todo>>  BY Zenon, <1>7 DEF interrupt, sleepvars
  <2>2. trap'[t] # "none" \/ pc'[t] \notin {"slp_spin", "slp", "sched"}
    BY Zenon, <1>2, <1>7 DEF interrupt, Trap
  <2> QED  BY Zenon, <1>4, <2>1, <2>2
<1>8. CASE trap_end(c, t)
  <2>1. UNCHANGED <<elapsed, n, todo>>  BY Zenon, <1>8 DEF trap_end, sleepvars
  <2>2. trap'[t] # "none" \/ pc'[t] \notin {"slp_spin", "slp", "sched"}
    BY Zenon, <1>2, <1>8 DEF trap_end, Trap, Go, In, Open
  <2> QED  BY Zenon, <1>4, <2>1, <2>2
<1>9. CASE t \in Procs /\ forkret(c, t)
  <2>1. UNCHANGED <<elapsed, n, todo>>  BY Zenon, <1>9 DEF forkret, sleepvars
  <2>2. trap'[t] # "none" \/ pc'[t] \notin {"slp_spin", "slp", "sched"}
    BY Zenon, <1>2, <1>9 DEF forkret, Go
  <2> QED  BY Zenon, <1>4, <2>1, <2>2
<1>10. CASE t \in Procs /\ sys_sleep(c, t)
  <2>1. UNCHANGED <<elapsed, n, todo>>  BY Zenon, <1>10 DEF sys_sleep, sleepvars
  <2>2. trap'[t] # "none" \/ pc'[t] \notin {"slp_spin", "slp", "sched"}
    BY Zenon, <1>2, <1>10 DEF sys_sleep, Go
  <2> QED  BY Zenon, <1>4, <2>1, <2>2
<1>11. CASE t \in Procs /\ sleep_woke(c, t)
  <2>1. UNCHANGED <<elapsed, n, todo>>  BY Zenon, <1>11 DEF sleep_woke, sleepvars
  <2>2. trap'[t] # "none" \/ pc'[t] \notin {"slp_spin", "slp", "sched"}
    BY Zenon, <1>2, <1>11 DEF sleep_woke, Go
  <2> QED  BY Zenon, <1>4, <2>1, <2>2
<1>12. CASE t \in Procs /\ sleep_relock(c, t)
  <2>1. UNCHANGED <<elapsed, n, todo>>  BY Zenon, <1>12 DEF sleep_relock, sleepvars
  <2>2. trap'[t] # "none" \/ pc'[t] \notin {"slp_spin", "slp", "sched"}
    BY Zenon, <1>2, <1>12 DEF sleep_relock, Go
  <2> QED  BY Zenon, <1>4, <2>1, <2>2
<1>13. CASE t \in Procs /\ usertrap_end(c, t)
  <2>1. UNCHANGED <<elapsed, n, todo>>  BY Zenon, <1>13 DEF usertrap_end, sleepvars
  <2>2. trap'[t] # "none" \/ pc'[t] \notin {"slp_spin", "slp", "sched"}
    BY Zenon, <1>2, <1>13 DEF usertrap_end, Go
  <2> QED  BY Zenon, <1>4, <2>1, <2>2
<1>14. CASE t \in Procs /\ usertrapret(c, t)
  <2>1. UNCHANGED <<elapsed, n, todo>>  BY Zenon, <1>14 DEF usertrapret, sleepvars
  <2>2. trap'[t] # "none" \/ pc'[t] \notin {"slp_spin", "slp", "sched"}
    BY Zenon, <1>2, <1>14 DEF usertrapret, Go
  <2> QED  BY Zenon, <1>4, <2>1, <2>2
<1>15. CASE t \in Procs /\ yield(c, t)
  <2>1. UNCHANGED <<elapsed, n, todo>>  BY Zenon, <1>15 DEF yield, sleepvars
  <2>2. trap'[t] # "none" \/ pc'[t] \notin {"slp_spin", "slp", "sched"}
    BY Zenon, <1>2, <1>15 DEF yield, Trap
  <2> QED  BY Zenon, <1>4, <2>1, <2>2
<1>16. CASE t \in Procs /\ yield_back(c, t)
  <2>1. UNCHANGED <<elapsed, n, todo>>  BY Zenon, <1>16 DEF yield_back, sleepvars
  <2>2. trap'[t] # "none" \/ pc'[t] \notin {"slp_spin", "slp", "sched"}
    BY Zenon, <1>2, <1>16 DEF yield_back, In, Open
  <2> QED  BY Zenon, <1>4, <2>1, <2>2
<1>17. CASE t \in Procs /\ exit(c, t)
  <2>1. UNCHANGED <<elapsed, n, todo>> /\ pc'[t] = "sched" /\ state'[t] = "ZOMBIE"
    BY Zenon, <1>2, <1>17 DEF exit, Go, sleepvars
  <2> QED  BY Zenon, <1>1, <2>1, SleepsSame
<1>18. CASE t \in Procs /\ sleep(c, t)
  <2>1. UNCHANGED <<elapsed, n, todo>> /\ Early(t)  BY Zenon, <1>18 DEF sleep, sleepvars
  <2> QED  BY Zenon, <1>1, <2>1, SleepsSame
<1>19. CASE t \in Procs /\ sleep_lock(c, t)
  <2>1. UNCHANGED <<elapsed, n, todo>> /\ trap[t] = "none" /\ pc[t] = "slp_spin"
    BY Zenon, <1>19 DEF sleep_lock, At, sleepvars
  <2>2. Early(t)  BY Zenon, <1>19, <2>1 DEF Sleeps
  <2> QED  BY Zenon, <1>1, <2>1, <2>2, SleepsSame
<1>20. CASE t \in Procs /\ sleep_sleep(c, t)
  <2>1. UNCHANGED <<elapsed, n, todo>> /\ trap[t] = "none" /\ pc[t] = "slp"
    BY Zenon, <1>20 DEF sleep_sleep, At, sleepvars
  <2>2. Early(t)  BY Zenon, <1>20, <2>1 DEF Sleeps
  <2> QED  BY Zenon, <1>1, <2>1, <2>2, SleepsSame
<1>21. CASE t \in Procs /\ sleep_done(c, t)
  <2>1. /\ UNCHANGED todo /\ pc'[t] = "sysret"
        /\ elapsed' \in [Procs -> 0..MaxLate] /\ n' \in [Procs -> 0..MaxLate]
        /\ \A u \in Procs \ {t} : elapsed'[u] = elapsed[u] /\ n'[u] = n[u]
    BY <1>2, <1>21, SchedAssumption DEF sleep_done, Go, Sleeps
  <2>2. /\ \A u \in Procs \ {t} : /\ pc'[u] = pc[u] /\ trap'[u] = trap[u]
                                  /\ state'[u] = state[u]
    BY Zenon, <1>1 DEF Local, Moves, SetsState, Threads
  <2>3. \A u \in Procs \ {t} : Early(u)' <=> Early(u)  BY Zenon, <2>1 DEF Early
  <2>4. t \in Procs => state'[t] # "SLEEPING"  BY Zenon, <1>3, <2>1
  <2>5. \A p \in Procs : trap'[p] = "none" /\ pc'[p] \in {"slp_spin", "slp"} => Early(p)'
    BY Zenon, <2>1, <2>2, <2>3 DEF Sleeps
  <2>6. NoLostWakeup'  BY Zenon, <2>1, <2>2, <2>3, <2>4 DEF Sleeps, NoLostWakeup
  <2> QED  BY ZenonT(60), <2>1, <2>5, <2>6 DEF Sleeps
<1>22. CASE t \in Procs /\ \E k \in Naps : syscall(c, t, k)
  <2>1. /\ UNCHANGED <<elapsed, todo>> /\ pc'[t] \in {"exit", "sys"}
        /\ elapsed' \in [Procs -> 0..MaxLate] /\ n' \in [Procs -> 0..MaxLate]
        /\ \A u \in Procs \ {t} : elapsed'[u] = elapsed[u] /\ n'[u] = n[u]
    BY <1>2, <1>22, SchedAssumption DEF syscall, Go, Sleeps
  <2>2. /\ \A u \in Procs \ {t} : /\ pc'[u] = pc[u] /\ trap'[u] = trap[u]
                                  /\ state'[u] = state[u]
    BY Zenon, <1>1 DEF Local, Moves, SetsState, Threads
  <2>3. \A u \in Procs \ {t} : Early(u)' <=> Early(u)  BY Zenon, <2>1 DEF Early
  <2>4. t \in Procs => state'[t] # "SLEEPING"  BY Zenon, <1>3, <2>1
  <2>5. \A p \in Procs : trap'[p] = "none" /\ pc'[p] \in {"slp_spin", "slp"} => Early(p)'
    BY Zenon, <2>1, <2>2, <2>3 DEF Sleeps
  <2>6. NoLostWakeup'  BY Zenon, <2>1, <2>2, <2>3, <2>4 DEF Sleeps, NoLostWakeup
  <2> QED  BY Zenon, <2>1, <2>5, <2>6 DEF Sleeps
<1>23. CASE clockintr(c, t)
  <2>1. /\ tickslock = None /\ elapsed' = Tick /\ todo' = Procs /\ UNCHANGED <<pc, state, n>>
        /\ trap'[t] = "wake" /\ \A u \in Threads \ {t} : trap'[u] = trap[u]
    BY Zenon, <1>2, <1>23 DEF clockintr, Trap
  <2>2. Tick \in [Procs -> 0..MaxLate]
    BY SchedAssumption DEF Tick, Sleeps
  <2>3. \A p \in Procs : ~(trap'[p] = "none" /\ pc'[p] \in {"slp_spin", "slp"})
    BY Zenon, <2>1, TicksHeld DEF HasTicks, Threads
  <2>4. NoLostWakeup'  BY Zenon, <2>1 DEF NoLostWakeup
  <2> QED  BY Zenon, <2>1, <2>2, <2>3, <2>4 DEF Sleeps
<1> QED
  BY Zenon, <1>5, <1>6, <1>7, <1>8, <1>9, <1>10, <1>11, <1>12, <1>13, <1>14, <1>15, <1>16, <1>17,
     <1>18, <1>19, <1>20, <1>21, <1>22, <1>23 DEF Stays

\* So does every other step: a turn of wakeup() leaves its process awake.
LEMMA SleepsInv ==
  ASSUME IInv, Sleeps, Next
  PROVE  Sleeps'
<1> USE SchedAssumption
<1>1. ASSUME NEW c \in Cpus, NEW t \in Threads, Stays(c, t) PROVE Sleeps'
  BY Zenon, <1>1, StaysSleeps
<1>2. ASSUME UNCHANGED <<elapsed, n, todo>>,
             \A p \in Procs : /\ trap'[p] = "none" => trap[p] = "none"
                              /\ pc'[p] \in {"slp_spin", "slp"} => pc'[p] = pc[p]
                              /\ state'[p] = "SLEEPING" => state[p] = "SLEEPING"
      PROVE  Sleeps'
  <2>1. \A p \in Procs : Early(p)' <=> Early(p)  BY Zenon, <1>2 DEF Early
  <2>2. NoLostWakeup'  BY Zenon, <1>2, <2>1 DEF Sleeps, NoLostWakeup
  <2> QED  BY Zenon, <1>2, <2>1, <2>2 DEF Sleeps
<1>3. ASSUME NEW c \in Cpus, scheduler_skip(c) PROVE Sleeps'
  <2>1. UNCHANGED <<elapsed, n, todo, state, trap>> /\ \A p \in Procs : pc'[p] = pc[p]
    BY Zenon, <1>3 DEF scheduler_skip, Go, IInv, Types, Threads, sleepvars
  <2> QED  BY Zenon, <1>2, <2>1
<1>4. ASSUME NEW c \in Cpus, scheduler_back(c) PROVE Sleeps'
  <2>1. UNCHANGED <<elapsed, n, todo, state, trap>> /\ \A p \in Procs : pc'[p] = pc[p]
    BY Zenon, <1>4 DEF scheduler_back, Go, IInv, Types, Threads, sleepvars
  <2> QED  BY Zenon, <1>2, <2>1
<1>5. ASSUME NEW c \in Cpus, scheduler_run(c) PROVE Sleeps'
  <2>1. PICK q \in Procs : q = nxt[c]  BY Zenon DEF IInv, Types
  <2>2. /\ UNCHANGED <<elapsed, n, todo>> /\ state' = [state EXCEPT ![q] = "RUNNING"]
        /\ pc' = [pc EXCEPT ![c] = "back", ![q] = IF @ = "sched" THEN "woke" ELSE @]
        /\ trap' = [trap EXCEPT ![q] = IF @ = "sched" THEN "woke" ELSE @]
    BY Zenon, <1>5, <2>1 DEF scheduler_run, sleepvars
  <2>3. \A p \in Procs : /\ trap'[p] = "none" => trap[p] = "none"
                         /\ pc'[p] \in {"slp_spin", "slp"} => pc'[p] = pc[p]
                         /\ state'[p] = "SLEEPING" => state[p] = "SLEEPING"
    BY Zenon, <2>2 DEF IInv, Types, Threads
  <2> QED  BY ZenonT(30), <1>2, <2>2, <2>3
<1>6. ASSUME NEW c \in Cpus, NEW p \in Procs, sched(c, p) PROVE Sleeps'
  <2>1. UNCHANGED <<elapsed, n, todo, state, trap, pc>>  BY Zenon, <1>6 DEF sched, sleepvars
  <2> QED  BY Zenon, <1>2, <2>1
<1>7. ASSUME NEW c \in Cpus, NEW t \in Threads, NEW q \in Procs, wakeup(c, t, q) PROVE Sleeps'
  <2>1. /\ UNCHANGED <<elapsed, n, trap, pc>> /\ todo' = todo \ {q}
        /\ state' = IF state[q] = "SLEEPING" THEN [state EXCEPT ![q] = "RUNNABLE"] ELSE state
    BY Zenon, <1>7 DEF wakeup, sleepvars
  <2>2. \A p \in Procs : Early(p)' <=> Early(p)  BY Zenon, <2>1 DEF Early
  <2>3. state'[q] # "SLEEPING" /\ \A p \in Procs \ {q} : state'[p] = state[p]
    BY Zenon, <2>1 DEF IInv, Types
  <2>4. NoLostWakeup'  BY Zenon, <2>1, <2>2, <2>3 DEF Sleeps, NoLostWakeup
  <2> QED  BY Zenon, <2>1, <2>2, <2>4 DEF Sleeps
<1>8. ASSUME NEW c \in Cpus, NEW p \in Procs, NEW q \in Procs, kill(c, p, q) PROVE Sleeps'
  <2>1. /\ UNCHANGED <<elapsed, n, todo, trap, pc>>
        /\ state' = IF state[q] = "SLEEPING" THEN [state EXCEPT ![q] = "RUNNABLE"] ELSE state
    BY Zenon, <1>8 DEF kill, sleepvars
  <2>2. \A x \in Procs : state'[x] = "SLEEPING" => state[x] = "SLEEPING"
    BY Zenon, <2>1 DEF IInv, Types
  <2> QED  BY Zenon, <1>2, <2>1, <2>2
<1> QED  BY Zenon, <1>1, <1>3, <1>4, <1>5, <1>6, <1>7, <1>8, NextIs

\* Sleeps holds in every state.
LEMMA SleepsHold == Spec => []Sleeps
<1>1. Init => Sleeps
  <2>1. Init => \A p \in Procs : pc[p] = "forkret" /\ state[p] = "RUNNABLE"
    BY ZenonT(60), SchedAssumption DEF Init, Threads
  <2>2. Init => /\ elapsed \in [Procs -> 0..MaxLate] /\ n \in [Procs -> 0..MaxLate]
                /\ todo \subseteq Procs
    BY SchedAssumption DEF Init
  <2> QED  BY Zenon, <2>1, <2>2 DEF Sleeps, NoLostWakeup
<1>2. ASSUME IInv, Sleeps, [Next]_vars PROVE Sleeps'
  <2>1. CASE Next  BY Zenon, <1>2, <2>1, SleepsInv
  <2>2. CASE UNCHANGED vars
    <3>1. UNCHANGED <<state, pc, trap, elapsed, n, todo>>  BY Zenon, <2>2 DEF vars, sleepvars
    <3> QED  BY Zenon, <1>2, <3>1 DEF Sleeps, NoLostWakeup, Early
  <2> QED  BY Zenon, <1>2, <2>1, <2>2
<1> QED  BY <1>1, <1>2, Inductive, PTL DEF Spec

\* For any number of harts, processes and sleeping times, no wakeup of clockintr() is
\* lost: a process asleep past its time is one that wakeup() has yet to look at.
THEOREM NoLostWakeupCorrect == Spec => []NoLostWakeup
<1>1. Sleeps => NoLostWakeup  BY Zenon DEF Sleeps
<1> QED  BY <1>1, SleepsHold, PTL

\* For any number of harts and processes, the assertions of sched(), acquire(), push_off()
\* and pop_off() hold, so none of them panics.
THEOREM NoPanicCorrect == Spec => []NoPanic
<1>1. ASSUME IInv, Sleeps PROVE NoPanic
  <2>1. TypeOK
    <3>1. \A c \in Cpus : cpu[c].noff \in 0..2 /\ on[c] \in Procs \cup {c}
      BY Zenon, <1>1 DEF IInv, Types, CpuType, Running
    <3> QED  BY Zenon, <1>1, <3>1 DEF TypeOK, IInv, Types, States, Sleeps
  <2>2. todo \subseteq Procs  BY Zenon, <1>1 DEF Sleeps
  <2> QED  BY Zenon, <1>1, <2>1, <2>2, SchedOKInv, NoSelfSpinInv DEF NoPanic
<1> QED  BY <1>1, Inductive, SleepsHold, PTL

\* A process runs on one hart at most, and one that can be chosen is on none.
LEMMA RunsOnceInv ==
  ASSUME IInv
  PROVE  RunsOnce
<1> SUFFICES ASSUME NEW p \in Procs
             PROVE  LET harts == {c \in Cpus : on[c] = p}
                    IN  /\ \A c, d \in harts : c = d
                        /\ state[p] = "RUNNABLE" /\ harts # {} => plock[p] \in harts
                        /\ state[p] = "RUNNING" => harts # {}
  BY Zenon DEF RunsOnce
<1>1. \A c, d \in Cpus : on[c] = p /\ on[d] = p => c = d  BY Zenon DEF IInv, Running
<1>2. ASSUME NEW c \in Cpus, on[c] = p, state[p] = "RUNNABLE"  PROVE plock[p] = c
  BY <1>2 DEF IInv, StatesFit, LocksFit, HasOwn, Switching
<1>3. state[p] = "RUNNING" => \E c \in Cpus : on[c] = p  BY Zenon DEF IInv, StatesFit
<1> QED  BY Zenon, <1>1, <1>2, <1>3

\* For any number of harts and processes, no process runs twice and none is chosen
\* before its registers are saved.
THEOREM RunsOnceCorrect == Spec => []RunsOnce
<1>1. IInv /\ Saved => RunsOnce  BY Zenon, RunsOnceInv
<1> QED  BY <1>1, Inductive, PTL

-----------------------------------------------------------------------------
\* What InterruptsBack needs of the process on a hart: interrupts are on where it runs
\* without locks, and its first push_off() has found them on where it holds one.
IntsAt(c, p) ==
  trap[p] = "none" =>
    /\ pc[p] \in {"user", "sys", "re_acq", "sysret"} => cpu[c].ie
    /\ pc[p] \in {"sys_spin", "loop", "slp_spin", "slp", "woke", "re_spin"} => cpu[c].intena
    /\ pc[p] = "sched" /\ state[p] # "ZOMBIE" => cpu[c].intena

\* sched() has kept it for a process on no hart
IntsKept(p) == trap[p] = "none" /\ pc[p] = "sched" /\ state[p] # "ZOMBIE" => intena[p]

IntsOK ==
  /\ \A c \in Cpus, p \in Procs : on[c] = p => IntsAt(c, p)
  /\ \A p \in Procs : (\A c \in Cpus : on[c] # p) => IntsKept(p)

\* It holds after a step of thread t when it holds for t.
LEMMA StaysInts ==
  ASSUME IInv, IntsOK, NEW c \in Cpus, NEW t \in Threads, Local(c, t), UNCHANGED intena,
         t \in Procs => IntsAt(c, t)'
  PROVE  IntsOK'
<1>1. /\ on[c] = t /\ on' = on /\ \A d \in Cpus \ {c} : on[d] # t /\ cpu'[d] = cpu[d]
      /\ \A u \in Threads \ {t} : pc'[u] = pc[u] /\ trap'[u] = trap[u]
      /\ \A q \in Procs \ {t} : state'[q] = state[q] /\ q \in Threads
  BY Zenon DEF Local, Moves, SetsCpu, SetsState, IInv, Running, Threads
<1>2. ASSUME NEW d \in Cpus, NEW p \in Procs, on'[d] = p PROVE IntsAt(d, p)'
  <2>1. CASE d = c  BY Zenon, <1>1, <1>2, <2>1
  <2>2. CASE d # c
    <3>1. p # t /\ on[d] = p  BY Zenon, <1>1, <1>2, <2>2
    <3>2. IntsAt(d, p)  BY Zenon, <3>1 DEF IntsOK
    <3> QED  BY Zenon, <1>1, <2>2, <3>1, <3>2 DEF IntsAt
  <2> QED  BY Zenon, <2>1, <2>2
<1>3. ASSUME NEW p \in Procs, \A d \in Cpus : on'[d] # p PROVE IntsKept(p)'
  <2>1. p # t /\ \A d \in Cpus : on[d] # p  BY Zenon, <1>1, <1>3
  <2>2. IntsKept(p)  BY Zenon, <2>1 DEF IntsOK
  <2> QED  BY Zenon, <1>1, <2>1, <2>2 DEF IntsKept
<1> QED  BY Zenon, <1>2, <1>3 DEF IntsOK

\* And for t it does, when t stays: the last pop_off() restores what the first push_off()
\* has found.
LEMMA StaysIntsAt ==
  ASSUME IInv, IntsOK, NEW c \in Cpus, NEW t \in Procs, Stays(c, t)
  PROVE  IntsAt(c, t)'
<1>1. t \in Threads /\ t \notin Cpus  BY Zenon, SchedAssumption DEF Threads
<1>2. Local(c, t)  BY Zenon, <1>1, StaysInv
<1>3. on[c] = t /\ IntsAt(c, t)  BY Zenon, <1>2 DEF Local, Moves, IntsOK
<1>4. /\ cpu[c].noff = Depth(t) /\ (cpu[c].ie => Depth(t) = 0 /\ trap[t] = "none")
      /\ (trap[t] # "none" => pc[t] \in Open) /\ pc[t] \in PCs
  BY <1>1, <1>3, HartIs DEF PCs, Open
<1>5. pc \in [Threads -> PCs \cup {"scan", "back"}] /\ trap \in [Threads -> Traps]
      /\ cpu \in [Cpus -> CpuType] /\ state \in [Procs -> States]
  BY Zenon DEF IInv, Types
<1>6. CASE acquire_push(c, t)
  <2>1. cpu' = [cpu EXCEPT ![c] = push_off(cpu[c])]  BY Zenon, <1>6 DEF acquire_push, Cpu
  <2>2. \/ trap'[t] # "none"
        \/ /\ trap[t] = "none" /\ trap'[t] = "none" /\ Depth(t) = 0
           /\ \/ pc[t] = "sys" /\ pc'[t] = "sys_spin"
              \/ pc[t] = "re_acq" /\ pc'[t] = "re_spin"
              \/ pc'[t] = "exit_spin"
    BY <1>1, <1>5, <1>6 DEF acquire_push, Go, Trap, Push, TrapPush, Depth, Open
  <2>3. CASE trap'[t] # "none"  BY Zenon, <2>3 DEF IntsAt
  <2>4. CASE trap'[t] = "none"
    <3>1. cpu[c].noff = 0 /\ cpu[c].noff < 2  BY <1>4, <2>2, <2>4
    <3>2. cpu'[c].intena = IF cpu[c].noff = 0 THEN cpu[c].ie ELSE cpu[c].intena
      BY Zenon, <2>1, <3>1, CpuPush
    <3> QED  BY Zenon, <1>3, <2>2, <2>4, <3>1, <3>2 DEF IntsAt
  <2> QED  BY Zenon, <2>3, <2>4
<1>7. CASE clockintr(c, t)
  <2>1. trap'[t] # "none"
    BY Zenon, <1>1, <1>4, <1>5, <1>7 DEF clockintr, Trap, In
  <2> QED  BY Zenon, <1>4, <2>1 DEF IntsAt, Open
<1>8. CASE clockintr_end(c, t)
  <2>1. trap'[t] # "none"
    BY Zenon, <1>1, <1>4, <1>5, <1>8 DEF clockintr_end, Trap, In
  <2> QED  BY Zenon, <1>4, <2>1 DEF IntsAt, Open
<1>9. CASE interrupt(c, t)
  <2>1. trap'[t] # "none"
    BY Zenon, <1>1, <1>4, <1>5, <1>9 DEF interrupt, Trap, In
  <2> QED  BY Zenon, <1>4, <2>1 DEF IntsAt, Open
<1>10. CASE trap_end(c, t)
  <2>1. trap'[t] = "yield" \/ pc'[t] = "exit"
    BY Zenon, <1>1, <1>4, <1>5, <1>10 DEF trap_end, Trap, Go, In
  <2> QED  BY Zenon, <1>4, <2>1 DEF IntsAt, Open
<1>11. CASE forkret(c, t)
  <2>1. pc'[t] = "usertrapret"
    BY Zenon, <1>1, <1>4, <1>5, <1>11 DEF forkret, Go
  <2> QED  BY Zenon, <1>4, <2>1 DEF IntsAt, Open
<1>12. CASE usertrap_end(c, t)
  <2>1. pc'[t] \in {"exit", "usertrapret"}
    BY Zenon, <1>1, <1>4, <1>5, <1>12 DEF usertrap_end, Go
  <2> QED  BY Zenon, <1>4, <2>1 DEF IntsAt, Open
<1>13. CASE exit(c, t)
  <2>1. pc'[t] = "sched" /\ state'[t] = "ZOMBIE"
    BY Zenon, <1>1, <1>4, <1>5, <1>13 DEF exit, Go
  <2> QED  BY Zenon, <1>4, <2>1 DEF IntsAt, Open
<1>14. CASE yield(c, t)
  <2>1. trap'[t] = "sched"
    BY Zenon, <1>1, <1>4, <1>5, <1>14 DEF yield, Trap
  <2> QED  BY Zenon, <1>4, <2>1 DEF IntsAt, Open
<1>15. CASE sys_sleep(c, t)
  <2>1. pc[t] = "sys_spin" /\ trap[t] = "none" /\ pc'[t] = "loop" /\ cpu' = cpu
    BY Zenon, <1>1, <1>5, <1>15 DEF sys_sleep, At, Go
  <2> QED  BY Zenon, <1>3, <2>1 DEF IntsAt
<1>16. CASE sleep_lock(c, t)
  <2>1. pc[t] = "slp_spin" /\ trap[t] = "none" /\ pc'[t] = "slp" /\ cpu' = cpu
    BY Zenon, <1>1, <1>5, <1>16 DEF sleep_lock, At, Go
  <2> QED  BY Zenon, <1>3, <2>1 DEF IntsAt
<1>17. CASE sleep_relock(c, t)
  <2>1. pc[t] = "re_spin" /\ trap[t] = "none" /\ pc'[t] = "loop" /\ cpu' = cpu
    BY Zenon, <1>1, <1>5, <1>17 DEF sleep_relock, At, Go
  <2> QED  BY Zenon, <1>3, <2>1 DEF IntsAt
<1>18. CASE sleep_done(c, t)
  <2>1. /\ pc[t] = "loop" /\ trap[t] = "none" /\ pc'[t] = "sysret"
        /\ cpu' = [cpu EXCEPT ![c] = pop_off(cpu[c])]
    BY Zenon, <1>1, <1>5, <1>18 DEF sleep_done, At, Go, Cpu
  <2>2. Depth(t) = 1  BY Zenon, <2>1 DEF Depth, Open
  <2>3. cpu[c].noff = 1 /\ cpu[c].noff > 0 /\ ~cpu[c].ie  BY <1>4, <2>2
  <2>4. /\ cpu'[c].intena = cpu[c].intena
        /\ cpu'[c].ie <=> cpu[c].noff = 1 /\ cpu[c].intena
    BY Zenon, <2>1, <2>3, CpuPop
  <2> QED  BY Zenon, <1>3, <2>1, <2>3, <2>4 DEF IntsAt
<1>19. CASE sleep_sleep(c, t)
  <2>1. /\ pc[t] = "slp" /\ trap[t] = "none" /\ pc'[t] = "sched"
        /\ cpu' = [cpu EXCEPT ![c] = pop_off(cpu[c])]
    BY Zenon, <1>1, <1>5, <1>19 DEF sleep_sleep, At, Go, Cpu
  <2>2. Depth(t) = 2  BY Zenon, <2>1 DEF Depth, Open
  <2>3. cpu[c].noff = 2 /\ cpu[c].noff > 0 /\ ~cpu[c].ie  BY <1>4, <2>2
  <2>4. /\ cpu'[c].intena = cpu[c].intena
        /\ cpu'[c].ie <=> cpu[c].noff = 1 /\ cpu[c].intena
    BY Zenon, <2>1, <2>3, CpuPop
  <2> QED  BY Zenon, <1>3, <2>1, <2>3, <2>4 DEF IntsAt
<1>20. CASE sleep_woke(c, t)
  <2>1. /\ pc[t] = "woke" /\ trap[t] = "none" /\ pc'[t] = "re_acq"
        /\ cpu' = [cpu EXCEPT ![c] = pop_off(cpu[c])]
    BY Zenon, <1>1, <1>5, <1>20 DEF sleep_woke, At, Go, Cpu
  <2>2. Depth(t) = 1  BY Zenon, <2>1 DEF Depth, Open
  <2>3. cpu[c].noff = 1 /\ cpu[c].noff > 0 /\ ~cpu[c].ie  BY <1>4, <2>2
  <2>4. /\ cpu'[c].intena = cpu[c].intena
        /\ cpu'[c].ie <=> cpu[c].noff = 1 /\ cpu[c].intena
    BY Zenon, <2>1, <2>3, CpuPop
  <2> QED  BY Zenon, <1>3, <2>1, <2>3, <2>4 DEF IntsAt
<1>21. CASE sleep(c, t)
  <2>1. /\ pc[t] = "loop" /\ trap[t] = "none" /\ pc'[t] = "slp_spin"
        /\ cpu' = [cpu EXCEPT ![c] = push_off(cpu[c])]
    BY Zenon, <1>1, <1>5, <1>21 DEF sleep, At, Go, Cpu
  <2>2. Depth(t) = 1  BY Zenon, <2>1 DEF Depth, Open
  <2>3. cpu[c].noff = 1 /\ cpu[c].noff < 2  BY <1>4, <2>2
  <2>4. cpu'[c].intena = IF cpu[c].noff = 0 THEN cpu[c].ie ELSE cpu[c].intena
    BY Zenon, <2>1, <2>3, CpuPush
  <2> QED  BY <1>3, <2>1, <2>3, <2>4 DEF IntsAt
<1>22. CASE usertrapret(c, t)
  <2>1. pc'[t] = "user" /\ cpu' = [cpu EXCEPT ![c] = [cpu[c] EXCEPT !.ie = TRUE]]
    BY Zenon, <1>1, <1>5, <1>22 DEF usertrapret, Go, Cpu
  <2>2. cpu'[c].ie  BY Zenon, <2>1, CpuIntr
  <2> QED  BY Zenon, <2>1, <2>2 DEF IntsAt
<1>23. CASE yield_back(c, t)
  <2>1. trap[t] = "woke" /\ pc' = pc  BY Zenon, <1>23 DEF yield_back, In
  <2>2. cpu' = [cpu EXCEPT ![c] = [pop_off(cpu[c]) EXCEPT !.ie = TRUE]]
    BY Zenon, <1>23 DEF yield_back, Cpu
  <2>3. Depth(t) = 1  BY Zenon, <2>1 DEF Depth
  <2>4. cpu[c] \in CpuType /\ cpu[c].noff > 0  BY <1>4, <1>5, <2>3
  <2>5. pop_off(cpu[c]) \in CpuType  BY Zenon, <2>4, PopIs
  <2>6. cpu'[c].ie  BY Zenon, <1>5, <2>2, <2>5 DEF CpuType
  <2> QED  BY Zenon, <1>4, <2>1, <2>6 DEF IntsAt, Open
<1>24. CASE \E k \in Naps : syscall(c, t, k)
  <2>1. \/ pc'[t] = "exit"
        \/ pc[t] = "user" /\ trap[t] = "none" /\ pc'[t] = "sys" /\ cpu' = cpu
    BY Zenon, <1>1, <1>5, <1>24 DEF syscall, At, Go
  <2> QED  BY Zenon, <1>3, <2>1 DEF IntsAt
<1> QED
  BY Zenon, <1>6, <1>7, <1>8, <1>9, <1>10, <1>11, <1>12, <1>13, <1>14, <1>15, <1>16, <1>17, <1>18,
     <1>19, <1>20, <1>21, <1>22, <1>23, <1>24 DEF Stays

\* So it does in every step.
LEMMA IntsInv ==
  ASSUME IInv, Saved, IntsOK, Next
  PROVE  IntsOK'
<1> USE SchedAssumption
<1>1. ASSUME NEW c \in Cpus, NEW t \in Threads, Stays(c, t) PROVE IntsOK'
  <2>1. Local(c, t) /\ UNCHANGED intena  BY Zenon, <1>1, StaysInv
  <2>2. t \in Procs => IntsAt(c, t)'  BY Zenon, <1>1, StaysIntsAt
  <2> QED  BY Zenon, <2>1, <2>2, StaysInts
<1>2. ASSUME NEW c \in Cpus, on[c] = c, UNCHANGED <<on, state, trap, intena>>,
             \A d \in Cpus \ {c} : cpu'[d] = cpu[d], \A p \in Procs : pc'[p] = pc[p]
      PROVE  IntsOK'
  <2>1. \A d \in Cpus, p \in Procs : on[d] = p => d # c  BY Zenon, <1>2
  <2>2. ASSUME NEW d \in Cpus, NEW p \in Procs, on[d] = p PROVE IntsAt(d, p)'
    <3>1. IntsAt(d, p) /\ cpu'[d] = cpu[d]  BY Zenon, <1>2, <2>1, <2>2 DEF IntsOK
    <3> QED  BY Zenon, <1>2, <3>1 DEF IntsAt
  <2>3. \A p \in Procs : IntsKept(p)' <=> IntsKept(p)  BY Zenon, <1>2 DEF IntsKept
  <2> QED  BY Zenon, <1>2, <2>2, <2>3 DEF IntsOK
<1>3. ASSUME NEW c \in Cpus, scheduler_skip(c) PROVE IntsOK'
  <2>1. /\ on[c] = c /\ UNCHANGED <<on, state, trap, intena>>
        /\ \A d \in Cpus \ {c} : cpu'[d] = cpu[d]
        /\ \A p \in Procs : pc'[p] = pc[p]
    BY Zenon, <1>3 DEF scheduler_skip, At, Go, Cpu, IInv, Types, Threads
  <2> QED  BY Zenon, <1>2, <2>1
<1>4. ASSUME NEW c \in Cpus, scheduler_back(c) PROVE IntsOK'
  <2>1. /\ on[c] = c /\ UNCHANGED <<on, state, trap, intena>>
        /\ \A d \in Cpus \ {c} : cpu'[d] = cpu[d]
        /\ \A p \in Procs : pc'[p] = pc[p]
    BY Zenon, <1>4 DEF scheduler_back, At, Go, Cpu, IInv, Types, Threads
  <2> QED  BY Zenon, <1>2, <2>1
<1>5. ASSUME NEW c \in Cpus, scheduler_run(c) PROVE IntsOK'
  <2>1. PICK p \in Procs : p = nxt[c]  BY Zenon DEF IInv, Types
  <2>2. /\ p \in Threads /\ c \in Threads /\ p # c
        /\ on[c] = c /\ state[p] = "RUNNABLE" /\ plock[p] = None
        /\ state' = [state EXCEPT ![p] = "RUNNING"] /\ on' = [on EXCEPT ![c] = p]
        /\ pc' = [pc EXCEPT ![c] = "back", ![p] = IF @ = "sched" THEN "woke" ELSE @]
        /\ trap' = [trap EXCEPT ![p] = IF @ = "sched" THEN "woke" ELSE @]
        /\ intena' = [intena EXCEPT ![p] = FALSE]
        /\ cpu' = [cpu EXCEPT ![c] = Resumed(push_off(cpu[c]), p)]
    BY Zenon, <1>5, <2>1 DEF scheduler_run, At, Cpu, Threads
  <2>3. /\ on'[c] = p /\ \A d \in Cpus \ {c} : on'[d] = on[d] /\ on[d] # c /\ cpu'[d] = cpu[d]
    BY Zenon, <2>2 DEF IInv, Types, Running
  <2>4. \A q \in Procs \ {p} : /\ pc'[q] = pc[q] /\ trap'[q] = trap[q] /\ state'[q] = state[q]
                               /\ intena'[q] = intena[q]
    BY ZenonT(60), <2>2 DEF IInv, Types, Saved, Threads
  <2>5. /\ pc'[p] = (IF pc[p] = "sched" THEN "woke" ELSE pc[p])
        /\ trap'[p] = (IF trap[p] = "sched" THEN "woke" ELSE trap[p])
    BY Zenon, <2>2 DEF IInv, Types
  <2>6. \A d \in Cpus : on[d] # p
    <3> SUFFICES ASSUME NEW d \in Cpus, on[d] = p PROVE FALSE  BY Zenon
    <3>1. HasOwn(p)  BY Zenon, <2>2 DEF IInv, StatesFit, Switching, HasOwn
    <3> QED  BY <2>2, <3>1 DEF IInv, LocksFit
  <2>7. Switching(p) \/ (trap[p] = "none" /\ pc[p] = "forkret")
    BY Zenon, <2>6 DEF IInv, StatesFit
  <2>8. trap[p] = "none" /\ pc[p] = "sched" => intena[p]
    BY Zenon, <2>2, <2>6 DEF IntsOK, IntsKept
  <2>9. pc[p] = "sched" => cpu'[c].intena = intena[p]
    <3>1. push_off(cpu[c]) = [noff |-> push_off(cpu[c]).noff, ie |-> push_off(cpu[c]).ie,
                              intena |-> push_off(cpu[c]).intena]
      BY Zenon DEF push_off
    <3>2. pc[p] = "sched" => Resumed(push_off(cpu[c]), p).intena = intena[p]
      BY Zenon, <3>1 DEF Resumed
    <3> QED  BY Zenon, <2>2, <3>2 DEF IInv, Types
  <2>10. IntsAt(c, p)'
    <3>1. trap'[p] = "none" => pc'[p] = "forkret" \/ (pc'[p] = "woke" /\ cpu'[c].intena)
      BY Zenon, <2>5, <2>7, <2>8, <2>9 DEF Switching
    <3> QED  BY Zenon, <3>1 DEF IntsAt
  <2>11. ASSUME NEW d \in Cpus, NEW q \in Procs, on'[d] = q PROVE IntsAt(d, q)'
    <3>1. CASE d = c  BY Zenon, <2>3, <2>10, <2>11, <3>1
    <3>2. CASE d # c
      <4>1. q # p /\ on[d] = q /\ cpu'[d] = cpu[d]  BY Zenon, <2>3, <2>6, <2>11, <3>2
      <4>2. IntsAt(d, q)  BY Zenon, <4>1 DEF IntsOK
      <4> QED  BY Zenon, <2>4, <4>1, <4>2 DEF IntsAt
    <3> QED  BY Zenon, <3>1, <3>2
  <2>12. ASSUME NEW q \in Procs, \A d \in Cpus : on'[d] # q PROVE IntsKept(q)'
    <3>1. q # p /\ \A d \in Cpus : on[d] # q  BY Zenon, <2>2, <2>3, <2>12
    <3>2. IntsKept(q)  BY Zenon, <3>1 DEF IntsOK
    <3> QED  BY Zenon, <2>4, <3>1, <3>2 DEF IntsKept
  <2> QED  BY Zenon, <2>11, <2>12 DEF IntsOK
<1>6. ASSUME NEW c \in Cpus, NEW p \in Procs, sched(c, p) PROVE IntsOK'
  <2>1. /\ on[c] = p /\ Switching(p) /\ intena' = [intena EXCEPT ![p] = cpu[c].intena]
        /\ on' = [on EXCEPT ![c] = c] /\ UNCHANGED <<cpu, state, pc, trap>>
    BY Zenon, <1>6 DEF sched
  <2>2. on'[c] = c /\ c \notin Procs /\ \A d \in Cpus \ {c} : on'[d] = on[d] /\ on[d] # p
    BY Zenon, <2>1 DEF IInv, Types, Running
  <2>3. intena'[p] = cpu[c].intena /\ \A q \in Procs \ {p} : intena'[q] = intena[q]
    BY Zenon, <2>1 DEF Saved
  <2>4. ASSUME NEW d \in Cpus, NEW q \in Procs, on'[d] = q PROVE IntsAt(d, q)'
    <3>1. on[d] = q  BY Zenon, <2>2, <2>4
    <3>2. IntsAt(d, q)  BY Zenon, <3>1 DEF IntsOK
    <3> QED  BY Zenon, <2>1, <3>2 DEF IntsAt
  <2>5. IntsKept(p)'
    <3>1. IntsAt(c, p)  BY Zenon, <2>1 DEF IntsOK
    <3> QED  BY Zenon, <2>1, <2>3, <3>1 DEF IntsAt, IntsKept
  <2>6. ASSUME NEW q \in Procs \ {p}, \A d \in Cpus : on'[d] # q PROVE IntsKept(q)'
    <3>1. \A d \in Cpus : on[d] # q  BY Zenon, <2>1, <2>2, <2>6
    <3>2. IntsKept(q)  BY Zenon, <3>1 DEF IntsOK
    <3> QED  BY Zenon, <2>1, <2>3, <3>2 DEF IntsKept
  <2> QED  BY Zenon, <2>4, <2>5, <2>6 DEF IntsOK
<1>7. ASSUME NEW q \in Procs, UNCHANGED <<cpu, on, pc, trap, intena>>,
             state' = IF state[q] = "SLEEPING" THEN [state EXCEPT ![q] = "RUNNABLE"] ELSE state
      PROVE  IntsOK'
  <2>1. \A p \in Procs : state'[p] = "ZOMBIE" <=> state[p] = "ZOMBIE"
    BY Zenon, <1>7 DEF IInv, Types
  <2>2. \A p \in Procs : /\ IntsKept(p)' <=> IntsKept(p)
                         /\ \A c \in Cpus : IntsAt(c, p)' <=> IntsAt(c, p)
    BY ZenonT(60), <1>7, <2>1 DEF IntsKept, IntsAt
  <2> QED  BY Zenon, <1>7, <2>2 DEF IntsOK
<1>8. ASSUME NEW c \in Cpus, NEW t \in Threads, NEW q \in Procs, wakeup(c, t, q) PROVE IntsOK'
  <2>1. /\ UNCHANGED <<cpu, on, pc, trap, intena>>
        /\ state' = IF state[q] = "SLEEPING" THEN [state EXCEPT ![q] = "RUNNABLE"] ELSE state
    BY Zenon, <1>8 DEF wakeup
  <2> QED  BY Zenon, <1>7, <2>1
<1>9. ASSUME NEW c \in Cpus, NEW p \in Procs, NEW q \in Procs, kill(c, p, q) PROVE IntsOK'
  <2>1. /\ UNCHANGED <<cpu, on, pc, trap, intena>>
        /\ state' = IF state[q] = "SLEEPING" THEN [state EXCEPT ![q] = "RUNNABLE"] ELSE state
    BY Zenon, <1>9 DEF kill
  <2> QED  BY Zenon, <1>7, <2>1
<1> QED  BY Zenon, <1>1, <1>3, <1>4, <1>5, <1>6, <1>8, <1>9, NextIs

\* For any number of harts and processes, interrupts are on wherever kernel code runs
\* without a lock, whichever hart it was resumed on.
THEOREM InterruptsBackCorrect == Spec => []InterruptsBack
<1>1. Init => IntsOK
  <2>1. Init => \A p \in Procs : trap[p] = "none" /\ pc[p] = "forkret"
    BY Zenon, SchedAssumption DEF Init, Threads
  <2> QED  BY Zenon, <2>1 DEF IntsOK, IntsAt, IntsKept
<1>2. ASSUME IInv, Saved, IntsOK, [Next]_vars PROVE IntsOK'
  <2>1. CASE Next  BY Zenon, <1>2, <2>1, IntsInv
  <2>2. CASE UNCHANGED vars
    <3>1. UNCHANGED <<cpu, on, state, pc, trap, intena>>  BY Zenon, <2>2 DEF vars
    <3> QED  BY Zenon, <1>2, <3>1 DEF IntsOK, IntsAt, IntsKept
  <2> QED  BY Zenon, <1>2, <2>1, <2>2
<1>3. IInv /\ IntsOK => InterruptsBack
  <2> SUFFICES ASSUME IInv, IntsOK, NEW c \in Cpus, NEW t \in Threads, t = on[c], trap[t] = "none",
                      pc[t] \in {"user", "sys", "re_acq", "sysret"}
               PROVE  cpu[c].noff = 0 /\ cpu[c].ie
    BY Zenon DEF InterruptsBack, IInv, Types
  <2>1. t \in Procs  BY Zenon, HartIs
  <2>2. Depth(t) = 0  BY Zenon DEF Depth, Open
  <2> QED  BY Zenon, <2>1, <2>2, HartIs DEF IntsOK, IntsAt
<1> QED  BY <1>1, <1>2, <1>3, Inductive, PTL DEF Spec
=============================================================================
