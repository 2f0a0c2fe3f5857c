-------------------------------- MODULE Pipe --------------------------------
(***************************************************************************)
(* kernel/pipe.c: one pipe between processes, with sleep and wakeup, kill  *)
(* and the counters of bytes read and written, which wrap around.          *)
(*                                                                         *)
(* What a process does between acquire(&pi->lock) and the release is one   *)
(* action.  The exception is sleep(): kill() needs no pi->lock, so it can  *)
(* come between the test of p->killed and the moment p->state is SLEEPING. *)
(***************************************************************************)
EXTENDS Integers, Sequences, FiniteSets

CONSTANTS Readers, Writers,  \* processes that share each end of the pipe
          None,              \* no process
          PIPESIZE,
          W,                 \* nread and nwrite are modulo W: 2^32 in the code
          Bytes,             \* values of a byte
          MaxCall,           \* bound: bytes asked for in one call
          Killable,          \* bound: processes that may be killed
          Faults             \* "copyin", "copyout": bad addresses are tried

ASSUME PipeAssumption ==
  /\ PIPESIZE \in Nat \ {0} /\ W \in Nat /\ \E m \in 2..W : W = m * PIPESIZE
  /\ MaxCall \in Nat \ {0}
  /\ Readers # {} /\ Writers # {}
  /\ Readers \cap Writers = {} /\ None \notin Readers \cup Writers

Procs == Readers \cup Writers

VARIABLES
  data, nread, nwrite, readopen, writeopen,  \* struct pipe
  lock,    \* the process that holds pi->lock between actions
  fds,     \* processes with their end of the pipe still open
  killed,  \* p->killed
  pc,      \* where each process is
  left,    \* bytes that its call still has to move
  got,     \* what a reader's last read gave it
  eof      \* readers whose last read found the end of the file

vars == <<data, nread, nwrite, readopen, writeopen, lock, fds, killed, pc,
          left, got, eof>>

PCs == {"user", "call", "presleep", "asleep"}

(* pipealloc(), and the fork()s that hand the ends to the processes.       *)
Init ==
  /\ \E c \in Bytes : data = [i \in 0..(PIPESIZE - 1) |-> c]
  /\ nread = 0 /\ nwrite = 0
  /\ readopen = TRUE /\ writeopen = TRUE
  /\ lock = None
  /\ fds = Procs
  /\ killed = {}
  /\ pc = [p \in Procs |-> "user"]
  /\ left = [p \in Procs |-> 0]
  /\ got = [p \in Readers |-> <<>>]
  /\ eof = {}

Used == (nwrite - nread) % W

(* wakeup(&pi->nread) is for S = Readers, wakeup(&pi->nwrite) for Writers. *)
Wakeup(S, f) ==
  [q \in Procs |-> IF q \in S /\ f[q] = "asleep" THEN "call" ELSE f[q]]

Return(p) == [pc EXCEPT ![p] = "user"]

-----------------------------------------------------------------------------
(* read() or write() of n bytes: a killed process does not get here.       *)
sys_call(p, n) ==
  /\ pc[p] = "user" /\ p \in fds \ killed
  /\ pc' = [pc EXCEPT ![p] = "call"]
  /\ left' = [left EXCEPT ![p] = n]
  /\ got' = [r \in Readers |-> IF r = p THEN <<>> ELSE got[r]]
  /\ eof' = eof \ {p}
  /\ UNCHANGED <<data, nread, nwrite, readopen, writeopen, lock, fds, killed>>

(* Mutant: the place of a byte is one too far.                             *)
Put_off(p, s) ==
  /\ data' = [i \in 0..(PIPESIZE - 1) |->
                LET k == (i - nwrite - 1) % PIPESIZE
                IN  IF k < Len(s) THEN s[k + 1] ELSE data[i]]
  /\ nwrite' = (nwrite + Len(s)) % W
  /\ left' = [left EXCEPT ![p] = @ - Len(s)]

(* The copy of the bytes s to the pipe.                                    *)
Put(p, s) ==
  /\ data' = [i \in 0..(PIPESIZE - 1) |->
                LET k == (i - nwrite) % PIPESIZE
                IN  IF k < Len(s) THEN s[k + 1] ELSE data[i]]
  /\ nwrite' = (nwrite + Len(s)) % W
  /\ left' = [left EXCEPT ![p] = @ - Len(s)]

Full(n) == n = PIPESIZE

(* pipewrite(): bytes go in until all are written or the pipe is full.     *)
pipewrite(p) ==
  /\ p \in Writers /\ pc[p] = "call" /\ lock = None
  /\ \E k \in 0..PIPESIZE : \E s \in [1..k -> Bytes] :
       /\ Put(p, s)
       /\ \/ /\ k = left[p] /\ Used + k <= PIPESIZE
             /\ pc' = Wakeup(Readers, Return(p))
             /\ UNCHANGED lock
          \/ /\ k < left[p] /\ Full(Used + k)
             /\ IF ~readopen \/ p \in killed
                  THEN /\ pc' = Return(p)
                       /\ UNCHANGED lock
                  ELSE /\ pc' = Wakeup(Readers, [pc EXCEPT ![p] = "presleep"])
                       /\ lock' = p
          \/ /\ "copyin" \in Faults /\ k < left[p] /\ Used + k < PIPESIZE
             /\ pc' = Wakeup(Readers, Return(p))
             /\ UNCHANGED lock
  /\ UNCHANGED <<nread, readopen, writeopen, fds, killed, got, eof>>

(* piperead(): wait for bytes or for the last writer to close.             *)
piperead_wait(p) ==
  /\ p \in Readers /\ pc[p] = "call" /\ lock = None
  /\ nread = nwrite /\ writeopen
  /\ IF p \in killed
       THEN pc' = Return(p) /\ UNCHANGED lock
       ELSE pc' = [pc EXCEPT ![p] = "presleep"] /\ lock' = p
  /\ UNCHANGED <<data, nread, nwrite, readopen, writeopen, fds, killed, left, got, eof>>

(* A read gets k bytes, all there are or all it asked for; with a bad      *)
(* address the last one that is taken does not get out.                    *)
Takes(p, k, lost) ==
  \/ lost = 0 /\ k <= Used /\ k <= left[p] /\ (k = Used \/ k = left[p])
  \/ lost = 1 /\ "copyout" \in Faults /\ k < Used /\ k < left[p]

piperead(p) ==
  /\ p \in Readers /\ pc[p] = "call" /\ lock = None
  /\ nread # nwrite \/ ~writeopen
  /\ \E k \in 0..PIPESIZE : \E lost \in {0, 1} :
       /\ Takes(p, k, lost)
       /\ got' = [got EXCEPT ![p] =
                    [i \in 1..k |-> data[(nread + i - 1) % PIPESIZE]]]
       /\ eof' = IF k + lost = 0 THEN eof \cup {p} ELSE eof
       /\ nread' = (nread + k + lost) % W
  /\ pc' = Wakeup(Writers, Return(p))
  /\ UNCHANGED <<data, nwrite, readopen, writeopen, lock, fds, killed, left>>

(* sleep(): SLEEPING, and pi->lock is released.                            *)
sleep(p) ==
  /\ pc[p] = "presleep"
  /\ pc' = [pc EXCEPT ![p] = "asleep"]
  /\ lock' = None
  /\ UNCHANGED <<data, nread, nwrite, readopen, writeopen, fds, killed, left, got, eof>>

(* Mutant: the processes at the other end are not woken.                   *)
pipeclose_silent(p) ==
  /\ pc[p] = "user" /\ p \in fds /\ lock = None
  /\ fds' = fds \ {p}
  /\ writeopen' = (fds' \cap Writers # {})
  /\ readopen' = (fds' \cap Readers # {})
  /\ UNCHANGED <<data, nread, nwrite, lock, killed, pc, left, got, eof>>

(* close(), exit() included; the last one of an end calls pipeclose().     *)
pipeclose(p) ==
  /\ pc[p] = "user" /\ p \in fds /\ lock = None
  /\ fds' = fds \ {p}
  /\ writeopen' = (fds' \cap Writers # {})
  /\ readopen' = (fds' \cap Readers # {})
  /\ pc' = IF fds' \cap Writers = {} /\ p \in Writers THEN Wakeup(Readers, pc)
           ELSE IF fds' \cap Readers = {} /\ p \in Readers THEN Wakeup(Writers, pc)
           ELSE pc
  /\ UNCHANGED <<data, nread, nwrite, lock, killed, left, got, eof>>

(* kill(): a sleeping victim becomes runnable.                             *)
kill(p) ==
  /\ p \in Killable \ killed
  /\ killed' = killed \cup {p}
  /\ pc' = Wakeup({p}, pc)
  /\ UNCHANGED <<data, nread, nwrite, readopen, writeopen, lock, fds, left, got, eof>>

Kernel(p) == pipewrite(p) \/ piperead_wait(p) \/ piperead(p) \/ sleep(p)

Step(p) ==
  \/ \E n \in 1..MaxCall : sys_call(p, n)
  \/ Kernel(p) \/ pipeclose(p) \/ kill(p)

Next == \E p \in Procs : Step(p)

Spec == Init /\ [][Next]_vars

(* A process in a call runs on and gets pi->lock in the end.  A reader     *)
(* goes on reading until it closes its end, and a killed process exits.    *)
Fairness ==
  /\ \A p \in Procs : /\ SF_vars(Kernel(p))
                      /\ SF_vars(p \in killed /\ pipeclose(p))
  /\ \A p \in Readers : SF_vars(\E n \in 1..MaxCall : sys_call(p, n))

LiveSpec == Spec /\ Fairness

-----------------------------------------------------------------------------
(* Types; nread and nwrite are never more than PIPESIZE apart (pipewrite,  *)
(* piperead).                                                              *)
TypeOK ==
  /\ data \in [0..(PIPESIZE - 1) -> Bytes]
  /\ nread \in 0..(W - 1) /\ nwrite \in 0..(W - 1)
  /\ Used <= PIPESIZE
  /\ readopen \in BOOLEAN /\ writeopen \in BOOLEAN
  /\ lock \in Procs \cup {None}
  /\ fds \subseteq Procs /\ killed \subseteq Procs
  /\ pc \in [Procs -> PCs]
  /\ left \in [Procs -> 0..MaxCall]
  /\ got \in [Readers -> Seq(Bytes)] /\ eof \subseteq Readers

F == INSTANCE Fifo WITH
       queue <- [i \in 1..Used |-> data[(nread + i - 1) % PIPESIZE]]

(* The ring buffer is a queue: readers get the bytes in the order written, *)
(* each once, and the end of the file only after the last byte, also when  *)
(* nread and nwrite wrap around.                                           *)
IsFifo == F!Spec

(* "DOC: pipewrite-full" and "DOC: pipe-empty": a writer sleeps only while *)
(* the pipe is full and somebody can read from it, a reader only while it  *)
(* is empty and somebody can write to it: no wakeup is missed.             *)
NoMissedWakeup ==
  /\ \A p \in Writers : pc[p] = "asleep" => Used = PIPESIZE /\ readopen
  /\ \A p \in Readers : pc[p] = "asleep" => Used = 0 /\ writeopen

(* Every write returns, while the readers go on reading or when they have  *)
(* all closed (one writer: several can overtake one another for ever), and *)
(* a reader in a call returns once every writer has closed its end.        *)
CallsReturn ==
  /\ \A p \in Writers : pc[p] = "call" ~> pc[p] = "user"
  /\ \A p \in Readers : pc[p] # "user" /\ ~writeopen ~> pc[p] = "user"
=============================================================================
