----------------------------- MODULE AtomicDisk -----------------------------
(***************************************************************************)
(* What kernel/log.c promises to the file system: a disk on which a group  *)
(* of system calls takes effect all at once.  A call works on the current  *)
(* contents; the committed contents, the ones that survive a crash, move   *)
(* to the current ones in one step, and only when no call is half done.    *)
(***************************************************************************)
CONSTANTS Procs,      \* processes that make file system calls
          Blocks,     \* home block numbers
          Vals        \* contents of a block

VARIABLES committed,  \* what a reader finds after a crash and a reboot
          current,    \* what a reader finds now
          active      \* the processes between begin_op and end_op

vars == <<committed, current, active>>

Init ==
  /\ committed \in [Blocks -> Vals]
  /\ current = committed
  /\ active = {}

Begin(p) ==
  /\ p \notin active
  /\ active' = active \cup {p}
  /\ UNCHANGED <<committed, current>>

Write(p, b, v) ==
  /\ p \in active
  /\ current' = [current EXCEPT ![b] = v]
  /\ UNCHANGED <<committed, active>>

End(p) ==
  /\ active' = active \ {p}
  /\ UNCHANGED <<committed, current>>

Commit ==
  /\ active = {}
  /\ committed' = current
  /\ UNCHANGED <<current, active>>

Crash ==
  /\ current' = committed
  /\ active' = {}
  /\ UNCHANGED committed

Next ==
  \/ \E p \in Procs : Begin(p) \/ End(p)
  \/ \E p \in Procs, b \in Blocks, v \in Vals : Write(p, b, v)
  \/ Commit
  \/ Crash

Spec == Init /\ [][Next]_vars
=============================================================================
