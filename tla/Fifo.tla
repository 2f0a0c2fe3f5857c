-------------------------------- MODULE Fifo --------------------------------
(***************************************************************************)
(* What kernel/pipe.c promises: a bounded queue of bytes.  A read gets     *)
(* bytes from the front and finds the end of the file only when the queue  *)
(* is empty and no writer is left.                                         *)
(***************************************************************************)
EXTENDS Integers, Sequences

CONSTANTS Bytes,     \* values of a byte
          PIPESIZE,  \* capacity
          Readers    \* processes with the read end

VARIABLES queue,     \* bytes written and not yet read
          got,       \* what each reader's last read gave it
          eof,       \* readers whose last read found the end of the file
          writeopen  \* somebody can still write

vars == <<queue, got, eof, writeopen>>

Init ==
  /\ queue = <<>>
  /\ got = [r \in Readers |-> <<>>]
  /\ eof = {}
  /\ writeopen = TRUE

Write(s) ==
  /\ writeopen /\ Len(queue) + Len(s) <= PIPESIZE
  /\ queue' = queue \o s
  /\ UNCHANGED <<got, eof, writeopen>>

Read(r, n) ==
  /\ n \in 1..Len(queue)
  /\ got' = [got EXCEPT ![r] = SubSeq(queue, 1, n)]
  /\ queue' = SubSeq(queue, n + 1, Len(queue))
  /\ UNCHANGED <<eof, writeopen>>

(* A read into a bad address: the byte that does not get out is lost.      *)
ReadFault(r, n) ==
  /\ n \in 1..Len(queue)
  /\ got' = [got EXCEPT ![r] = SubSeq(queue, 1, n - 1)]
  /\ queue' = SubSeq(queue, n + 1, Len(queue))
  /\ UNCHANGED <<eof, writeopen>>

ReadEof(r) ==
  /\ queue = <<>> /\ ~writeopen
  /\ eof' = eof \cup {r}
  /\ UNCHANGED <<queue, got, writeopen>>

(* The reader starts another read.                                         *)
StartRead(r) ==
  /\ got' = [got EXCEPT ![r] = <<>>]
  /\ eof' = eof \ {r}
  /\ UNCHANGED <<queue, writeopen>>

Close == writeopen /\ writeopen' = FALSE /\ UNCHANGED <<queue, got, eof>>

Next ==
  \/ \E k \in 1..PIPESIZE : \E s \in [1..k -> Bytes] : Write(s)
  \/ \E r \in Readers, n \in 1..PIPESIZE : Read(r, n) \/ ReadFault(r, n)
  \/ \E r \in Readers : ReadEof(r) \/ StartRead(r)
  \/ Close

Spec == Init /\ [][Next]_vars
=============================================================================
