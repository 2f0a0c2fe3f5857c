------------------------------ MODULE LineInput ------------------------------
(***************************************************************************)
(* What a console promises its readers: typed characters are edited in the *)
(* last line, a finished line (or a full buffer) becomes readable, and one *)
(* read takes at most one line, or the end-of-file mark alone.             *)
(***************************************************************************)
EXTENDS Sequences, Integers

CONSTANTS Chars, NL, EOF, Size

VARIABLES ready, line

vars == <<ready, line>>

Init == ready = <<>> /\ line = <<>>

Type(c) ==
  LET l == Append(line, c)
  IN  /\ Len(ready) + Len(line) < Size
      /\ IF c \in {NL, EOF} \/ Len(ready) + Len(l) = Size
         THEN ready' = ready \o l /\ line' = <<>>
         ELSE line' = l /\ UNCHANGED ready

Erase == line # <<>> /\ line' = SubSeq(line, 1, Len(line) - 1) /\ UNCHANGED ready

KillLine == line' = <<>> /\ UNCHANGED ready

Take(k) ==
  /\ \A j \in 1..(k - 1) : ready[j] \notin {NL, EOF}
  /\ ready[k] = EOF => k = 1
  /\ ready' = SubSeq(ready, k + 1, Len(ready))
  /\ UNCHANGED line

Next ==
  \/ \E c \in Chars : Type(c)
  \/ Erase \/ KillLine
  \/ \E k \in DOMAIN ready : Take(k)

Spec == Init /\ [][Next]_vars
====
