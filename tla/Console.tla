------------------------------- MODULE Console -------------------------------
(***************************************************************************)
(* kernel/console.c and kernel/uart.c: the input ring with line editing,   *)
(* readers that sleep for a line, writes through the transmit ring, echo,  *)
(* and the interrupt handler.  The UART is external: a character in the    *)
(* holding register is sent after a while, and sending or receiving one    *)
(* raises the interrupt.  A cons.lock section is one step; a read is cut   *)
(* between its last test and its sleep, because kill() does not take       *)
(* cons.lock, and a write is cut at every character.  Entries of the rings *)
(* that have been read or erased are cleared, to keep the states few.      *)
(***************************************************************************)
EXTENDS Integers, Sequences, FiniteSetsExt

CONSTANTS
  Readers, Writers, None,
  Keys,           \* what can be typed
  INPUT_BUF,
  W,              \* cons.r, cons.w, cons.e are unsigned: they count modulo W
  UART_TX_BUF_SIZE,
  ReadLens, WriteLens      \* lengths a caller asks for

ASSUME ConsoleAssumption ==
  /\ {INPUT_BUF, W, UART_TX_BUF_SIZE} \subseteq Nat \ {0} /\ None \notin Readers \cup Writers
  /\ W % INPUT_BUF = 0 /\ W >= 2 * INPUT_BUF /\ UART_TX_BUF_SIZE >= 2
  /\ ReadLens \subseteq Nat \ {0} /\ WriteLens \subseteq Nat \ {0}

Procs == Readers \cup Writers

VARIABLES
  buf, r, w, e,       \* cons.buf, cons.r, cons.w, cons.e
  lock,               \* holder of cons.lock between steps
  pc, n, target, killed,
  tx, tx_w, tx_r,     \* uart_tx_buf, uart_tx_w, uart_tx_r
  thr, rhr,           \* the UART's holding registers are full
  irq, handler,       \* an interrupt is pending; where uartintr() is
  panicked

input == <<buf, r, w, e>>
output == <<tx, tx_w, tx_r, thr>>
calls == <<pc, n, target, killed>>
vars == <<input, lock, calls, output, rhr, irq, handler, panicked>>

Init ==
  /\ buf = [i \in 0..(INPUT_BUF - 1) |-> None] /\ r = 0 /\ w = 0 /\ e = 0
  /\ lock = None
  /\ pc = [p \in Procs |-> "idle"] /\ n = [p \in Procs |-> 0] /\ target = [p \in Procs |-> 0]
  /\ killed = [p \in Procs |-> FALSE]
  /\ tx = [i \in 0..(UART_TX_BUF_SIZE - 1) |-> None] /\ tx_w = 0 /\ tx_r = 0
  /\ thr = FALSE /\ rhr = FALSE
  /\ irq = FALSE /\ handler = "none" /\ panicked = FALSE

Set(p, s) == [pc EXCEPT ![p] = s]

\* The ring b without the entries that are not between r1 and e1
Live(b, r1, e1) ==
  [i \in DOMAIN b |-> IF \E k \in 0..(((e1 - r1) % W) - 1) : ((r1 + k) % W) % INPUT_BUF = i
                      THEN b[i] ELSE None]

(***************************************************************************)
(* Output.                                                                 *)
(***************************************************************************)
\* uartstart(), the ring being q up to wr: send a character if the UART is idle
uartstart(q, wr) ==
  IF wr # tx_r /\ ~thr
  THEN /\ thr' = TRUE
       /\ tx_r' = (tx_r + 1) % UART_TX_BUF_SIZE
       /\ tx' = [q EXCEPT ![tx_r] = None]
  ELSE tx' = q /\ UNCHANGED <<thr, tx_r>>

consolewrite(p, len) ==
  /\ pc[p] = "idle" /\ lock = None
  /\ lock' = p
  /\ pc' = Set(p, "write")
  /\ n' = [n EXCEPT ![p] = len] /\ target' = [target EXCEPT ![p] = len]
  /\ UNCHANGED <<input, killed, output, rhr, irq, handler, panicked>>

TxFull_never == FALSE
TxFull == (tx_w + 1) % UART_TX_BUF_SIZE = tx_r

\* uartputc() of one character: it is numbered, to tell the characters of a write apart
uartputc(p) ==
  /\ pc[p] = "write" /\ n[p] > 0 /\ ~TxFull
  /\ uartstart([tx EXCEPT ![tx_w] = <<p, target[p] - n[p] + 1>>], (tx_w + 1) % UART_TX_BUF_SIZE)
  /\ tx_w' = (tx_w + 1) % UART_TX_BUF_SIZE
  /\ n' = [n EXCEPT ![p] = @ - 1]
  /\ UNCHANGED <<input, lock, pc, target, killed, rhr, irq, handler, panicked>>

\* The ring is full: uartputc() sleeps while consolewrite() holds cons.lock, and
\* sched() panics because noff is 2.  The hart spins, with the lock
uartputc_full(p) ==
  /\ pc[p] = "write" /\ n[p] > 0 /\ TxFull
  /\ panicked' = TRUE
  /\ pc' = Set(p, "panic")
  /\ UNCHANGED <<input, lock, n, target, killed, output, rhr, irq, handler>>

\* All is written, or either_copyin() fails
consolewrite_end(p) ==
  /\ pc[p] = "write"
  /\ lock' = None
  /\ pc' = Set(p, "idle")
  /\ n' = [n EXCEPT ![p] = 0] /\ target' = [target EXCEPT ![p] = 0]
  /\ UNCHANGED <<input, killed, output, rhr, irq, handler, panicked>>

(***************************************************************************)
(* Reading.                                                                *)
(***************************************************************************)
consoleread(p, len) ==
  /\ pc[p] = "idle"
  /\ pc' = Set(p, "read")
  /\ n' = [n EXCEPT ![p] = len] /\ target' = [target EXCEPT ![p] = len]
  /\ UNCHANGED <<input, lock, killed, output, rhr, irq, handler, panicked>>

\* The character k places after cons.r
At(k) == buf[((r + k) % W) % INPUT_BUF]
Ready == (w - r) % W

Return(p) ==
  /\ pc' = Set(p, "idle")
  /\ n' = [n EXCEPT ![p] = 0] /\ target' = [target EXCEPT ![p] = 0]

\* Characters a reader that may take m takes before end of file, or to the end of a line
Line(m) ==
  LET stop == {k \in 0..(m - 1) : k < Ready /\ At(k) \in {"nl", "D"}}
  IN  IF stop = {} THEN Min({m, Ready})
      ELSE IF At(Min(stop)) = "nl" THEN Min(stop) + 1 ELSE Min(stop)

\* A ^D after k more characters is consumed when it makes the result 0
Eof(p, k) == k = 0 /\ n[p] = target[p]

\* The loop of consoleread() up to its end, or to an empty ring
read_line(p) ==
  LET k == Line(n[p])
      eof == k < n[p] /\ k < Ready /\ At(k) = "D"
      done == k = n[p] \/ eof \/ (k > 0 /\ At(k - 1) = "nl")
  IN  /\ pc[p] = "read" /\ lock = None /\ r # w
      /\ r' = (r + k + IF eof /\ Eof(p, k) THEN 1 ELSE 0) % W
      /\ IF done THEN Return(p)
                 ELSE n' = [n EXCEPT ![p] = @ - k] /\ UNCHANGED <<pc, target>>
      /\ buf' = Live(buf, r', e)
      /\ UNCHANGED <<w, e, lock, killed, output, rhr, irq, handler, panicked>>

\* either_copyout() fails: the character it was for is consumed
read_fault(p) ==
  \E k \in 0..(Line(n[p]) - 1) :
    /\ pc[p] = "read" /\ lock = None /\ r # w
    /\ r' = (r + k + 1) % W
    /\ Return(p)
    /\ buf' = Live(buf, r', e)
    /\ UNCHANGED <<w, e, lock, killed, output, rhr, irq, handler, panicked>>

\* The ring is empty: a killed process returns, the others are going to sleep
read_empty(p) ==
  /\ pc[p] = "read" /\ lock = None /\ r = w
  /\ IF killed[p] THEN Return(p) /\ UNCHANGED lock
                  ELSE pc' = Set(p, "dozing") /\ lock' = p /\ UNCHANGED <<n, target>>
  /\ UNCHANGED <<input, killed, output, rhr, irq, handler, panicked>>

read_sleep(p) ==
  /\ pc[p] = "dozing"
  /\ pc' = Set(p, "asleep")
  /\ lock' = None
  /\ UNCHANGED <<input, n, target, killed, output, rhr, irq, handler, panicked>>

kill(p) ==
  /\ ~killed[p]
  /\ killed' = [killed EXCEPT ![p] = TRUE]
  /\ pc' = IF pc[p] = "asleep" THEN Set(p, "read") ELSE pc
  /\ UNCHANGED <<input, lock, n, target, output, rhr, irq, handler, panicked>>

(***************************************************************************)
(* The interrupt handler.                                                  *)
(***************************************************************************)
uartintr ==
  /\ irq /\ handler = "none"
  /\ handler' = "input"
  /\ irq' = FALSE
  /\ UNCHANGED <<input, lock, calls, output, rhr, panicked>>

Typed(c) == IF c = "cr" THEN "nl" ELSE c
Edit(k) == (e - k) % W

\* Characters ^U erases: back to cons.w or to the end of a line
Kills ==
  LET len == (e - w) % W
      stop == {k \in 1..len : buf[Edit(k) % INPUT_BUF] = "nl"}
  IN  IF stop = {} THEN len ELSE Min(stop) - 1

Room == (e - r) % W < INPUT_BUF

\* cons.w follows every character
Commits_all(c, e1) == TRUE
Commits(c, e1) == c \in {"nl", "D"} \/ e1 = (r + INPUT_BUF) % W

\* Whoever sleeps for input is made runnable
Woken_none == pc
Woken == [p \in Procs |-> IF pc[p] = "asleep" THEN "read" ELSE pc[p]]

store(c) ==
  LET e1 == (e + 1) % W
  IN  /\ buf' = [buf EXCEPT ![e % INPUT_BUF] = c]
      /\ e' = e1
      /\ IF Commits(c, e1)
         THEN w' = e1 /\ pc' = Woken
         ELSE UNCHANGED <<w, pc>>

erase(k) == e' = Edit(k) /\ buf' = Live(buf, r, e') /\ UNCHANGED <<w, pc>>

\* consoleintr() of the received character.  What it echoes goes to the UART at once,
\* when that is idle
consoleintr(c) ==
  LET k == CASE c = "U" -> Kills
             [] c = "H" -> IF e # w THEN 1 ELSE 0
             [] OTHER -> 0
      takes == c \notin {"U", "H", "P", "nul"} /\ Room
      echoes == k > 0 \/ takes
  IN  /\ handler = "input" /\ rhr /\ lock = None
      /\ IF takes THEN store(Typed(c)) ELSE erase(k)
      /\ IF echoes THEN ~thr /\ thr' = TRUE ELSE UNCHANGED thr
      /\ rhr' = FALSE
      /\ UNCHANGED <<r, lock, n, target, killed, tx, tx_w, tx_r, irq, handler, panicked>>

\* No more input: what is buffered is left, or sent
uartintr_end_idle ==
  /\ handler = "input" /\ ~rhr
  /\ handler' = "none"
  /\ UNCHANGED <<input, lock, calls, output, rhr, irq, panicked>>

uartintr_end ==
  /\ handler = "input" /\ ~rhr
  /\ uartstart(tx, tx_w)
  /\ handler' = "none"
  /\ UNCHANGED <<input, lock, calls, tx_w, rhr, irq, panicked>>

(***************************************************************************)
(* The UART.                                                               *)
(***************************************************************************)
device_send ==
  /\ thr
  /\ thr' = FALSE /\ irq' = TRUE
  /\ UNCHANGED <<input, lock, calls, tx, tx_w, tx_r, rhr, handler, panicked>>

device_receive ==
  /\ ~rhr
  /\ rhr' = TRUE /\ irq' = TRUE
  /\ UNCHANGED <<input, lock, calls, output, handler, panicked>>

Reading(p) == read_line(p) \/ read_empty(p) \/ read_sleep(p)
Writing(p) == uartputc(p) \/ uartputc_full(p) \/ (n[p] = 0 /\ consolewrite_end(p))
Intr == uartintr \/ (\E c \in Keys : consoleintr(c)) \/ uartintr_end

Next ==
  \/ Intr \/ device_send \/ device_receive
  \/ \E p \in Readers : \/ Reading(p) \/ read_fault(p) \/ kill(p)
                        \/ \E len \in ReadLens : consoleread(p, len)
  \/ \E p \in Writers : \/ uartputc(p) \/ uartputc_full(p) \/ consolewrite_end(p)
                        \/ \E len \in WriteLens : consolewrite(p, len)

Spec == Init /\ [][Next]_vars

\* The UART sends, interrupts are taken, and the scheduler runs who holds cons.lock
Fairness ==
  /\ WF_vars(device_send) /\ WF_vars(Intr)
  /\ \A p \in Readers : WF_vars(read_sleep(p))
  /\ \A p \in Writers : WF_vars(Writing(p))

LiveSpec == Spec /\ Fairness

\* Types; r, w and e stay in this order and at most INPUT_BUF apart, also when they wrap
\* (consoleread(), consoleintr()).
TypeOK ==
  /\ r \in 0..(W - 1) /\ w \in 0..(W - 1) /\ e \in 0..(W - 1)
  /\ (w - r) % W <= (e - r) % W /\ (e - r) % W <= INPUT_BUF
  /\ lock \in Procs \cup {None}
  /\ pc \in [Procs -> {"idle", "read", "dozing", "asleep", "write", "panic"}]
  /\ \A p \in Procs : n[p] \in 0..target[p]
  /\ handler \in {"none", "input"}

\* The characters between two indices, in order
Slice(a, b) == [i \in 1..((b - a) % W) |-> buf[((a + i - 1) % W) % INPUT_BUF]]

\* What is between r and w is readable, what is between w and e is the line being edited
Line_ == INSTANCE LineInput WITH
  Chars <- {Typed(c) : c \in Keys}, NL <- "nl", EOF <- "D", Size <- INPUT_BUF,
  ready <- Slice(r, w), line <- Slice(w, e)

\* The ring is the console a reader may count on (consoleread, consoleintr): characters
\* come in the order typed, erased ones never, and a read ends with a line or a ^D.
IsLineInput == Line_!Spec

\* A reader only sleeps while nothing is readable: consoleintr() wakes it with every
\* line, and pushing ^D back does not hide it from a sleeper.
SleepsOnEmpty == \A p \in Readers : pc[p] \in {"dozing", "asleep"} => r = w

\* The transmit ring holds the characters of a write in order and without another
\* write's in between: consolewrite() keeps cons.lock.
WritesWhole ==
  TypeOK /\ \A i \in 0..(UART_TX_BUF_SIZE - 1) :
    LET j == (i + 1) % UART_TX_BUF_SIZE
    IN  tx[i] # None /\ tx[j] # None /\ j # tx_r /\ tx[j][2] # 1 =>
          tx[i] = <<tx[j][1], tx[j][2] - 1>>

\* Once typing stops, the transmit ring is emptied or goes on being sent, character by
\* character, even when an echo took the UART and uartstart() had to leave it to the
\* interrupt.
OutputDrains ==
  <>[](~rhr /\ tx_w # tx_r /\ ~panicked) => []<><<tx_r' # tx_r>>_tx_r
====
