---------------------------- MODULE ConsoleProofs ----------------------------
(***************************************************************************)
(* Proofs about Console for every size of the two rings, every width of    *)
(* the counters that is a multiple of the input ring's, and any number of  *)
(* readers and writers: the input ring implements the console of module    *)
(* LineInput, a reader only sleeps while nothing is readable, and a write  *)
(* goes to the transmit ring in one piece.                                 *)
(***************************************************************************)
EXTENDS Console, WellFoundedInduction, TLAPS

Stored == {Typed(c) : c \in Keys} \cup {None}
PCs == {"idle", "read", "dozing", "asleep", "write", "panic"}
Cells == 0..(INPUT_BUF - 1)
Slots == 0..(UART_TX_BUF_SIZE - 1)

Types ==
  /\ lock \in Procs \cup {None} /\ pc \in [Procs -> PCs]
  /\ n \in [Procs -> Nat] /\ target \in [Procs -> Nat] /\ \A p \in Procs : n[p] <= target[p]
  /\ handler \in {"none", "input"}

\* Who is on his way to sleep, writes or has panicked holds cons.lock
Holds == \A p \in Procs : pc[p] \in {"dozing", "write", "panic"} => lock = p

Sleeps == \A p \in Procs : pc[p] \in {"dozing", "asleep"} => r = w

\* The characters from cons.r to cons.e: the first Ready of them can be read
Used == (e - r) % W

Counters ==
  /\ r \in 0..(W - 1) /\ w \in 0..(W - 1) /\ e \in 0..(W - 1)
  /\ Ready <= Used /\ Used <= INPUT_BUF

\* The cells of the ring, counted from cons.r
Text == [k \in Cells |-> At(k)]

\* A finished line is readable, so that ^U erases all that is not
Ring ==
  /\ Counters /\ buf \in [Cells -> Stored]
  /\ \A k \in Ready..(Used - 1) : Text[k] # "nl"

\* The slot after a slot of the transmit ring
After(i) == (i + 1) % UART_TX_BUF_SIZE

\* Only the part of the ring q from rd to wr is not None
Clear(q, rd, wr) ==
  \A i \in Slots : q[i] # None =>
    (i - rd) % UART_TX_BUF_SIZE < (wr - rd) % UART_TX_BUF_SIZE

\* What a writer put there last is the character before its next one
LastIs(q, wr) ==
  \A i \in Slots, p \in Procs :
    pc[p] = "write" /\ n[p] < target[p] /\ After(i) = wr /\ q[i] # None =>
      q[i] = <<p, target[p] - n[p]>>

\* A character that is not the first of its write follows the one before it
Chain(q, rd) ==
  \A i \in Slots :
    LET j == After(i)
    IN  q[i] # None /\ q[j] # None /\ j # rd /\ q[j][2] # 1 => q[i] = <<q[j][1], q[j][2] - 1>>

Queue == [Slots -> (Procs \X Nat) \cup {None}]

Transmit ==
  /\ tx \in Queue /\ tx_w \in Slots /\ tx_r \in Slots
  /\ Clear(tx, tx_r, tx_w) /\ LastIs(tx, tx_w) /\ Chain(tx, tx_r)

IInv == Types /\ Holds /\ Sleeps /\ Ring /\ Transmit

-----------------------------------------------------------------------------
(* Arithmetic modulo m: the counters wrap around at W, an index of the     *)
(* input ring at INPUT_BUF.                                                *)
LEMMA ModRange ==
  ASSUME NEW m \in Nat \ {0}, NEW x \in Int
  PROVE  /\ x % m \in 0..(m - 1)
         /\ x \in 0..(m - 1) => x % m = x
         /\ x \in m..(2 * m - 1) => x % m = x - m
         /\ x \in (-m)..(-1) => x % m = x + m
         /\ \E q \in Int : x = m * q + (x % m)
<1>1. x % m \in 0..(m - 1) /\ x \div m \in Int /\ x = m * (x \div m) + (x % m)  OBVIOUS
<1>2. \E q \in Int : x = m * q + (x % m)  BY Zenon, <1>1
<1>3. /\ x \in 0..(m - 1) => x % m = x
      /\ x \in m..(2 * m - 1) => x % m = x - m
      /\ x \in (-m)..(-1) => x % m = x + m
  OBVIOUS
<1> QED  BY Zenon, <1>1, <1>2, <1>3

(* A counter that is moved wraps around once at most.                      *)
LEMMA ModMove ==
  ASSUME NEW m \in Nat \ {0}, NEW x \in 0..(m - 1), NEW y \in 0..m
  PROVE  /\ (x + y) % m = IF x + y < m THEN x + y ELSE x + y - m
         /\ (x - y) % m = IF x >= y THEN x - y ELSE x - y + m
<1>1. \A z \in Int : /\ z \in 0..(m - 1) => z % m = z
                     /\ z \in m..(2 * m - 1) => z % m = z - m
                     /\ z \in (-m)..(-1) => z % m = z + m
  BY Zenon, ModRange
<1> DEFINE a == x + y
           b == x - y
<1>2. a \in Int /\ (a \in 0..(m - 1) \/ a \in m..(2 * m - 1))  OBVIOUS
<1>3. b \in Int /\ (b \in 0..(m - 1) \/ b \in (-m)..(-1))  OBVIOUS
<1> HIDE DEF a, b
<1>4. a % m = IF a < m THEN a ELSE a - m  BY <1>1, <1>2
<1>5. b % m = IF b >= 0 THEN b ELSE b + m  BY <1>1, <1>3
<1> QED  BY <1>4, <1>5 DEF a, b

(* Numbers that differ by a multiple of m are the same modulo m.           *)
LEMMA ModSame ==
  ASSUME NEW m \in Nat \ {0}, NEW x \in Int, NEW y \in Int, NEW q \in Int, x = y + m * q
  PROVE  x % m = y % m
<1> DEFINE t == y % m
<1>1. PICK d \in Int : y = m * d + t  BY Zenon, ModRange
<1>2. t \in 0..(m - 1)  BY Zenon, ModRange
<1> HIDE DEF t
<1>3. \A c \in Int : (m * c + t) % m = t  BY <1>2
<1>4. x = m * (d + q) + t /\ d + q \in Int  BY <1>1, <1>2
<1>5. x % m = t  BY Zenon, <1>3, <1>4
<1> QED  BY Zenon, <1>5 DEF t

(* Numbers less than m apart are told apart modulo m.                      *)
LEMMA ModApart ==
  ASSUME NEW m \in Nat \ {0}, NEW x \in Int, NEW j \in 0..(m - 1), NEW k \in 0..(m - 1),
         (x + j) % m = (x + k) % m
  PROVE  j = k
<1> DEFINE t == (x + j) % m
<1>1. x + j \in Int /\ x + k \in Int  OBVIOUS
<1>2. PICK a \in Int : x + j = m * a + t  BY Zenon, <1>1, ModRange
<1>3. PICK b \in Int : x + k = m * b + ((x + k) % m)  BY Zenon, <1>1, ModRange
<1>4. t \in Int  BY <1>1, ModRange
<1>5. x + k = m * b + t  BY Zenon, <1>3
<1> HIDE DEF t
<1>6. \A c \in Int : m * c < m /\ m * c > -m => c = 0  OBVIOUS
<1>7. j - k = m * (a - b) /\ a - b \in Int  BY <1>2, <1>4, <1>5
<1>8. a - b = 0  BY <1>6, <1>7
<1> QED  BY <1>7, <1>8

(* The sizes of the rings.                                                 *)
LEMMA Sizes ==
  /\ INPUT_BUF \in Nat \ {0} /\ W \in Nat \ {0} /\ UART_TX_BUF_SIZE \in Nat \ {0}
  /\ UART_TX_BUF_SIZE >= 2 /\ INPUT_BUF < W /\ None \notin Procs
  /\ ReadLens \subseteq Nat \ {0} /\ WriteLens \subseteq Nat \ {0}
BY ConsoleAssumption DEF Procs

(* The counters wrap around where the ring does.                           *)
LEMMA Cell ==
  ASSUME NEW x \in Int
  PROVE  /\ (x % W) % INPUT_BUF = x % INPUT_BUF /\ x % INPUT_BUF \in Cells
         /\ \A y \in Int : ((x % W) + y) % INPUT_BUF = (x + y) % INPUT_BUF
<1>1. INPUT_BUF \in Nat \ {0} /\ W \in Nat \ {0}  BY Zenon, Sizes
<1>2. W % INPUT_BUF = 0 /\ W \in Int  BY <1>1, ConsoleAssumption
<1>3. PICK m \in Int : W = INPUT_BUF * m + (W % INPUT_BUF)  BY Zenon, <1>1, <1>2, ModRange
<1> DEFINE t == x % W
<1>4. PICK q \in Int : x = W * q + t  BY Zenon, <1>1, ModRange
<1>5. t \in Int  BY <1>1, ModRange
<1> HIDE DEF t
<1>6. m * q \in Int  OBVIOUS
<1>7. x = t + INPUT_BUF * (m * q)
  <2>1. W = INPUT_BUF * m  BY <1>1, <1>2, <1>3
  <2> QED  BY <1>1, <1>4, <1>5, <2>1
<1>8. x % INPUT_BUF = t % INPUT_BUF  BY Zenon, <1>1, <1>5, <1>6, <1>7, ModSame
<1>9. \A y \in Int : (t + y) % INPUT_BUF = (x + y) % INPUT_BUF
  <2> TAKE y \in Int
  <2>1. x + y \in Int /\ t + y \in Int /\ x + y = (t + y) + INPUT_BUF * (m * q)
    BY <1>1, <1>5, <1>6, <1>7
  <2> QED  BY ZenonT(60), <1>1, <1>6, <2>1, ModSame
<1>10. x % INPUT_BUF \in Cells  BY Zenon, <1>1, ModRange DEF Cells
<1> QED  BY Zenon, <1>8, <1>9, <1>10 DEF t

(* The counters as places after cons.r.                                    *)
LEMMA Places ==
  ASSUME Counters
  PROVE  /\ Used \in 0..INPUT_BUF /\ Ready \in 0..Used
         /\ w = (r + Ready) % W /\ e = (r + Used) % W /\ (e - w) % W = Used - Ready
         /\ r = w <=> Ready = 0
<1>1. W \in Nat \ {0} /\ INPUT_BUF \in Nat /\ INPUT_BUF < W  BY Zenon, Sizes
<1>2. r \in 0..(W - 1) /\ w \in 0..(W - 1) /\ e \in 0..(W - 1)  BY Zenon DEF Counters
<1>3. r \in 0..W /\ w \in 0..W  BY <1>1, <1>2
<1>4. Ready = IF w >= r THEN w - r ELSE w - r + W  BY Zenon, <1>1, <1>2, <1>3, ModMove DEF Ready
<1>5. Used = IF e >= r THEN e - r ELSE e - r + W  BY Zenon, <1>1, <1>2, <1>3, ModMove DEF Used
<1>6. (e - w) % W = IF e >= w THEN e - w ELSE e - w + W  BY Zenon, <1>1, <1>2, <1>3, ModMove
<1>7. Ready <= Used /\ Used <= INPUT_BUF  BY Zenon DEF Counters
<1>8. Used \in 0..INPUT_BUF /\ Ready \in 0..Used /\ Used \in 0..W /\ Ready \in 0..W
  BY <1>1, <1>2, <1>4, <1>5, <1>7
<1>9. (r + Ready) % W = IF r + Ready < W THEN r + Ready ELSE r + Ready - W
  BY Zenon, <1>1, <1>2, <1>8, ModMove
<1>10. (r + Used) % W = IF r + Used < W THEN r + Used ELSE r + Used - W
  BY Zenon, <1>1, <1>2, <1>8, ModMove
<1> DEFINE a == Ready
           b == Used
           c == (e - w) % W
           d == (r + Ready) % W
           f == (r + Used) % W
<1> HIDE DEF a, b, c, d, f
<1>11. a \in 0..b /\ b \in 0..INPUT_BUF  BY Zenon, <1>8 DEF a, b
<1>12. /\ a = IF w >= r THEN w - r ELSE w - r + W
       /\ b = IF e >= r THEN e - r ELSE e - r + W
       /\ c = IF e >= w THEN e - w ELSE e - w + W
       /\ d = IF r + a < W THEN r + a ELSE r + a - W
       /\ f = IF r + b < W THEN r + b ELSE r + b - W
  BY Zenon, <1>4, <1>5, <1>6, <1>9, <1>10 DEF a, b, c, d, f
<1>13. w = d /\ e = f /\ c = b - a /\ (r = w <=> a = 0)  BY <1>1, <1>2, <1>11, <1>12
<1> QED  BY Zenon, <1>8, <1>13 DEF a, b, c, d, f
(* consoleread() moves cons.r, over what it may read.                      *)
LEMMA MoveR ==
  ASSUME Counters, NEW k \in 0..Ready, r' = (r + k) % W, w' = w, e' = e
  PROVE  Counters' /\ Ready' = Ready - k /\ Used' = Used - k
<1>1. W \in Nat \ {0} /\ INPUT_BUF \in Nat /\ INPUT_BUF < W  BY Zenon, Sizes
<1>2. r \in 0..(W - 1) /\ w \in 0..(W - 1) /\ e \in 0..(W - 1)  BY Zenon DEF Counters
<1>3. /\ Used \in 0..INPUT_BUF /\ Ready \in 0..Used
      /\ w = (r + Ready) % W /\ e = (r + Used) % W
  BY Zenon, Places
<1> DEFINE a == Ready
           b == Used
<1>4. a \in 0..b /\ b \in 0..INPUT_BUF /\ k \in 0..a  BY Zenon, <1>3
<1>5. w = (r + a) % W /\ e = (r + b) % W  BY Zenon, <1>3
<1> HIDE DEF a, b
<1>6. a \in 0..W /\ b \in 0..W /\ k \in 0..W  BY <1>1, <1>4
<1>7. /\ r' = IF r + k < W THEN r + k ELSE r + k - W
      /\ w = IF r + a < W THEN r + a ELSE r + a - W
      /\ e = IF r + b < W THEN r + b ELSE r + b - W
  BY Zenon, <1>1, <1>2, <1>5, <1>6, ModMove
<1>8. r' \in 0..(W - 1) /\ r' \in 0..W  BY <1>1, <1>2, <1>6, <1>7
<1>9. /\ (w - r') % W = IF w >= r' THEN w - r' ELSE w - r' + W
      /\ (e - r') % W = IF e >= r' THEN e - r' ELSE e - r' + W
  BY ZenonT(60), <1>1, <1>2, <1>8, ModMove
<1>10. (w - r') % W = a - k /\ (e - r') % W = b - k
  <2> DEFINE x == (w - r') % W
             y == (e - r') % W
             s == r'
  <2>1. /\ x = IF w >= s THEN w - s ELSE w - s + W
        /\ y = IF e >= s THEN e - s ELSE e - s + W
        /\ s = IF r + k < W THEN r + k ELSE r + k - W
    BY Zenon, <1>7, <1>9
  <2> HIDE DEF x, y, s
  <2>2. x = a - k  BY <1>1, <1>2, <1>4, <1>7, <2>1
  <2>3. y = b - k  BY <1>1, <1>2, <1>4, <1>7, <2>1
  <2> QED  BY Zenon, <2>2, <2>3 DEF x, y
<1>11. Ready' = a - k /\ Used' = b - k  BY Zenon, <1>10 DEF Ready, Used
<1>12. Ready' <= Used' /\ Used' <= INPUT_BUF  BY <1>1, <1>4, <1>11
<1> QED  BY Zenon, <1>2, <1>8, <1>11, <1>12 DEF Counters, a, b

(* consoleintr() moves cons.e forward while there is room, and cons.w with *)
(* it at the end of a line or of the ring.                                 *)
LEMMA MoveE ==
  ASSUME Counters, Used < INPUT_BUF, r' = r, e' = (e + 1) % W, w' = w \/ w' = e'
  PROVE  /\ Counters' /\ Used' = Used + 1
         /\ w' = w => Ready' = Ready
         /\ w' = e' => Ready' = Used + 1
         /\ e' = (r + INPUT_BUF) % W <=> Used + 1 = INPUT_BUF
<1>1. W \in Nat \ {0} /\ INPUT_BUF \in Nat /\ INPUT_BUF < W  BY Zenon, Sizes
<1>2. r \in 0..(W - 1) /\ w \in 0..(W - 1) /\ e \in 0..(W - 1)  BY Zenon DEF Counters
<1>3. /\ Used \in 0..INPUT_BUF /\ Ready \in 0..Used
      /\ w = (r + Ready) % W /\ e = (r + Used) % W
  BY Zenon, Places
<1> DEFINE a == Ready
           b == Used
<1>4. a \in 0..b /\ b \in 0..(INPUT_BUF - 1)  BY <1>1, <1>3
<1>5. w = (r + a) % W /\ e = (r + b) % W  BY Zenon, <1>3
<1> HIDE DEF a, b
<1>6. a \in 0..W /\ b \in 0..W /\ 1 \in 0..W /\ INPUT_BUF \in 0..W  BY <1>1, <1>4
<1>7. /\ e' = IF e + 1 < W THEN e + 1 ELSE e + 1 - W
      /\ w = IF r + a < W THEN r + a ELSE r + a - W
      /\ e = IF r + b < W THEN r + b ELSE r + b - W
      /\ (r + INPUT_BUF) % W = IF r + INPUT_BUF < W THEN r + INPUT_BUF ELSE r + INPUT_BUF - W
  BY ZenonT(60), <1>1, <1>2, <1>5, <1>6, ModMove
<1>8. e' \in 0..(W - 1) /\ r \in 0..W  BY <1>1, <1>2, <1>6, <1>7
<1>9. /\ (w - r) % W = IF w >= r THEN w - r ELSE w - r + W
      /\ (e' - r) % W = IF e' >= r THEN e' - r ELSE e' - r + W
  BY Zenon, <1>1, <1>2, <1>8, ModMove
<1>10. /\ (w - r) % W = a /\ (e' - r) % W = b + 1
       /\ e' = (r + INPUT_BUF) % W <=> b + 1 = INPUT_BUF
  BY <1>1, <1>2, <1>4, <1>7, <1>9
<1>11. Used' = b + 1 /\ (w' = w => Ready' = a) /\ (w' = e' => Ready' = b + 1)
  BY Zenon, <1>10 DEF Ready, Used
<1>12. Ready' <= Used' /\ Used' <= INPUT_BUF  BY <1>1, <1>4, <1>11
<1> QED  BY Zenon, <1>2, <1>8, <1>10, <1>11, <1>12 DEF Counters, a, b

(* It moves cons.e back, at most to cons.w.                                *)
LEMMA MoveBack ==
  ASSUME Counters, NEW k \in 0..(Used - Ready), r' = r, w' = w, e' = (e - k) % W
  PROVE  Counters' /\ Ready' = Ready /\ Used' = Used - k
<1>1. W \in Nat \ {0} /\ INPUT_BUF \in Nat /\ INPUT_BUF < W  BY Zenon, Sizes
<1>2. r \in 0..(W - 1) /\ w \in 0..(W - 1) /\ e \in 0..(W - 1)  BY Zenon DEF Counters
<1>3. /\ Used \in 0..INPUT_BUF /\ Ready \in 0..Used
      /\ w = (r + Ready) % W /\ e = (r + Used) % W
  BY Zenon, Places
<1> DEFINE a == Ready
           b == Used
<1>4. a \in 0..b /\ b \in 0..INPUT_BUF /\ k \in 0..(b - a)  BY Zenon, <1>3
<1>5. w = (r + a) % W /\ e = (r + b) % W  BY Zenon, <1>3
<1> HIDE DEF a, b
<1>6. a \in 0..W /\ b \in 0..W /\ k \in 0..W  BY <1>1, <1>4
<1>7. /\ e' = IF e >= k THEN e - k ELSE e - k + W
      /\ w = IF r + a < W THEN r + a ELSE r + a - W
      /\ e = IF r + b < W THEN r + b ELSE r + b - W
  BY Zenon, <1>1, <1>2, <1>5, <1>6, ModMove
<1>8. e' \in 0..(W - 1) /\ r \in 0..W  BY <1>1, <1>2, <1>6, <1>7
<1>9. /\ (w - r) % W = IF w >= r THEN w - r ELSE w - r + W
      /\ (e' - r) % W = IF e' >= r THEN e' - r ELSE e' - r + W
  BY Zenon, <1>1, <1>2, <1>8, ModMove
<1>10. (w - r) % W = a /\ (e' - r) % W = b - k  BY <1>1, <1>2, <1>4, <1>7, <1>9
<1>11. Used' = b - k /\ Ready' = a  BY Zenon, <1>10 DEF Ready, Used
<1>12. Ready' <= Used' /\ Used' <= INPUT_BUF  BY <1>1, <1>4, <1>11
<1> QED  BY Zenon, <1>2, <1>8, <1>11, <1>12 DEF Counters, a, b

-----------------------------------------------------------------------------
(* What the ring holds.                                                    *)

(* The cells of the ring, counted from cons.r.                             *)
LEMMA TextIs ==
  ASSUME Counters
  PROVE  \A k \in Cells : /\ Text[k] = At(k) /\ At(k) = buf[(r + k) % INPUT_BUF]
                          /\ (r + k) % INPUT_BUF \in Cells
<1> TAKE k \in Cells
<1>1. r + k \in Int  BY Sizes DEF Counters, Cells
<1>2. Text[k] = At(k)  BY Zenon DEF Text
<1> QED  BY Zenon, <1>1, <1>2, Cell DEF At

(* The same after a step.                                                  *)
LEMMA TextNext ==
  ASSUME Counters'
  PROVE  \A k \in Cells : /\ Text'[k] = buf'[(r' + k) % INPUT_BUF]
                          /\ ((r' + k) % W) % INPUT_BUF = (r' + k) % INPUT_BUF
                          /\ (r' + k) % INPUT_BUF \in Cells
<1> TAKE k \in Cells
<1>1. r' + k \in Int  BY Sizes DEF Counters, Cells
<1>2. Text'[k] = buf'[((r' + k) % W) % INPUT_BUF]  BY Zenon DEF Text, At
<1> QED  BY Zenon, <1>1, <1>2, Cell

(* The two parts of the ring as sequences.                                 *)
Parts ==
  /\ Slice(r, w) = [i \in 1..Ready |-> Text[i - 1]]
  /\ Slice(w, e) = [i \in 1..(Used - Ready) |-> Text[Ready + i - 1]]
  /\ Slice(r, w) \in Seq(Stored) /\ Len(Slice(r, w)) = Ready
  /\ Slice(w, e) \in Seq(Stored) /\ Len(Slice(w, e)) = Used - Ready

(* What is between two of the counters, as places after cons.r.            *)
LEMMA PartsAre == Ring => Parts
<1> SUFFICES ASSUME Ring PROVE Parts  BY Zenon
<1>1. Counters /\ buf \in [Cells -> Stored]  BY Zenon DEF Ring
<1>2. Used \in 0..INPUT_BUF /\ Ready \in 0..Used /\ (e - w) % W = Used - Ready
      /\ w = (r + Ready) % W
  BY Zenon, <1>1, Places
<1>3. r \in Int /\ w \in Int /\ INPUT_BUF \in Nat  BY <1>1, Sizes DEF Counters
<1>4. \A i \in Int : ((r + i - 1) % W) % INPUT_BUF = (r + (i - 1)) % INPUT_BUF
  <2> TAKE i \in Int
  <2>1. r + i - 1 = r + (i - 1) /\ r + (i - 1) \in Int  BY <1>3
  <2> QED  BY Zenon, <2>1, Cell
<1>5. \A i \in Int : ((w + i - 1) % W) % INPUT_BUF = (r + (Ready + i - 1)) % INPUT_BUF
  <2> TAKE i \in Int
  <2>1. w + i - 1 = w + (i - 1) /\ w + (i - 1) \in Int /\ i - 1 \in Int /\ r + Ready \in Int
    BY <1>2, <1>3
  <2>2. ((w + i - 1) % W) % INPUT_BUF = (w + (i - 1)) % INPUT_BUF  BY Zenon, <2>1, Cell
  <2>3. (((r + Ready) % W) + (i - 1)) % INPUT_BUF = ((r + Ready) + (i - 1)) % INPUT_BUF
    BY Zenon, <2>1, Cell
  <2>4. (r + Ready) + (i - 1) = r + (Ready + i - 1)  BY <1>2, <1>3
  <2> QED  BY Zenon, <1>2, <2>2, <2>3, <2>4
<1>6. \A k \in Cells : Text[k] = buf[(r + k) % INPUT_BUF] /\ (r + k) % INPUT_BUF \in Cells
  BY Zenon, <1>1, TextIs
<1>7. \A k \in Cells : Text[k] \in Stored  BY Zenon, <1>1, <1>6
<1>8. /\ \A i \in 1..Ready : i - 1 \in Cells /\ i \in Int
      /\ \A i \in 1..(Used - Ready) : Ready + i - 1 \in Cells /\ i \in Int
  BY <1>2, <1>3 DEF Cells
<1>9. Slice(r, w) = [i \in 1..Ready |-> Text[i - 1]]
  <2>1. Slice(r, w) = [i \in 1..Ready |-> buf[((r + i - 1) % W) % INPUT_BUF]]
    BY Zenon DEF Slice, Ready
  <2>2. \A i \in 1..Ready : buf[((r + i - 1) % W) % INPUT_BUF] = Text[i - 1]
    BY Zenon, <1>4, <1>6, <1>8
  <2> QED  BY Zenon, <2>1, <2>2
<1>10. Slice(w, e) = [i \in 1..(Used - Ready) |-> Text[Ready + i - 1]]
  <2>1. Slice(w, e) = [i \in 1..(Used - Ready) |-> buf[((w + i - 1) % W) % INPUT_BUF]]
    BY Zenon, <1>2 DEF Slice
  <2>2. \A i \in 1..(Used - Ready) : buf[((w + i - 1) % W) % INPUT_BUF] = Text[Ready + i - 1]
    BY Zenon, <1>5, <1>6, <1>8
  <2> QED  BY Zenon, <2>1, <2>2
<1>11. Slice(r, w) \in Seq(Stored) /\ Len(Slice(r, w)) = Ready
  <2>1. Ready \in Nat /\ \A i \in 1..Ready : Text[i - 1] \in Stored  BY <1>2, <1>7, <1>8
  <2> QED  BY <1>9, <2>1
<1>12. Slice(w, e) \in Seq(Stored) /\ Len(Slice(w, e)) = Used - Ready
  <2>1. Used - Ready \in Nat  BY <1>2
  <2>2. \A i \in 1..(Used - Ready) : Text[Ready + i - 1] \in Stored  BY Zenon, <1>7, <1>8
  <2> QED  BY <1>10, <2>1, <2>2
<1> QED  BY Zenon, <1>9, <1>10, <1>11, <1>12 DEF Parts

(* The same of the ring after a step.                                      *)
LEMMA PartsAreNext == Ring' => Parts'
BY PartsAre, PTL

(* A cell that is still in use keeps its character.                        *)
LEMMA LiveKeeps ==
  ASSUME buf \in [Cells -> Stored], NEW r1, NEW e1, NEW j \in 0..(((e1 - r1) % W) - 1),
         ((r1 + j) % W) % INPUT_BUF \in Cells
  PROVE  Live(buf, r1, e1)[((r1 + j) % W) % INPUT_BUF] = buf[((r1 + j) % W) % INPUT_BUF]
BY Zenon DEF Live, Stored

(* consoleread() takes characters from the readable part.                  *)
LEMMA Took ==
  ASSUME Ring, NEW k \in 0..Ready, r' = (r + k) % W, w' = w, e' = e, buf' = Live(buf, r', e)
  PROVE  /\ Ring' /\ Ready' = Ready - k
         /\ Slice(r, w)' = SubSeq(Slice(r, w), k + 1, Ready)
         /\ Slice(w, e)' = Slice(w, e)
<1>1. Counters /\ buf \in [Cells -> Stored] /\ \A i \in Ready..(Used - 1) : Text[i] # "nl"
  BY Zenon DEF Ring
<1>2. Counters' /\ Ready' = Ready - k /\ Used' = Used - k  BY Zenon, <1>1, MoveR
<1>3. Used \in 0..INPUT_BUF /\ Ready \in 0..Used /\ INPUT_BUF \in Nat /\ r \in Int
  BY <1>1, Places, Sizes DEF Counters
<1>4. buf' \in [Cells -> Stored]  BY Zenon, <1>1 DEF Live, Stored
<1>5. \A j \in 0..(Used' - 1) : Text'[j] = Text[k + j]
  <2> TAKE j \in 0..(Used' - 1)
  <2>1. j \in Cells /\ k + j \in Cells /\ j \in Int /\ r + k \in Int  BY <1>2, <1>3 DEF Cells
  <2>2. /\ ((r' + j) % W) % INPUT_BUF = (r' + j) % INPUT_BUF /\ (r' + j) % INPUT_BUF \in Cells
        /\ Text'[j] = buf'[(r' + j) % INPUT_BUF]
    BY Zenon, <1>2, <2>1, TextNext
  <2>3. j \in 0..(((e - r') % W) - 1)  BY Zenon DEF Used
  <2>4. Live(buf, r', e)[((r' + j) % W) % INPUT_BUF] = buf[((r' + j) % W) % INPUT_BUF]
    BY Zenon, <1>1, <2>2, <2>3, LiveKeeps
  <2>5. Text'[j] = buf[(r' + j) % INPUT_BUF]  BY Zenon, <2>2, <2>4
  <2>6. (((r + k) % W) + j) % INPUT_BUF = ((r + k) + j) % INPUT_BUF  BY Zenon, <2>1, Cell
  <2>7. (r + k) + j = r + (k + j)  BY <1>3, <2>1
  <2>8. Text[k + j] = buf[(r + (k + j)) % INPUT_BUF]  BY Zenon, <1>1, <2>1, TextIs
  <2> QED  BY Zenon, <2>5, <2>6, <2>7, <2>8
<1>6. Ring'
  <2>1. ASSUME NEW i \in Ready'..(Used' - 1)  PROVE Text'[i] # "nl"
    <3>1. i \in 0..(Used' - 1) /\ k + i \in Ready..(Used - 1)  BY <1>2, <1>3
    <3> QED  BY Zenon, <1>1, <1>5, <3>1
  <2> QED  BY Zenon, <1>2, <1>4, <2>1 DEF Ring
<1>7. Parts /\ Parts'  BY Zenon, <1>6, PartsAre, PartsAreNext
<1>8. Slice(r, w)' = SubSeq(Slice(r, w), k + 1, Ready)
  <2>1. Slice(r, w)' = [i \in 1..(Ready - k) |-> Text'[i - 1]]  BY Zenon, <1>2, <1>7 DEF Parts
  <2> DEFINE s == Slice(r, w)
  <2>2. s \in Seq(Stored) /\ Len(s) = Ready /\ s = [i \in 1..Ready |-> Text[i - 1]]
    BY Zenon, <1>7 DEF Parts
  <2> HIDE DEF s
  <2>3. \A i \in 1..(Ready - k) : s[k + i] = Text'[i - 1]
    <3> TAKE i \in 1..(Ready - k)
    <3>1. /\ k + i \in 1..Ready /\ (k + i) - 1 = k + (i - 1)
          /\ i - 1 \in 0..(Used' - 1)
      BY <1>2, <1>3
    <3> QED  BY Zenon, <1>5, <2>2, <3>1
  <2>4. SubSeq(s, k + 1, Ready) = [i \in 1..(Ready - k) |-> s[k + i]]  BY <1>3, <2>2
  <2> QED  BY Zenon, <2>1, <2>3, <2>4 DEF s
<1>9. Slice(w, e)' = Slice(w, e)
  <2>1. Slice(w, e)' = [i \in 1..(Used' - Ready') |-> Text'[Ready' + i - 1]]
    BY Zenon, <1>7 DEF Parts
  <2>2. Used' - Ready' = Used - Ready  BY <1>2, <1>3
  <2>3. \A i \in 1..(Used - Ready) : Text'[Ready' + i - 1] = Text[Ready + i - 1]
    <3> TAKE i \in 1..(Used - Ready)
    <3>1. Ready' + i - 1 \in 0..(Used' - 1) /\ k + (Ready' + i - 1) = Ready + i - 1
      BY <1>2, <1>3
    <3> QED  BY Zenon, <1>5, <3>1
  <2>4. Slice(w, e) = [i \in 1..(Used - Ready) |-> Text[Ready + i - 1]]  BY Zenon, <1>7 DEF Parts
  <2> QED  BY Zenon, <2>1, <2>2, <2>3, <2>4
<1> QED  BY Zenon, <1>2, <1>6, <1>8, <1>9

(* Two sequences, one after the other.                                     *)
LEMMA ConcatIs ==
  ASSUME NEW S, NEW q \in Seq(S), NEW t \in Seq(S)
  PROVE  q \o t = [i \in 1..(Len(q) + Len(t)) |-> IF i <= Len(q) THEN q[i] ELSE t[i - Len(q)]]
<1>1. q \o t \in Seq(S) /\ Len(q \o t) = Len(q) + Len(t)  OBVIOUS
<1>2. \A i \in 1..(Len(q) + Len(t)) : (q \o t)[i] = IF i <= Len(q) THEN q[i] ELSE t[i - Len(q)]
  OBVIOUS
<1> DEFINE u == q \o t
<1> HIDE DEF u
<1>3. u \in Seq(S) => u = [i \in 1..Len(u) |-> u[i]]
  <2>1. u \in Seq(S) => u \in [1..Len(u) -> S]  OBVIOUS
  <2> QED  BY Zenon, <2>1
<1> QED  BY Zenon, <1>1, <1>2, <1>3 DEF u

(* consoleintr() stores a character at the end of the line being edited,   *)
(* and makes all of it readable when it moves cons.w.                      *)
LEMMA Put ==
  ASSUME Ring, Used < INPUT_BUF, NEW c \in Stored, buf' = [buf EXCEPT ![e % INPUT_BUF] = c],
         r' = r, e' = (e + 1) % W, (w' = w /\ c # "nl") \/ w' = e'
  PROVE  /\ Ring'
         /\ w' = w => Slice(r, w)' = Slice(r, w) /\ Slice(w, e)' = Append(Slice(w, e), c)
         /\ w' = e' => /\ Slice(r, w)' = Slice(r, w) \o Append(Slice(w, e), c)
                       /\ Slice(w, e)' = <<>>
<1>1. Counters /\ buf \in [Cells -> Stored] /\ \A i \in Ready..(Used - 1) : Text[i] # "nl"
  BY Zenon DEF Ring
<1>2. /\ Counters' /\ Used' = Used + 1
      /\ w' = w => Ready' = Ready
      /\ w' = e' => Ready' = Used + 1
  BY Zenon, <1>1, MoveE
<1>3. Used \in 0..INPUT_BUF /\ Ready \in 0..Used /\ INPUT_BUF \in Nat \ {0} /\ r \in Int
  BY <1>1, Places, Sizes DEF Counters
<1>4. e % INPUT_BUF = (r + Used) % INPUT_BUF /\ (r + Used) % INPUT_BUF \in Cells
  <2>1. e = (r + Used) % W  BY Zenon, <1>1, Places
  <2>2. r + Used \in Int  BY <1>3
  <2> QED  BY Zenon, <2>1, <2>2, Cell
<1>5. buf' \in [Cells -> Stored]  BY Zenon, <1>1, <1>4
<1>6. Used \in Cells  BY <1>3 DEF Cells
<1>7. \A j \in Cells : Text'[j] = buf'[(r + j) % INPUT_BUF] /\ (r + j) % INPUT_BUF \in Cells
  BY Zenon, <1>2, TextNext
<1>8. Text'[Used] = c  BY Zenon, <1>1, <1>4, <1>6, <1>7
<1>9. \A j \in 0..(Used - 1) : Text'[j] = Text[j]
  <2> TAKE j \in 0..(Used - 1)
  <2>1. j \in Cells /\ j # Used /\ j \in 0..(INPUT_BUF - 1) /\ Used \in 0..(INPUT_BUF - 1)
    BY <1>3 DEF Cells
  <2>2. (r + j) % INPUT_BUF # (r + Used) % INPUT_BUF  BY Zenon, <1>3, <2>1, ModApart
  <2>3. Text[j] = buf[(r + j) % INPUT_BUF]  BY Zenon, <1>1, <2>1, TextIs
  <2> QED  BY Zenon, <1>1, <1>4, <1>7, <2>1, <2>2, <2>3
<1>10. Ring'
  <2>1. ASSUME NEW i \in Ready'..(Used' - 1)  PROVE Text'[i] # "nl"
    <3>1. CASE w' = e'  BY <1>2, <1>3, <3>1
    <3>2. CASE w' = w /\ c # "nl"
      <4>1. i = Used \/ (i \in 0..(Used - 1) /\ i \in Ready..(Used - 1))  BY <1>2, <1>3, <3>2
      <4> QED  BY Zenon, <1>1, <1>8, <1>9, <3>2, <4>1
    <3> QED  BY Zenon, <3>1, <3>2
  <2> QED  BY Zenon, <1>2, <1>5, <2>1 DEF Ring
<1>11. Parts /\ Parts'  BY Zenon, <1>10, PartsAre, PartsAreNext
<1> DEFINE q == Slice(r, w)
           s == Slice(w, e)
           m == Used - Ready
<1>12. /\ q \in Seq(Stored) /\ Len(q) = Ready /\ q = [i \in 1..Ready |-> Text[i - 1]]
       /\ s \in Seq(Stored) /\ Len(s) = m /\ s = [i \in 1..m |-> Text[Ready + i - 1]]
  BY Zenon, <1>11 DEF Parts
<1>13. /\ Slice(r, w)' = [i \in 1..Ready' |-> Text'[i - 1]]
       /\ Slice(w, e)' = [i \in 1..(Used' - Ready') |-> Text'[Ready' + i - 1]]
  BY Zenon, <1>11 DEF Parts
<1>14. m \in Nat /\ Used = Ready + m /\ Ready \in Nat  BY <1>3
<1> HIDE DEF q, s, m
<1>15. Append(s, c) = [i \in 1..(m + 1) |-> IF i = m + 1 THEN c ELSE s[i]]
  BY <1>12, <1>14
<1>16. \A i \in 1..m : s[i] = Text'[Ready + i - 1]
  <2> TAKE i \in 1..m
  <2>1. Ready + i - 1 \in 0..(Used - 1)  BY <1>14
  <2> QED  BY Zenon, <1>9, <1>12, <2>1
<1>17. \A i \in 1..Ready : q[i] = Text'[i - 1]
  <2> TAKE i \in 1..Ready
  <2>1. i - 1 \in 0..(Used - 1)  BY <1>14
  <2> QED  BY Zenon, <1>9, <1>12, <2>1
<1>18. ASSUME w' = w  PROVE Slice(r, w)' = q /\ Slice(w, e)' = Append(s, c)
  <2>1. Ready' = Ready /\ Used' - Ready' = m + 1 /\ Ready + (m + 1) - 1 = Used
    BY <1>2, <1>14, <1>18
  <2>2. Slice(r, w)' = q  BY ZenonT(60), <1>12, <1>13, <1>17, <2>1
  <2>3. Slice(w, e)' = [i \in 1..(m + 1) |-> Text'[Ready + i - 1]]  BY Zenon, <1>13, <2>1
  <2>4. \A i \in 1..(m + 1) : Text'[Ready + i - 1] = IF i = m + 1 THEN c ELSE s[i]
    <3> TAKE i \in 1..(m + 1)
    <3>1. CASE i = m + 1  BY Zenon, <1>8, <2>1, <3>1
    <3>2. CASE i # m + 1
      <4>1. i \in 1..m  BY <1>14, <3>2
      <4> QED  BY Zenon, <1>16, <3>2, <4>1
    <3> QED  BY Zenon, <3>1, <3>2
  <2> QED  BY Zenon, <1>15, <2>2, <2>3, <2>4
<1>19. ASSUME w' = e'  PROVE Slice(r, w)' = q \o Append(s, c) /\ Slice(w, e)' = <<>>
  <2>1. Ready' = Ready + m + 1 /\ Used' - Ready' = 0  BY <1>2, <1>14, <1>19
  <2>2. Slice(w, e)' = <<>>  BY <1>13, <2>1
  <2>3. Slice(r, w)' = [i \in 1..(Ready + m + 1) |-> Text'[i - 1]]  BY Zenon, <1>13, <2>1
  <2> DEFINE t == Append(s, c)
  <2>4. /\ t \in Seq(Stored) /\ Len(t) = m + 1
        /\ \A i \in 1..(m + 1) : t[i] = IF i = m + 1 THEN c ELSE s[i]
    BY <1>12, <1>14, <1>15
  <2> HIDE DEF t
  <2>5. q \o t = [i \in 1..(Ready + (m + 1)) |-> IF i <= Ready THEN q[i] ELSE t[i - Ready]]
    <3>1. q \o t = [i \in 1..(Len(q) + Len(t)) |-> IF i <= Len(q) THEN q[i] ELSE t[i - Len(q)]]
      <4>1. q \in Seq(Stored) /\ t \in Seq(Stored)  BY Zenon, <1>12, <2>4
      <4> QED  BY Zenon, <4>1, ConcatIs
    <3>2. Len(q) = Ready /\ Len(t) = m + 1  BY ZenonT(60), <1>12, <2>4
    <3> QED  BY Zenon, <3>1, <3>2
  <2>6. \A i \in 1..(Ready + m + 1) : Text'[i - 1] = IF i <= Ready THEN q[i] ELSE t[i - Ready]
    <3> TAKE i \in 1..(Ready + m + 1)
    <3>1. CASE i <= Ready
      <4>1. i \in 1..Ready  BY <1>14, <3>1
      <4> QED  BY Zenon, <1>17, <3>1, <4>1
    <3>2. CASE i = Ready + m + 1
      <4>1. ~(i <= Ready) /\ i - Ready = m + 1 /\ i - 1 = Used /\ m + 1 \in 1..(m + 1)
        BY <1>14, <3>2
      <4> QED  BY Zenon, <1>8, <2>4, <4>1
    <3>3. CASE i > Ready /\ i # Ready + m + 1
      <4>1. /\ ~(i <= Ready) /\ i - Ready \in 1..m /\ i - Ready \in 1..(m + 1)
            /\ i - Ready # m + 1 /\ Ready + (i - Ready) - 1 = i - 1
        BY <1>14, <3>3
      <4>2. t[i - Ready] = s[i - Ready]  BY Zenon, <2>4, <4>1
      <4>3. s[i - Ready] = Text'[Ready + (i - Ready) - 1]  BY Zenon, <1>16, <4>1
      <4> QED  BY Zenon, <4>1, <4>2, <4>3
    <3>4. i \in Int /\ Ready \in Int  BY <1>14
    <3> QED  BY <3>1, <3>2, <3>3, <3>4
  <2>7. Ready + (m + 1) = Ready + m + 1  BY <1>14
  <2> QED  BY Zenon, <2>2, <2>3, <2>5, <2>6, <2>7 DEF t
<1> QED  BY Zenon, <1>10, <1>18, <1>19 DEF q, s

(* consoleintr() erases characters of the line being edited.               *)
LEMMA Erased ==
  ASSUME Ring, NEW k \in 0..(Used - Ready), r' = r, w' = w, e' = (e - k) % W,
         buf' = Live(buf, r, e')
  PROVE  /\ Ring' /\ Slice(r, w)' = Slice(r, w)
         /\ Slice(w, e)' = SubSeq(Slice(w, e), 1, Used - Ready - k)
<1>1. Counters /\ buf \in [Cells -> Stored] /\ \A i \in Ready..(Used - 1) : Text[i] # "nl"
  BY Zenon DEF Ring
<1>2. Counters' /\ Ready' = Ready /\ Used' = Used - k  BY Zenon, <1>1, MoveBack
<1>3. Used \in 0..INPUT_BUF /\ Ready \in 0..Used /\ INPUT_BUF \in Nat /\ r \in Int
  BY <1>1, Places, Sizes DEF Counters
<1>4. buf' \in [Cells -> Stored]  BY Zenon, <1>1 DEF Live, Stored
<1>5. \A j \in 0..(Used' - 1) : Text'[j] = Text[j]
  <2> TAKE j \in 0..(Used' - 1)
  <2>1. j \in Cells  BY <1>2, <1>3 DEF Cells
  <2>2. /\ ((r + j) % W) % INPUT_BUF = (r + j) % INPUT_BUF /\ (r + j) % INPUT_BUF \in Cells
        /\ Text'[j] = buf'[(r + j) % INPUT_BUF]
    BY Zenon, <1>2, <2>1, TextNext
  <2>3. j \in 0..(((e' - r) % W) - 1)  BY Zenon DEF Used
  <2>4. Live(buf, r, e')[((r + j) % W) % INPUT_BUF] = buf[((r + j) % W) % INPUT_BUF]
    BY Zenon, <1>1, <2>2, <2>3, LiveKeeps
  <2>5. Text[j] = buf[(r + j) % INPUT_BUF]  BY Zenon, <1>1, <2>1, TextIs
  <2> QED  BY Zenon, <2>2, <2>4, <2>5
<1>6. Ring'
  <2>1. ASSUME NEW i \in Ready'..(Used' - 1)  PROVE Text'[i] # "nl"
    <3>1. i \in 0..(Used' - 1) /\ i \in Ready..(Used - 1)  BY <1>2, <1>3
    <3> QED  BY Zenon, <1>1, <1>5, <3>1
  <2> QED  BY Zenon, <1>2, <1>4, <2>1 DEF Ring
<1>7. Parts /\ Parts'  BY Zenon, <1>6, PartsAre, PartsAreNext
<1>8. Slice(r, w)' = Slice(r, w)
  <2>1. Slice(r, w)' = [i \in 1..Ready |-> Text'[i - 1]]  BY Zenon, <1>2, <1>7 DEF Parts
  <2>2. \A i \in 1..Ready : Text'[i - 1] = Text[i - 1]  BY <1>2, <1>3, <1>5
  <2>3. Slice(r, w) = [i \in 1..Ready |-> Text[i - 1]]  BY Zenon, <1>7 DEF Parts
  <2> QED  BY Zenon, <2>1, <2>2, <2>3
<1>9. Slice(w, e)' = SubSeq(Slice(w, e), 1, Used - Ready - k)
  <2> DEFINE s == Slice(w, e)
             m == Used - Ready
  <2>1. s \in Seq(Stored) /\ Len(s) = m /\ s = [i \in 1..m |-> Text[Ready + i - 1]]
    BY Zenon, <1>7 DEF Parts
  <2>2. m \in Nat /\ k \in 0..m /\ Used' - Ready' = m - k  BY <1>2, <1>3
  <2>3. Slice(w, e)' = [i \in 1..(m - k) |-> Text'[Ready + i - 1]]
    BY Zenon, <1>2, <1>7, <2>2 DEF Parts
  <2>4. \A i \in 1..(m - k) : Text'[Ready + i - 1] = s[i]
    <3> TAKE i \in 1..(m - k)
    <3>1. Ready + i - 1 \in 0..(Used' - 1) /\ i \in 1..m  BY <1>2, <1>3
    <3> QED  BY Zenon, <1>5, <2>1, <3>1
  <2> HIDE DEF s, m
  <2>5. SubSeq(s, 1, m - k) = [i \in 1..(m - k) |-> s[i]]  BY <2>1, <2>2
  <2>6. Slice(w, e)' = SubSeq(s, 1, m - k)  BY Zenon, <2>3, <2>4, <2>5
  <2> QED  BY Zenon, <2>6 DEF s, m
<1> QED  BY Zenon, <1>6, <1>8, <1>9

-----------------------------------------------------------------------------
(* The transmit ring.                                                      *)

(* The slots of the ring, and how far they are from its start.             *)
LEMMA SlotIs ==
  ASSUME NEW i \in Slots, NEW j \in Slots
  PROVE  /\ After(i) \in Slots /\ After(i) # i /\ (After(i) = After(j) => i = j)
         /\ (i - j) % UART_TX_BUF_SIZE \in Nat
         /\ i # j => (i - After(j)) % UART_TX_BUF_SIZE = ((i - j) % UART_TX_BUF_SIZE) - 1
         /\ After(i) # j => (After(i) - j) % UART_TX_BUF_SIZE = ((i - j) % UART_TX_BUF_SIZE) + 1
<1> DEFINE N == UART_TX_BUF_SIZE
           a == After(i)
           b == After(j)
<1>1. N \in Nat \ {0} /\ N >= 2 /\ i \in 0..(N - 1) /\ j \in 0..(N - 1)  BY Zenon, Sizes DEF Slots
<1> HIDE DEF N, a, b
<1>2. 1 \in 0..N /\ i \in 0..N /\ j \in 0..N  BY <1>1
<1>3. a = (i + 1) % N /\ b = (j + 1) % N  BY Zenon DEF a, b, N, After
<1>4. a = IF i + 1 < N THEN i + 1 ELSE i + 1 - N  BY Zenon, <1>1, <1>2, <1>3, ModMove
<1>5. b = IF j + 1 < N THEN j + 1 ELSE j + 1 - N  BY Zenon, <1>1, <1>2, <1>3, ModMove
<1>6. a \in 0..(N - 1) /\ b \in 0..(N - 1) /\ b \in 0..N  BY <1>1, <1>4, <1>5
<1>7. /\ (i - j) % N = IF i >= j THEN i - j ELSE i - j + N
      /\ (i - b) % N = IF i >= b THEN i - b ELSE i - b + N
      /\ (a - j) % N = IF a >= j THEN a - j ELSE a - j + N
  <2>1. (i - j) % N = IF i >= j THEN i - j ELSE i - j + N  BY Zenon, <1>1, <1>2, ModMove
  <2>2. (i - b) % N = IF i >= b THEN i - b ELSE i - b + N  BY ZenonT(60), <1>1, <1>6, ModMove
  <2>3. (a - j) % N = IF a >= j THEN a - j ELSE a - j + N  BY ZenonT(60), <1>1, <1>2, <1>6, ModMove
  <2> QED  BY Zenon, <2>1, <2>2, <2>3
<1> DEFINE x == (i - j) % N
           y == (i - b) % N
           z == (a - j) % N
<1>8. /\ x = IF i >= j THEN i - j ELSE i - j + N
      /\ y = IF i >= b THEN i - b ELSE i - b + N
      /\ z = IF a >= j THEN a - j ELSE a - j + N
  BY Zenon, <1>7
<1> HIDE DEF x, y, z
<1>9. a \in 0..(N - 1) /\ a # i /\ (a = b => i = j) /\ x \in Nat
  BY <1>1, <1>4, <1>5, <1>8
<1>10. i # j => y = x - 1  BY <1>1, <1>5, <1>8
<1>11. a # j => z = x + 1  BY <1>1, <1>4, <1>8
<1> QED  BY Zenon, <1>9, <1>10, <1>11 DEF N, a, b, x, y, z, Slots

(* uartstart() keeps the order of what is in the ring.                     *)
LEMMA Starts ==
  ASSUME NEW q \in Queue, NEW wr \in Slots, tx_r \in Slots, uartstart(q, wr), tx_w' = wr,
         Clear(q, tx_r, wr), LastIs(q, wr)', Chain(q, tx_r)
  PROVE  Transmit'
<1>1. CASE ~(wr # tx_r /\ ~thr)
  <2>1. tx' = q /\ tx_r' = tx_r  BY Zenon, <1>1 DEF uartstart
  <2> QED  BY Zenon, <2>1 DEF Transmit, Clear, LastIs, Chain, After
<1>2. CASE wr # tx_r /\ ~thr
  <2>1. tx_r' = After(tx_r) /\ tx' = [q EXCEPT ![tx_r] = None]  BY Zenon, <1>2 DEF uartstart, After
  <2>2. /\ tx' \in Queue /\ tx'[tx_r] = None
        /\ \A i \in Slots \ {tx_r} : tx'[i] = q[i]
    BY Zenon, <2>1 DEF Queue
  <2>3. tx_r' \in Slots  BY Zenon, <2>1, SlotIs
  <2>4. Clear(tx, tx_r, tx_w)'
    <3> SUFFICES ASSUME NEW i \in Slots, tx'[i] # None
                 PROVE  (i - tx_r') % UART_TX_BUF_SIZE < (tx_w' - tx_r') % UART_TX_BUF_SIZE
      BY Zenon DEF Clear
    <3>1. i # tx_r /\ q[i] # None  BY Zenon, <2>2
    <3>2. (i - tx_r) % UART_TX_BUF_SIZE < (wr - tx_r) % UART_TX_BUF_SIZE  BY Zenon, <3>1 DEF Clear
    <3>3. /\ (i - tx_r') % UART_TX_BUF_SIZE = ((i - tx_r) % UART_TX_BUF_SIZE) - 1
          /\ (wr - tx_r') % UART_TX_BUF_SIZE = ((wr - tx_r) % UART_TX_BUF_SIZE) - 1
          /\ (i - tx_r) % UART_TX_BUF_SIZE \in Nat /\ (wr - tx_r) % UART_TX_BUF_SIZE \in Nat
      BY Zenon, <1>2, <2>1, <3>1, SlotIs
    <3> QED  BY <3>2, <3>3
  <2>5. LastIs(tx, tx_w)'  BY Zenon, <2>2 DEF LastIs
  <2>6. Chain(tx, tx_r)'
    <3> SUFFICES ASSUME NEW i \in Slots, tx'[i] # None, tx'[After(i)] # None, tx'[After(i)][2] # 1
                 PROVE  tx'[i] = <<tx'[After(i)][1], tx'[After(i)][2] - 1>>
      BY Zenon DEF Chain, After
    <3>1. After(i) \in Slots  BY Zenon, SlotIs
    <3>2. /\ tx'[i] = q[i] /\ tx'[After(i)] = q[After(i)] /\ After(i) # tx_r
      BY Zenon, <2>2, <3>1
    <3> QED  BY Zenon, <3>2 DEF Chain
  <2> QED  BY Zenon, <2>2, <2>3, <2>4, <2>5, <2>6 DEF Transmit
<1> QED  BY Zenon, <1>1, <1>2

(* The ring is left alone, and no write gets on without it.                *)
LEMMA TransmitStays ==
  ASSUME Transmit, UNCHANGED <<tx, tx_w, tx_r>>,
         \A p \in Procs : pc'[p] = "write" /\ n'[p] < target'[p] =>
           pc[p] = "write" /\ n'[p] = n[p] /\ target'[p] = target[p]
  PROVE  Transmit'
<1>1. Clear(tx, tx_r, tx_w)' /\ Chain(tx, tx_r)'  BY Zenon DEF Transmit, Clear, Chain, After
<1>2. LastIs(tx, tx_w)'  BY Zenon DEF Transmit, LastIs, After
<1> QED  BY Zenon, <1>1, <1>2 DEF Transmit

(* uartputc() adds the next character of the write that holds cons.lock.   *)
LEMMA PutcTransmit ==
  ASSUME Types, Holds, Transmit, NEW p \in Procs, uartputc(p)
  PROVE  Transmit'
<1>1. /\ tx \in Queue /\ tx_w \in Slots /\ tx_r \in Slots
      /\ Clear(tx, tx_r, tx_w) /\ LastIs(tx, tx_w) /\ Chain(tx, tx_r)
  BY Zenon DEF Transmit
<1>2. /\ pc[p] = "write" /\ n[p] > 0 /\ After(tx_w) # tx_r /\ tx_w' = After(tx_w)
      /\ n' = [n EXCEPT ![p] = @ - 1] /\ UNCHANGED <<lock, pc, target>>
      /\ uartstart([tx EXCEPT ![tx_w] = <<p, target[p] - n[p] + 1>>], After(tx_w))
  BY Zenon DEF uartputc, TxFull, After
<1>3. /\ n[p] \in Nat /\ target[p] \in Nat /\ n[p] <= target[p] /\ n'[p] = n[p] - 1
      /\ \A o \in Procs \ {p} : n'[o] = n[o]
  BY Zenon, <1>2 DEF Types
<1> DEFINE x == <<p, target[p] - n[p] + 1>>
<1>4. x \in Procs \X Nat /\ x[1] = p /\ x[2] = target[p] - n[p] + 1  BY <1>3
<1> HIDE DEF x
<1>5. PICK q : q = [tx EXCEPT ![tx_w] = x]  BY Zenon
<1>6. q \in Queue /\ q[tx_w] = x /\ \A i \in Slots \ {tx_w} : q[i] = tx[i]
  BY Zenon, <1>1, <1>4, <1>5 DEF Queue
<1>7. PICK wr \in Slots : wr = After(tx_w)  BY Zenon, <1>1, SlotIs
<1>8. /\ (wr - tx_r) % UART_TX_BUF_SIZE = ((tx_w - tx_r) % UART_TX_BUF_SIZE) + 1
      /\ (tx_w - tx_r) % UART_TX_BUF_SIZE \in Nat /\ wr # tx_w
  BY Zenon, <1>1, <1>2, <1>7, SlotIs
<1>9. Clear(q, tx_r, wr)
  <2> SUFFICES ASSUME NEW i \in Slots, q[i] # None
               PROVE  (i - tx_r) % UART_TX_BUF_SIZE < (wr - tx_r) % UART_TX_BUF_SIZE
    BY Zenon DEF Clear
  <2>1. CASE i = tx_w  BY <1>8, <2>1
  <2>2. CASE i # tx_w
    <3>1. (i - tx_r) % UART_TX_BUF_SIZE < (tx_w - tx_r) % UART_TX_BUF_SIZE
      BY Zenon, <1>1, <1>6, <2>2 DEF Clear
    <3>2. (i - tx_r) % UART_TX_BUF_SIZE \in Nat  BY Zenon, <1>1, SlotIs
    <3> QED  BY <1>8, <3>1, <3>2
  <2> QED  BY Zenon, <2>1, <2>2
<1>10. LastIs(q, wr)'
  <2> SUFFICES ASSUME NEW i \in Slots, NEW o \in Procs, pc'[o] = "write", After(i) = wr
               PROVE  q[i] = <<o, target'[o] - n'[o]>>
    BY Zenon DEF LastIs, After
  <2>1. lock = p /\ lock = o  BY Zenon, <1>2 DEF Holds
  <2>2. o = p  BY Zenon, <2>1
  <2>3. i = tx_w  BY Zenon, <1>1, <1>7, SlotIs
  <2>4. target'[o] - n'[o] = target[p] - n[p] + 1  BY <1>2, <1>3, <2>2
  <2> QED  BY Zenon, <1>6, <2>2, <2>3, <2>4 DEF x
<1>11. Chain(q, tx_r)
  <2> SUFFICES ASSUME NEW i \in Slots, NEW j \in Slots, j = After(i), q[i] # None, q[j] # None,
                      j # tx_r, q[j][2] # 1
               PROVE  q[i] = <<q[j][1], q[j][2] - 1>>
    BY Zenon, SlotIs DEF Chain
  <2>1. i # j  BY Zenon, SlotIs
  <2>2. CASE j = tx_w
    <3>1. q[j] = x /\ q[i] = tx[i]  BY Zenon, <1>6, <2>1, <2>2
    <3>2. n[p] < target[p]  BY <1>3, <1>4, <3>1
    <3>3. tx[i] = <<p, target[p] - n[p]>>  BY Zenon, <1>1, <1>2, <2>2, <3>1, <3>2 DEF LastIs
    <3>4. x[2] - 1 = target[p] - n[p]  BY <1>3, <1>4
    <3> QED  BY Zenon, <1>4, <3>1, <3>3, <3>4
  <2>3. CASE i = tx_w
    <3>1. j = wr /\ q[j] = tx[j]  BY Zenon, <1>6, <1>7, <2>1, <2>3
    <3>2. (wr - tx_r) % UART_TX_BUF_SIZE < (tx_w - tx_r) % UART_TX_BUF_SIZE
      BY Zenon, <1>1, <3>1 DEF Clear
    <3> QED  BY <1>8, <3>2
  <2>4. CASE i # tx_w /\ j # tx_w
    <3>1. q[i] = tx[i] /\ q[j] = tx[j]  BY Zenon, <1>6, <2>4
    <3> QED  BY Zenon, <1>1, <3>1 DEF Chain
  <2> QED  BY Zenon, <2>2, <2>3, <2>4
<1>12. uartstart(q, wr) /\ tx_w' = wr  BY Zenon, <1>2, <1>5, <1>7 DEF x
<1> QED  BY Zenon, <1>1, <1>6, <1>9, <1>10, <1>11, <1>12, Starts

-----------------------------------------------------------------------------
(* The steps.                                                              *)

\* What a step is for the readers: one of module LineInput, or none
LineStep == [Line_!Next]_(Line_!vars)

(* The input ring is left alone.                                           *)
LEMMA RingStays ==
  ASSUME Ring, UNCHANGED input
  PROVE  Ring' /\ LineStep
<1>1. buf' = buf /\ r' = r /\ w' = w /\ e' = e  BY Zenon DEF input
<1>2. Ready' = Ready /\ Used' = Used /\ Text' = Text  BY Zenon, <1>1 DEF Ready, Used, Text, At
<1>3. Ring'  BY Zenon, <1>1, <1>2 DEF Ring, Counters
<1>4. Slice(r, w)' = Slice(r, w) /\ Slice(w, e)' = Slice(w, e)  BY Zenon, <1>1 DEF Slice
<1> QED  BY Zenon, <1>3, <1>4 DEF LineStep, Line_!vars

(* A set of naturals that is not empty has a least element.                *)
LEMMA Least ==
  ASSUME NEW S \in SUBSET Nat, S # {}
  PROVE  Min(S) \in S /\ \A k \in S : Min(S) <= k
<1>1. PICK m \in S : \A k \in S : ~(<<k, m>> \in OpToRel(<, Nat))
  BY Zenon, WFMin, NatLessThanWellFounded
<1>2. \A k \in S : ~(k < m)  BY Zenon, <1>1 DEF OpToRel
<1>3. \A k \in S : m <= k  BY <1>2
<1> QED  BY Zenon, <1>3 DEF Min

(* consoleread() takes no more than it may, no more than is readable, and  *)
(* nothing after the end of a line or from a ^D on.                        *)
LEMMA LineIs ==
  ASSUME Counters, NEW m \in Nat
  PROVE  /\ Line(m) \in 0..m /\ Line(m) <= Ready
         /\ \A j \in 0..(Line(m) - 1) : At(j) # "D" /\ (j < Line(m) - 1 => At(j) # "nl")
<1>1. Ready \in Nat  BY Places, Sizes
<1> DEFINE S == {k \in 0..(m - 1) : k < Ready /\ At(k) \in {"nl", "D"}}
<1>2. S \in SUBSET Nat  OBVIOUS
<1>3. CASE S = {}
  <2>1. Line(m) = Min({m, Ready})  BY Zenon, <1>3 DEF Line
  <2>2. Min({m, Ready}) \in {m, Ready} /\ Min({m, Ready}) <= m /\ Min({m, Ready}) <= Ready
    BY Zenon, <1>1, Least
  <2> DEFINE z == Min({m, Ready})
  <2>3. z \in Nat /\ z <= m /\ z <= Ready  BY Zenon, <1>1, <2>2
  <2> HIDE DEF z
  <2>4. \A j \in 0..(z - 1) : At(j) \notin {"nl", "D"}
    <3> TAKE j \in 0..(z - 1)
    <3>1. j \in 0..(m - 1) /\ j < Ready  BY <1>1, <2>3
    <3> QED  BY Zenon, <1>3, <3>1
  <2> QED  BY <2>1, <2>3, <2>4 DEF z
<1>4. CASE S # {}
  <2> DEFINE s == Min(S)
  <2>1. s \in S /\ \A k \in S : s <= k  BY Zenon, <1>2, <1>4, Least
  <2>2. Line(m) = IF At(s) = "nl" THEN s + 1 ELSE s  BY Zenon, <1>4 DEF Line
  <2>3. /\ s \in 0..(m - 1) /\ s < Ready /\ At(s) \in {"nl", "D"}
        /\ \A k \in 0..(m - 1) : k < Ready /\ At(k) \in {"nl", "D"} => s <= k
    BY Zenon, <2>1
  <2> HIDE DEF s
  <2>4. \A j \in 0..(s - 1) : At(j) \notin {"nl", "D"}
    <3> TAKE j \in 0..(s - 1)
    <3>1. j \in 0..(m - 1) /\ j < Ready /\ ~(s <= j)  BY <1>1, <2>3
    <3> QED  BY Zenon, <2>3, <3>1
  <2>5. CASE At(s) = "nl"
    <3>1. Line(m) = s + 1  BY Zenon, <2>2, <2>5
    <3>2. \A j \in 0..s : At(j) # "D" /\ (j < s => At(j) # "nl")
      <4> TAKE j \in 0..s
      <4>1. j = s \/ j \in 0..(s - 1)  BY <2>3
      <4> QED  BY <2>3, <2>4, <2>5, <4>1
    <3>3. s + 1 \in 0..m /\ s + 1 <= Ready /\ (s + 1) - 1 = s  BY <1>1, <2>3
    <3> QED  BY Zenon, <3>1, <3>2, <3>3
  <2>6. CASE At(s) # "nl"
    <3>1. Line(m) = s  BY Zenon, <2>2, <2>6
    <3>2. s \in 0..m /\ s <= Ready  BY <1>1, <2>3
    <3> QED  BY Zenon, <2>4, <3>1, <3>2
  <2> QED  BY Zenon, <2>5, <2>6
<1> QED  BY Zenon, <1>3, <1>4

(* A read that takes the first t characters is a read of LineInput.        *)
LEMMA TakesLine ==
  ASSUME Ring, NEW t \in 0..Ready, r' = (r + t) % W, w' = w, e' = e, buf' = Live(buf, r', e),
         \A j \in 0..(t - 2) : At(j) \notin {"nl", "D"},
         t > 1 => At(t - 1) # "D"
  PROVE  Ring' /\ LineStep
<1>1. /\ Ring' /\ Slice(r, w)' = SubSeq(Slice(r, w), t + 1, Ready) /\ Slice(w, e)' = Slice(w, e)
  BY Zenon, Took
<1>2. /\ Slice(r, w) \in Seq(Stored) /\ Len(Slice(r, w)) = Ready
      /\ Slice(r, w) = [i \in 1..Ready |-> Text[i - 1]]
  BY Zenon, PartsAre DEF Parts
<1>3. Ready \in 0..INPUT_BUF /\ INPUT_BUF \in Nat  BY Places, Sizes DEF Ring
<1>4. \A j \in Cells : Text[j] = At(j)  BY Zenon, TextIs DEF Ring
<1>5. CASE t = 0
  <2> DEFINE s == Slice(r, w)
  <2> HIDE DEF s
  <2>1. SubSeq(s, 1, Ready) = s  BY <1>2, <1>3 DEF s
  <2>2. t + 1 = 1  BY <1>5
  <2>3. Slice(r, w)' = Slice(r, w)  BY Zenon, <1>1, <2>1, <2>2 DEF s
  <2> QED  BY Zenon, <1>1, <2>3 DEF LineStep, Line_!vars
<1>6. CASE t # 0
  <2>1. t \in DOMAIN Slice(r, w)
    <3>1. t \in 1..Ready  BY <1>3, <1>6
    <3> QED  BY Zenon, <1>2, <3>1
  <2>2. \A j \in 1..(t - 1) : Slice(r, w)[j] \notin {"nl", "D"}
    <3> TAKE j \in 1..(t - 1)
    <3>1. j \in 1..Ready /\ j - 1 \in 0..(t - 2) /\ j - 1 \in Cells  BY <1>3 DEF Cells
    <3> QED  BY Zenon, <1>2, <1>4, <3>1
  <2>3. Slice(r, w)[t] = "D" => t = 1
    <3>1. t \in 1..Ready /\ t - 1 \in Cells /\ (t # 1 => t > 1)  BY <1>3, <1>6 DEF Cells
    <3> QED  BY Zenon, <1>2, <1>4, <3>1
  <2>4. Line_!Take(t)  BY Zenon, <1>1, <1>2, <2>2, <2>3 DEF Line_!Take
  <2> QED  BY Zenon, <1>1, <2>1, <2>4 DEF LineStep, Line_!Next
<1> QED  BY Zenon, <1>5, <1>6

(* A step of a call that leaves the rings alone.                           *)
LEMMA CallInv ==
  ASSUME IInv, NEW p \in Procs, NEW s \in PCs, UNCHANGED <<input, tx, tx_w, tx_r, handler>>,
         pc' = [pc EXCEPT ![p] = s],
         n' \in [Procs -> Nat], target' \in [Procs -> Nat], n'[p] <= target'[p],
         \A o \in Procs \ {p} : n'[o] = n[o] /\ target'[o] = target[o],
         lock' \in Procs \cup {None}, lock' # lock => lock \in {None, p},
         s \in {"dozing", "write", "panic"} => lock' = p,
         s \in {"dozing", "asleep"} => r = w,
         s = "write" => \/ n'[p] = target'[p]
                        \/ pc[p] = "write" /\ n'[p] = n[p] /\ target'[p] = target[p]
  PROVE  IInv' /\ LineStep
<1>1. Types /\ Holds /\ Sleeps /\ Ring /\ Transmit  BY Zenon DEF IInv
<1>2. pc'[p] = s /\ \A o \in Procs \ {p} : pc'[o] = pc[o]  BY Zenon, <1>1 DEF Types
<1>3. Types'
  <2>1. pc' \in [Procs -> PCs]  BY Zenon, <1>1 DEF Types
  <2>2. \A o \in Procs : n'[o] <= target'[o]  BY Zenon, <1>1 DEF Types
  <2> QED  BY Zenon, <1>1, <2>1, <2>2 DEF Types
<1>4. Holds'
  <2> SUFFICES ASSUME NEW o \in Procs, pc'[o] \in {"dozing", "write", "panic"}
               PROVE  lock' = o
    BY Zenon DEF Holds
  <2>1. CASE o = p  BY Zenon, <1>2, <2>1
  <2>2. CASE o # p
    <3>1. lock = o  BY Zenon, <1>1, <1>2, <2>2 DEF Holds
    <3> QED  BY Zenon, <2>2, <3>1, Sizes
  <2> QED  BY Zenon, <2>1, <2>2
<1>5. Sleeps'
  <2>1. r' = r /\ w' = w  BY Zenon DEF input
  <2> QED  BY Zenon, <1>1, <1>2, <2>1 DEF Sleeps
<1>6. Ring' /\ LineStep  BY Zenon, <1>1, RingStays
<1>7. Transmit'
  <2>1. n'[p] \in Nat /\ target'[p] \in Nat  BY Zenon
  <2>2. \A o \in Procs : pc'[o] = "write" /\ n'[o] < target'[o] =>
          pc[o] = "write" /\ n'[o] = n[o] /\ target'[o] = target[o]
    BY <1>2, <2>1
  <2>3. UNCHANGED <<tx, tx_w, tx_r>>  BY Zenon
  <2> QED  BY Zenon, <1>1, <2>2, <2>3, TransmitStays
<1> QED  BY Zenon, <1>3, <1>4, <1>5, <1>6, <1>7 DEF IInv

(* consolewrite() and its end, and a panic in the middle of one.           *)
LEMMA WriteInv ==
  ASSUME IInv, NEW p \in Procs,
         \/ \E len \in WriteLens : consolewrite(p, len)
         \/ uartputc_full(p)
         \/ consolewrite_end(p)
  PROVE  IInv' /\ LineStep
<1>1. Types /\ Holds  BY Zenon DEF IInv
<1>2. ASSUME NEW len \in WriteLens, consolewrite(p, len)  PROVE IInv' /\ LineStep
  <2>1. /\ lock = None /\ lock' = p /\ pc' = [pc EXCEPT ![p] = "write"]
        /\ n' = [n EXCEPT ![p] = len] /\ target' = [target EXCEPT ![p] = len]
        /\ UNCHANGED <<input, tx, tx_w, tx_r, handler>> /\ len \in Nat
    BY Zenon, <1>2, Sizes DEF consolewrite, Set, output
  <2>2. /\ n' \in [Procs -> Nat] /\ target' \in [Procs -> Nat] /\ n'[p] = target'[p]
        /\ n'[p] <= target'[p]
        /\ \A o \in Procs \ {p} : n'[o] = n[o] /\ target'[o] = target[o]
    BY <1>1, <2>1 DEF Types
  <2>3. "write" \in PCs  BY Zenon DEF PCs
  <2> QED  BY Zenon, <2>1, <2>2, <2>3, CallInv
<1>3. ASSUME uartputc_full(p)  PROVE IInv' /\ LineStep
  <2>1. /\ pc[p] = "write" /\ pc' = [pc EXCEPT ![p] = "panic"]
        /\ UNCHANGED <<input, lock, n, target, tx, tx_w, tx_r, handler>>
    BY Zenon, <1>3 DEF uartputc_full, Set, output
  <2>2. lock = p  BY Zenon, <1>1, <2>1 DEF Holds
  <2>3. "panic" \in PCs  BY Zenon DEF PCs
  <2>4. /\ n' \in [Procs -> Nat] /\ target' \in [Procs -> Nat] /\ n'[p] <= target'[p]
        /\ \A o \in Procs \ {p} : n'[o] = n[o] /\ target'[o] = target[o]
    BY Zenon, <1>1, <2>1 DEF Types
  <2> QED  BY Zenon, <2>1, <2>2, <2>3, <2>4, CallInv
<1>4. ASSUME consolewrite_end(p)  PROVE IInv' /\ LineStep
  <2>1. /\ pc[p] = "write" /\ pc' = [pc EXCEPT ![p] = "idle"] /\ lock' = None
        /\ n' = [n EXCEPT ![p] = 0] /\ target' = [target EXCEPT ![p] = 0]
        /\ UNCHANGED <<input, tx, tx_w, tx_r, handler>>
    BY Zenon, <1>4 DEF consolewrite_end, Set, output
  <2>2. lock = p  BY Zenon, <1>1, <2>1 DEF Holds
  <2>3. "idle" \in PCs  BY Zenon DEF PCs
  <2>4. /\ n' \in [Procs -> Nat] /\ target' \in [Procs -> Nat] /\ n'[p] <= target'[p]
        /\ \A o \in Procs \ {p} : n'[o] = n[o] /\ target'[o] = target[o]
    BY <1>1, <2>1 DEF Types
  <2> QED  BY Zenon, <2>1, <2>2, <2>3, <2>4, CallInv
<1> QED  BY Zenon, <1>2, <1>3, <1>4

(* consoleread() begins, finds nothing to read and goes to sleep, and a    *)
(* process is killed.                                                      *)
LEMMA WaitInv ==
  ASSUME IInv, NEW p \in Procs,
         \/ \E len \in ReadLens : consoleread(p, len)
         \/ read_empty(p)
         \/ read_sleep(p)
         \/ kill(p)
  PROVE  IInv' /\ LineStep
<1>1. Types /\ Holds /\ Sleeps  BY Zenon DEF IInv
<1>2. "read" \in PCs /\ "idle" \in PCs /\ "dozing" \in PCs /\ "asleep" \in PCs  BY Zenon DEF PCs
<1>3. ASSUME NEW len \in ReadLens, consoleread(p, len)  PROVE IInv' /\ LineStep
  <2>1. /\ lock' = lock /\ pc' = [pc EXCEPT ![p] = "read"] /\ len \in Nat
        /\ n' = [n EXCEPT ![p] = len] /\ target' = [target EXCEPT ![p] = len]
        /\ UNCHANGED <<input, tx, tx_w, tx_r, handler>>
    BY Zenon, <1>3, Sizes DEF consoleread, Set, output
  <2>2. /\ n' \in [Procs -> Nat] /\ target' \in [Procs -> Nat] /\ n'[p] <= target'[p]
        /\ \A o \in Procs \ {p} : n'[o] = n[o] /\ target'[o] = target[o]
        /\ lock' \in Procs \cup {None}
    BY <1>1, <2>1 DEF Types
  <2> QED  BY Zenon, <1>2, <2>1, <2>2, CallInv
<1>4. ASSUME read_empty(p)  PROVE IInv' /\ LineStep
  <2>1. /\ lock = None /\ r = w /\ UNCHANGED <<input, tx, tx_w, tx_r, handler>>
    BY Zenon, <1>4 DEF read_empty, output
  <2>2. CASE killed[p]
    <3>1. /\ pc' = [pc EXCEPT ![p] = "idle"] /\ lock' = lock
          /\ n' = [n EXCEPT ![p] = 0] /\ target' = [target EXCEPT ![p] = 0]
      BY Zenon, <1>4, <2>2 DEF read_empty, Return, Set
    <3>2. /\ n' \in [Procs -> Nat] /\ target' \in [Procs -> Nat] /\ n'[p] <= target'[p]
          /\ \A o \in Procs \ {p} : n'[o] = n[o] /\ target'[o] = target[o]
          /\ lock' \in Procs \cup {None}
      BY <1>1, <3>1 DEF Types
    <3> QED  BY Zenon, <1>2, <2>1, <3>1, <3>2, CallInv
  <2>3. CASE ~killed[p]
    <3>1. pc' = [pc EXCEPT ![p] = "dozing"] /\ lock' = p /\ UNCHANGED <<n, target>>
      BY Zenon, <1>4, <2>3 DEF read_empty, Set
    <3>2. /\ n' \in [Procs -> Nat] /\ target' \in [Procs -> Nat] /\ n'[p] <= target'[p]
          /\ \A o \in Procs \ {p} : n'[o] = n[o] /\ target'[o] = target[o]
      BY Zenon, <1>1, <3>1 DEF Types
    <3> QED  BY Zenon, <1>2, <2>1, <3>1, <3>2, CallInv
  <2> QED  BY Zenon, <2>2, <2>3
<1>5. ASSUME read_sleep(p)  PROVE IInv' /\ LineStep
  <2>1. /\ pc[p] = "dozing" /\ pc' = [pc EXCEPT ![p] = "asleep"] /\ lock' = None
        /\ UNCHANGED <<input, n, target, tx, tx_w, tx_r, handler>>
    BY Zenon, <1>5 DEF read_sleep, Set, output
  <2>2. lock = p /\ r = w  BY Zenon, <1>1, <2>1 DEF Holds, Sleeps
  <2>3. /\ n' \in [Procs -> Nat] /\ target' \in [Procs -> Nat] /\ n'[p] <= target'[p]
        /\ \A o \in Procs \ {p} : n'[o] = n[o] /\ target'[o] = target[o]
    BY Zenon, <1>1, <2>1 DEF Types
  <2> QED  BY Zenon, <1>2, <2>1, <2>2, <2>3, CallInv
<1>6. ASSUME kill(p)  PROVE IInv' /\ LineStep
  <2> DEFINE s == IF pc[p] = "asleep" THEN "read" ELSE pc[p]
  <2>1. /\ pc' = [pc EXCEPT ![p] = s] /\ lock' = lock
        /\ UNCHANGED <<input, n, target, tx, tx_w, tx_r, handler>>
    BY Zenon, <1>1, <1>6 DEF kill, Set, output, Types
  <2>2. /\ s \in PCs /\ (s \in {"dozing", "write", "panic"} => lock = p)
        /\ s \in {"dozing", "asleep"} => r = w
        /\ s = "write" => pc[p] = "write"
    BY Zenon, <1>1, <1>2 DEF Types, Holds, Sleeps
  <2> HIDE DEF s
  <2>3. /\ n' \in [Procs -> Nat] /\ target' \in [Procs -> Nat] /\ n'[p] <= target'[p]
        /\ n' = n /\ target' = target /\ lock' \in Procs \cup {None}
    BY Zenon, <1>1, <2>1 DEF Types
  <2> QED  BY Zenon, <2>1, <2>2, <2>3, CallInv
<1> QED  BY Zenon, <1>3, <1>4, <1>5, <1>6

(* A reader that finds something to read: nobody is asleep.                *)
LEMMA ReadCalls ==
  ASSUME Types, Holds, Sleeps, Transmit, NEW p \in Procs, pc[p] = "read", r # w,
         UNCHANGED <<lock, tx, tx_w, tx_r, handler>>,
         \/ Return(p)
         \/ \E k \in 0..n[p] : n' = [n EXCEPT ![p] = @ - k] /\ UNCHANGED <<pc, target>>
  PROVE  Types' /\ Holds' /\ Sleeps' /\ Transmit'
<1>1. /\ n' \in [Procs -> Nat] /\ target' \in [Procs -> Nat] /\ n'[p] <= target'[p]
      /\ \A o \in Procs \ {p} : n'[o] = n[o] /\ target'[o] = target[o]
      /\ pc' \in [Procs -> PCs] /\ pc'[p] \in {"idle", "read"}
      /\ \A o \in Procs \ {p} : pc'[o] = pc[o]
  <2>1. CASE Return(p)
    <3>1. /\ pc' = [pc EXCEPT ![p] = "idle"]
          /\ n' = [n EXCEPT ![p] = 0] /\ target' = [target EXCEPT ![p] = 0]
      BY Zenon, <2>1 DEF Return, Set
    <3> QED  BY <3>1 DEF Types, PCs
  <2>2. CASE \E k \in 0..n[p] : n' = [n EXCEPT ![p] = @ - k] /\ UNCHANGED <<pc, target>>
    <3>1. PICK k \in 0..n[p] : n' = [n EXCEPT ![p] = @ - k] /\ UNCHANGED <<pc, target>>
      BY Zenon, <2>2
    <3>2. n[p] \in Nat /\ target[p] \in Nat /\ n[p] <= target[p]  BY Zenon DEF Types
    <3>3. n[p] - k \in Nat /\ n[p] - k <= target[p]  BY <3>2
    <3> QED  BY Zenon, <3>1, <3>3 DEF Types
  <2> QED  BY Zenon, <2>1, <2>2
<1>2. \A o \in Procs : pc[o] \notin {"dozing", "asleep"}  BY Zenon DEF Sleeps
<1>3. Types'
  <2>1. \A o \in Procs : n'[o] <= target'[o]  BY Zenon, <1>1 DEF Types
  <2> QED  BY Zenon, <1>1, <2>1 DEF Types
<1>4. Holds'  BY Zenon, <1>1 DEF Holds
<1>5. Sleeps'  BY Zenon, <1>1, <1>2 DEF Sleeps
<1>6. Transmit'
  <2>1. \A o \in Procs : pc'[o] = "write" /\ n'[o] < target'[o] =>
          pc[o] = "write" /\ n'[o] = n[o] /\ target'[o] = target[o]
    BY Zenon, <1>1
  <2>2. UNCHANGED <<tx, tx_w, tx_r>>  BY Zenon
  <2> QED  BY Zenon, <2>1, <2>2, TransmitStays
<1> QED  BY Zenon, <1>3, <1>4, <1>5, <1>6

(* consoleread() takes a line, or fails in the middle of one.              *)
LEMMA ReadInv ==
  ASSUME IInv, NEW p \in Procs, read_line(p) \/ read_fault(p)
  PROVE  IInv' /\ LineStep
<1>1. Types /\ Holds /\ Sleeps /\ Ring /\ Transmit /\ Counters  BY Zenon DEF IInv, Ring
<1>2. n[p] \in Nat /\ Ready \in Nat  BY <1>1, Places, Sizes DEF Types
<1> DEFINE K == Line(n[p])
<1>3. /\ K \in 0..n[p] /\ K <= Ready
      /\ \A j \in 0..(K - 1) : At(j) # "D" /\ (j < K - 1 => At(j) # "nl")
  BY Zenon, <1>1, <1>2, LineIs
<1>4. /\ pc[p] = "read" /\ r # w /\ w' = w /\ e' = e /\ buf' = Live(buf, r', e)
      /\ UNCHANGED <<lock, tx, tx_w, tx_r, handler>>
  BY Zenon DEF read_line, read_fault, output
<1>5. r \in Int  BY <1>1, Sizes DEF Counters
<1>6. CASE read_line(p)
  <2> DEFINE eof == K < n[p] /\ K < Ready /\ At(K) = "D"
             d == IF eof /\ Eof(p, K) THEN 1 ELSE 0
             t == K + d
  <2>1. r' = (r + K + d) % W  BY Zenon, <1>6 DEF read_line
  <2>2. \/ Return(p)
        \/ n' = [n EXCEPT ![p] = @ - K] /\ UNCHANGED <<pc, target>>
    BY Zenon, <1>6 DEF read_line
  <2>3. Eof(p, K) => K = 0  BY Zenon DEF Eof
  <2>4. (d = 0) \/ (d = 1 /\ K = 0 /\ K < Ready)  BY Zenon, <2>3
  <2> HIDE DEF K, d
  <2>5. t \in 0..Ready /\ r + K + d = r + t  BY <1>2, <1>3, <1>5, <2>4
  <2>6. \A j \in 0..(t - 2) : At(j) \notin {"nl", "D"}
    <3> TAKE j \in 0..(t - 2)
    <3>1. j \in 0..(K - 1) /\ j < K - 1  BY <1>3, <2>4
    <3> QED  BY Zenon, <1>3, <3>1
  <2>7. t > 1 => At(t - 1) # "D"
    <3>1. t > 1 => t = K /\ K - 1 \in 0..(K - 1)  BY <1>3, <2>4
    <3> QED  BY Zenon, <1>3, <3>1
  <2>8. r' = (r + t) % W  BY Zenon, <2>1, <2>5
  <2> HIDE DEF t
  <2>9. Ring' /\ LineStep  BY Zenon, <1>1, <1>4, <2>5, <2>6, <2>7, <2>8, TakesLine
  <2>10. Types' /\ Holds' /\ Sleeps' /\ Transmit'  BY Zenon, <1>1, <1>3, <1>4, <2>2, ReadCalls
  <2> QED  BY Zenon, <2>9, <2>10 DEF IInv
<1>7. CASE read_fault(p)
  <2>1. PICK k \in 0..(K - 1) : r' = (r + k + 1) % W /\ Return(p)  BY Zenon, <1>7 DEF read_fault
  <2> DEFINE t == k + 1
  <2> HIDE DEF K
  <2>2. t \in 0..Ready /\ r + k + 1 = r + t  BY <1>2, <1>3, <1>5
  <2>3. \A j \in 0..(t - 2) : At(j) \notin {"nl", "D"}
    <3> TAKE j \in 0..(t - 2)
    <3>1. j \in 0..(K - 1) /\ j < K - 1  BY <1>3
    <3> QED  BY Zenon, <1>3, <3>1
  <2>4. t > 1 => At(t - 1) # "D"
    <3>1. t - 1 \in 0..(K - 1)  BY <1>3
    <3> QED  BY Zenon, <1>3, <3>1
  <2>5. r' = (r + t) % W  BY Zenon, <2>1, <2>2
  <2> HIDE DEF t
  <2>6. Ring' /\ LineStep  BY Zenon, <1>1, <1>4, <2>2, <2>3, <2>4, <2>5, TakesLine
  <2>7. Types' /\ Holds' /\ Sleeps' /\ Transmit'  BY Zenon, <1>1, <1>4, <2>1, ReadCalls
  <2> QED  BY Zenon, <2>6, <2>7 DEF IInv
<1> QED  BY Zenon, <1>6, <1>7

(* uartputc() is a step of the write that holds cons.lock.                 *)
LEMMA PutcInv ==
  ASSUME IInv, NEW p \in Procs, uartputc(p)
  PROVE  IInv' /\ LineStep
<1>1. Types /\ Holds /\ Sleeps /\ Ring /\ Transmit  BY Zenon DEF IInv
<1>2. /\ n[p] > 0 /\ n' = [n EXCEPT ![p] = @ - 1]
      /\ UNCHANGED <<input, lock, pc, target, handler>>
  BY Zenon DEF uartputc
<1>3. Types'
  <2>1. n[p] \in Nat /\ n \in [Procs -> Nat] /\ \A o \in Procs : n[o] <= target[o]
    BY Zenon, <1>1 DEF Types
  <2>2. target[p] \in Nat /\ n[p] - 1 \in Nat /\ n[p] - 1 <= target[p]
    BY <1>1, <1>2, <2>1 DEF Types
  <2>3. n' \in [Procs -> Nat] /\ \A o \in Procs : n'[o] <= target[o]  BY Zenon, <1>2, <2>1, <2>2
  <2> QED  BY Zenon, <1>1, <1>2, <2>3 DEF Types
<1>4. Holds'  BY Zenon, <1>1, <1>2 DEF Holds
<1>5. Sleeps'  BY Zenon, <1>1, <1>2 DEF Sleeps, input
<1>6. Transmit'  BY Zenon, <1>1, PutcTransmit
<1>7. Ring' /\ LineStep  BY Zenon, <1>1, <1>2, RingStays
<1> QED  BY Zenon, <1>3, <1>4, <1>5, <1>6, <1>7 DEF IInv

(* The steps of the UART, and of its handler where it is not the console's. *)
LEMMA UartInv ==
  ASSUME IInv, uartintr \/ uartintr_end \/ device_send \/ device_receive
  PROVE  IInv' /\ LineStep
<1>1. Types /\ Holds /\ Sleeps /\ Ring /\ Transmit  BY Zenon DEF IInv
<1>2. UNCHANGED <<input, lock, pc, n, target, tx_w>> /\ handler' \in {"none", "input"}
  BY Zenon, <1>1 DEF uartintr, uartintr_end, device_send, device_receive, calls, output, Types
<1>3. Types' /\ Holds'  BY Zenon, <1>1, <1>2 DEF Types, Holds
<1>4. Sleeps'  BY Zenon, <1>1, <1>2 DEF Sleeps, input
<1>5. Ring' /\ LineStep  BY Zenon, <1>1, <1>2, RingStays
<1>6. Transmit'
  <2>1. CASE uartintr_end
    <3>1. PICK q : q = tx  BY Zenon
    <3>2. PICK wr : wr = tx_w  BY Zenon
    <3>3. q \in Queue /\ wr \in Slots /\ tx_r \in Slots  BY Zenon, <1>1, <3>1, <3>2 DEF Transmit
    <3>4. Clear(q, tx_r, wr) /\ Chain(q, tx_r)  BY Zenon, <1>1, <3>1, <3>2 DEF Transmit
    <3>5. LastIs(q, wr)'
      <4>1. LastIs(q, wr)  BY Zenon, <1>1, <3>1, <3>2 DEF Transmit
      <4> QED  BY Zenon, <1>2, <4>1 DEF LastIs, After
    <3>6. uartstart(q, wr) /\ tx_w' = wr  BY Zenon, <1>2, <2>1, <3>1, <3>2 DEF uartintr_end
    <3> QED  BY Zenon, <3>3, <3>4, <3>5, <3>6, Starts
  <2>2. CASE uartintr \/ device_send \/ device_receive
    <3>1. UNCHANGED <<tx, tx_w, tx_r>>
      BY Zenon, <2>2 DEF uartintr, device_send, device_receive, output
    <3> QED  BY Zenon, <1>1, <1>2, <3>1, TransmitStays
  <2> QED  BY Zenon, <2>1, <2>2
<1> QED  BY Zenon, <1>3, <1>4, <1>5, <1>6 DEF IInv

(* ^U erases all of the line being edited: it has no newline in it.        *)
LEMMA KillsLine ==
  ASSUME Ring
  PROVE  Kills = Used - Ready
<1>1. Counters /\ \A i \in Ready..(Used - 1) : Text[i] # "nl"  BY Zenon DEF Ring
<1>2. /\ Used \in 0..INPUT_BUF /\ Ready \in 0..Used
      /\ e = (r + Used) % W /\ (e - w) % W = Used - Ready
  BY Zenon, <1>1, Places
<1>3. r \in Int /\ e \in Int /\ INPUT_BUF \in Nat  BY <1>1, Sizes DEF Counters
<1>4. \A k \in 1..(Used - Ready) : buf[Edit(k) % INPUT_BUF] # "nl"
  <2> TAKE k \in 1..(Used - Ready)
  <2>1. /\ Used - k \in Ready..(Used - 1) /\ Used - k \in Cells
        /\ e - k \in Int /\ -k \in Int /\ e - k = e + (-k)
        /\ r + Used \in Int /\ (r + Used) + (-k) = r + (Used - k)
    BY <1>2, <1>3 DEF Cells
  <2>2. Edit(k) % INPUT_BUF = (e - k) % INPUT_BUF  BY Zenon, <2>1, Cell DEF Edit
  <2>3. (((r + Used) % W) + (-k)) % INPUT_BUF = ((r + Used) + (-k)) % INPUT_BUF
    BY Zenon, <2>1, Cell
  <2>4. Text[Used - k] = buf[(r + (Used - k)) % INPUT_BUF]  BY Zenon, <1>1, <2>1, TextIs
  <2>5. Edit(k) % INPUT_BUF = (r + (Used - k)) % INPUT_BUF  BY Zenon, <1>2, <2>1, <2>2, <2>3
  <2>6. Text[Used - k] # "nl"  BY Zenon, <1>1, <2>1
  <2> QED  BY Zenon, <2>4, <2>5, <2>6
<1>5. {k \in 1..((e - w) % W) : buf[Edit(k) % INPUT_BUF] = "nl"} = {}  BY Zenon, <1>2, <1>4
<1> QED  BY Zenon, <1>2, <1>5 DEF Kills

(* What consoleintr() leaves of the calls: sleepers may be woken, and must *)
(* be when there is something to read.                                     *)
LEMMA IntrCalls ==
  ASSUME Types, Holds, Sleeps, Transmit, lock = None, r' = r,
         (pc' = pc /\ w' = w) \/ pc' = Woken,
         UNCHANGED <<lock, n, target, tx, tx_w, tx_r, handler>>
  PROVE  Types' /\ Holds' /\ Sleeps' /\ Transmit'
<1>1. \A p \in Procs : pc[p] \notin {"dozing", "write", "panic"}  BY Zenon, Sizes DEF Holds
<1>2. /\ pc' \in [Procs -> PCs] /\ \A p \in Procs : pc'[p] \in {pc[p], "read"}
      /\ pc' = pc \/ \A p \in Procs : pc'[p] # "asleep"
  BY Zenon DEF Types, Woken, PCs
<1>3. Types'  BY Zenon, <1>2 DEF Types
<1>4. Holds'  BY Zenon, <1>1, <1>2 DEF Holds
<1>5. Sleeps'
  <2> SUFFICES ASSUME NEW p \in Procs, pc'[p] \in {"dozing", "asleep"}  PROVE r' = w'
    BY Zenon DEF Sleeps
  <2>1. pc'[p] = pc[p] /\ pc[p] = "asleep"  BY Zenon, <1>1, <1>2
  <2>2. pc' # Woken  BY Zenon, <2>1 DEF Woken
  <2> QED  BY Zenon, <2>1, <2>2 DEF Sleeps
<1>6. Transmit'
  <2>1. \A p \in Procs : pc'[p] # "write"  BY Zenon, <1>1, <1>2
  <2>2. UNCHANGED <<tx, tx_w, tx_r>>  BY Zenon
  <2> QED  BY Zenon, <2>1, <2>2, TransmitStays
<1> QED  BY Zenon, <1>3, <1>4, <1>5, <1>6

(* Storing a character is the step Type of LineInput.                      *)
LEMMA StoreLine ==
  ASSUME Ring, Room, NEW c \in {Typed(k) : k \in Keys}, store(c), r' = r
  PROVE  Ring' /\ LineStep
<1>1. Counters  BY Zenon DEF Ring
<1>2. /\ buf' = [buf EXCEPT ![e % INPUT_BUF] = c] /\ e' = (e + 1) % W
      /\ (Commits(c, e') /\ w' = e') \/ (~Commits(c, e') /\ w' = w)
  BY Zenon DEF store
<1>3. Used < INPUT_BUF  BY Zenon DEF Room, Used
<1>4. e' = (r + INPUT_BUF) % W <=> Used + 1 = INPUT_BUF  BY Zenon, <1>1, <1>2, <1>3, MoveE
<1>5. Commits(c, e') <=> c \in {"nl", "D"} \/ Used + 1 = INPUT_BUF  BY Zenon, <1>4 DEF Commits
<1>6. c \in Stored /\ ((w' = w /\ c # "nl") \/ w' = e')  BY Zenon, <1>2, <1>5 DEF Stored
<1>7. /\ Ring'
      /\ w' = w => Slice(r, w)' = Slice(r, w) /\ Slice(w, e)' = Append(Slice(w, e), c)
      /\ w' = e' => /\ Slice(r, w)' = Slice(r, w) \o Append(Slice(w, e), c)
                    /\ Slice(w, e)' = <<>>
  BY Zenon, <1>2, <1>3, <1>6, Put
<1>8. /\ Slice(r, w) \in Seq(Stored) /\ Len(Slice(r, w)) = Ready
      /\ Slice(w, e) \in Seq(Stored) /\ Len(Slice(w, e)) = Used - Ready
  BY Zenon, PartsAre DEF Parts
<1>9. Used \in 0..INPUT_BUF /\ Ready \in 0..Used /\ INPUT_BUF \in Nat  BY Zenon, <1>1, Places, Sizes
<1> DEFINE q == Slice(r, w)
           s == Slice(w, e)
<1>10. q \in Seq(Stored) /\ s \in Seq(Stored) /\ Len(q) + Len(s) = Used
  BY <1>8, <1>9
<1>11. Len(Append(s, c)) = Len(s) + 1 /\ Len(s) \in Nat /\ Len(q) \in Nat  BY <1>6, <1>10
<1>12. Len(q) + Len(Append(s, c)) = Used + 1  BY <1>10, <1>11
<1>13. \/ /\ c \in {"nl", "D"} \/ Len(q) + Len(Append(s, c)) = INPUT_BUF
          /\ Slice(r, w)' = q \o Append(s, c) /\ Slice(w, e)' = <<>>
       \/ /\ ~(c \in {"nl", "D"} \/ Len(q) + Len(Append(s, c)) = INPUT_BUF)
          /\ Slice(r, w)' = q /\ Slice(w, e)' = Append(s, c)
  BY Zenon, <1>2, <1>5, <1>7, <1>12
<1>14. Line_!Type(c)
  <2>1. Len(q) + Len(s) < INPUT_BUF  BY Zenon, <1>3, <1>10
  <2> QED  BY Zenon, <1>13, <2>1 DEF Line_!Type
<1> QED  BY Zenon, <1>7, <1>14 DEF LineStep, Line_!Next

(* Erasing is a step of LineInput when it is of one character or of all.   *)
LEMMA EraseLine ==
  ASSUME Ring, NEW k, k \in {0, Used - Ready} \/ (k = 1 /\ Used # Ready), erase(k), r' = r
  PROVE  Ring' /\ LineStep
<1>1. Counters  BY Zenon DEF Ring
<1>2. Used \in 0..INPUT_BUF /\ Ready \in 0..Used /\ INPUT_BUF \in Nat  BY Zenon, <1>1, Places, Sizes
<1> DEFINE s == Slice(w, e)
           m == Used - Ready
<1>3. m \in Nat /\ k \in 0..m /\ (k \in {0, m} \/ (k = 1 /\ m # 0))  BY <1>2
<1>4. e' = (e - k) % W /\ buf' = Live(buf, r, e') /\ w' = w  BY Zenon DEF erase, Edit
<1>5. Ring' /\ Slice(r, w)' = Slice(r, w) /\ Slice(w, e)' = SubSeq(Slice(w, e), 1, Used - Ready - k)
  BY Zenon, <1>3, <1>4, Erased
<1>6. s \in Seq(Stored) /\ Len(s) = m  BY Zenon, PartsAre DEF Parts
<1>7. Slice(w, e)' = SubSeq(s, 1, m - k) /\ Slice(r, w)' = Slice(r, w)  BY Zenon, <1>5
<1> HIDE DEF s, m
<1>8. CASE k = 0
  <2>1. SubSeq(s, 1, m - k) = s  BY <1>3, <1>6, <1>8
  <2> QED  BY Zenon, <1>5, <1>7, <2>1 DEF LineStep, Line_!vars, s
<1>9. CASE k = m
  <2>1. SubSeq(s, 1, m - k) = <<>>  BY <1>3, <1>6, <1>9
  <2>2. Line_!KillLine  BY Zenon, <1>7, <2>1 DEF Line_!KillLine
  <2> QED  BY Zenon, <1>5, <2>2 DEF LineStep, Line_!Next
<1>10. CASE k = 1 /\ m # 0
  <2>1. s # <<>> /\ SubSeq(s, 1, m - k) = SubSeq(s, 1, Len(s) - 1)  BY <1>6, <1>10
  <2>2. Line_!Erase  BY Zenon, <1>7, <2>1 DEF Line_!Erase, s
  <2> QED  BY Zenon, <1>5, <2>2 DEF LineStep, Line_!Next
<1> QED  BY Zenon, <1>3, <1>8, <1>9, <1>10

(* consoleintr() edits the line, and wakes the readers when it is finished. *)
LEMMA IntrInv ==
  ASSUME IInv, NEW c \in Keys, consoleintr(c)
  PROVE  IInv' /\ LineStep
<1>1. Types /\ Holds /\ Sleeps /\ Ring /\ Transmit /\ Counters  BY Zenon DEF IInv, Ring
<1> DEFINE k == CASE c = "U" -> Kills
                  [] c = "H" -> IF e # w THEN 1 ELSE 0
                  [] OTHER -> 0
<1>2. /\ lock = None /\ r' = r /\ UNCHANGED <<lock, n, target, tx, tx_w, tx_r, handler>>
      /\ (Room /\ store(Typed(c))) \/ erase(k)
  BY Zenon DEF consoleintr
<1>3. (pc' = pc /\ w' = w) \/ pc' = Woken  BY Zenon, <1>2 DEF store, erase
<1>4. Types' /\ Holds' /\ Sleeps' /\ Transmit'  BY Zenon, <1>1, <1>2, <1>3, IntrCalls
<1>5. k \in {0, Used - Ready} \/ (k = 1 /\ Used # Ready)
  <2>1. Kills = Used - Ready  BY Zenon, <1>1, KillsLine
  <2>2. e # w => Used # Ready
    <3>1. w = (r + Ready) % W /\ e = (r + Used) % W  BY Zenon, <1>1, Places
    <3> QED  BY Zenon, <3>1
  <2>3. c = "U" => k = Kills  BY Zenon
  <2>4. c # "U" => k = 0 \/ (k = 1 /\ e # w)  BY Zenon
  <2> QED  BY Zenon, <2>1, <2>2, <2>3, <2>4
<1> HIDE DEF k
<1>6. Ring' /\ LineStep
  <2>1. CASE Room /\ store(Typed(c))  BY Zenon, <1>1, <1>2, <2>1, StoreLine
  <2>2. CASE erase(k)  BY Zenon, <1>1, <1>2, <1>5, <2>2, EraseLine
  <2> QED  BY Zenon, <1>2, <2>1, <2>2
<1> QED  BY Zenon, <1>4, <1>6 DEF IInv

-----------------------------------------------------------------------------
(* The theorems.                                                           *)

(* The console starts with empty rings, and nobody in a call.              *)
LEMMA InitInv == Init => IInv /\ Line_!Init
<1> SUFFICES ASSUME Init PROVE IInv /\ Line_!Init  BY Zenon
<1>1. /\ INPUT_BUF \in Nat \ {0} /\ W \in Nat \ {0} /\ UART_TX_BUF_SIZE \in Nat \ {0}
      /\ UART_TX_BUF_SIZE >= 2
  BY Zenon, Sizes
<1>2. Types /\ Holds /\ Sleeps  BY DEF Init, Types, Holds, Sleeps, PCs
<1>3. (0 - 0) % W = 0 /\ 0 \in 0..(W - 1)  BY <1>1
<1>4. Ready = 0 /\ Used = 0  BY Zenon, <1>3 DEF Init, Ready, Used
<1>5. Counters  BY <1>1, <1>3, <1>4 DEF Init, Counters
<1>6. buf \in [Cells -> Stored]  BY Zenon DEF Init, Cells, Stored
<1>7. Ring  BY <1>4, <1>5, <1>6 DEF Ring
<1>8. Transmit
  <2>1. tx \in Queue /\ (\A i \in Slots : tx[i] = None)  BY Zenon DEF Init, Queue, Slots
  <2>2. tx_w \in Slots /\ tx_r \in Slots  BY <1>1 DEF Init, Slots
  <2> QED  BY Zenon, <2>1, <2>2 DEF Transmit, Clear, LastIs, Chain
<1>9. Line_!Init
  <2>1. /\ Slice(r, w) = [i \in 1..Ready |-> Text[i - 1]]
        /\ Slice(w, e) = [i \in 1..(Used - Ready) |-> Text[Ready + i - 1]]
    BY Zenon, <1>7, PartsAre DEF Parts
  <2>2. Slice(r, w) = <<>> /\ Slice(w, e) = <<>>  BY <1>4, <2>1
  <2> QED  BY Zenon, <2>2 DEF Line_!Init
<1> QED  BY Zenon, <1>2, <1>7, <1>8, <1>9 DEF IInv

(* Every step keeps the invariant, and is a step of LineInput or none.     *)
LEMMA NextInv == IInv /\ [Next]_vars => IInv' /\ LineStep
<1> SUFFICES ASSUME IInv, [Next]_vars PROVE IInv' /\ LineStep  BY Zenon
<1>1. CASE UNCHANGED vars
  <2>1. /\ UNCHANGED <<input, lock, pc, n, target, handler, tx, tx_w, tx_r>>
    BY Zenon, <1>1 DEF vars, calls, output
  <2>2. Ring' /\ LineStep  BY Zenon, <2>1, RingStays DEF IInv
  <2>3. Transmit'  BY Zenon, <2>1, TransmitStays DEF IInv
  <2>4. Types' /\ Holds'  BY Zenon, <2>1 DEF IInv, Types, Holds
  <2>5. Sleeps'  BY Zenon, <2>1 DEF IInv, Sleeps, input
  <2> QED  BY Zenon, <2>2, <2>3, <2>4, <2>5 DEF IInv
<1>2. CASE Intr
  <2>1. CASE \E c \in Keys : consoleintr(c)  BY Zenon, <2>1, IntrInv
  <2>2. CASE uartintr \/ uartintr_end  BY Zenon, <2>2, UartInv
  <2> QED  BY Zenon, <1>2, <2>1, <2>2 DEF Intr
<1>3. CASE device_send \/ device_receive  BY Zenon, <1>3, UartInv
<1>4. ASSUME NEW p \in Readers,
             \/ Reading(p) \/ read_fault(p) \/ kill(p)
             \/ \E len \in ReadLens : consoleread(p, len)
      PROVE  IInv' /\ LineStep
  <2>1. p \in Procs  BY Zenon DEF Procs
  <2>2. CASE read_line(p) \/ read_fault(p)  BY Zenon, <2>1, <2>2, ReadInv
  <2>3. CASE read_empty(p) \/ read_sleep(p) \/ kill(p) \/ \E len \in ReadLens : consoleread(p, len)
    BY Zenon, <2>1, <2>3, WaitInv
  <2> QED  BY Zenon, <1>4, <2>2, <2>3 DEF Reading
<1>5. ASSUME NEW p \in Writers,
             \/ uartputc(p) \/ uartputc_full(p) \/ consolewrite_end(p)
             \/ \E len \in WriteLens : consolewrite(p, len)
      PROVE  IInv' /\ LineStep
  <2>1. p \in Procs  BY Zenon DEF Procs
  <2>2. CASE uartputc(p)  BY Zenon, <2>1, <2>2, PutcInv
  <2>3. CASE uartputc_full(p) \/ consolewrite_end(p) \/ \E len \in WriteLens : consolewrite(p, len)
    BY Zenon, <2>1, <2>3, WriteInv
  <2> QED  BY Zenon, <1>5, <2>2, <2>3
<1> QED  BY Zenon, <1>1, <1>2, <1>3, <1>4, <1>5 DEF Next

(* Every reachable state satisfies the inductive invariant.                *)
THEOREM Inductive == Spec => []IInv
<1>1. Init => IInv  BY Zenon, InitInv
<1>2. IInv /\ [Next]_vars => IInv'  BY Zenon, NextInv
<1> QED  BY <1>1, <1>2, PTL DEF Spec

(* A reader only sleeps while nothing is readable (consoleread and         *)
(* consoleintr), for any number of readers and any sizes.                  *)
THEOREM SleepsOnEmptyCorrect == Spec => []SleepsOnEmpty
<1>1. IInv => SleepsOnEmpty  BY Zenon DEF IInv, Sleeps, SleepsOnEmpty, Procs
<1> QED  BY <1>1, Inductive, PTL

(* The counters stay in order and at most INPUT_BUF apart while they wrap, *)
(* and a write goes to the transmit ring in one piece (consolewrite and    *)
(* uartputc).                                                              *)
THEOREM WritesWholeCorrect == Spec => []WritesWhole
<1>1. IInv => WritesWhole
  <2> SUFFICES ASSUME IInv PROVE WritesWhole  BY Zenon
  <2>1. TypeOK
    <3>1. \A p \in Procs : n[p] \in Nat /\ target[p] \in Nat /\ n[p] <= target[p]
      BY Zenon DEF IInv, Types
    <3>2. \A p \in Procs : n[p] \in 0..target[p]  BY <3>1
    <3> QED  BY Zenon, <3>2 DEF IInv, Types, Ring, Counters, Ready, Used, TypeOK, PCs
  <2>2. Chain(tx, tx_r)  BY Zenon DEF IInv, Transmit
  <2> QED  BY Zenon, <2>1, <2>2 DEF WritesWhole, Chain, After, Slots
<1> QED  BY <1>1, Inductive, PTL

(* The input ring implements LineInput: every step of consoleread() and    *)
(* consoleintr() is a step of that console, or leaves it as it is.         *)
THEOREM LineInputRefined == Spec => IsLineInput
<1>1. Init => Line_!Init  BY Zenon, InitInv
<1>2. IInv /\ [Next]_vars => [Line_!Next]_(Line_!vars)  BY Zenon, NextInv DEF LineStep
<1> QED  BY <1>1, <1>2, Inductive, PTL DEF Spec, IsLineInput, Line_!Spec
=============================================================================
