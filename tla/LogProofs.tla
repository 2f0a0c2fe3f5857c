----------------------------- MODULE LogProofs ------------------------------
(***************************************************************************)
(* Proofs about the log, for every number of processes and blocks and      *)
(* every size of the log.                                                  *)
(***************************************************************************)
EXTENDS Log, FiniteSetTheorems, TLAPS

Committers == {"commit", "write_log", "install", "finish"}

(* Who may be where: the parts of the control state that fit together.     *)
Booting ==
  ~up => /\ pc[InitProc] \in {"read_head", "install"}
         /\ \A q \in Procs \ {InitProc} : pc[q] = "off"
         /\ ~committing

Running == up => \A p \in Procs : pc[p] \notin {"off", "read_head"}

OneCommit ==
  /\ CommitAlone
  /\ committing => \E p \in Procs : pc[p] \in Committers
  /\ \A p \in Procs : pc[p] # "panic_end"

Counted == outstanding = Cardinality(Active)

InFlight == \A p \in Procs : blk[p] \in Blocks <=> pc[p] \in {"append", "panic"}

OpBlocks ==
  \A p \in Procs :
    /\ IsFiniteSet(opblocks[p])
    /\ Cardinality(opblocks[p]) <= OPBLOCKS
    /\ pc[p] = "append" => Cardinality(opblocks[p] \cup {blk[p]}) <= OPBLOCKS
    /\ opblocks[p] \subseteq Logged(lh)
    /\ pc[p] \notin {"op", "append", "panic"} => opblocks[p] = {}

Tails ==
  \A p \in Procs : /\ tail[p] <= Len(lh)
                   /\ pc[p] \notin {"write_log", "install"} => tail[p] = 0

Control == Booting /\ Running /\ OneCommit /\ Counted /\ InFlight
           /\ OpBlocks /\ Tails

(* What the blocks hold at each stage of a commit and of recovery.         *)
NoRepeat ==
  /\ \A i, j \in 1..Len(lh) : lh[i] = lh[j] => i = j
  /\ \A i, j \in 1..Len(dhead) : dhead[i] = dhead[j] => i = j

Copied ==
  \A p \in Procs : pc[p] = "write_log" =>
    \A i \in 1..tail[p] : dlog[i] = cache[lh[i]]

Installing ==
  \A p \in Procs : pc[p] = "install" =>
    /\ dhead = lh
    /\ \A i \in 1..tail[p] : disk[lh[i]] = dlog[i]
    /\ up => \A i \in 1..Len(lh) : cache[lh[i]] = dlog[i]

HeadEmpty == up /\ (\A p \in Procs : pc[p] # "install") => dhead = <<>>

Rebooted == ~up => cache = disk

Finished == \A p \in Procs : pc[p] = "finish" => lh = <<>>

Data == NoRepeat /\ Copied /\ Installing /\ HeadEmpty /\ Rebooted /\ Finished
        /\ CleanBlocks

IInv == TypeOK /\ Control /\ ReservationHolds /\ Data

(* A set of processes is finite and no larger than Procs.                  *)
LEMMA ProcSet ==
  ASSUME NEW A \in SUBSET Procs
  PROVE  /\ IsFiniteSet(A)
         /\ Cardinality(A) \in Nat
         /\ Cardinality(A) <= Cardinality(Procs)
BY Zenon, ProcsAssumption, FS_Subset, FS_CardinalityType

(* The reservations of a set of processes: finite, at most MAXOPBLOCKS     *)
(* for each of them.                                                       *)
LEMMA ReservedBound ==
  ASSUME NEW A \in SUBSET Procs, NEW R \in SUBSET (A \X (1..MAXOPBLOCKS))
  PROVE  /\ IsFiniteSet(R)
         /\ Cardinality(R) \in Nat
         /\ Cardinality(R) <= Cardinality(A) * MAXOPBLOCKS
<1>1. IsFiniteSet(1..MAXOPBLOCKS) /\ Cardinality(1..MAXOPBLOCKS) = MAXOPBLOCKS
  BY SizeAssumption, FS_Interval
<1>2. /\ IsFiniteSet(A \X (1..MAXOPBLOCKS))
      /\ Cardinality(A \X (1..MAXOPBLOCKS)) = Cardinality(A) * MAXOPBLOCKS
  BY <1>1, ProcSet, FS_Product, Zenon
<1> QED
  BY Zenon, <1>2, FS_Subset, FS_CardinalityType

(* Adding a block to a header adds it to the blocks that it lists.         *)
LEMMA LoggedAppend ==
  ASSUME NEW h \in Seq(Blocks), NEW b \in Blocks
  PROVE  /\ Append(h, b) \in Seq(Blocks)
         /\ Len(Append(h, b)) = Len(h) + 1
         /\ Logged(Append(h, b)) = Logged(h) \cup {b}
<1>1. /\ Append(h, b) \in Seq(Blocks)
      /\ Len(Append(h, b)) = Len(h) + 1 /\ Len(h) \in Nat
      /\ \A i \in 1..Len(h) : Append(h, b)[i] = h[i]
      /\ Append(h, b)[Len(h) + 1] = b
  OBVIOUS
<1>2. 1..(Len(h) + 1) = (1..Len(h)) \cup {Len(h) + 1}
  BY <1>1
<1> QED
  BY ZenonT(60), <1>1, <1>2 DEF Logged

LEMMA LoggedEmpty == Logged(<<>>) = {}
BY DEF Logged

LEMMA begin_op_sleep_Inv ==
  ASSUME IInv, NEW p \in Procs, begin_op_sleep(p)
  PROVE  IInv'
<1> USE ProcsAssumption, BlockAssumption, SizeAssumption
<1>1. Counted'
  BY Zenon DEF IInv, TypeOK, Control, Counted, Active, begin_op_sleep
<1>2. Booting'
  BY Zenon DEF IInv, TypeOK, Control, Booting, begin_op_sleep
<1>3. Running'
  BY Zenon DEF IInv, TypeOK, Control, Running, Booting, begin_op_sleep
<1>4. OneCommit'
  BY Zenon DEF IInv, TypeOK, Control, OneCommit, CommitAlone, Committers, Active,
     Booting, Running, begin_op_sleep, MustWait
<1>5. InFlight'
  BY Zenon DEF IInv, TypeOK, Control, InFlight, begin_op_sleep
<1>6. OpBlocks'
  BY Zenon DEF IInv, TypeOK, Control, OpBlocks, begin_op_sleep
<1>7. Tails'
  BY Zenon DEF IInv, TypeOK, Control, Tails, begin_op_sleep, MustWait
<1>8. ReservationHolds'
  BY Zenon DEF IInv, TypeOK, ReservationHolds, Reserved, Active, begin_op_sleep
<1>9. TypeOK'
  BY Zenon DEF IInv, TypeOK, PCs, begin_op_sleep
<1>10. NoRepeat'
  BY Zenon DEF IInv, TypeOK, Data, NoRepeat, Logged, begin_op_sleep
<1>11. Copied'
  BY Zenon DEF IInv, TypeOK, Data, Copied, Control, OneCommit, CommitAlone, Active,
     begin_op_sleep
<1>12. Installing'
  BY Zenon DEF IInv, TypeOK, Data, Installing, Control, OneCommit, CommitAlone,
     Active, begin_op_sleep
<1>13. HeadEmpty'
  BY Zenon DEF IInv, TypeOK, Data, HeadEmpty, Control, OneCommit, CommitAlone,
     Booting, begin_op_sleep
<1>14. Rebooted'
  BY Zenon DEF IInv, TypeOK, Data, Rebooted, begin_op_sleep
<1>15. Finished'
  BY Zenon DEF IInv, TypeOK, Data, Finished, Control, OneCommit, CommitAlone, Active,
     begin_op_sleep
<1>16. CleanBlocks'
  BY Zenon DEF IInv, TypeOK, Data, CleanBlocks, begin_op_sleep
<1> QED
  BY Zenon, <1>1, <1>2, <1>3, <1>4, <1>5, <1>6, <1>7, <1>8, <1>9, <1>10, <1>11, <1>12,
     <1>13, <1>14, <1>15, <1>16 DEF IInv, Control, Data

LEMMA begin_op_Inv ==
  ASSUME IInv, NEW p \in Procs, begin_op(p)
  PROVE  IInv'
<1> USE ProcsAssumption, BlockAssumption, SizeAssumption
<1>1. Counted'
  <2>1. Active' = Active \cup {p} /\ p \notin Active
    BY DEF IInv, TypeOK, Active, begin_op
  <2> QED
    BY Zenon, <2>1, ProcSet, FS_AddElement DEF IInv, Control, Counted, Active, begin_op
<1>2. Booting'
  BY Zenon DEF IInv, TypeOK, Control, Booting, begin_op
<1>3. Running'
  BY Zenon DEF IInv, TypeOK, Control, Running, Booting, begin_op
<1>4. OneCommit'
  BY Zenon DEF IInv, TypeOK, Control, OneCommit, CommitAlone, Committers, Active,
     Booting, Running, begin_op, MustWait
<1>5. InFlight'
  BY Zenon DEF IInv, TypeOK, Control, InFlight, begin_op
<1>6. OpBlocks'
  BY Zenon DEF IInv, TypeOK, Control, OpBlocks, begin_op
<1>7. Tails'
  BY Zenon DEF IInv, TypeOK, Control, Tails, begin_op, MustWait
<1>8. ReservationHolds'
  <2>1. Reserved' \in SUBSET (Active' \X (1..MAXOPBLOCKS)) /\ Active' \in SUBSET Procs
    BY Zenon DEF Reserved, Active
  <2>2. Cardinality(Reserved') \in Nat /\ Cardinality(Reserved') <= outstanding' * MAXOPBLOCKS
    BY Zenon, <1>1, <2>1, ReservedBound DEF Control, Counted
  <2>3. Len(lh) + outstanding' * MAXOPBLOCKS <= LOGSIZE
    BY DEF begin_op, MustWait
  <2>4. lh' = lh /\ outstanding' \in Nat /\ Len(lh) \in Nat
    BY DEF IInv, TypeOK, begin_op
  <2> QED
    BY <2>2, <2>3, <2>4 DEF ReservationHolds
<1>9. TypeOK'
  <2>2. outstanding' \in 0..Cardinality(Procs)
    BY <1>1, ProcSet DEF Counted, Active
  <2> QED
    BY Zenon, <2>2 DEF IInv, TypeOK, PCs, begin_op
<1>10. NoRepeat'
  BY Zenon DEF IInv, TypeOK, Data, NoRepeat, Logged, begin_op
<1>11. Copied'
  BY Zenon DEF IInv, TypeOK, Data, Copied, Control, OneCommit, CommitAlone, Active,
     begin_op
<1>12. Installing'
  BY Zenon DEF IInv, TypeOK, Data, Installing, Control, OneCommit, CommitAlone,
     Active, begin_op
<1>13. HeadEmpty'
  BY Zenon DEF IInv, TypeOK, Data, HeadEmpty, Control, OneCommit, CommitAlone,
     Booting, begin_op
<1>14. Rebooted'
  BY Zenon DEF IInv, TypeOK, Data, Rebooted, begin_op
<1>15. Finished'
  BY Zenon DEF IInv, TypeOK, Data, Finished, Control, OneCommit, CommitAlone, Active,
     begin_op
<1>16. CleanBlocks'
  BY Zenon DEF IInv, TypeOK, Data, CleanBlocks, begin_op
<1> QED
  BY Zenon, <1>1, <1>2, <1>3, <1>4, <1>5, <1>6, <1>7, <1>8, <1>9, <1>10, <1>11, <1>12,
     <1>13, <1>14, <1>15, <1>16 DEF IInv, Control, Data

LEMMA log_write_check_Inv ==
  ASSUME IInv, NEW p \in Procs, NEW b \in Blocks, NEW v \in Vals, log_write_check(p, b, v)
  PROVE  IInv'
<1> USE ProcsAssumption, BlockAssumption, SizeAssumption
<1>1. Counted'
  BY Zenon DEF IInv, TypeOK, Control, Counted, Active, log_write_check
<1>2. Booting'
  BY Zenon DEF IInv, TypeOK, Control, Booting, log_write_check
<1>3. Running'
  BY Zenon DEF IInv, TypeOK, Control, Running, Booting, log_write_check
<1>4. OneCommit'
  BY Zenon DEF IInv, TypeOK, Control, OneCommit, CommitAlone, Committers, Active,
     Booting, Running, log_write_check
<1>5. InFlight'
  BY Zenon DEF IInv, TypeOK, Control, InFlight, log_write_check
<1>6. OpBlocks'
  BY Zenon DEF IInv, TypeOK, Control, OpBlocks, log_write_check
<1>7. Tails'
  BY Zenon DEF IInv, TypeOK, Control, Tails, log_write_check
<1>8. ReservationHolds'
  BY Zenon DEF IInv, TypeOK, ReservationHolds, Reserved, Active, log_write_check
<1>9. TypeOK'
  BY Zenon DEF IInv, TypeOK, PCs, log_write_check
<1>10. NoRepeat'
  BY Zenon DEF IInv, TypeOK, Data, NoRepeat, Logged, log_write_check
<1>11. Copied'
  BY Zenon DEF IInv, TypeOK, Data, Copied, Control, OneCommit, CommitAlone, Active,
     log_write_check
<1>12. Installing'
  BY Zenon DEF IInv, TypeOK, Data, Installing, Control, OneCommit, CommitAlone,
     Active, log_write_check
<1>13. HeadEmpty'
  BY Zenon DEF IInv, TypeOK, Data, HeadEmpty, Control, OneCommit, CommitAlone,
     Booting, log_write_check
<1>14. Rebooted'
  BY Zenon DEF IInv, TypeOK, Control, Booting, Data, Rebooted, log_write_check
<1>15. Finished'
  BY Zenon DEF IInv, TypeOK, Data, Finished, Control, OneCommit, CommitAlone, Active,
     log_write_check
<1>16. CleanBlocks'
  <2> SUFFICES ASSUME NEW c \in Blocks, cache'[c] # disk'[c], c \notin Logged(lh)'
               PROVE  \E q \in Procs : blk'[q] = c
    BY Zenon DEF CleanBlocks
  <2>1. CASE c = b
    BY Zenon, <2>1 DEF IInv, TypeOK, log_write_check
  <2>2. CASE c # b
    <3>1. cache[c] # disk[c] /\ c \notin Logged(lh)
      BY Zenon, <2>2 DEF IInv, TypeOK, Logged, log_write_check
    <3>2. PICK q \in Procs : blk[q] = c
      BY Zenon, <3>1 DEF IInv, Data, CleanBlocks
    <3>3. q # p
      BY <3>2, Zenon DEF IInv, TypeOK, Control, InFlight, log_write_check
    <3> QED BY Zenon, <3>2, <3>3 DEF IInv, TypeOK, log_write_check
  <2> QED BY Zenon, <2>1, <2>2
<1> QED
  BY Zenon, <1>1, <1>2, <1>3, <1>4, <1>5, <1>6, <1>7, <1>8, <1>9, <1>10, <1>11, <1>12,
     <1>13, <1>14, <1>15, <1>16 DEF IInv, Control, Data

LEMMA log_write_Inv ==
  ASSUME IInv, NEW p \in Procs, log_write(p)
  PROVE  IInv'
<1> USE ProcsAssumption, BlockAssumption, SizeAssumption
<1>1. Counted'
  BY Zenon DEF IInv, TypeOK, Control, Counted, Active, log_write
<1>2. Booting'
  BY Zenon DEF IInv, TypeOK, Control, Booting, log_write
<1>3. Running'
  BY Zenon DEF IInv, TypeOK, Control, Running, Booting, log_write
<1>4. OneCommit'
  BY Zenon DEF IInv, TypeOK, Control, OneCommit, CommitAlone, Committers, Active,
     Booting, Running, log_write
<1>5. InFlight'
  BY Zenon DEF IInv, TypeOK, Control, InFlight, log_write
<1>6. OpBlocks'
  <2>1. blk[p] \in Blocks /\ lh \in Seq(Blocks)
    BY Zenon DEF IInv, TypeOK, Control, InFlight, log_write
  <2>2. Logged(lh') = Logged(lh) \cup {blk[p]}
    BY Zenon, <2>1, LoggedAppend DEF log_write
  <2>3. IsFiniteSet(opblocks[p] \cup {blk[p]})
    BY FS_AddElement, Zenon DEF IInv, Control, OpBlocks
  <2> QED
    BY <2>2, <2>3, Zenon DEF IInv, TypeOK, Control, OpBlocks, log_write
<1>7. Tails'
  BY DEF IInv, TypeOK, Control, Tails, log_write
<1>8. ReservationHolds'
  <2> DEFINE k == Cardinality(opblocks[p])
  <2>1. /\ blk[p] \in Blocks /\ lh \in Seq(Blocks) /\ Len(lh) \in Nat
        /\ Active' = Active /\ p \in Active /\ Active \in SUBSET Procs
    BY DEF IInv, TypeOK, Control, InFlight, Active, log_write
  <2>2. Reserved \in SUBSET (Active \X (1..MAXOPBLOCKS))
    BY Zenon DEF Reserved
  <2>3. IsFiniteSet(Reserved) /\ Cardinality(Reserved) \in Nat
    BY <2>1, <2>2, ReservedBound, Zenon
  <2>4. /\ k \in Nat /\ IsFiniteSet(opblocks[p])
        /\ Cardinality(opblocks'[p]) =
             IF blk[p] \in opblocks[p] THEN k ELSE k + 1
    <3>1. IsFiniteSet(opblocks[p])
      BY Zenon DEF IInv, Control, OpBlocks
    <3>2. opblocks'[p] = opblocks[p] \cup {blk[p]}
      BY Zenon DEF IInv, TypeOK, log_write
    <3> QED BY <3>1, <3>2, FS_AddElement, FS_CardinalityType, Zenon
  <2>5. \A q \in Procs \ {p} : opblocks'[q] = opblocks[q]
    BY Zenon DEF IInv, TypeOK, log_write
  <2>6. Reserved' \in SUBSET Reserved
    BY <2>1, <2>4, <2>5 DEF Reserved
  <2>7. CASE blk[p] \in Logged(lh)
    BY <2>3, <2>6, <2>7, FS_Subset, FS_CardinalityType, SMT
    DEF IInv, ReservationHolds, log_write
  <2>8. CASE blk[p] \notin Logged(lh)
    <3>1. blk[p] \notin opblocks[p]
      BY <2>8, Zenon DEF IInv, Control, OpBlocks
    <3>2. k + 1 <= MAXOPBLOCKS
      BY <3>1, <2>4, FS_AddElement DEF IInv, Control, OpBlocks, log_write
    <3>3. <<p, k + 1>> \in Reserved
      BY <2>1, <2>4, <3>2 DEF Reserved
    <3>4. Reserved' \in SUBSET (Reserved \ {<<p, k + 1>>})
      BY <2>1, <2>4, <2>5, <3>1 DEF Reserved
    <3>5. Cardinality(Reserved') <= Cardinality(Reserved) - 1
      <4>1. /\ IsFiniteSet(Reserved \ {<<p, k + 1>>})
            /\ Cardinality(Reserved \ {<<p, k + 1>>}) = Cardinality(Reserved) - 1
        BY ZenonT(60), <2>3, <3>3, FS_RemoveElement
      <4> QED BY <4>1, <3>4, FS_Subset
    <3>6. Cardinality(Reserved') \in Nat
      BY Zenon, <2>3, <2>6, FS_Subset, FS_CardinalityType
    <3>7. Len(lh') = Len(lh) + 1
      BY Zenon, <2>1, <2>8, LoggedAppend DEF log_write
    <3> QED
      BY <2>1, <2>3, <3>5, <3>6, <3>7 DEF IInv, ReservationHolds
  <2> QED BY Zenon, <2>7, <2>8
<1>9. TypeOK'
  <2>1. Reserved' \in SUBSET (Active' \X (1..MAXOPBLOCKS)) /\ Active' \in SUBSET Procs
    BY Zenon DEF Reserved, Active
  <2>2. Cardinality(Reserved') \in Nat
    BY Zenon, <2>1, ReservedBound
  <2>3. blk[p] \in Blocks /\ lh \in Seq(Blocks)
    BY Zenon DEF IInv, TypeOK, Control, InFlight, log_write
  <2>4. lh' \in Seq(Blocks)
    BY Zenon, <2>3, LoggedAppend DEF log_write
  <2>5. Len(lh') <= LOGSIZE
    BY <2>2, <2>4, <1>8 DEF ReservationHolds
  <2> QED
    BY Zenon, <2>3, <2>4, <2>5 DEF IInv, TypeOK, PCs, log_write
<1>10. NoRepeat'
  <2>1. /\ NoRepeat /\ lh \in Seq(Blocks) /\ blk[p] \in Blocks /\ dhead' = dhead
        /\ lh' = IF blk[p] \in Logged(lh) THEN lh ELSE Append(lh, blk[p])
    BY Zenon DEF IInv, TypeOK, Data, Control, InFlight, log_write
  <2> QED  BY ONLY <2>1 DEF NoRepeat, Logged
<1>11. Copied'
  BY Zenon DEF IInv, TypeOK, Data, Copied, Control, OneCommit, CommitAlone, Active,
     log_write
<1>12. Installing'
  BY Zenon DEF IInv, TypeOK, Data, Installing, Control, OneCommit, CommitAlone,
     Active, log_write
<1>13. HeadEmpty'
  BY Zenon DEF IInv, TypeOK, Data, HeadEmpty, Control, OneCommit, CommitAlone,
     Booting, log_write
<1>14. Rebooted'
  BY Zenon DEF IInv, TypeOK, Data, Rebooted, log_write
<1>15. Finished'
  BY Zenon DEF IInv, TypeOK, Data, Finished, Control, OneCommit, CommitAlone, Active,
     log_write
<1>16. CleanBlocks'
  <2>1. blk[p] \in Blocks /\ lh \in Seq(Blocks)
    BY Zenon DEF IInv, TypeOK, Control, InFlight, log_write
  <2>2. Logged(lh') = Logged(lh) \cup {blk[p]}
    BY Zenon, <2>1, LoggedAppend DEF log_write
  <2> QED
    BY Zenon, <2>2 DEF IInv, TypeOK, Data, CleanBlocks, log_write
<1> QED
  BY Zenon, <1>1, <1>2, <1>3, <1>4, <1>5, <1>6, <1>7, <1>8, <1>9, <1>10, <1>11, <1>12,
     <1>13, <1>14, <1>15, <1>16 DEF IInv, Control, Data

LEMMA end_op_Inv ==
  ASSUME IInv, NEW p \in Procs, end_op(p)
  PROVE  IInv'
<1> USE ProcsAssumption, BlockAssumption, SizeAssumption
<1>1. Counted'
  <2>1. Active' = Active \ {p} /\ p \in Active
    BY Zenon DEF IInv, TypeOK, Active, end_op, Wakeup
  <2>2. outstanding = Cardinality(Active) /\ outstanding' = outstanding - 1
    BY Zenon DEF IInv, Control, Counted, end_op
  <2>3. IsFiniteSet(Active)
    BY Zenon, ProcSet DEF Active
  <2>4. Cardinality(Active \ {p}) = Cardinality(Active) - 1
    BY <2>1, <2>3, FS_RemoveElement, Zenon
  <2> QED
    BY Zenon, <2>1, <2>2, <2>4 DEF Counted
<1>2. Booting'
  BY Zenon DEF IInv, TypeOK, Control, Booting, end_op, Wakeup
<1>3. Running'
  BY Zenon DEF IInv, TypeOK, Control, Running, Booting, end_op, Wakeup
<1>4. OneCommit'
  <2>1. ~committing
    BY Zenon DEF IInv, TypeOK, Control, OneCommit, CommitAlone, Committers, Active,
       end_op
  <2>2. CASE outstanding' = 0
    <3>1. Active' = {}
      BY Zenon, <2>2, <1>1, ProcSet, FS_EmptySet DEF Counted, Active
    <3>2. \A q \in Procs \ {p} : pc'[q] \in {"off", "idle", "sleep", "woken"}
      BY <2>1, <2>2, <3>1 DEF IInv, TypeOK, PCs, Control, OneCommit,
         CommitAlone, Running, Booting, Active, end_op
    <3> QED
      BY ZenonT(60), <2>1, <2>2, <3>1, <3>2 DEF IInv, TypeOK, Control, OneCommit,
         CommitAlone, Committers, end_op
  <2>3. CASE outstanding' # 0
    BY <2>1, <2>3, Zenon DEF IInv, TypeOK, Control, OneCommit, CommitAlone,
       Committers, Active, end_op, Wakeup
  <2> QED BY Zenon, <2>2, <2>3
<1>5. InFlight'
  BY Zenon DEF IInv, TypeOK, Control, InFlight, end_op, Wakeup
<1>6. OpBlocks'
  <2>1. IsFiniteSet({}) /\ Cardinality({}) = 0
    BY Zenon, FS_EmptySet
  <2>2. opblocks'[p] = {} /\ pc'[p] # "append"
    BY Zenon DEF IInv, TypeOK, end_op, Wakeup
  <2>3. \A q \in Procs \ {p} :
          /\ opblocks'[q] = opblocks[q] /\ blk'[q] = blk[q]
          /\ pc'[q] # pc[q] => pc[q] = "sleep" /\ pc'[q] = "woken"
    BY Zenon DEF IInv, TypeOK, end_op, Wakeup
  <2>4. Logged(lh)' = Logged(lh)
    BY Zenon DEF end_op, Logged
  <2>5. OpBlocks /\ OPBLOCKS >= 0
    BY DEF IInv, Control
  <2> SUFFICES ASSUME NEW q \in Procs
               PROVE  /\ IsFiniteSet(opblocks'[q])
                      /\ Cardinality(opblocks'[q]) <= OPBLOCKS
                      /\ pc'[q] = "append"
                           => Cardinality(opblocks'[q] \cup {blk'[q]}) <= OPBLOCKS
                      /\ opblocks'[q] \subseteq Logged(lh)'
                      /\ pc'[q] \notin {"op", "append", "panic"}
                           => opblocks'[q] = {}
    BY Zenon DEF OpBlocks
  <2>6. CASE q = p
    BY Zenon, <2>1, <2>2, <2>5, <2>6
  <2>7. CASE q # p
    BY Zenon, <2>3, <2>4, <2>5, <2>7 DEF OpBlocks
  <2> QED BY Zenon, <2>6, <2>7
<1>7. Tails'
  BY Zenon DEF IInv, TypeOK, Control, Tails, end_op, Wakeup
<1>8. ReservationHolds'
  <2>1. /\ Active' \in SUBSET Active /\ Active \in SUBSET Procs
        /\ \A q \in Active' : opblocks'[q] = opblocks[q]
    BY Zenon DEF IInv, TypeOK, Active, end_op, Wakeup
  <2>2. Reserved \in SUBSET (Active \X (1..MAXOPBLOCKS)) /\ Reserved' \in SUBSET Reserved
    BY Zenon, <2>1 DEF Reserved
  <2>3. /\ Cardinality(Reserved) \in Nat /\ Cardinality(Reserved') \in Nat
        /\ Cardinality(Reserved') <= Cardinality(Reserved)
    BY Zenon, <2>1, <2>2, ReservedBound, FS_Subset, FS_CardinalityType
  <2> QED
    BY <2>3 DEF IInv, TypeOK, ReservationHolds, end_op
<1>9. TypeOK'
  <2>1. outstanding' \in 0..Cardinality(Procs)
    BY <1>1, ProcSet DEF Counted, Active
  <2> QED
    BY <2>1, Zenon DEF IInv, TypeOK, PCs, end_op, Wakeup
<1>10. NoRepeat'
  BY Zenon DEF IInv, TypeOK, Data, NoRepeat, Logged, end_op, Wakeup
<1>11. Copied'
  BY ZenonT(60) DEF IInv, TypeOK, Data, Copied, Control, OneCommit, CommitAlone, Active,
     end_op, Wakeup
<1>12. Installing'
  BY ZenonT(60) DEF IInv, TypeOK, Data, Installing, Control, OneCommit, CommitAlone,
     Active, end_op, Wakeup
<1>13. HeadEmpty'
  BY Zenon DEF IInv, TypeOK, Data, HeadEmpty, Control, OneCommit, CommitAlone,
     Booting, end_op, Wakeup
<1>14. Rebooted'
  BY Zenon DEF IInv, TypeOK, Data, Rebooted, end_op, Wakeup
<1>15. Finished'
  BY Zenon DEF IInv, TypeOK, Data, Finished, Control, OneCommit, CommitAlone, Active,
     end_op, Wakeup
<1>16. CleanBlocks'
  BY Zenon DEF IInv, TypeOK, Data, CleanBlocks, end_op, Wakeup
<1> QED
  BY Zenon, <1>1, <1>2, <1>3, <1>4, <1>5, <1>6, <1>7, <1>8, <1>9, <1>10, <1>11, <1>12,
     <1>13, <1>14, <1>15, <1>16 DEF IInv, Control, Data

LEMMA commit_Inv ==
  ASSUME IInv, NEW p \in Procs, commit(p)
  PROVE  IInv'
<1> USE ProcsAssumption, BlockAssumption, SizeAssumption
<1>1. Counted'
  BY Zenon DEF IInv, TypeOK, Control, Counted, Active, commit
<1>2. Booting'
  BY Zenon DEF IInv, TypeOK, Control, Booting, commit
<1>3. Running'
  BY Zenon DEF IInv, TypeOK, Control, Running, Booting, commit
<1>4. OneCommit'
  BY ZenonT(60) DEF IInv, TypeOK, Control, OneCommit, CommitAlone, Committers, Active,
     Booting, Running, commit
<1>5. InFlight'
  BY Zenon DEF IInv, TypeOK, Control, InFlight, commit
<1>6. OpBlocks'
  BY Zenon DEF IInv, TypeOK, Control, OpBlocks, commit
<1>7. Tails'
  BY Zenon DEF IInv, TypeOK, Control, Tails, commit
<1>8. ReservationHolds'
  BY Zenon DEF IInv, TypeOK, ReservationHolds, Reserved, Active, commit
<1>9. TypeOK'
  BY Zenon DEF IInv, TypeOK, PCs, commit
<1>10. NoRepeat'
  BY Zenon DEF IInv, TypeOK, Data, NoRepeat, Logged, commit
<1>11. Copied'
  <2>1. \A q \in Procs : pc'[q] = "write_log" => tail'[q] = 0
    BY Zenon DEF IInv, TypeOK, Control, Tails, OneCommit, CommitAlone, commit
  <2> QED
    BY <2>1 DEF Copied
<1>12. Installing'
  BY Zenon DEF IInv, TypeOK, Data, Installing, Control, OneCommit, CommitAlone,
     Active, commit
<1>13. HeadEmpty'
  BY Zenon DEF IInv, TypeOK, Data, HeadEmpty, Control, OneCommit, CommitAlone,
     Booting, commit
<1>14. Rebooted'
  BY Zenon DEF IInv, TypeOK, Data, Rebooted, commit
<1>15. Finished'
  BY DEF IInv, TypeOK, Data, Finished, Control, OneCommit, CommitAlone, Active,
     commit
<1>16. CleanBlocks'
  BY Zenon DEF IInv, TypeOK, Data, CleanBlocks, commit
<1> QED
  BY Zenon, <1>1, <1>2, <1>3, <1>4, <1>5, <1>6, <1>7, <1>8, <1>9, <1>10, <1>11, <1>12,
     <1>13, <1>14, <1>15, <1>16 DEF IInv, Control, Data

LEMMA write_log_Inv ==
  ASSUME IInv, NEW p \in Procs, write_log(p)
  PROVE  IInv'
<1> USE ProcsAssumption, BlockAssumption, SizeAssumption
<1>1. Counted'
  BY Zenon DEF IInv, TypeOK, Control, Counted, Active, write_log
<1>2. Booting'
  BY Zenon DEF IInv, TypeOK, Control, Booting, write_log
<1>3. Running'
  BY Zenon DEF IInv, TypeOK, Control, Running, Booting, write_log
<1>4. OneCommit'
  BY Zenon DEF IInv, TypeOK, Control, OneCommit, CommitAlone, Committers, Active,
     Booting, Running, write_log
<1>5. InFlight'
  BY Zenon DEF IInv, TypeOK, Control, InFlight, write_log
<1>6. OpBlocks'
  BY Zenon DEF IInv, TypeOK, Control, OpBlocks, write_log
<1>7. Tails'
  BY DEF IInv, TypeOK, Control, Tails, write_log
<1>8. ReservationHolds'
  BY Zenon DEF IInv, TypeOK, ReservationHolds, Reserved, Active, write_log
<1>9. TypeOK'
  BY DEF IInv, TypeOK, PCs, write_log
<1>10. NoRepeat'
  BY Zenon DEF IInv, TypeOK, Data, NoRepeat, Logged, write_log
<1>11. Copied'
  BY DEF IInv, TypeOK, Data, Copied, Control, OneCommit, CommitAlone, Active,
     write_log
<1>12. Installing'
  BY Zenon DEF IInv, TypeOK, Data, Installing, Control, OneCommit, CommitAlone,
     Active, write_log
<1>13. HeadEmpty'
  BY Zenon DEF IInv, TypeOK, Data, HeadEmpty, Control, OneCommit, CommitAlone,
     Booting, write_log
<1>14. Rebooted'
  BY Zenon DEF IInv, TypeOK, Data, Rebooted, write_log
<1>15. Finished'
  BY Zenon DEF IInv, TypeOK, Data, Finished, Control, OneCommit, CommitAlone, Active,
     write_log
<1>16. CleanBlocks'
  BY Zenon DEF IInv, TypeOK, Data, CleanBlocks, write_log
<1> QED
  BY Zenon, <1>1, <1>2, <1>3, <1>4, <1>5, <1>6, <1>7, <1>8, <1>9, <1>10, <1>11, <1>12,
     <1>13, <1>14, <1>15, <1>16 DEF IInv, Control, Data

LEMMA write_head_Inv ==
  ASSUME IInv, NEW p \in Procs, write_head(p)
  PROVE  IInv'
<1> USE ProcsAssumption, BlockAssumption, SizeAssumption
<1>1. Counted'
  BY Zenon DEF IInv, TypeOK, Control, Counted, Active, write_head
<1>2. Booting'
  BY Zenon DEF IInv, TypeOK, Control, Booting, write_head
<1>3. Running'
  BY Zenon DEF IInv, TypeOK, Control, Running, Booting, write_head
<1>4. OneCommit'
  BY DEF IInv, TypeOK, Control, OneCommit, CommitAlone, Committers, Active,
     Booting, Running, write_head
<1>5. InFlight'
  BY Zenon DEF IInv, TypeOK, Control, InFlight, write_head
<1>6. OpBlocks'
  BY Zenon DEF IInv, TypeOK, Control, OpBlocks, write_head
<1>7. Tails'
  BY DEF IInv, TypeOK, Control, Tails, write_head
<1>8. ReservationHolds'
  BY Zenon DEF IInv, TypeOK, ReservationHolds, Reserved, Active, write_head
<1>9. TypeOK'
  BY DEF IInv, TypeOK, PCs, write_head
<1>10. NoRepeat'
  BY ZenonT(60) DEF IInv, TypeOK, Data, NoRepeat, Logged, write_head
<1>11. Copied'
  BY Zenon DEF IInv, TypeOK, Data, Copied, Control, OneCommit, CommitAlone, Active,
     write_head
<1>12. Installing'
  <2>1. \A q \in Procs : pc'[q] = "install" => q = p
    BY Zenon DEF IInv, TypeOK, Control, OneCommit, CommitAlone, write_head
  <2>2. \A i \in 1..Len(lh) : cache[lh[i]] = dlog[i]
    BY Zenon DEF IInv, TypeOK, Data, Copied, write_head
  <2> QED
    <3>1. /\ tail'[p] = 0 /\ dhead' = lh /\ lh' = lh
          /\ cache' = cache /\ dlog' = dlog
      BY Zenon DEF IInv, TypeOK, write_head
    <3> QED BY ONLY <2>1, <2>2, <3>1 DEF Installing
<1>13. HeadEmpty'
  BY Zenon DEF IInv, TypeOK, Data, HeadEmpty, Control, OneCommit, CommitAlone,
     Booting, write_head
<1>14. Rebooted'
  BY Zenon DEF IInv, TypeOK, Data, Rebooted, write_head
<1>15. Finished'
  BY Zenon DEF IInv, TypeOK, Data, Finished, Control, OneCommit, CommitAlone, Active,
     write_head
<1>16. CleanBlocks'
  BY Zenon DEF IInv, TypeOK, Data, CleanBlocks, write_head
<1> QED
  BY Zenon, <1>1, <1>2, <1>3, <1>4, <1>5, <1>6, <1>7, <1>8, <1>9, <1>10, <1>11, <1>12,
     <1>13, <1>14, <1>15, <1>16 DEF IInv, Control, Data

LEMMA install_trans_Inv ==
  ASSUME IInv, NEW p \in Procs, install_trans(p)
  PROVE  IInv'
<1> USE ProcsAssumption, BlockAssumption, SizeAssumption
<1>1. Counted'
  BY Zenon DEF IInv, TypeOK, Control, Counted, Active, install_trans
<1>2. Booting'
  BY Zenon DEF IInv, TypeOK, Control, Booting, install_trans
<1>3. Running'
  BY Zenon DEF IInv, TypeOK, Control, Running, Booting, install_trans
<1>4. OneCommit'
  BY Zenon DEF IInv, TypeOK, Control, OneCommit, CommitAlone, Committers, Active,
     Booting, Running, install_trans
<1>5. InFlight'
  BY Zenon DEF IInv, TypeOK, Control, InFlight, install_trans
<1>6. OpBlocks'
  BY Zenon DEF IInv, TypeOK, Control, OpBlocks, install_trans
<1>7. Tails'
  <2>1. /\ Tails /\ tail \in [Procs -> 0..LOGSIZE] /\ lh \in Seq(Blocks)
        /\ pc[p] = "install" /\ tail[p] < Len(lh)
        /\ tail' = [tail EXCEPT ![p] = tail[p] + 1] /\ pc' = pc /\ lh' = lh
    BY Zenon DEF IInv, TypeOK, Control, install_trans
  <2> QED  BY ONLY <2>1, SizeAssumption DEF Tails
<1>8. ReservationHolds'
  BY Zenon DEF IInv, TypeOK, ReservationHolds, Reserved, Active, install_trans
<1>9. TypeOK'
  BY DEF IInv, TypeOK, PCs, install_trans
<1>10. NoRepeat'
  BY Zenon DEF IInv, TypeOK, Data, NoRepeat, Logged, install_trans
<1>11. Copied'
  BY Zenon DEF IInv, TypeOK, Data, Copied, Control, OneCommit, CommitAlone, Active,
     install_trans
<1>12. Installing'
  <2>1. \A q \in Procs : pc'[q] = "install" => q = p
    BY Zenon DEF IInv, TypeOK, Control, OneCommit, CommitAlone, install_trans
  <2> DEFINE t == tail[p] + 1
  <2>2. /\ t \in 1..Len(lh) /\ tail'[p] = t /\ lh' = lh /\ dlog' = dlog
        /\ dhead' = dhead /\ up' = up
        /\ disk' = [disk EXCEPT ![lh[t]] = dlog[t]]
        /\ cache' = [cache EXCEPT ![lh[t]] = dlog[t]]
        /\ \A i \in 1..Len(lh) : lh[i] \in Blocks
    BY DEF IInv, TypeOK, install_trans
  <2>3. \A i \in 1..Len(lh) : lh[i] = lh[t] => i = t
    BY <2>2, Zenon DEF IInv, Data, NoRepeat
  <2>4. \A i \in 1..t : disk'[lh[i]] = dlog[i]
    <3>1. \A i \in 1..tail[p] : disk[lh[i]] = dlog[i]
      BY Zenon DEF IInv, Data, Installing, install_trans
    <3>2. /\ tail[p] \in Nat /\ disk \in [Blocks -> Vals]
          /\ \A i \in 1..t : i \in 1..Len(lh) /\ (i \in 1..tail[p] \/ i = t)
      <4>1. tail[p] \in 0..LOGSIZE /\ disk \in [Blocks -> Vals] /\ lh \in Seq(Blocks)
        BY Zenon DEF IInv, TypeOK
      <4>2. t \in 1..Len(lh)  BY Zenon, <2>2
      <4> QED  BY ONLY <4>1, <4>2, SizeAssumption
    <3> HIDE DEF t
    <3> QED
      BY Zenon, <2>2, <2>3, <3>1, <3>2
  <2>5. up => \A i \in 1..Len(lh) : cache'[lh[i]] = dlog[i]
    BY ZenonT(60), <2>2, <2>3 DEF IInv, TypeOK, Data, Installing, install_trans
  <2> HIDE DEF t
  <2> QED
    BY <2>1, <2>2, <2>4, <2>5 DEF IInv, Data, Installing, install_trans
<1>13. HeadEmpty'
  BY Zenon DEF IInv, TypeOK, Data, HeadEmpty, Control, OneCommit, CommitAlone,
     Booting, install_trans
<1>14. Rebooted'
  BY Zenon DEF IInv, TypeOK, Data, Rebooted, install_trans
<1>15. Finished'
  BY Zenon DEF IInv, TypeOK, Data, Finished, Control, OneCommit, CommitAlone, Active,
     install_trans
<1>16. CleanBlocks'
  BY Zenon DEF IInv, TypeOK, Data, CleanBlocks, install_trans
<1> QED
  BY Zenon, <1>1, <1>2, <1>3, <1>4, <1>5, <1>6, <1>7, <1>8, <1>9, <1>10, <1>11, <1>12,
     <1>13, <1>14, <1>15, <1>16 DEF IInv, Control, Data

LEMMA clear_head_Inv ==
  ASSUME IInv, NEW p \in Procs, clear_head(p)
  PROVE  IInv'
<1> USE ProcsAssumption, BlockAssumption, SizeAssumption
<1>1. Counted'
  <2>1. Active = {} /\ Active' = {} /\ \A q \in Procs : pc[q] \notin {"op", "append", "panic"}
    BY Zenon DEF IInv, TypeOK, Control, OneCommit, CommitAlone, Active, clear_head
  <2> QED
    BY Zenon, <2>1 DEF IInv, Control, Counted, clear_head
<1>2. Booting'
  BY Zenon DEF IInv, TypeOK, Control, Booting, clear_head
<1>3. Running'
  BY Zenon DEF IInv, TypeOK, Control, Running, Booting, clear_head
<1>4. OneCommit'
  BY ZenonT(60) DEF IInv, TypeOK, Control, OneCommit, CommitAlone, Committers, Active,
     Booting, Running, clear_head
<1>5. InFlight'
  BY Zenon DEF IInv, TypeOK, Control, OneCommit, CommitAlone, Active, InFlight,
     clear_head
<1>6. OpBlocks'
  <2>1. Active = {} /\ Active' = {} /\ \A q \in Procs : pc[q] \notin {"op", "append", "panic"}
    BY Zenon DEF IInv, TypeOK, Control, OneCommit, CommitAlone, Active, clear_head
  <2>2. \A q \in Procs : opblocks'[q] = {} /\ pc'[q] # "append"
    BY <2>1, Zenon DEF IInv, TypeOK, Control, OpBlocks, clear_head
  <2>3. IsFiniteSet({}) /\ Cardinality({}) = 0 /\ OPBLOCKS >= 0
    BY FS_EmptySet
  <2> QED BY ONLY Zenon, <2>2, <2>3 DEF OpBlocks
<1>7. Tails'
  <2>1. \A q \in Procs : tail'[q] = 0
    BY Zenon DEF IInv, TypeOK, Control, Tails, OneCommit, CommitAlone, clear_head
  <2> QED
    BY <2>1 DEF IInv, TypeOK, Tails, clear_head
<1>8. ReservationHolds'
  <2>1. Active = {} /\ Active' = {} /\ \A q \in Procs : pc[q] \notin {"op", "append", "panic"}
    BY Zenon DEF IInv, TypeOK, Control, OneCommit, CommitAlone, Active, clear_head
  <2>2. Reserved' = {} /\ Len(lh') = 0
    BY Zenon, <2>1 DEF Reserved, clear_head
  <2> QED
    BY <2>2, FS_EmptySet DEF ReservationHolds
<1>9. TypeOK'
  BY DEF IInv, TypeOK, PCs, clear_head
<1>10. NoRepeat'
  BY DEF IInv, TypeOK, Data, NoRepeat, Logged, clear_head
<1>11. Copied'
  BY Zenon DEF IInv, TypeOK, Data, Copied, Control, OneCommit, CommitAlone, Active,
     clear_head
<1>12. Installing'
  BY Zenon DEF IInv, TypeOK, Data, Installing, Control, OneCommit, CommitAlone,
     Active, clear_head
<1>13. HeadEmpty'
  BY Zenon DEF IInv, TypeOK, Data, HeadEmpty, Control, OneCommit, CommitAlone,
     Booting, clear_head
<1>14. Rebooted'
  BY Zenon DEF IInv, TypeOK, Data, Rebooted, clear_head
<1>15. Finished'
  BY Zenon DEF IInv, TypeOK, Data, Finished, Control, OneCommit, CommitAlone, Active,
     clear_head
<1>16. CleanBlocks'
  <2> SUFFICES ASSUME NEW c \in Blocks
               PROVE  cache[c] = disk[c] \/ \E q \in Procs : blk[q] = c
    BY Zenon DEF CleanBlocks, clear_head
  <2>1. CASE c \in Logged(lh)
    <3>1. PICK i \in 1..Len(lh) : lh[i] = c
      BY <2>1, SMTT(20) DEF Logged
    <3>2. disk[c] = dlog[i] /\ (up => cache[c] = dlog[i])
      BY <3>1, Zenon DEF IInv, Data, Installing, clear_head
    <3>3. ~up => cache = disk
      BY Zenon DEF IInv, Data, Rebooted
    <3> QED BY Zenon, <3>2, <3>3
  <2>2. CASE c \notin Logged(lh)
    BY Zenon, <2>2 DEF IInv, Data, CleanBlocks
  <2> QED BY Zenon, <2>1, <2>2
<1> QED
  BY Zenon, <1>1, <1>2, <1>3, <1>4, <1>5, <1>6, <1>7, <1>8, <1>9, <1>10, <1>11, <1>12,
     <1>13, <1>14, <1>15, <1>16 DEF IInv, Control, Data

LEMMA end_op_finish_Inv ==
  ASSUME IInv, NEW p \in Procs, end_op_finish(p)
  PROVE  IInv'
<1> USE ProcsAssumption, BlockAssumption, SizeAssumption
<1>1. Counted'
  <2>1. Active' = Active
    BY Zenon DEF IInv, TypeOK, Active, end_op_finish, Wakeup
  <2>2. outstanding' = outstanding /\ Counted
    BY Zenon DEF IInv, Control, end_op_finish
  <2> QED BY Zenon, <2>1, <2>2 DEF Counted
<1>2. Booting'
  BY Zenon DEF IInv, TypeOK, Control, Booting, end_op_finish, Wakeup
<1>3. Running'
  BY Zenon DEF IInv, TypeOK, Control, Running, Booting, end_op_finish, Wakeup
<1>4. OneCommit'
  <2>1. ~committing' /\ pc'[p] = "idle"
    BY Zenon DEF IInv, TypeOK, end_op_finish, Wakeup
  <2>2. \A q \in Procs \ {p} : pc[q] \in {"off", "idle", "sleep", "woken"}
    BY Zenon DEF IInv, Control, OneCommit, CommitAlone, end_op_finish
  <2>3. \A q \in Procs \ {p} : pc'[q] \in {"off", "idle", "woken"}
    BY Zenon, <2>2 DEF IInv, TypeOK, end_op_finish, Wakeup
  <2> QED BY Zenon, <2>1, <2>3 DEF OneCommit, CommitAlone, Committers
<1>5. InFlight'
  BY Zenon DEF IInv, TypeOK, Control, InFlight, end_op_finish, Wakeup
<1>6. OpBlocks'
  BY Zenon DEF IInv, TypeOK, Control, OpBlocks, end_op_finish, Wakeup
<1>7. Tails'
  BY Zenon DEF IInv, TypeOK, Control, Tails, end_op_finish, Wakeup
<1>8. ReservationHolds'
  BY Zenon DEF IInv, TypeOK, ReservationHolds, Reserved, Active, end_op_finish, Wakeup
<1>9. TypeOK'
  BY Zenon DEF IInv, TypeOK, PCs, end_op_finish, Wakeup
<1>10. NoRepeat'
  BY Zenon DEF IInv, TypeOK, Data, NoRepeat, Logged, end_op_finish, Wakeup
<1>11. Copied'
  BY Zenon DEF IInv, TypeOK, Data, Copied, Control, OneCommit, CommitAlone, Active,
     end_op_finish, Wakeup
<1>12. Installing'
  BY Zenon DEF IInv, TypeOK, Data, Installing, Control, OneCommit, CommitAlone,
     Active, end_op_finish, Wakeup
<1>13. HeadEmpty'
  BY Zenon DEF IInv, TypeOK, Data, HeadEmpty, Control, OneCommit, CommitAlone,
     Booting, end_op_finish, Wakeup
<1>14. Rebooted'
  BY Zenon DEF IInv, TypeOK, Data, Rebooted, end_op_finish, Wakeup
<1>15. Finished'
  BY Zenon DEF IInv, TypeOK, Data, Finished, Control, OneCommit, CommitAlone, Active,
     end_op_finish, Wakeup
<1>16. CleanBlocks'
  BY Zenon DEF IInv, TypeOK, Data, CleanBlocks, end_op_finish, Wakeup
<1> QED
  BY Zenon, <1>1, <1>2, <1>3, <1>4, <1>5, <1>6, <1>7, <1>8, <1>9, <1>10, <1>11, <1>12,
     <1>13, <1>14, <1>15, <1>16 DEF IInv, Control, Data

LEMMA read_head_Inv ==
  ASSUME IInv, NEW p \in Procs, read_head(p)
  PROVE  IInv'
<1> USE ProcsAssumption, BlockAssumption, SizeAssumption
<1>1. Counted'
  BY Zenon DEF IInv, TypeOK, Control, Counted, Active, read_head
<1>2. Booting'
  BY Zenon DEF IInv, TypeOK, Control, Booting, read_head
<1>3. Running'
  BY Zenon DEF IInv, TypeOK, Control, Running, Booting, read_head
<1>4. OneCommit'
  <2>1. ~up /\ p = InitProc /\ ~committing /\ \A q \in Procs \ {p} : pc[q] = "off"
    BY Zenon DEF IInv, TypeOK, Control, Booting, Running, read_head
  <2>2. Active' = {} /\ Active = {}
    BY <2>1, Zenon DEF IInv, TypeOK, Active, read_head
  <2>3. outstanding = 0
    BY Zenon, <2>2, FS_EmptySet DEF IInv, Control, Counted
  <2> QED
    BY Zenon, <2>1, <2>2, <2>3 DEF IInv, TypeOK, OneCommit, CommitAlone, Committers,
       read_head
<1>5. InFlight'
  BY Zenon DEF IInv, TypeOK, Control, InFlight, read_head
<1>6. OpBlocks'
  <2>1. \A q \in Procs : opblocks'[q] = {} /\ pc'[q] # "append"
    BY Zenon DEF IInv, TypeOK, Control, Booting, Running, OpBlocks, read_head
  <2>2. IsFiniteSet({}) /\ Cardinality({}) = 0 /\ OPBLOCKS >= 0
    BY FS_EmptySet
  <2> QED BY ONLY Zenon, <2>1, <2>2 DEF OpBlocks
<1>7. Tails'
  <2>1. \A q \in Procs : tail'[q] = 0
    BY Zenon DEF IInv, TypeOK, Control, Booting, Running, Tails, read_head
  <2> QED
    BY <2>1 DEF IInv, TypeOK, Tails, read_head
<1>8. ReservationHolds'
  <2>1. Active' = {}
    BY Zenon DEF IInv, TypeOK, Control, Booting, Running, Active, read_head
  <2>2. Reserved' = {}
    BY Zenon, <2>1 DEF Reserved
  <2> QED
    BY <2>2, FS_EmptySet DEF IInv, TypeOK, ReservationHolds, read_head
<1>9. TypeOK'
  BY Zenon DEF IInv, TypeOK, PCs, read_head
<1>10. NoRepeat'
  BY Zenon DEF IInv, TypeOK, Data, NoRepeat, Logged, read_head
<1>11. Copied'
  BY Zenon DEF IInv, TypeOK, Data, Copied, Control, OneCommit, CommitAlone, Active,
     read_head
<1>12. Installing'
  <2>1. ~up' /\ dhead' = lh'
    BY Zenon DEF IInv, Control, Running, read_head
  <2>2. \A q \in Procs : pc'[q] = "install" => tail'[q] = 0
    BY Zenon DEF IInv, TypeOK, Control, Booting, Running, Tails, read_head
  <2> QED BY ONLY <2>1, <2>2 DEF Installing
<1>13. HeadEmpty'
  BY Zenon DEF IInv, TypeOK, Data, HeadEmpty, Control, OneCommit, CommitAlone,
     Booting, read_head
<1>14. Rebooted'
  BY Zenon DEF IInv, TypeOK, Data, Rebooted, read_head
<1>15. Finished'
  BY Zenon DEF IInv, TypeOK, Data, Finished, Control, OneCommit, CommitAlone, Active,
     read_head
<1>16. CleanBlocks'
  BY Zenon DEF IInv, Control, Booting, Running, Data, Rebooted, CleanBlocks, read_head
<1> QED
  BY Zenon, <1>1, <1>2, <1>3, <1>4, <1>5, <1>6, <1>7, <1>8, <1>9, <1>10, <1>11, <1>12,
     <1>13, <1>14, <1>15, <1>16 DEF IInv, Control, Data

LEMMA Crash_Inv ==
  ASSUME IInv, Crash
  PROVE  IInv'
<1> USE ProcsAssumption, BlockAssumption, SizeAssumption
<1>1. Counted'
  <2>1. Active' = {}
    BY Zenon DEF Active, Crash
  <2> QED
    BY Zenon, <2>1, FS_EmptySet DEF Counted, Crash
<1>2. Booting'
  BY Zenon DEF IInv, TypeOK, Control, Booting, Crash
<1>3. Running'
  BY Zenon DEF IInv, TypeOK, Control, Running, Booting, Crash
<1>4. OneCommit'
  BY Zenon DEF IInv, TypeOK, Control, OneCommit, CommitAlone, Committers, Active,
     Booting, Running, Crash
<1>5. InFlight'
  BY Zenon DEF IInv, TypeOK, Control, InFlight, Crash
<1>6. OpBlocks'
  BY FS_EmptySet DEF OpBlocks, Crash
<1>7. Tails'
  BY DEF IInv, TypeOK, Control, Tails, Crash
<1>8. ReservationHolds'
  <2>1. Reserved' = {} /\ Len(lh') = 0
    BY Zenon DEF Reserved, Active, Crash
  <2> QED
    BY <2>1, FS_EmptySet DEF ReservationHolds
<1>9. TypeOK'
  <2>1. outstanding' \in 0..Cardinality(Procs)
    BY <1>1, ProcSet DEF Counted, Active
  <2>2. lh' \in Seq(Blocks) /\ Len(lh') <= LOGSIZE
    BY DEF Crash
  <2>3. pc' \in [Procs -> PCs] /\ tail' \in [Procs -> 0..LOGSIZE]
    BY DEF PCs, Crash
  <2> QED
    BY <2>1, <2>2, <2>3, Zenon DEF IInv, TypeOK, Crash
<1>10. NoRepeat'
  BY DEF IInv, TypeOK, Data, NoRepeat, Logged, Crash
<1>11. Copied'
  BY Zenon DEF IInv, TypeOK, Data, Copied, Control, OneCommit, CommitAlone, Active,
     Crash
<1>12. Installing'
  BY Zenon DEF IInv, TypeOK, Data, Installing, Control, OneCommit, CommitAlone,
     Active, Crash
<1>13. HeadEmpty'
  BY Zenon DEF IInv, TypeOK, Data, HeadEmpty, Control, OneCommit, CommitAlone,
     Booting, Crash
<1>14. Rebooted'
  BY Zenon DEF IInv, TypeOK, Data, Rebooted, Crash
<1>15. Finished'
  BY Zenon DEF IInv, TypeOK, Data, Finished, Control, OneCommit, CommitAlone, Active,
     Crash
<1>16. CleanBlocks'
  BY Zenon DEF IInv, TypeOK, Data, CleanBlocks, Crash
<1> QED
  BY Zenon, <1>1, <1>2, <1>3, <1>4, <1>5, <1>6, <1>7, <1>8, <1>9, <1>10, <1>11, <1>12,
     <1>13, <1>14, <1>15, <1>16 DEF IInv, Control, Data
-----------------------------------------------------------------------------
(* The initial states satisfy the invariant and every step keeps it.       *)
LEMMA InitInv == Init => IInv
<1> SUFFICES ASSUME Init PROVE IInv
  BY Zenon
<1> USE ProcsAssumption, BlockAssumption, SizeAssumption
<1>1. Active = {} /\ Reserved = {} /\ Len(lh) = 0
  BY Zenon DEF Init, Active, Reserved
<1>2. Cardinality({}) = 0 /\ IsFiniteSet({}) /\ Cardinality(Procs) \in Nat
  BY Zenon, FS_EmptySet, FS_CardinalityType
<1>3. TypeOK
  <2>1. lh \in Seq(Blocks) /\ dhead \in Seq(Blocks) /\ Len(dhead) = 0
    BY DEF Init
  <2>2. pc \in [Procs -> PCs] /\ tail \in [Procs -> 0..LOGSIZE]
    BY DEF Init, PCs
  <2>3. dlog \in [1..LOGSIZE -> Vals] /\ cache \in [Blocks -> Vals]
    BY Zenon DEF Init
  <2>4. /\ blk \in [Procs -> Blocks \cup {NoBlock}]
        /\ opblocks \in [Procs -> SUBSET Blocks]
    BY Zenon DEF Init
  <2>5. outstanding \in 0..Cardinality(Procs)
    BY <1>2 DEF Init
  <2>6. committing \in BOOLEAN /\ up \in BOOLEAN /\ disk \in [Blocks -> Vals]
    BY Zenon DEF Init
  <2>7. Len(lh) <= LOGSIZE /\ Len(dhead) <= LOGSIZE
    BY <1>1, <2>1
  <2> QED
    BY Zenon, <2>1, <2>2, <2>3, <2>4, <2>5, <2>6, <2>7 DEF TypeOK
<1>4. Booting /\ Running /\ OneCommit /\ InFlight
  BY Zenon, <1>1 DEF Init, Booting, Running, OneCommit, CommitAlone, Committers,
     InFlight
<1>5. Counted /\ OpBlocks /\ Tails
  BY <1>1, <1>2 DEF Init, Counted, OpBlocks, Tails
<1>6. ReservationHolds
  BY <1>1, <1>2 DEF ReservationHolds
<1>7. Data
  BY DEF Init, Data, NoRepeat, Copied, Installing, HeadEmpty, Rebooted,
         Finished, CleanBlocks
<1> QED BY Zenon, <1>3, <1>4, <1>5, <1>6, <1>7 DEF IInv, Control

LEMMA StutterInv == IInv /\ UNCHANGED vars => IInv'
<1> SUFFICES ASSUME IInv, UNCHANGED vars PROVE IInv'
  BY Zenon
<1> USE DEF vars, mem, IInv
<1>1. TypeOK'
  BY Zenon DEF TypeOK
<1>2. Active' = Active
  BY Zenon DEF Active
<1>3. (Booting /\ Running /\ Counted /\ InFlight)'
  BY Zenon, <1>2 DEF Control, Booting, Running, Counted, InFlight
<1>4. OneCommit'
  BY Zenon, <1>2 DEF Control, OneCommit, CommitAlone
<1>5. (OpBlocks /\ Tails)'
  BY Zenon DEF Control, OpBlocks, Tails
<1>6. ReservationHolds'
  BY Zenon, <1>2 DEF ReservationHolds, Reserved
<1>7. (NoRepeat /\ Copied /\ Installing /\ HeadEmpty)'
  <2>1. NoRepeat' /\ Copied'
    BY ZenonT(60) DEF Data, NoRepeat, Copied
  <2>2. Installing' /\ HeadEmpty'
    BY Zenon DEF Data, Installing, HeadEmpty
  <2> QED BY Zenon, <2>1, <2>2
<1>8. (Rebooted /\ Finished /\ CleanBlocks)'
  BY Zenon DEF Data, Rebooted, Finished, CleanBlocks
<1> QED
  BY Zenon, <1>1, <1>3, <1>4, <1>5, <1>6, <1>7, <1>8 DEF Control, Data

LEMMA NextInv == IInv /\ [Next]_vars => IInv'
<1> SUFFICES ASSUME IInv, Next PROVE IInv'
  BY Zenon, StutterInv
<1>1. CASE Crash
  BY Zenon, <1>1, Crash_Inv
<1>2. ASSUME NEW p \in Procs, FsStep(p) PROVE IInv'
  BY Zenon, <1>2, begin_op_sleep_Inv, begin_op_Inv, log_write_check_Inv,
     log_write_Inv, end_op_Inv DEF FsStep
<1>3. ASSUME NEW p \in Procs, LogStep(p) PROVE IInv'
  BY Zenon, <1>3, commit_Inv, write_log_Inv, write_head_Inv, install_trans_Inv,
     clear_head_Inv, end_op_finish_Inv, read_head_Inv DEF LogStep
<1> QED BY Zenon, <1>1, <1>2, <1>3 DEF Next

(* The inductive invariant holds in every reachable state of log.c.       *)
THEOREM Inductive == Spec => []IInv
BY InitInv, NextInv, PTL DEF Spec

(* The state of the log is well typed; in particular the in-memory and the *)
(* on-disk header never list more than LOGSIZE blocks (struct logheader).  *)
THEOREM TypeCorrect == Spec => []TypeOK
BY Inductive, PTL DEF IInv

(* begin_op's admission test (log.c:132) is enough: what is logged and     *)
(* what the admitted calls may still log always fits in LOGSIZE blocks.    *)
THEOREM ReservationCorrect == Spec => []ReservationHolds
BY Inductive, PTL DEF IInv

(* commit(), which runs without log.lock, never overlaps a call or another *)
(* commit (log.c:149-170).                                                 *)
THEOREM CommitAloneCorrect == Spec => []CommitAlone
BY Inductive, PTL DEF IInv, Control, OneCommit

(* A block that neither the log nor a call holds in the cache is the same  *)
(* on disk, so that recycling its buffer loses nothing.                    *)
THEOREM CleanBlocksCorrect == Spec => []CleanBlocks
BY Inductive, PTL DEF IInv, Data

-----------------------------------------------------------------------------
(* What recovery reads back, block by block.                               *)
NoDup(h) == \A i, j \in 1..Len(h) : h[i] = h[j] => i = j

(* A block that the header lists comes from its slot in the log.           *)
LEMMA RecoveredAt ==
  ASSUME NEW d, NEW h \in Seq(Blocks), NEW l,
         NoDup(h), NEW i \in 1..Len(h)
  PROVE  Recovered(d, h, l)[h[i]] = l[i]
<1>1. h[i] \in Blocks /\ h[i] \in Logged(h)
  BY DEF Logged
<1>2. (CHOOSE j \in 1..Len(h) : h[j] = h[i]) = i
  BY Zenon DEF NoDup
<1> QED BY <1>1, <1>2, Zenon DEF Recovered

(* Any other block is as it is on the disk.                                *)
LEMMA RecoveredElse ==
  ASSUME NEW d, NEW h, NEW l, NEW b \in Blocks, b \notin Logged(h)
  PROVE  Recovered(d, h, l)[b] = d[b]
BY Zenon DEF Recovered

(* Each step of the log is a step of the atomic disk, or changes nothing   *)
(* that it shows.                                                          *)
LEMMA SameDurable ==
  (UNCHANGED <<disk, dhead, dlog>>) => Durable' = Durable
BY DEF Durable, Recovered, Logged

LEMMA NotUp ==
  ASSUME IInv, ~up, NEW p \in Procs
  PROVE  pc[p] \in {"off", "read_head", "install"}
BY Zenon DEF IInv, Control, Booting

LEMMA FsStepRefines ==
  ASSUME IInv, NEW p \in Procs, FsStep(p)
  PROVE  [AD!Next]_(AD!vars)
<1> USE DEF AD!Next, AD!vars
<1>1. CASE begin_op_sleep(p) \/ log_write(p)
  <2>1. Durable' = Durable
    BY Zenon, <1>1, SameDurable DEF begin_op_sleep, log_write
  <2>2. Active' = Active
    BY Zenon, <1>1 DEF IInv, TypeOK, Active, begin_op_sleep, log_write
  <2>3. Current' = Current
    BY <1>1, <2>1 DEF Current, begin_op_sleep, log_write
  <2> QED BY Zenon, <2>1, <2>2, <2>3
<1>2. CASE begin_op(p)
  <2>1. Durable' = Durable
    BY Zenon, <1>2, SameDurable DEF begin_op
  <2>2. Active' = Active \cup {p} /\ p \notin Active
    BY Zenon, <1>2 DEF IInv, TypeOK, Active, begin_op
  <2>3. Current' = Current
    BY Zenon, <1>2, <2>1 DEF Current, begin_op
  <2> QED BY Zenon, <2>1, <2>2, <2>3 DEF AD!Begin
<1>3. ASSUME NEW b \in Blocks, NEW v \in Vals, log_write_check(p, b, v)
      PROVE  [AD!Next]_(AD!vars)
  <2>1. Durable' = Durable
    BY Zenon, <1>3, SameDurable DEF log_write_check
  <2>2. Active' = Active /\ p \in Active
    BY Zenon, <1>3 DEF IInv, TypeOK, Active, log_write_check
  <2>3. Current' = [Current EXCEPT ![b] = v]
    BY <1>3, NotUp, Zenon DEF Current, log_write_check
  <2> QED BY <2>1, <2>2, <2>3, Zenon DEF AD!Write
<1>4. CASE end_op(p)
  <2>1. Durable' = Durable
    BY Zenon, <1>4, SameDurable DEF end_op
  <2>2. Active' = Active \ {p}
    BY Zenon, <1>4 DEF IInv, TypeOK, Active, end_op, Wakeup
  <2>3. Current' = Current
    BY Zenon, <1>4, <2>1 DEF Current, end_op
  <2> QED BY Zenon, <2>1, <2>2, <2>3 DEF AD!End
<1> QED BY Zenon, <1>1, <1>2, <1>3, <1>4 DEF FsStep

LEMMA LogStepRefines ==
  ASSUME IInv, NEW p \in Procs, LogStep(p)
  PROVE  [AD!Next]_(AD!vars)
<1> USE DEF AD!Next, AD!vars
<1>1. CASE commit(p) \/ end_op_finish(p) \/ read_head(p)
  <2>1. Durable' = Durable
    BY <1>1, SameDurable, SMTT(20) DEF commit, end_op_finish, read_head
  <2>2. Active' = Active
    BY Zenon, <1>1 DEF IInv, TypeOK, Active, commit, end_op_finish, read_head, Wakeup
  <2>3. Current' = Current
    BY <1>1, <2>1 DEF Current, commit, end_op_finish, read_head
  <2> QED BY Zenon, <2>1, <2>2, <2>3
<1>2. CASE write_log(p)
  <2>1. up /\ dhead = <<>> /\ dhead' = <<>>
    BY Zenon, <1>2, NotUp DEF IInv, Control, OneCommit, CommitAlone, Data, HeadEmpty,
                       write_log
  <2>2. Durable' = Durable
    BY Zenon, <1>2, <2>1, LoggedEmpty DEF Durable, Recovered, write_log
  <2>3. Active' = Active /\ Current' = Current
    BY Zenon, <1>2, <2>2 DEF Active, Current, write_log
  <2> QED BY <2>2, <2>3, SMTT(20)
<1>3. CASE write_head(p)
  <2>1. up /\ Active = {} /\ Active' = {}
    BY <1>3, NotUp, Zenon DEF IInv, TypeOK, Control, OneCommit, CommitAlone, Active,
                       write_head
  <2>2. \A b \in Blocks : Durable'[b] = cache[b]
    <3> SUFFICES ASSUME NEW b \in Blocks PROVE Durable'[b] = cache[b]
      BY Zenon
    <3>1. Durable' = Recovered(disk, lh, dlog)
      <4>1. disk' = disk /\ dhead' = lh /\ dlog' = dlog
        BY Zenon, <1>3 DEF write_head
      <4> QED BY ONLY <4>1 DEF Durable, Recovered, Logged
    <3>2. CASE b \in Logged(lh)
      <4>1. PICK i \in 1..Len(lh) : lh[i] = b
        BY Zenon, <3>2 DEF Logged
      <4>2. Recovered(disk, lh, dlog)[b] = dlog[i]
        <5>1. NoDup(lh)
          BY Zenon DEF IInv, Data, NoRepeat, NoDup
        <5>2. lh \in Seq(Blocks)
          BY Zenon DEF IInv, TypeOK
        <5>3. i \in 1..Len(lh)
          BY Zenon, <4>1
        <5>4. Recovered(disk, lh, dlog)[lh[i]] = dlog[i]
          BY ONLY <5>1, <5>2, <5>3, RecoveredAt
        <5> QED BY ONLY Zenon, <4>1, <5>4
      <4>3. dlog[i] = cache[b]
        BY <1>3, <4>1, SMTT(20) DEF IInv, Data, Copied, write_head
      <4> QED BY Zenon, <3>1, <4>2, <4>3
    <3>3. CASE b \notin Logged(lh)
      <4>1. \A q \in Procs : blk[q] # b
        BY Zenon, <2>1 DEF IInv, Control, InFlight, Active
      <4>2. cache[b] = disk[b]
        BY Zenon, <3>3, <4>1 DEF IInv, Data, CleanBlocks
      <4>3. Recovered(disk, lh, dlog)[b] = disk[b]
        BY ONLY <3>3, b \in Blocks, RecoveredElse, SMTT(20)
      <4> QED BY ONLY Zenon, <3>1, <4>2, <4>3
    <3> QED BY Zenon, <3>2, <3>3
  <2>3. Durable' = cache
    BY <2>2, Zenon DEF Durable, Recovered, IInv, TypeOK
  <2>4. Current = cache /\ Current' = cache
    BY Zenon, <1>3, <2>1 DEF Current, write_head
  <2> QED BY Zenon, <2>1, <2>3, <2>4 DEF AD!Commit
<1>4. CASE install_trans(p)
  <2> DEFINE t == tail[p] + 1
  <2>1. /\ t \in 1..Len(lh) /\ dhead = lh /\ dhead' = dhead /\ dlog' = dlog
        /\ lh[t] \in Logged(dhead) /\ lh[t] \in Blocks /\ up' = up
        /\ disk' = [disk EXCEPT ![lh[t]] = dlog[t]]
        /\ cache' = [cache EXCEPT ![lh[t]] = dlog[t]]
    <3>1. tail[p] \in Nat /\ lh \in Seq(Blocks) /\ dhead = lh
      BY <1>4 DEF IInv, TypeOK, Data, Installing, install_trans
    <3>2. t \in 1..Len(lh)
      BY <1>4, <3>1 DEF install_trans
    <3>3. lh[t] \in Blocks /\ lh[t] \in Logged(dhead)
      BY ONLY <3>1, <3>2 DEF Logged
    <3> QED BY Zenon, <1>4, <3>1, <3>2, <3>3 DEF install_trans
  <2>2. Durable' = Durable
    <3>1. disk \in [Blocks -> Vals]
      BY Zenon DEF IInv, TypeOK
    <3>2. \A b \in Blocks : b \notin Logged(dhead) => disk'[b] = disk[b]
      BY ONLY Zenon, <2>1, <3>1
    <3>3. dhead' = dhead /\ dlog' = dlog
      BY Zenon, <2>1
    <3> QED BY ONLY <3>2, <3>3 DEF Durable, Recovered, Logged
  <2>3. up => cache' = cache
    <3>1. up => \A i \in 1..Len(lh) : cache[lh[i]] = dlog[i]
      BY Zenon, <1>4 DEF IInv, Data, Installing, install_trans
    <3>2. cache \in [Blocks -> Vals]
      BY Zenon DEF IInv, TypeOK
    <3> HIDE DEF t
    <3> QED BY Zenon, <2>1, <3>1, <3>2
  <2>4. Active' = Active
    BY Zenon, <1>4 DEF Active, install_trans
  <2>5. up' = up
    BY Zenon, <2>1
  <2>6. Current' = Current
    BY Zenon, <2>2, <2>3, <2>5 DEF Current
  <2> QED BY Zenon, <2>2, <2>4, <2>6
<1>5. CASE clear_head(p)
  <2>1. Active = {} /\ Active' = {}
    BY <1>5 DEF IInv, TypeOK, Control, OneCommit, CommitAlone, Active,
       clear_head
  <2>2. \A b \in Blocks : Durable[b] = disk[b]
    <3> SUFFICES ASSUME NEW b \in Blocks PROVE Durable[b] = disk[b]
      BY Zenon
    <3>1. CASE b \in Logged(dhead)
      <4>1. PICK i \in 1..Len(dhead) : dhead[i] = b
        BY Zenon, <3>1 DEF Logged
      <4>2. Durable[b] = dlog[i]
        <5>1. NoDup(dhead)
          BY Zenon DEF IInv, Data, NoRepeat, NoDup
        <5>2. dhead \in Seq(Blocks)
          BY Zenon DEF IInv, TypeOK
        <5>3. i \in 1..Len(dhead)
          BY Zenon, <4>1
        <5>4. Recovered(disk, dhead, dlog)[dhead[i]] = dlog[i]
          BY ONLY <5>1, <5>2, <5>3, RecoveredAt
        <5> QED BY ONLY Zenon, <4>1, <5>4 DEF Durable
      <4> QED BY <1>5, <4>1, <4>2, SMTT(20) DEF IInv, Data, Installing, clear_head
    <3>2. CASE b \notin Logged(dhead)
      BY Zenon, <3>2, RecoveredElse DEF Durable
    <3> QED BY Zenon, <3>1, <3>2
  <2>3. Durable = disk
    BY Zenon, <2>2 DEF Durable, Recovered, IInv, TypeOK
  <2>4. Durable' = disk
    BY Zenon, <1>5, LoggedEmpty DEF Durable, Recovered, IInv, TypeOK, clear_head
  <2>5. Current' = Current
    BY Zenon, <1>5, <2>3 DEF Current, IInv, Data, Rebooted, clear_head
  <2> QED BY Zenon, <2>1, <2>3, <2>4, <2>5
<1> QED BY Zenon, <1>1, <1>2, <1>3, <1>4, <1>5 DEF LogStep

LEMMA CrashRefines == ASSUME Crash PROVE AD!Next
<1>1. Durable' = Durable
  BY Zenon, SameDurable DEF Crash
<1>2. Current' = Durable /\ Active' = {}
  BY Zenon, <1>1 DEF Current, Active, Crash
<1> QED BY Zenon, <1>1, <1>2 DEF AD!Next, AD!Crash

(* The log implements the atomic disk: whatever calls run and whenever the *)
(* machine crashes, also in the middle of a commit or of recovery, a       *)
(* reboot finds the contents of the last commit point, all of it.          *)
THEOREM AtomicCommitCorrect == Spec => AtomicCommit
<1>1. Init => AD!Init
  <2> SUFFICES ASSUME Init PROVE AD!Init
    BY Zenon
  <2>1. Durable = disk /\ Current = Durable
    BY Zenon, LoggedEmpty DEF Init, Durable, Current, Recovered
  <2> QED BY Zenon, <2>1 DEF Init, Active, AD!Init
<1>2. IInv /\ [Next]_vars => [AD!Next]_(AD!vars)
  <2>1. IInv /\ Next => [AD!Next]_(AD!vars)
    BY Zenon, CrashRefines, FsStepRefines, LogStepRefines DEF Next
  <2>2. UNCHANGED vars => UNCHANGED AD!vars
    BY DEF vars, mem, AD!vars, Durable, Recovered, Logged, Current, Active
  <2> QED BY Zenon, <2>1, <2>2
<1> QED BY <1>1, <1>2, Inductive, PTL DEF Spec, AtomicCommit, AD!Spec

-----------------------------------------------------------------------------
(* log_write's panics need more than begin_op's test.  What a call leaves  *)
(* unused of its reservation is its slack; with NLOG = LOGSIZE, as mkfs    *)
(* makes the log, a slack of two blocks keeps log_write from panicking.    *)
Slack == MAXOPBLOCKS - OPBLOCKS

OpsFit == Slack >= 1 /\ LOGSIZE - Slack < NLOG - 1 /\ MAXOPBLOCKS <= LOGSIZE

Fits ==
  /\ Len(lh) <= LOGSIZE - Slack /\ Len(dhead) <= LOGSIZE - Slack
  /\ \A p \in Procs : pc[p] # "panic"

(* A call that has logged at most k blocks holds MAXOPBLOCKS - k of the    *)
(* log's blocks free.                                                      *)
LEMMA HoldsFree ==
  ASSUME IInv, NEW p \in Active, NEW k \in 0..MAXOPBLOCKS,
         Cardinality(opblocks[p]) <= k
  PROVE  Len(lh) + (MAXOPBLOCKS - k) <= LOGSIZE
<1> DEFINE R == {p} \X ((k + 1)..MAXOPBLOCKS)
<1>1. Reserved \in SUBSET (Active \X (1..MAXOPBLOCKS)) /\ Active \in SUBSET Procs
  BY Zenon DEF Reserved, Active
<1>2. IsFiniteSet(Reserved) /\ Cardinality(Reserved) \in Nat
  BY <1>1, ReservedBound, Zenon
<1>3. Cardinality(opblocks[p]) \in Nat
  BY FS_CardinalityType, Zenon DEF IInv, Control, OpBlocks, Active
<1>4. R \in SUBSET Reserved
  BY <1>3, SizeAssumption DEF Reserved
<1>5. /\ IsFiniteSet((k + 1)..MAXOPBLOCKS)
      /\ Cardinality((k + 1)..MAXOPBLOCKS) = MAXOPBLOCKS - k
  <2>1. k + 1 \in Int /\ MAXOPBLOCKS \in Int /\ k <= MAXOPBLOCKS
    BY SizeAssumption
  <2>2. /\ IsFiniteSet((k + 1)..MAXOPBLOCKS)
        /\ Cardinality((k + 1)..MAXOPBLOCKS) =
             IF k + 1 > MAXOPBLOCKS THEN 0 ELSE MAXOPBLOCKS - (k + 1) + 1
    BY Zenon, <2>1, FS_Interval
  <2> QED BY <2>1, <2>2
<1>6. IsFiniteSet({p}) /\ Cardinality({p}) = 1
  BY FS_Singleton, Zenon
<1>7. Cardinality(R) = 1 * (MAXOPBLOCKS - k)
  <2>1. Cardinality(R) = Cardinality({p}) * Cardinality((k + 1)..MAXOPBLOCKS)
    BY ONLY <1>5, <1>6, FS_Product, Zenon
  <2> QED BY ONLY <1>5, <1>6, <2>1, Zenon
<1>8. Cardinality(R) <= Cardinality(Reserved)
  BY Zenon, <1>2, <1>4, FS_Subset
<1>9. Len(lh) \in Nat /\ Len(lh) + Cardinality(Reserved) <= LOGSIZE
  BY DEF IInv, TypeOK, ReservationHolds
<1> HIDE DEF R
<1> QED BY <1>2, <1>7, <1>8, <1>9, SizeAssumption

LEMMA FitsNext == OpsFit /\ IInv /\ Fits /\ [Next]_vars => Fits'
<1> SUFFICES ASSUME OpsFit, IInv, Fits, [Next]_vars PROVE Fits'
  BY Zenon
<1> USE SizeAssumption
<1>1. ASSUME NEW p \in Procs, NEW b \in Blocks, NEW v \in Vals,
             log_write_check(p, b, v)
      PROVE  Fits'
  <2>1. p \in Active
    BY <1>1, Zenon DEF Active, log_write_check
  <2>2. Cardinality(opblocks[p]) <= OPBLOCKS
    BY Zenon DEF IInv, Control, OpBlocks
  <2>3. Len(lh) + Slack <= LOGSIZE
    BY Zenon, <2>1, <2>2, HoldsFree DEF Slack
  <2>4. Len(lh) \in Nat /\ Slack \in Nat
    BY DEF IInv, TypeOK, Slack
  <2>5. ~TooBig
    BY <2>3, <2>4 DEF TooBig, OpsFit
  <2>6. ~(outstanding < 1)
    <3>1. outstanding = Cardinality(Active) /\ Cardinality(Active) \in Nat
      BY Zenon, ProcSet DEF IInv, Control, Counted, Active
    <3>2. Cardinality(Active) # 0
      BY Zenon, <2>1, ProcSet, FS_EmptySet DEF Active
    <3> QED BY <3>1, <3>2
  <2>7. pc' = [pc EXCEPT ![p] = "append"]
    BY <1>1, <2>5, <2>6, Zenon DEF IInv, TypeOK, log_write_check
  <2> QED
    BY <1>1, <2>7, SMTT(20) DEF Fits, IInv, TypeOK, log_write_check
<1>2. ASSUME NEW p \in Procs, log_write(p) PROVE Fits'
  <2>1. p \in Active /\ blk[p] \in Blocks /\ lh \in Seq(Blocks) /\ Slack \in Nat
    BY <1>2 DEF IInv, TypeOK, Control, InFlight, Active, log_write, Slack
  <2>2. Len(lh') <= LOGSIZE - Slack
    <3>1. CASE blk[p] \in Logged(lh)
      BY Zenon, <1>2, <3>1 DEF Fits, log_write
    <3>2. CASE blk[p] \notin Logged(lh)
      <4>1. blk[p] \notin opblocks[p] /\ IsFiniteSet(opblocks[p])
        BY <3>2, Zenon DEF IInv, Control, OpBlocks
      <4>2. Cardinality(opblocks[p]) + 1 <= OPBLOCKS
        <5>1. Cardinality(opblocks[p] \cup {blk[p]}) <= OPBLOCKS
          BY <1>2, SMTT(20) DEF IInv, Control, OpBlocks, log_write
        <5> QED BY <4>1, <5>1, FS_AddElement, Zenon
      <4>3. Cardinality(opblocks[p]) \in Nat
        BY Zenon, <4>1, FS_CardinalityType
      <4>4. Len(lh) + (MAXOPBLOCKS - (OPBLOCKS - 1)) <= LOGSIZE
        BY <2>1, <4>2, <4>3, HoldsFree
      <4>5. Len(lh') = Len(lh) + 1 /\ Len(lh) \in Nat
        BY <1>2, <2>1, <3>2, LoggedAppend DEF log_write
      <4> QED BY <4>4, <4>5 DEF Slack
    <3> QED BY Zenon, <3>1, <3>2
  <2> QED
    BY Zenon, <1>2, <2>2 DEF Fits, IInv, TypeOK, log_write
<1>3. CASE Crash
  BY <1>3, SMTT(20) DEF Fits, OpsFit, Slack, Crash
<1>4. ASSUME NEW p \in Procs, begin_op(p) \/ begin_op_sleep(p) \/ end_op(p)
      PROVE  Fits'
  BY Zenon, <1>4 DEF Fits, IInv, TypeOK, begin_op, begin_op_sleep, end_op, Wakeup
<1>5. ASSUME NEW p \in Procs, LogStep(p) PROVE Fits'
  <2>1. CASE commit(p) \/ write_log(p) \/ install_trans(p) \/ end_op_finish(p)
    BY <2>1, Zenon DEF Fits, IInv, TypeOK, commit, write_log, install_trans,
                end_op_finish, Wakeup
  <2>2. CASE write_head(p) \/ read_head(p)
    BY Zenon, <2>2 DEF Fits, IInv, TypeOK, write_head, read_head
  <2>3. CASE clear_head(p)
    <3>1. Len(lh') = 0 /\ Len(dhead') = 0
      BY Zenon, <2>3 DEF clear_head
    <3>2. \A q \in Procs : pc'[q] # "panic"
      BY Zenon, <2>3 DEF Fits, IInv, TypeOK, clear_head
    <3> QED BY <3>1, <3>2 DEF Fits, OpsFit, Slack
  <2> QED BY <1>5, <2>1, <2>2, <2>3, SMTT(20) DEF LogStep
<1>6. CASE UNCHANGED vars
  BY Zenon, <1>6 DEF Fits, vars, mem
<1> QED BY Zenon, <1>1, <1>2, <1>3, <1>4, <1>5, <1>6 DEF Next, FsStep

(* With that slack no call reaches a panic of log_write or end_op, and     *)
(* nothing is ever written past the log area (log.c:152, 218, 220).        *)
THEOREM NoPanicCorrect == OpsFit => (Spec => []NoPanic)
<1> SUFFICES ASSUME OpsFit PROVE Spec => []NoPanic
  BY Zenon
<1>1. Init => Fits
  BY SizeAssumption DEF Init, Fits, OpsFit, Slack
<1>2. IInv /\ Fits => NoPanic
  BY SizeAssumption DEF IInv, TypeOK, Control, OneCommit, Fits, NoPanic,
     OpsFit, Slack
<1> QED BY <1>1, <1>2, FitsNext, Inductive, PTL DEF Spec
====
