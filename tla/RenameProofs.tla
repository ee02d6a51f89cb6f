---------------------------- MODULE RenameProofs ----------------------------
(***************************************************************************)
(* Proofs about the rename core: reorder buffer, free list and map table    *)
(* together, for every size, width and number of registers.                 *)
(***************************************************************************)
EXTENDS RenameCore, FiniteSetTheorems, SequenceTheorems, NaturalLemmas

\* What is proved about the components by themselves.
RP == INSTANCE RobProofs WITH Insts <- ROB!Inst
FLP == INSTANCE FreeListProofs WITH
          head <- fl_head, tail <- fl_tail, isEmpty <- fl_isEmpty
MTP == INSTANCE MapTableProofs

\* The components are instantiated as their proofs assume.
LEMMA RobHypothesis == RP!RobAssumption
BY RenameAssumption
   DEF RP!RobAssumption, ArchReg, PhyReg, FREELIST_SIZE, ROB!Inst, RP!Inst,
       ROB!Code, RP!Code, ROB!Kind, RP!Kind

\* The free list has the sizes that its own proofs ask for.
LEMMA ListHypothesis == FLP!Sizes
BY RenameAssumption DEF FLP!Sizes, FREELIST_SIZE

-----------------------------------------------------------------------------
(* The entries of the ROB in program order.                                 *)

\* The entries held, and of the entry d places behind the head: its index, its
\* destination, the register it was given and the one it replaces.
Occ == ROB!Occupied
Slot(d) == ROB!Wrap(head + d)
Dest(d) == ROB!At(d).arch_dest_reg
Tag(d) == ROB!At(d).T
Old(d) == ROB!At(d).Told

\* The ROB of the model and the one of its proofs have the same ring.
LEMMA SameRing ==
    /\ Occ = RP!Occupied
    /\ \A d : ROB!At(d) = RP!At(d) /\ Slot(d) = RP!Wrap(head + d)
    /\ \A d : ROB!At(d) = rob_mem[Slot(d)]
    /\ \A i : ROB!Dist(i) = RP!Dist(i) /\ (ROB!Live(i) <=> RP!Live(i))
    /\ \A i : ROB!Place(i) = RP!Place(i)
    /\ \A n : ROB!Left(n) = RP!Left(n) /\ Occ - n = ROB!Left(n)
    /\ ROB!Index = RP!Index
BY DEF Occ, Slot, ROB!Occupied, RP!Occupied, ROB!At, RP!At, ROB!Wrap, RP!Wrap,
       ROB!Dist, RP!Dist, ROB!Live, RP!Live, ROB!Place, RP!Place, ROB!Left, RP!Left,
       ROB!Index, RP!Index

\* The wires of a cycle are the same too.
LEMMA SameCycle ==
    /\ \A s : ROB!RetireNum(s) = RP!RetireNum(s)
    /\ \A n, s : ROB!InRewindNext(n, s) <=> RP!InRewindNext(n, s)
    /\ \A n, s : ROB!RewindNum(n, s) = RP!RewindNum(n, s)
    /\ \A n, s, c, r, g : ROB!Run(n, s, c, r, g) <=> RP!Run(n, s, c, r, g)
    /\ \A n, s : ROB!Rewind(n, s) <=> RP!Rewind(n, s)
    /\ ROB!Resolution = RP!Resolution
<1>1. \A s : ROB!RetireNum(s) = RP!RetireNum(s)
  BY DEF ROB!RetireNum, RP!RetireNum, ROB!Retires, RP!Retires, ROB!Examines, RP!Examines,
         ROB!At, RP!At, ROB!Wrap, RP!Wrap, ROB!Occupied, RP!Occupied
<1>2. \A n, s : ROB!InRewindNext(n, s) <=> RP!InRewindNext(n, s)
  BY DEF ROB!InRewindNext, RP!InRewindNext, ROB!StartsRewind, RP!StartsRewind,
         ROB!Examines, RP!Examines,
         ROB!At, RP!At, ROB!Wrap, RP!Wrap, ROB!Occupied, RP!Occupied
<1>3. \A n, s : ROB!RewindNum(n, s) = RP!RewindNum(n, s)
  BY <1>2, SameRing DEF ROB!RewindNum, RP!RewindNum, ROB!Least, RP!Least
<1>4. \A n, s, c, r, g : ROB!Run(n, s, c, r, g) <=> RP!Run(n, s, c, r, g)
  BY DEF ROB!Run, RP!Run, ROB!InRewindNext, RP!InRewindNext, ROB!StartsRewind,
         RP!StartsRewind, ROB!Examines, RP!Examines, ROB!At, RP!At, ROB!Wrap,
         RP!Wrap, ROB!Occupied, RP!Occupied, ROB!Least, RP!Least,
         ROB!NumCanDispatch, RP!NumCanDispatch, ROB!Left, RP!Left,
         ROB!Mispredict, RP!Mispredict, ROB!AfterRetire, RP!AfterRetire,
         ROB!Retired, RP!Retired, ROB!Cleared, RP!Cleared, ROB!AfterResolve,
         RP!AfterResolve, ROB!AfterComplete, RP!AfterComplete, ROB!TakesOver,
         RP!TakesOver, ROB!Place, RP!Place, ROB!RobIndexOf, RP!RobIndexOf,
         ROB!Faulty, RP!Faulty, ROB!NewEntry, RP!NewEntry, ROB!FirstFaulty,
         RP!FirstFaulty, ROB!HeadNext, RP!HeadNext, ROB!Index, RP!Index,
         ROB!Dist, RP!Dist
<1>5. \A n, s : ROB!Rewind(n, s) <=> RP!Rewind(n, s)
  BY DEF ROB!Rewind, RP!Rewind, ROB!RewindNum, RP!RewindNum, ROB!RewindDone,
         RP!RewindDone, ROB!Rewound, RP!Rewound, ROB!Back, RP!Back,
         ROB!InRewindNext, RP!InRewindNext, ROB!StartsRewind, RP!StartsRewind,
         ROB!Examines, RP!Examines, ROB!At, RP!At, ROB!Wrap, RP!Wrap,
         ROB!Occupied, RP!Occupied, ROB!Least, RP!Least, ROB!NumCanDispatch,
         RP!NumCanDispatch, ROB!Left, RP!Left, ROB!Mispredict, RP!Mispredict,
         ROB!AfterRetire, RP!AfterRetire, ROB!Retired, RP!Retired,
         ROB!Cleared, RP!Cleared, ROB!AfterResolve, RP!AfterResolve,
         ROB!AfterComplete, RP!AfterComplete, ROB!TakesOver, RP!TakesOver,
         ROB!Place, RP!Place, ROB!RobIndexOf, RP!RobIndexOf, ROB!Faulty,
         RP!Faulty, ROB!NewEntry, RP!NewEntry, ROB!FirstFaulty,
         RP!FirstFaulty, ROB!HeadNext, RP!HeadNext, ROB!Index, RP!Index,
         ROB!Dist, RP!Dist
<1>6. ROB!Resolution = RP!Resolution
  BY DEF ROB!Resolution, RP!Resolution, ROB!NoResolution, RP!NoResolution, ROB!Index, RP!Index
<1> QED BY <1>1, <1>2, <1>3, <1>4, <1>5, <1>6

\* The number of instructions that stay in the ROB when n are retired.
Staying(n, kept) == kept = Occ - n

\* A cycle without a rewind retires the first n entries, keeps the others in
\* their order and adds the group behind them.
LEMMA RunShape ==
    ASSUME RP!RobInv, NEW store_accepted \in BOOLEAN,
           NEW n \in ROB!RetireNum(store_accepted), NEW complete \in SUBSET Index,
           NEW resolve \in ROB!Resolution, NEW group \in RP!Group,
           ROB!Run(n, store_accepted, complete, resolve, group),
           NEW kept, Staying(n, kept)
    PROVE  /\ RP!RobInv'
           /\ n \in Nat /\ n <= Occ /\ Occ \in 0 .. ROB_SIZE
           /\ Len(group) \in Nat /\ \A k \in 1 .. Len(group) : group[k] \in ROB!Inst
           /\ kept \in Nat /\ Occ' = kept + Len(group) /\ Occ' \in 0 .. ROB_SIZE
           /\ \A d \in 0 .. kept - 1 :
                 /\ Slot(d)' = Slot(d + n) /\ Slot(d + n) \in Index
                 /\ rob_mem'[Slot(d + n)] =
                       RP!AfterResolve(Slot(d + n), n, complete, resolve)
                 /\ ~RP!Retired(Slot(d + n), n)
                 /\ ROB!Place(Slot(d + n)) > Len(group)
           /\ \A k \in 1 .. Len(group) :
                 /\ Slot(kept + (k - 1))' = RP!RobIndexOf(k)
                 /\ RP!RobIndexOf(k) \in Index
                 /\ rob_mem'[RP!RobIndexOf(k)] = RP!NewEntry(group[k])
                 /\ ROB!Place(RP!RobIndexOf(k)) = k
<1> USE DEF Staying
<1> DEFINE g == Len(group)
<1>0. RP!RobAssumption
  BY RobHypothesis
<1>1. /\ RP!TypeOK /\ RP!ValidIffLive
      /\ n \in RP!RetireNum(store_accepted)
      /\ complete \in SUBSET RP!Index /\ resolve \in RP!Resolution
      /\ RP!Run(n, store_accepted, complete, resolve, group)
  BY SameCycle, SameRing DEF RP!RobInv, Index, ROB!Index
<1>2. n \in Nat /\ n <= RP!Occupied
  BY <1>0, <1>1, RP!RetireBound DEF RP!RobAssumption
<1>3. /\ g \in Nat /\ g <= ROB_SIZE - RP!Left(n)
      /\ \A k \in 1 .. g : group[k] \in RP!Inst
  <2>1. g <= RP!NumCanDispatch(n, store_accepted, resolve)
    BY <1>1 DEF RP!Run
  <2> QED BY <1>0, <1>1, <1>2, <2>1, RP!GroupBound DEF RP!RobAssumption
<1>4. RP!RobInv'
  BY <1>0, <1>1, RP!RunPreserves DEF RP!RobAssumption
<1>5. /\ head' = RP!HeadNext(n) /\ tail' = RP!RobIndexOf(g)
      /\ is_empty' = (RP!Left(n) = 0 /\ g = 0)
  BY <1>1 DEF RP!Run
<1>6. /\ RP!Occupied' = RP!Left(n) + g
      /\ \A i \in RP!Index :
            /\ RP!Live(i)' <=> (RP!Live(i) /\ ~RP!Retired(i, n)) \/ RP!Place(i) <= g
            /\ RP!Place(i) <= g => ~(RP!Live(i) /\ ~RP!Retired(i, n))
  <2> HIDE DEF g
  <2> QED BY <1>0, <1>1, <1>2, <1>3, <1>5, RP!RunRing DEF RP!RobAssumption
<1>7. /\ head \in 0 .. ROB_SIZE - 1 /\ tail \in 0 .. ROB_SIZE - 1 /\ ROB_SIZE \in Nat
      /\ RP!Occupied \in 0 .. ROB_SIZE
      /\ is_empty \in BOOLEAN /\ (is_empty => head = RP!Wrap(tail + 1))
      /\ RP!Left(n) = RP!Occupied - n
  BY <1>0, <1>1 DEF RP!TypeOK, RP!ValidIffLive, RP!Index, RP!RobAssumption, RP!Occupied, RP!Left
<1>8. PICK c \in 0 .. ROB_SIZE : c = RP!Occupied
  BY <1>7
<1>9. /\ \/ tail + 1 = head + c
         \/ tail + 1 = head + c - ROB_SIZE
         \/ tail + 1 = head + c + ROB_SIZE
      /\ n <= c /\ g <= ROB_SIZE - (c - n)
      /\ head' = RP!Wrap(head + n)
  BY <1>2, <1>3, <1>5, <1>7, <1>8 DEF RP!Occupied, RP!Wrap, RP!HeadNext
<1>10. ASSUME NEW d \in 0 .. c - n - 1
       PROVE  /\ RP!Wrap(head' + d) = RP!Wrap(head + (d + n))
              /\ RP!Wrap(head + (d + n)) \in RP!Index
              /\ rob_mem'[RP!Wrap(head + (d + n))] =
                    RP!AfterResolve(RP!Wrap(head + (d + n)), n, complete, resolve)
              /\ ~RP!Retired(RP!Wrap(head + (d + n)), n)
              /\ RP!Place(RP!Wrap(head + (d + n))) > g
  <2> DEFINE i == RP!Wrap(head + (d + n))
  <2>1. /\ RP!Wrap(head' + d) = i /\ i \in RP!Index
        /\ RP!Dist(i) = d + n /\ d + n < c /\ d \in Nat
        /\ RP!Place(i) \in Nat
    BY <1>2, <1>7, <1>9 DEF RP!Wrap, RP!Index, RP!Dist, RP!Place
  <2>2. RP!Live(i) /\ ~RP!Retired(i, n)
    BY <1>2, <1>8, <2>1 DEF RP!Live, RP!Retired
  <2> HIDE DEF i
  <2>3. ~(RP!Place(i) <= g)
    BY <1>6, <2>1, <2>2
  <2>4. rob_mem'[i] = RP!AfterResolve(i, n, complete, resolve)
    BY <1>1, <2>1, <2>3 DEF RP!Run
  <2>5. RP!Place(i) > g
    BY <1>3, <2>1, <2>3
  <2> QED BY <2>1, <2>2, <2>4, <2>5 DEF i
<1>11. ASSUME NEW k \in 1 .. g
       PROVE  /\ RP!Wrap(head' + ((c - n) + (k - 1))) = RP!RobIndexOf(k)
              /\ RP!RobIndexOf(k) \in RP!Index
              /\ RP!Place(RP!RobIndexOf(k)) = k
              /\ rob_mem'[RP!RobIndexOf(k)] = RP!NewEntry(group[k])
  <2>1. k \in Nat /\ 1 <= k /\ k <= ROB_SIZE - (c - n)
    BY <1>2, <1>3, <1>7, <1>9
  <2>2. /\ RP!Wrap(head' + ((c - n) + (k - 1))) = RP!RobIndexOf(k)
        /\ RP!RobIndexOf(k) \in RP!Index
        /\ RP!Place(RP!RobIndexOf(k)) = k
    BY <1>2, <1>7, <1>9, <2>1 DEF RP!Wrap, RP!Index, RP!RobIndexOf, RP!Place
  <2> HIDE DEF g
  <2>3. rob_mem'[RP!RobIndexOf(k)] = RP!NewEntry(group[k])
    BY <1>1, <1>3, <2>2 DEF RP!Run, g
  <2> QED BY <2>2, <2>3
<1>12. Occ' = RP!Occupied' /\ \A d : Slot(d)' = RP!Wrap(head' + d)
  BY DEF Occ, Slot, ROB!Occupied, RP!Occupied, ROB!Wrap, RP!Wrap
<1>13. RP!Occupied' \in 0 .. ROB_SIZE /\ RP!Occupied' = (c - n) + g
  BY <1>2, <1>3, <1>6, <1>7, <1>8
<1>14. ROB!Inst = RP!Inst
  BY DEF ROB!Inst, RP!Inst, ROB!Code, RP!Code, ROB!Kind, RP!Kind
<1>15. Occ = c /\ kept = c - n /\ \A d : Slot(d) = RP!Wrap(head + d)
  BY <1>8, SameRing
<1>16. /\ n \in Nat /\ n <= Occ /\ Occ \in 0 .. ROB_SIZE
       /\ kept \in Nat /\ Occ' = kept + g /\ Occ' \in 0 .. ROB_SIZE
  BY <1>2, <1>8, <1>12, <1>13, <1>15
<1>17. ASSUME NEW d \in 0 .. kept - 1
       PROVE  /\ Slot(d)' = Slot(d + n) /\ Slot(d + n) \in Index
              /\ rob_mem'[Slot(d + n)] =
                    RP!AfterResolve(Slot(d + n), n, complete, resolve)
              /\ ~RP!Retired(Slot(d + n), n)
              /\ ROB!Place(Slot(d + n)) > g
  BY <1>10, <1>12, <1>15, SameRing DEF Index
<1>18. ASSUME NEW k \in 1 .. g
       PROVE  /\ Slot(kept + (k - 1))' = RP!RobIndexOf(k)
              /\ RP!RobIndexOf(k) \in Index
              /\ rob_mem'[RP!RobIndexOf(k)] = RP!NewEntry(group[k])
              /\ ROB!Place(RP!RobIndexOf(k)) = k
  <2>1. Slot(kept + (k - 1))' = RP!Wrap(head' + ((c - n) + (k - 1)))
    BY <1>15 DEF Slot, ROB!Wrap, RP!Wrap
  <2> QED BY <1>11, <2>1, SameRing DEF Index
<1> QED BY <1>3, <1>4, <1>14, <1>16, <1>17, <1>18

\* The number of instructions a rewind takes out, and of those in the ROB.
Rewinding(n, store_accepted, r, occ) ==
    r = ROB!RewindNum(n, store_accepted) /\ occ = Occ

\* What a rewind that retires n instructions and takes r out does to the ROB.
RewindEffect(n, r, occ) ==
    /\ RP!RobInv'
    /\ n \in Nat /\ r \in Nat /\ occ \in 0 .. ROB_SIZE /\ n + r < occ
    /\ Occ' = (occ - n) - r
    /\ ROB!RewindDone(n) => r = (occ - n) - 1
    /\ \A d \in 0 .. (occ - n) - r - 1 :
          /\ Slot(d)' = Slot(d + n) /\ Slot(d + n) \in Index
          /\ rob_mem'[Slot(d + n)] =
                IF ROB!RewindDone(n) /\ d = 0
                THEN [rob_mem[Slot(d + n)] EXCEPT !.exception = FALSE]
                ELSE rob_mem[Slot(d + n)]
    /\ \A k \in 1 .. r : ROB!RewindIndex(k) = Slot(occ - k)

\* A cycle with a rewind retires the first n entries, takes the last r out and
\* keeps those between them; at most the faulty one, now the oldest, changes.
LEMMA RewindShape ==
    ASSUME RP!RobInv, NEW store_accepted \in BOOLEAN,
           NEW n \in ROB!RetireNum(store_accepted),
           ROB!Rewind(n, store_accepted),
           NEW r, NEW occ, Rewinding(n, store_accepted, r, occ)
    PROVE  RewindEffect(n, r, occ)
<1> USE DEF Rewinding
<1>0. RP!RobAssumption
  BY RobHypothesis
<1>1. /\ RP!TypeOK /\ RP!ValidIffLive
      /\ n \in RP!RetireNum(store_accepted)
      /\ RP!Rewind(n, store_accepted)
      /\ r = RP!RewindNum(n, store_accepted)
  BY SameCycle DEF RP!RobInv
<1>2. RP!RobInv'
  BY <1>0, <1>1, RP!RewindPreserves DEF RP!RobAssumption
<1>3. n \in Nat /\ n < RP!Occupied /\ RP!InRewindNext(n, store_accepted)
  <2>1. RP!InRewindNext(n, store_accepted)
    BY <1>1 DEF RP!Rewind
  <2> QED BY <1>0, <1>1, <2>1, RP!RewindHead DEF RP!RobAssumption
<1>4. /\ head \in 0 .. ROB_SIZE - 1 /\ tail \in 0 .. ROB_SIZE - 1 /\ ROB_SIZE \in Nat
      /\ WAY \in Nat /\ WAY > 0
      /\ RP!Occupied \in 0 .. ROB_SIZE
      /\ RP!Left(n) = RP!Occupied - n
      /\ occ = RP!Occupied
  BY <1>0, <1>1, SameRing
     DEF RP!TypeOK, RP!Index, RP!RobAssumption, RP!Occupied, RP!Left
<1>5. /\ r \in Nat /\ r <= (occ - n) - 1
      /\ RP!RewindDone(n) => r = (occ - n) - 1
  BY <1>1, <1>3, <1>4 DEF RP!RewindNum, RP!Least, RP!RewindDone
<1>6. /\ head' = RP!HeadNext(n) /\ tail' = RP!Back(tail, r) /\ is_empty' = is_empty
      /\ \A i \in RP!Index :
            rob_mem'[i] =
                IF RP!Retired(i, n) \/ RP!Rewound(i, r) THEN RP!Cleared
                ELSE IF RP!RewindDone(n) /\ i = RP!HeadNext(n)
                THEN [rob_mem[i] EXCEPT !.exception = FALSE]
                ELSE rob_mem[i]
  BY <1>1 DEF RP!Rewind
<1>7. RP!Occupied' = RP!Left(n) - r
  <2>1. r <= RP!Left(n) - 1
    BY <1>4, <1>5
  <2> QED BY <1>0, <1>1, <1>3, <1>5, <1>6, <2>1, RP!RewindRing DEF RP!RobAssumption
<1>8. /\ \/ tail + 1 = head + occ
         \/ tail + 1 = head + occ - ROB_SIZE
         \/ tail + 1 = head + occ + ROB_SIZE
      /\ head' = RP!Wrap(head + n)
      /\ occ \in 1 .. ROB_SIZE /\ n + r < occ
  BY <1>3, <1>4, <1>5, <1>6 DEF RP!Occupied, RP!HeadNext
<1>9. ASSUME NEW d \in 0 .. (occ - n) - r - 1
      PROVE  /\ RP!Wrap(head' + d) = RP!Wrap(head + (d + n))
             /\ RP!Wrap(head + (d + n)) \in RP!Index
             /\ rob_mem'[RP!Wrap(head + (d + n))] =
                   IF RP!RewindDone(n) /\ d = 0
                   THEN [rob_mem[RP!Wrap(head + (d + n))] EXCEPT !.exception = FALSE]
                   ELSE rob_mem[RP!Wrap(head + (d + n))]
  <2> DEFINE i == RP!Wrap(head + (d + n))
  <2>1. /\ RP!Wrap(head' + d) = i /\ i \in RP!Index
        /\ ~RP!Retired(i, n) /\ ~RP!Rewound(i, r)
        /\ i = RP!HeadNext(n) <=> d = 0
    BY <1>3, <1>4, <1>5, <1>8
       DEF RP!Wrap, RP!Index, RP!Dist, RP!Retired, RP!Rewound, RP!Back, RP!HeadNext
  <2> HIDE DEF i
  <2> QED BY <1>6, <2>1 DEF i
<1>10. ASSUME NEW k \in 1 .. r PROVE RP!RewindIndex(k) = RP!Wrap(head + (occ - k))
  BY <1>3, <1>4, <1>5, <1>8 DEF RP!RewindIndex, RP!Back, RP!Wrap
<1>11. Occ' = RP!Occupied' /\ \A d : Slot(d)' = RP!Wrap(head' + d)
  BY DEF Occ, Slot, ROB!Occupied, RP!Occupied, ROB!Wrap, RP!Wrap
<1>12. /\ ROB!RewindDone(n) <=> RP!RewindDone(n)
       /\ \A k : ROB!RewindIndex(k) = RP!RewindIndex(k)
  BY DEF ROB!RewindDone, RP!RewindDone, ROB!RewindIndex, RP!RewindIndex, ROB!Back, RP!Back,
         ROB!Left, RP!Left, ROB!Occupied, RP!Occupied
<1>13. \A d : Slot(d) = RP!Wrap(head + d)
  BY SameRing
<1>14. Occ' = (occ - n) - r
  BY <1>4, <1>7, <1>11
<1>15. ASSUME NEW d \in 0 .. (occ - n) - r - 1
       PROVE  /\ Slot(d)' = Slot(d + n) /\ Slot(d + n) \in Index
              /\ rob_mem'[Slot(d + n)] =
                    IF ROB!RewindDone(n) /\ d = 0
                    THEN [rob_mem[Slot(d + n)] EXCEPT !.exception = FALSE]
                    ELSE rob_mem[Slot(d + n)]
  BY <1>9, <1>11, <1>12, <1>13, SameRing DEF Index
<1> QED BY <1>2, <1>3, <1>4, <1>5, <1>8, <1>10, <1>12, <1>13, <1>14, <1>15 DEF RewindEffect

-----------------------------------------------------------------------------
(* The overlay.  Facts that are needed before and after a step are closed   *)
(* formulas.                                                                *)

\* The mapping seen by one instruction and by the next.
SeenTurns ==
    /\ \A a : SeenBy(0, a) = Committed(a)
    /\ \A a : \A d \in Nat :
          /\ Writes(d, a) => SeenBy(d + 1, a) = Tag(d)
          /\ ~Writes(d, a) => SeenBy(d + 1, a) = SeenBy(d, a)

\* It comes from the last older writer, or from the committed mapping.
SeenOrigin ==
    \A a : \A d \in Nat :
        \/ /\ \A e \in 0 .. d - 1 : ~Writes(e, a)
           /\ SeenBy(d, a) = Committed(a)
        \/ \E f \in 0 .. d - 1 :
              /\ Writes(f, a)
              /\ \A e \in f + 1 .. d - 1 : ~Writes(e, a)
              /\ SeenBy(d, a) = Tag(f)

\* A mapping comes from the youngest writer, or from the committed one.
LEMMA SeenOriginHolds == SeenOrigin
<1> SUFFICES ASSUME NEW a, NEW d \in Nat
             PROVE  \/ /\ \A e \in 0 .. d - 1 : ~Writes(e, a)
                       /\ SeenBy(d, a) = Committed(a)
                    \/ \E f \in 0 .. d - 1 :
                          /\ Writes(f, a)
                          /\ \A e \in f + 1 .. d - 1 : ~Writes(e, a)
                          /\ SeenBy(d, a) = Tag(f)
  BY DEF SeenOrigin
<1>1. CASE \A e \in 0 .. d - 1 : ~Writes(e, a)
  BY <1>1 DEF SeenBy
<1>2. CASE \E e \in 0 .. d - 1 : Writes(e, a)
  <2> DEFINE S == {e \in 0 .. d - 1 : Writes(e, a)}
             last(f) == f \in 0 .. d - 1 /\ Writes(f, a)
                        /\ \A e \in f + 1 .. d - 1 : ~Writes(e, a)
  <2>1. S \in SUBSET Nat /\ S # {} /\ \A x \in S : x <= d
    BY <1>2
  <2>2. PICK g \in S : \A y \in S : y <= g
    <3> HIDE DEF S
    <3> QED BY <2>1, GreatestElement
  <2>3. last(g)
    BY <2>2
  <2>4. SeenBy(d, a) = ROB!At(CHOOSE f \in 0 .. d - 1 :
                   Writes(f, a) /\ \A e \in f + 1 .. d - 1 : ~Writes(e, a)).T
    BY <1>2 DEF SeenBy
  <2>5. PICK f : f = CHOOSE x \in 0 .. d - 1 :
                   Writes(x, a) /\ \A e \in x + 1 .. d - 1 : ~Writes(e, a)
    OBVIOUS
  <2>6. last(f)
    BY <2>3, <2>5
  <2> QED BY <2>4, <2>5, <2>6 DEF Tag
<1> QED BY <1>1, <1>2

\* One instruction further, the mapping of the register it writes changes.
LEMMA SeenTurnsHolds == SeenTurns
<1>1. ASSUME NEW a PROVE SeenBy(0, a) = Committed(a)
  BY SeenOriginHolds DEF SeenOrigin
<1>2. ASSUME NEW a, NEW d \in Nat, Writes(d, a) PROVE SeenBy(d + 1, a) = Tag(d)
  <2>1. ASSUME \A e \in 0 .. (d + 1) - 1 : ~Writes(e, a) PROVE FALSE
    <3>1. d \in 0 .. (d + 1) - 1
      OBVIOUS
    <3> QED BY <1>2, <2>1, <3>1
  <2>2. PICK f \in 0 .. (d + 1) - 1 :
           /\ Writes(f, a)
           /\ \A e \in f + 1 .. (d + 1) - 1 : ~Writes(e, a)
           /\ SeenBy(d + 1, a) = Tag(f)
    <3>1. d + 1 \in Nat
      OBVIOUS
    <3> QED BY <2>1, <3>1, SeenOriginHolds DEF SeenOrigin
  <2>3. f = d
    <3>1. f < d => d \in f + 1 .. (d + 1) - 1
      BY <2>2
    <3> QED BY <1>2, <2>2, <3>1
  <2> QED BY <2>2, <2>3
<1>3. ASSUME NEW a, NEW d \in Nat, ~Writes(d, a) PROVE SeenBy(d + 1, a) = SeenBy(d, a)
  <2>1. CASE \A e \in 0 .. d - 1 : ~Writes(e, a)
    <3>1. ~(\E e \in 0 .. (d + 1) - 1 : Writes(e, a))
      <4>1. \A e \in 0 .. (d + 1) - 1 : e \in 0 .. d - 1 \/ e = d
        OBVIOUS
      <4> QED BY <1>3, <2>1, <4>1
    <3> QED BY <2>1, <3>1 DEF SeenBy
  <2>2. CASE \E e \in 0 .. d - 1 : Writes(e, a)
    <3>1. PICK f \in 0 .. d - 1 :
             /\ Writes(f, a)
             /\ \A e \in f + 1 .. d - 1 : ~Writes(e, a)
             /\ SeenBy(d, a) = Tag(f)
      BY <2>2, SeenOriginHolds DEF SeenOrigin
    <3>2. d + 1 \in Nat /\ f \in 0 .. (d + 1) - 1
      OBVIOUS
    <3>3. PICK g \in 0 .. (d + 1) - 1 :
             /\ Writes(g, a)
             /\ \A e \in g + 1 .. (d + 1) - 1 : ~Writes(e, a)
             /\ SeenBy(d + 1, a) = Tag(g)
      BY <3>1, <3>2, SeenOriginHolds DEF SeenOrigin
    <3>4. g # d
      BY <1>3, <3>3
    <3>5. g \in 0 .. d - 1
      BY <3>3, <3>4
    <3>6. ~(g < f) /\ ~(f < g)
      <4>1. g < f => f \in g + 1 .. (d + 1) - 1
        BY <3>1, <3>5
      <4>2. f < g => g \in f + 1 .. d - 1
        BY <3>1, <3>5
      <4> QED BY <3>1, <3>3, <4>1, <4>2
    <3>7. f = g
      BY <3>1, <3>5, <3>6
    <3> QED BY <3>1, <3>3, <3>7
  <2> QED BY <2>1, <2>2
<1> QED BY <1>1, <1>2, <1>3 DEF SeenTurns

\* Between two instructions without a writer in between nothing changes.
SeenStays ==
    \A a : \A d, e \in Nat :
        d <= e /\ (\A f \in d .. e - 1 : ~Writes(f, a)) => SeenBy(e, a) = SeenBy(d, a)

\* By cases on where the two mappings come from.
LEMMA SeenStaysHolds == SeenStays
<1> SUFFICES ASSUME NEW a, NEW d \in Nat, NEW e \in Nat, d <= e,
                    \A f \in d .. e - 1 : ~Writes(f, a)
             PROVE  SeenBy(e, a) = SeenBy(d, a)
  BY DEF SeenStays
<1> DEFINE S == {x \in d .. e : SeenBy(x, a) = SeenBy(d, a)}
<1>1. d \in S
  OBVIOUS
<1>2. ASSUME NEW x \in d .. e - 1, x \in S PROVE x + 1 \in S
  <2>1. x \in Nat /\ ~Writes(x, a) /\ x + 1 \in d .. e
    OBVIOUS
  <2>2. SeenBy(x + 1, a) = SeenBy(x, a)
    BY <2>1, SeenTurnsHolds DEF SeenTurns
  <2> QED BY <1>2, <2>1, <2>2
<1> HIDE DEF S
<1>3. \A x \in d .. e : x \in S
  BY <1>1, <1>2, IntervalInduction
<1>4. e \in S
  BY <1>3
<1> QED BY <1>4 DEF S

\* The committed mapping of a register is what its first writer replaced.
CommittedOrigin ==
    Occ \in Nat =>
    \A a :
        \/ (\A d \in Window : ~Writes(d, a)) /\ Committed(a) = map[a]
        \/ \E d \in Window :
              /\ Writes(d, a) /\ \A e \in 0 .. d - 1 : ~Writes(e, a)
              /\ Committed(a) = Old(d)

\* The committed mapping is what the oldest writer in the window replaced.
LEMMA CommittedOriginHolds == CommittedOrigin
<1> SUFFICES ASSUME Occ \in Nat, NEW a
             PROVE  \/ (\A d \in Window : ~Writes(d, a)) /\ Committed(a) = map[a]
                    \/ \E d \in Window :
                          /\ Writes(d, a) /\ \A e \in 0 .. d - 1 : ~Writes(e, a)
                          /\ Committed(a) = Old(d)
  BY DEF CommittedOrigin
<1>1. CASE \A d \in Window : ~Writes(d, a)
  BY <1>1 DEF Committed
<1>2. CASE \E d \in Window : Writes(d, a)
  <2> DEFINE S == {e \in Window : Writes(e, a)}
             first(f) == f \in Window /\ Writes(f, a)
                         /\ \A e \in 0 .. f - 1 : ~Writes(e, a)
  <2>1. S \in SUBSET Nat /\ S # {}
    BY <1>2 DEF Window, Occ
  <2>2. PICK g \in S : \A y \in S : g <= y
    <3> HIDE DEF S
    <3> QED BY <2>1, LeastElement
  <2>3. first(g)
    BY <2>2 DEF Window, Occ
  <2>4. Committed(a) = ROB!At(CHOOSE d \in Window :
                   Writes(d, a) /\ \A e \in 0 .. d - 1 : ~Writes(e, a)).Told
    BY <1>2 DEF Committed
  <2>5. PICK f : f = CHOOSE d \in Window :
                   Writes(d, a) /\ \A e \in 0 .. d - 1 : ~Writes(e, a)
    OBVIOUS
  <2>6. first(f)
    BY <2>3, <2>5
  <2> QED BY <2>4, <2>5, <2>6 DEF Old
<1> QED BY <1>1, <1>2

\* The facts above, and the overlay in the terms of this module; to be cited as one.
OverlayFacts ==
    /\ SeenTurns /\ SeenOrigin /\ SeenStays /\ CommittedOrigin
    /\ \A d, a : Writes(d, a) <=> a # 0 /\ Dest(d) = a
    /\ Window = 0 .. Occ - 1
    /\ MapIsOverlay <=>
          /\ \A o : o = Occ => \A a \in ArchReg : map[a] = SeenBy(o, a)
          /\ \A d \in Window : \A a \in ArchReg \ {0} : Writes(d, a) => Old(d) = SeenBy(d, a)

\* They hold in every state, being about definitions only ...
LEMMA OverlayFactsHold == OverlayFacts
<1>1. \A d, a : Writes(d, a) <=> a # 0 /\ Dest(d) = a
  BY DEF Writes, Dest
<1>2. Window = 0 .. Occ - 1
  BY DEF Window, Occ
<1>3. MapIsOverlay <=>
          /\ \A o : o = Occ => \A a \in ArchReg : map[a] = SeenBy(o, a)
          /\ \A d \in Window : \A a \in ArchReg \ {0} : Writes(d, a) => Old(d) = SeenBy(d, a)
  BY DEF MapIsOverlay, Occ, Old
<1> QED BY <1>1, <1>2, <1>3, SeenTurnsHolds, SeenOriginHolds, SeenStaysHolds, CommittedOriginHolds
        DEF OverlayFacts

\* ... so also after a step.
LEMMA OverlayFactsNext == OverlayFacts'
BY OverlayFactsHold, PTL

\* What retires and what stays: if the entries that stay keep their order and
\* the committed mapping becomes the one the oldest of them saw, each of them
\* sees what it saw before.
LEMMA SeenShift ==
    ASSUME NEW n \in Nat, NEW kept \in Nat, NEW a,
           \A d \in 0 .. kept - 1 : Dest(d)' = Dest(d + n) /\ Tag(d)' = Tag(d + n),
           Committed(a)' = SeenBy(n, a)
    PROVE  \A d \in 0 .. kept : SeenBy(d, a)' = SeenBy(d + n, a)
<1> DEFINE S == {d \in 0 .. kept : SeenBy(d, a)' = SeenBy(d + n, a)}
<1>1. 0 \in S
  <2>1. SeenBy(0, a)' = Committed(a)'
    BY OverlayFactsNext DEF OverlayFacts, SeenTurns
  <2>2. 0 + n = n
    OBVIOUS
  <2> QED BY <2>1, <2>2
<1>2. ASSUME NEW d \in 0 .. kept - 1, d \in S PROVE d + 1 \in S
  <2>1. d \in Nat /\ d + n \in Nat /\ (d + 1) + n = (d + n) + 1 /\ d + 1 \in 0 .. kept
    OBVIOUS
  <2>2. Writes(d, a)' <=> Writes(d + n, a)
    BY OverlayFactsHold, OverlayFactsNext DEF OverlayFacts
  <2>3. CASE Writes(d + n, a)
    <3>1. SeenBy((d + n) + 1, a) = Tag(d + n)
      BY <2>1, <2>3, OverlayFactsHold DEF OverlayFacts, SeenTurns
    <3>2. SeenBy(d + 1, a)' = Tag(d)'
      BY <2>1, <2>2, <2>3, OverlayFactsNext DEF OverlayFacts, SeenTurns
    <3> QED BY <2>1, <3>1, <3>2
  <2>4. CASE ~Writes(d + n, a)
    <3>1. SeenBy((d + n) + 1, a) = SeenBy(d + n, a)
      BY <2>1, <2>4, OverlayFactsHold DEF OverlayFacts, SeenTurns
    <3>2. SeenBy(d + 1, a)' = SeenBy(d, a)'
      BY <2>1, <2>2, <2>4, OverlayFactsNext DEF OverlayFacts, SeenTurns
    <3> QED BY <1>2, <2>1, <3>1, <3>2
  <2> QED BY <2>3, <2>4
<1> HIDE DEF S
<1>3. \A d \in 0 .. kept : d \in S
  BY <1>1, <1>2, IntervalInduction
<1> QED BY <1>3 DEF S

\* A cycle that retires n instructions, keeps the next ones and renames a group
\* behind them; m[k] is the map table after k instructions of the group.
Renaming(n, kept, dests, tags, m) ==
    /\ Len(dests) \in Nat
    /\ Occ' = kept + Len(dests)
    /\ \A d \in 0 .. kept - 1 :
          Dest(d)' = Dest(d + n) /\ Tag(d)' = Tag(d + n) /\ Old(d)' = Old(d + n)
    /\ \A k \in 1 .. Len(dests) :
          /\ Dest(kept + (k - 1))' = dests[k] /\ dests[k] \in ArchReg
          /\ Tag(kept + (k - 1))' = tags[k]
          /\ dests[k] # 0 => Old(kept + (k - 1))' = m[k - 1][dests[k]]
    /\ m[0] = map
    /\ \A k \in 1 .. Len(dests) :
          m[k] = [a \in ArchReg |-> IF a # 0 /\ a = dests[k] THEN tags[k] ELSE m[k - 1][a]]
    /\ \A a \in ArchReg, k \in 0 .. Len(dests) :
          (\A j \in 1 .. k : a # 0 => dests[j] # a) => m[k][a] = map[a]
    /\ map' = m[Len(dests)]

\* A dispatch group extends the overlay: the maps between its instructions are
\* what they see.
LEMMA DispatchOverlay ==
    ASSUME Occ \in Nat, MapIsOverlay,
           NEW n \in Nat, NEW kept \in Nat, kept = Occ - n, n <= Occ,
           NEW dests, NEW tags, NEW m, Renaming(n, kept, dests, tags, m)
    PROVE  /\ \A a \in ArchReg : Committed(a)' = SeenBy(n, a)
           /\ \A a \in ArchReg : \A d \in 0 .. kept : SeenBy(d, a)' = SeenBy(d + n, a)
           /\ \A a \in ArchReg : \A k \in 0 .. Len(dests) : m[k][a] = SeenBy(kept + k, a)'
           /\ MapIsOverlay'
<1> USE DEF Renaming
<1> DEFINE L == Len(dests)
<1>0. OverlayFacts /\ OverlayFacts'
  BY OverlayFactsHold, OverlayFactsNext
<1>1. ASSUME NEW d \in 0 .. kept - 1, NEW a PROVE Writes(d, a)' <=> Writes(d + n, a)
  BY <1>0 DEF OverlayFacts
<1>2. ASSUME NEW k \in 1 .. L, NEW a
      PROVE  Writes(kept + (k - 1), a)' <=> a # 0 /\ dests[k] = a
  BY <1>0 DEF OverlayFacts
\* A register without a writer among those that stay.
<1>3. ASSUME NEW a \in ArchReg, \A d \in 0 .. kept - 1 : ~Writes(d, a)'
      PROVE  map[a] = SeenBy(n, a)
  <2>1. \A f \in n .. Occ - 1 : ~Writes(f, a)
    <3> TAKE f \in n .. Occ - 1
    <3>1. f - n \in 0 .. kept - 1 /\ (f - n) + n = f
      OBVIOUS
    <3>2. Writes(f - n, a)' <=> Writes((f - n) + n, a)
      <4> PICK d \in 0 .. kept - 1 : d = f - n
        BY <3>1
      <4> QED BY <1>1
    <3> QED BY <1>3, <3>1, <3>2
  <2>2. SeenBy(Occ, a) = SeenBy(n, a)
    BY <1>0, <2>1 DEF OverlayFacts, SeenStays
  <2> QED BY <2>2 DEF MapIsOverlay, Occ
<1>4. ASSUME NEW a \in ArchReg PROVE Committed(a)' = SeenBy(n, a)
  <2>1. \/ (\A d \in Window' : ~Writes(d, a)') /\ Committed(a)' = map'[a]
        \/ \E d \in Window' :
              /\ Writes(d, a)' /\ \A e \in 0 .. d - 1 : ~Writes(e, a)'
              /\ Committed(a)' = Old(d)'
    <3>1. Occ' \in Nat
      OBVIOUS
    <3>2. CommittedOrigin'
      BY <1>0 DEF OverlayFacts
    <3> QED BY <3>1, <3>2 DEF CommittedOrigin
  <2>2. Window' = 0 .. (kept + L) - 1
    BY <1>0 DEF OverlayFacts
  <2>3. CASE (\A d \in Window' : ~Writes(d, a)') /\ Committed(a)' = map'[a]
    <3>1. \A d \in 0 .. kept - 1 : ~Writes(d, a)'
      BY <2>2, <2>3
    <3>2. ASSUME NEW j \in 1 .. L, a # 0 PROVE dests[j] # a
      <4>1. kept + (j - 1) \in Window'
        BY <2>2
      <4>2. ~Writes(kept + (j - 1), a)'
        BY <2>3, <4>1
      <4> QED BY <1>2, <3>2, <4>2
    <3>3. map'[a] = map[a]
      BY <3>2
    <3> QED BY <1>3, <2>3, <3>1, <3>3
  <2>4. ASSUME NEW d \in Window',
               Writes(d, a)', \A e \in 0 .. d - 1 : ~Writes(e, a)',
               Committed(a)' = Old(d)'
        PROVE  Committed(a)' = SeenBy(n, a)
    <3>0. d \in Nat /\ d < kept + L
      BY <2>2
    <3>1. CASE d < kept
      <4>1. d \in 0 .. kept - 1 /\ d + n \in Nat /\ d + n \in Window
        BY <1>0, <3>0, <3>1 DEF OverlayFacts
      <4>2. Writes(d + n, a) /\ a # 0
        BY <1>0, <1>1, <2>4, <4>1 DEF OverlayFacts
      <4>3. Old(d)' = SeenBy(d + n, a)
        BY <1>0, <4>1, <4>2 DEF OverlayFacts
      <4>4. \A f \in n .. (d + n) - 1 : ~Writes(f, a)
        <5> TAKE f \in n .. (d + n) - 1
        <5>1. PICK e \in 0 .. d - 1 : e + n = f
          <6>1. f - n \in 0 .. d - 1 /\ (f - n) + n = f
            BY <3>0
          <6> QED BY <6>1
        <5>2. e \in 0 .. kept - 1
          BY <3>0, <3>1
        <5> QED BY <1>1, <2>4, <5>1, <5>2
      <4>5. SeenBy(d + n, a) = SeenBy(n, a)
        BY <1>0, <4>1, <4>4 DEF OverlayFacts, SeenStays
      <4> QED BY <2>4, <4>3, <4>5
    <3>2. CASE d >= kept
      <4>1. PICK k \in 1 .. L : d = kept + (k - 1)
        <5>1. (d - kept) + 1 \in 1 .. L /\ d = kept + (((d - kept) + 1) - 1)
          BY <3>0, <3>2
        <5> QED BY <5>1
      <4>2. a # 0 /\ dests[k] = a
        BY <1>2, <2>4, <4>1
      <4>3. Old(d)' = m[k - 1][a]
        BY <4>1, <4>2
      <4>4. ASSUME NEW j \in 1 .. k - 1 PROVE dests[j] # a
        <5>1. kept + (j - 1) \in 0 .. d - 1 /\ j \in 1 .. L
          BY <4>1
        <5>2. ~Writes(kept + (j - 1), a)'
          BY <2>4, <5>1
        <5> QED BY <1>2, <4>2, <5>1, <5>2
      <4>5. k - 1 \in 0 .. L
        OBVIOUS
      <4>6. m[k - 1][a] = map[a]
        BY <4>4, <4>5
      <4>7. \A e \in 0 .. kept - 1 : ~Writes(e, a)'
        BY <2>4, <3>0, <3>2
      <4> QED BY <1>3, <2>4, <4>3, <4>6, <4>7
    <3> QED BY <3>0, <3>1, <3>2
  <2> QED BY <2>1, <2>3, <2>4
<1>5. ASSUME NEW a \in ArchReg
      PROVE  \A d \in 0 .. kept : SeenBy(d, a)' = SeenBy(d + n, a)
  BY <1>4, SeenShift
<1>6. ASSUME NEW a \in ArchReg
      PROVE  \A k \in 0 .. L : m[k][a] = SeenBy(kept + k, a)'
  <2> DEFINE S == {k \in 0 .. L : m[k][a] = SeenBy(kept + k, a)'}
  <2>1. 0 \in S
    <3>1. kept \in 0 .. kept /\ kept + n = Occ /\ kept + 0 = kept
      OBVIOUS
    <3>2. SeenBy(kept, a)' = SeenBy(Occ, a)
      BY <1>5, <3>1
    <3>3. m[0][a] = SeenBy(Occ, a)
      BY <1>0 DEF OverlayFacts
    <3> QED BY <3>1, <3>2, <3>3
  <2>2. ASSUME NEW j \in 0 .. L - 1, j \in S PROVE j + 1 \in S
    <3>1. PICK k \in 1 .. L : k = j + 1 /\ k - 1 = j
      OBVIOUS
    <3>2. PICK d \in Nat : d = kept + (k - 1) /\ d + 1 = kept + k /\ kept + j = d
      <4>1. kept + (k - 1) \in Nat /\ (kept + (k - 1)) + 1 = kept + k
            /\ kept + j = kept + (k - 1)
        BY <3>1
      <4> QED BY <4>1
    <3>3. m[k][a] = IF a # 0 /\ a = dests[k] THEN tags[k] ELSE m[k - 1][a]
      <4>1. m[k] = [b \in ArchReg |-> IF b # 0 /\ b = dests[k] THEN tags[k] ELSE m[k - 1][b]]
        OBVIOUS
      <4> QED BY <4>1
    <3>4. m[k - 1][a] = SeenBy(d, a)'
      BY <2>2, <3>1, <3>2
    <3>5. Tag(d)' = tags[k] /\ (Writes(d, a)' <=> a # 0 /\ dests[k] = a)
      BY <1>2, <3>2
    <3>6. /\ Writes(d, a)' => SeenBy(d + 1, a)' = Tag(d)'
          /\ ~Writes(d, a)' => SeenBy(d + 1, a)' = SeenBy(d, a)'
      BY <1>0 DEF OverlayFacts, SeenTurns
    <3>7. m[k][a] = SeenBy(kept + k, a)'
      BY <3>2, <3>3, <3>4, <3>5, <3>6
    <3> QED BY <3>1, <3>7
  <2> HIDE DEF S
  <2>3. \A k \in 0 .. L : k \in S
    BY <2>1, <2>2, IntervalInduction
  <2> QED BY <2>3 DEF S
<1>7. MapIsOverlay'
  <2>1. ASSUME NEW a \in ArchReg PROVE map'[a] = SeenBy(kept + L, a)'
    BY <1>6
  <2>2. ASSUME NEW d \in Window', NEW a \in ArchReg \ {0}, Writes(d, a)'
        PROVE  Old(d)' = SeenBy(d, a)'
    <3>0. d \in Nat /\ d < kept + L
      BY <1>0 DEF OverlayFacts
    <3>1. CASE d < kept
      <4>1. d \in 0 .. kept - 1 /\ d \in 0 .. kept /\ d + n \in Window
        BY <1>0, <3>0, <3>1 DEF OverlayFacts
      <4>2. Writes(d + n, a)
        BY <1>1, <2>2, <4>1
      <4>3. Old(d + n) = SeenBy(d + n, a)
        BY <1>0, <4>1, <4>2 DEF OverlayFacts
      <4> QED BY <1>5, <4>1, <4>3
    <3>2. CASE d >= kept
      <4>1. PICK k \in 1 .. L : d = kept + (k - 1)
        <5>1. (d - kept) + 1 \in 1 .. L /\ d = kept + (((d - kept) + 1) - 1)
          BY <3>0, <3>2
        <5> QED BY <5>1
      <4>2. a # 0 /\ dests[k] = a
        BY <1>2, <2>2, <4>1
      <4>3. Old(d)' = m[k - 1][a]
        BY <4>1, <4>2
      <4>4. k - 1 \in 0 .. L
        OBVIOUS
      <4> QED BY <1>6, <4>1, <4>3, <4>4
    <3> QED BY <3>0, <3>1, <3>2
  <2>3. \A o : o = Occ' => \A a \in ArchReg : map'[a] = SeenBy(o, a)'
    BY <2>1
  <2> QED BY <1>0, <2>2, <2>3 DEF OverlayFacts
<1> QED BY <1>4, <1>5, <1>6, <1>7

-----------------------------------------------------------------------------
(* The invariant: who owns the physical registers.                          *)

\* The registers in the ring of the free list.
FreeRegs == FLP!FreeRegs

\* The committed mappings, the registers given to instructions in the ROB and
\* the free ones are all different, and there is no other register.
Ownership ==
    /\ \A a, b \in ArchReg : Committed(a) = Committed(b) => a = b
    /\ \A d, e \in Window : Tag(d) # 0 /\ Tag(d) = Tag(e) => d = e
    /\ \A d \in Window, a \in ArchReg : Tag(d) # 0 => Tag(d) # Committed(a)
    /\ \A a \in ArchReg : Committed(a) \notin FreeRegs
    /\ \A d \in Window : Tag(d) \notin FreeRegs
    /\ \A p \in PhyReg :
          \/ \E a \in ArchReg : p = Committed(a)
          \/ \E d \in Window : p # 0 /\ p = Tag(d)
          \/ p \in FreeRegs

\* Registers are well typed and register 0 keeps its mapping.
WellTyped ==
    /\ Occ \in Nat
    /\ \A d \in Window : Dest(d) \in ArchReg /\ Tag(d) \in PhyReg /\ Old(d) \in PhyReg
    /\ map \in [ArchReg -> PhyReg]
    /\ map[0] = 0

\* The inductive invariant: of each component by itself, and what they hold together.
RenameInv ==
    /\ RP!RobInv
    /\ FLP!RingExact /\ FLP!RingDistinct
    /\ MT!TypeOK /\ map[0] = 0
    /\ MapIsOverlay
    /\ DestinationsRenamed
    /\ Ownership

\* An occupied ROB entry holds registers.
LEMMA InvTypes == RenameInv => WellTyped
<1> SUFFICES ASSUME RenameInv PROVE WellTyped
  OBVIOUS
<1>0. RP!RobAssumption
  BY RobHypothesis
<1>1. RP!TypeOK /\ MT!TypeOK /\ map[0] = 0
  BY DEF RenameInv, RP!RobInv
<1>2. RP!Occupied \in 0 .. ROB_SIZE
  BY <1>0, <1>1 DEF RP!TypeOK, RP!Occupied, RP!Index, RP!RobAssumption
<1>3. Occ \in 0 .. ROB_SIZE /\ Occ \in Nat
  BY <1>2, SameRing
<1>4. ASSUME NEW d \in Window
      PROVE  Dest(d) \in ArchReg /\ Tag(d) \in PhyReg /\ Old(d) \in PhyReg
  <2>1. d \in 0 .. Occ - 1
    BY OverlayFactsHold DEF OverlayFacts
  <2>2. d \in 0 .. ROB_SIZE - 1
    BY <1>0, <1>3, <2>1 DEF RP!RobAssumption
  <2>3. RP!Wrap(head + d) \in RP!Index
    BY <1>0, <1>1, <2>2 DEF RP!TypeOK, RP!Wrap, RP!Index, RP!RobAssumption
  <2>4. ROB!At(d) \in RP!Entry
    BY <1>1, <2>3, SameRing DEF RP!TypeOK
  <2> QED BY <2>4 DEF RP!Entry, Dest, Tag, Old
<1>5. map \in [ArchReg -> PhyReg]
  BY <1>1 DEF MT!TypeOK, MT!ArchReg, ArchReg
<1> QED BY <1>1, <1>3, <1>4, <1>5 DEF WellTyped

\* What an instruction sees of a register tells which register it is, and no
\* older instruction sees the same unless nothing in between writes it.
SeenDistinct ==
    /\ \A a, b \in ArchReg : \A d, e \in 0 .. Occ :
          d <= e /\ SeenBy(d, a) = SeenBy(e, b) =>
             a = b /\ \A f \in d .. e - 1 : ~Writes(f, a)
    /\ \A a \in ArchReg : \A d \in 0 .. Occ : \A f \in Window :
          d <= f /\ Tag(f) # 0 => SeenBy(d, a) # Tag(f)
    /\ \A a \in ArchReg : \A d \in 0 .. Occ :
          SeenBy(d, a) \in PhyReg /\ SeenBy(d, a) \notin FreeRegs
    /\ \A d \in 0 .. Occ : SeenBy(d, 0) = 0
    /\ 0 \notin FreeRegs

\* It follows from who owns the registers.
LEMMA SeenDistinctHolds == RenameInv => SeenDistinct
<1> SUFFICES ASSUME RenameInv PROVE SeenDistinct
  OBVIOUS
<1>0. OverlayFacts /\ WellTyped /\ Ownership /\ DestinationsRenamed
  BY OverlayFactsHold, InvTypes DEF RenameInv
<1>1. Window = 0 .. Occ - 1 /\ Occ \in Nat /\ 0 \in ArchReg
  BY <1>0, RenameAssumption DEF OverlayFacts, WellTyped, ArchReg
\* The two origins of a mapping.
<1>2. ASSUME NEW a \in ArchReg, NEW d \in 0 .. Occ
      PROVE  \/ /\ \A e \in 0 .. d - 1 : ~Writes(e, a)
                /\ SeenBy(d, a) = Committed(a)
             \/ \E f \in 0 .. d - 1 :
                   /\ f \in Window /\ Writes(f, a) /\ a # 0 /\ Dest(f) = a
                   /\ \A e \in f + 1 .. d - 1 : ~Writes(e, a)
                   /\ SeenBy(d, a) = Tag(f) /\ Tag(f) # 0
  <2>1. d \in Nat /\ \A f \in 0 .. d - 1 : f \in Window
    BY <1>1
  <2>2. \A f \in Window : Writes(f, a) => a # 0 /\ Dest(f) = a /\ Tag(f) # 0
    BY <1>0 DEF OverlayFacts, DestinationsRenamed, Dest, Tag
  <2> QED BY <1>0, <2>1, <2>2 DEF OverlayFacts, SeenOrigin
<1>3. ASSUME NEW a \in ArchReg, NEW b \in ArchReg, NEW d \in 0 .. Occ, NEW e \in 0 .. Occ,
             d <= e, SeenBy(d, a) = SeenBy(e, b)
      PROVE  a = b /\ \A f \in d .. e - 1 : ~Writes(f, a)
  <2>1. CASE /\ \A g \in 0 .. d - 1 : ~Writes(g, a)
             /\ SeenBy(d, a) = Committed(a)
    <3>1. SeenBy(e, b) = Committed(a)
      BY <1>3, <2>1
    <3>2. (\A g \in 0 .. e - 1 : ~Writes(g, b)) /\ SeenBy(e, b) = Committed(b)
      BY <1>0, <1>2, <3>1 DEF Ownership
    <3>3. a = b
      BY <1>0, <3>1, <3>2 DEF Ownership
    <3> QED BY <3>2, <3>3
  <2>2. CASE \E f \in 0 .. d - 1 :
                   /\ f \in Window /\ Writes(f, a) /\ a # 0 /\ Dest(f) = a
                   /\ \A g \in f + 1 .. d - 1 : ~Writes(g, a)
                   /\ SeenBy(d, a) = Tag(f) /\ Tag(f) # 0
    <3>1. PICK f \in 0 .. d - 1 :
                   /\ f \in Window /\ Writes(f, a) /\ a # 0 /\ Dest(f) = a
                   /\ \A g \in f + 1 .. d - 1 : ~Writes(g, a)
                   /\ SeenBy(d, a) = Tag(f) /\ Tag(f) # 0
      BY <2>2
    <3>2. PICK g \in 0 .. e - 1 :
                   /\ g \in Window /\ Writes(g, b) /\ b # 0 /\ Dest(g) = b
                   /\ \A h \in g + 1 .. e - 1 : ~Writes(h, b)
                   /\ SeenBy(e, b) = Tag(g) /\ Tag(g) # 0
      BY <1>0, <1>2, <1>3, <3>1 DEF Ownership
    <3>3. f = g
      BY <1>0, <1>3, <3>1, <3>2 DEF Ownership
    <3> QED BY <3>1, <3>2, <3>3
  <2> QED BY <1>2, <2>1, <2>2
<1>4. ASSUME NEW a \in ArchReg, NEW d \in 0 .. Occ, NEW f \in Window,
             d <= f, Tag(f) # 0, SeenBy(d, a) = Tag(f)
      PROVE  FALSE
  <2>1. SeenBy(d, a) # Committed(a)
    BY <1>0, <1>4 DEF Ownership
  <2>2. PICK g \in 0 .. d - 1 : g \in Window /\ SeenBy(d, a) = Tag(g)
    BY <1>2, <2>1
  <2>3. g = f
    BY <1>0, <1>4, <2>2 DEF Ownership
  <2> QED BY <1>1, <1>4, <2>3
<1>5. ASSUME NEW a \in ArchReg PROVE Committed(a) \in PhyReg
  BY <1>0 DEF OverlayFacts, CommittedOrigin, WellTyped
<1>6. ASSUME NEW a \in ArchReg, NEW d \in 0 .. Occ
      PROVE  SeenBy(d, a) \in PhyReg /\ SeenBy(d, a) \notin FreeRegs
  BY <1>0, <1>2, <1>5 DEF WellTyped, Ownership
<1>7. Committed(0) = 0
  BY <1>0 DEF OverlayFacts, CommittedOrigin, WellTyped
<1>8. ASSUME NEW d \in 0 .. Occ PROVE SeenBy(d, 0) = 0
  BY <1>1, <1>2, <1>7
<1>9. 0 \notin FreeRegs
  BY <1>0, <1>1, <1>7 DEF Ownership
<1> QED BY <1>3, <1>4, <1>6, <1>8, <1>9 DEF SeenDistinct

-----------------------------------------------------------------------------
(* The overlay across a rewind.                                             *)

\* The maps m while the youngest r instructions are undone one by one.
Undoing(r, occ, reg_T, reg_Told, m) ==
    /\ \A k \in 1 .. r : reg_T[k] = Tag(occ - k) /\ reg_Told[k] = Old(occ - k)
    /\ m[0] = map
    /\ \A k \in 1 .. r :
          m[k] = [a \in ArchReg |->
                    IF m[k - 1][a] = reg_T[k] THEN reg_Told[k] ELSE m[k - 1][a]]

\* Undoing the renamings youngest first goes back through what the instructions
\* saw.
LEMMA RewindMaps ==
    ASSUME RenameInv, NEW r \in Nat, NEW occ, occ = Occ, r <= occ,
           NEW reg_T, NEW reg_Told, NEW m, Undoing(r, occ, reg_T, reg_Told, m)
    PROVE  \A a \in ArchReg : \A k \in 0 .. r : m[k][a] = SeenBy(occ - k, a)
<1> USE DEF Undoing
<1>0. OverlayFacts /\ WellTyped /\ DestinationsRenamed /\ SeenDistinct /\ MapIsOverlay
  BY OverlayFactsHold, InvTypes, SeenDistinctHolds DEF RenameInv
<1>1. Window = 0 .. occ - 1 /\ occ \in Nat /\ 0 \in ArchReg
  BY <1>0, RenameAssumption DEF OverlayFacts, WellTyped, ArchReg
<1> SUFFICES ASSUME NEW a \in ArchReg PROVE \A k \in 0 .. r : m[k][a] = SeenBy(occ - k, a)
  OBVIOUS
<1> DEFINE S == {k \in 0 .. r : m[k][a] = SeenBy(occ - k, a)}
<1>2. 0 \in S
  <2>1. occ - 0 = occ
    BY <1>1
  <2>2. m[0][a] = SeenBy(occ, a)
    BY <1>0 DEF OverlayFacts
  <2> QED BY <2>1, <2>2
<1>3. ASSUME NEW j \in 0 .. r - 1, j \in S PROVE j + 1 \in S
  <2>1. PICK k \in 1 .. r : k = j + 1 /\ k - 1 = j
    OBVIOUS
  <2>2. PICK d \in Window : d = occ - k /\ d + 1 = occ - j /\ d \in 0 .. occ /\ d + 1 \in 0 .. occ
                            /\ d \in Nat
    <3>1. occ - k \in 0 .. occ - 1 /\ (occ - k) + 1 = occ - j
      BY <1>1, <2>1
    <3> QED BY <1>1, <3>1
  <2>3. m[k][a] = IF m[k - 1][a] = reg_T[k] THEN reg_Told[k] ELSE m[k - 1][a]
    <3>1. m[k] = [b \in ArchReg |->
                    IF m[k - 1][b] = reg_T[k] THEN reg_Told[k] ELSE m[k - 1][b]]
      OBVIOUS
    <3> QED BY <3>1
  <2>4. m[k - 1][a] = SeenBy(d + 1, a) /\ reg_T[k] = Tag(d) /\ reg_Told[k] = Old(d)
    BY <1>3, <2>1, <2>2
  <2>5. /\ Dest(d) \in ArchReg
        /\ Dest(d) = 0 <=> Tag(d) = 0
        /\ Dest(d) = 0 <=> Old(d) = 0
        /\ \A b : Writes(d, b) <=> b # 0 /\ Dest(d) = b
    BY <1>0 DEF WellTyped, DestinationsRenamed, OverlayFacts, Dest, Tag, Old
  <2>6. /\ Writes(d, a) => SeenBy(d + 1, a) = Tag(d)
        /\ ~Writes(d, a) => SeenBy(d + 1, a) = SeenBy(d, a)
        /\ Writes(d, Dest(d)) => SeenBy(d + 1, Dest(d)) = Tag(d)
    BY <1>0, <2>2 DEF OverlayFacts, SeenTurns
  <2>7. m[k][a] = SeenBy(d, a)
    <3>1. CASE Writes(d, a)
      <4>1. a \in ArchReg \ {0}
        BY <2>5, <3>1
      <4>2. Old(d) = SeenBy(d, a)
        BY <1>0, <3>1, <4>1 DEF OverlayFacts
      <4> QED BY <2>3, <2>4, <2>6, <3>1, <4>2
    <3>2. CASE ~Writes(d, a)
      <4>1. CASE SeenBy(d + 1, a) # Tag(d)
        BY <2>3, <2>4, <2>6, <3>2, <4>1
      <4>2. CASE SeenBy(d + 1, a) = Tag(d) /\ Tag(d) # 0
        <5>1. SeenBy(d + 1, a) = SeenBy(d + 1, Dest(d))
          BY <2>5, <2>6, <4>2
        <5>2. a = Dest(d)
          BY <1>0, <2>2, <2>5, <5>1 DEF SeenDistinct
        <5> QED BY <2>5, <3>2, <4>2, <5>2
      <4>3. CASE SeenBy(d + 1, a) = Tag(d) /\ Tag(d) = 0
        <5>1. SeenBy(d, a) = 0 /\ Old(d) = 0
          BY <2>5, <2>6, <3>2, <4>3
        <5> QED BY <2>3, <2>4, <4>3, <5>1
      <4> QED BY <4>1, <4>2, <4>3
    <3> QED BY <3>1, <3>2
  <2> QED BY <2>1, <2>2, <2>7
<1> HIDE DEF S
<1>4. \A k \in 0 .. r : k \in S
  BY <1>2, <1>3, IntervalInduction
<1> QED BY <1>4 DEF S

\* A rewind takes the youngest instructions off the overlay.
LEMMA RewindOverlay ==
    ASSUME RenameInv,
           NEW n \in Nat, NEW r \in Nat, NEW kept \in Nat, NEW occ, occ = Occ,
           occ \in Nat, kept = (occ - n) - r,
           Occ' = kept,
           \A d \in 0 .. kept - 1 :
              Dest(d)' = Dest(d + n) /\ Tag(d)' = Tag(d + n) /\ Old(d)' = Old(d + n),
           \A a \in ArchReg : map'[a] = SeenBy(occ - r, a)
    PROVE  /\ \A a \in ArchReg : Committed(a)' = SeenBy(n, a)
           /\ \A a \in ArchReg : \A d \in 0 .. kept : SeenBy(d, a)' = SeenBy(d + n, a)
           /\ MapIsOverlay'
<1>0. OverlayFacts /\ OverlayFacts' /\ MapIsOverlay
  BY OverlayFactsHold, OverlayFactsNext DEF RenameInv
<1>1. ASSUME NEW d \in 0 .. kept - 1, NEW a PROVE Writes(d, a)' <=> Writes(d + n, a)
  BY <1>0 DEF OverlayFacts
<1>2. Window' = 0 .. kept - 1 /\ Window = 0 .. occ - 1 /\ kept + n = occ - r /\ kept + n \in Nat
  BY <1>0 DEF OverlayFacts
<1>3. ASSUME NEW a, NEW d \in 0 .. kept, \A e \in 0 .. d - 1 : ~Writes(e, a)'
      PROVE  SeenBy(d + n, a) = SeenBy(n, a)
  <2>1. ASSUME NEW f \in n .. (d + n) - 1 PROVE ~Writes(f, a)
    <3>1. PICK e \in 0 .. d - 1 : e + n = f
      <4>1. f - n \in 0 .. d - 1 /\ (f - n) + n = f
        OBVIOUS
      <4> QED BY <4>1
    <3>2. e \in 0 .. kept - 1
      OBVIOUS
    <3> QED BY <1>1, <1>3, <3>1, <3>2
  <2>2. d + n \in Nat /\ n <= d + n
    OBVIOUS
  <2> QED BY <1>0, <2>1, <2>2 DEF OverlayFacts, SeenStays
<1>4. ASSUME NEW a \in ArchReg PROVE Committed(a)' = SeenBy(n, a)
  <2>1. \/ (\A d \in Window' : ~Writes(d, a)') /\ Committed(a)' = map'[a]
        \/ \E d \in Window' :
              /\ Writes(d, a)' /\ \A e \in 0 .. d - 1 : ~Writes(e, a)'
              /\ Committed(a)' = Old(d)'
    <3>1. Occ' \in Nat
      OBVIOUS
    <3>2. CommittedOrigin'
      BY <1>0 DEF OverlayFacts
    <3> QED BY <3>1, <3>2 DEF CommittedOrigin
  <2>2. CASE (\A d \in Window' : ~Writes(d, a)') /\ Committed(a)' = map'[a]
    <3>1. kept \in 0 .. kept /\ \A e \in 0 .. kept - 1 : ~Writes(e, a)'
      BY <1>2, <2>2
    <3>2. SeenBy(kept + n, a) = SeenBy(n, a)
      BY <1>3, <3>1
    <3> QED BY <1>2, <2>2, <3>2
  <2>3. ASSUME NEW d \in Window',
               Writes(d, a)', \A e \in 0 .. d - 1 : ~Writes(e, a)',
               Committed(a)' = Old(d)'
        PROVE  Committed(a)' = SeenBy(n, a)
    <3>1. d \in 0 .. kept - 1 /\ d \in 0 .. kept /\ d + n \in Window
      BY <1>2
    <3>2. Writes(d + n, a) /\ a # 0
      BY <1>0, <1>1, <2>3, <3>1 DEF OverlayFacts
    <3>3. Old(d)' = SeenBy(d + n, a)
      BY <1>0, <3>1, <3>2 DEF OverlayFacts
    <3>4. SeenBy(d + n, a) = SeenBy(n, a)
      BY <1>3, <2>3, <3>1
    <3> QED BY <2>3, <3>3, <3>4
  <2> QED BY <2>1, <2>2, <2>3
<1>5. ASSUME NEW a \in ArchReg
      PROVE  \A d \in 0 .. kept : SeenBy(d, a)' = SeenBy(d + n, a)
  BY <1>4, SeenShift
<1>6. MapIsOverlay'
  <2>1. ASSUME NEW a \in ArchReg PROVE map'[a] = SeenBy(kept, a)'
    <3>1. kept \in 0 .. kept
      OBVIOUS
    <3> QED BY <1>2, <1>5, <3>1
  <2>2. ASSUME NEW d \in Window', NEW a \in ArchReg \ {0}, Writes(d, a)'
        PROVE  Old(d)' = SeenBy(d, a)'
    <3>1. d \in 0 .. kept - 1 /\ d \in 0 .. kept /\ d + n \in Window
      BY <1>2
    <3>2. Writes(d + n, a)
      BY <1>1, <2>2, <3>1
    <3>3. Old(d + n) = SeenBy(d + n, a)
      BY <1>0, <3>1, <3>2 DEF OverlayFacts
    <3> QED BY <1>5, <3>1, <3>3
  <2>3. \A o : o = Occ' => \A a \in ArchReg : map'[a] = SeenBy(o, a)'
    BY <2>1
  <2> QED BY <1>0, <2>2, <2>3 DEF OverlayFacts
<1> QED BY <1>4, <1>5, <1>6

-----------------------------------------------------------------------------
(* The owners of the registers across a step.                               *)

\* What the first n instructions replace, and what the last r were given.
Freed(n) == {Old(d) : d \in 0 .. n - 1} \ {0}
Undone(occ, r) == {Tag(d) : d \in occ - r .. occ - 1} \ {0}

\* A register seen before the n-th instruction is freed by the first n, or
\* still seen there.
LEMMA FreedOrSeen ==
    ASSUME RenameInv, NEW n \in 0 .. Occ, NEW a \in ArchReg, NEW d \in 0 .. n
    PROVE  SeenBy(d, a) \in Freed(n) \/ SeenBy(d, a) = SeenBy(n, a)
<1>0. OverlayFacts /\ WellTyped /\ DestinationsRenamed /\ MapIsOverlay
  BY OverlayFactsHold, InvTypes DEF RenameInv
<1>1. Window = 0 .. Occ - 1 /\ Occ \in Nat /\ n \in Nat
  BY <1>0 DEF OverlayFacts, WellTyped
<1>2. CASE \A f \in d .. n - 1 : ~Writes(f, a)
  <2>1. d \in Nat /\ d <= n
    BY <1>1
  <2> QED BY <1>0, <1>1, <1>2, <2>1 DEF OverlayFacts, SeenStays
<1>3. CASE \E f \in d .. n - 1 : Writes(f, a)
  <2> DEFINE S == {f \in d .. n - 1 : Writes(f, a)}
  <2>1. S \in SUBSET Nat /\ S # {}
    BY <1>1, <1>3
  <2>2. PICK e \in S : \A y \in S : e <= y
    <3> HIDE DEF S
    <3> QED BY <2>1, LeastElement
  <2>3. e \in Nat /\ d \in Nat /\ d <= e /\ e \in Window /\ e \in 0 .. n - 1 /\ Writes(e, a)
    BY <1>1, <2>2
  <2>4. \A f \in d .. e - 1 : ~Writes(f, a)
    BY <1>1, <2>2
  <2>5. SeenBy(e, a) = SeenBy(d, a)
    BY <1>0, <2>3, <2>4 DEF OverlayFacts, SeenStays
  <2>6. a # 0 /\ Dest(e) = a
    BY <1>0, <2>3 DEF OverlayFacts
  <2>7. Old(e) = SeenBy(e, a)
    BY <1>0, <2>3, <2>6 DEF OverlayFacts
  <2>8. Old(e) # 0
    BY <1>0, <2>3, <2>6 DEF DestinationsRenamed, Dest, Old
  <2> QED BY <2>3, <2>5, <2>7, <2>8 DEF Freed
<1> QED BY <1>2, <1>3

\* Each register freed was seen by an instruction that retires, and is not seen
\* by the ones behind it.
LEMMA FreedFacts ==
    ASSUME RenameInv, NEW n \in 0 .. Occ
    PROVE  /\ \A a \in ArchReg : SeenBy(n, a) \notin Freed(n)
           /\ \A f \in Window : n <= f /\ Tag(f) # 0 => Tag(f) \notin Freed(n)
           /\ Freed(n) \cap FreeRegs = {}
           /\ \A i, j \in 0 .. n - 1 : Old(i) # 0 /\ Old(i) = Old(j) => i = j
<1>0. /\ OverlayFacts /\ WellTyped /\ DestinationsRenamed /\ MapIsOverlay /\ SeenDistinct
  BY OverlayFactsHold, InvTypes, SeenDistinctHolds DEF RenameInv
<1>1. Window = 0 .. Occ - 1 /\ Occ \in Nat /\ n \in Nat /\ n \in 0 .. Occ
  BY <1>0 DEF OverlayFacts, WellTyped
<1>2. ASSUME NEW d \in 0 .. n - 1, Old(d) # 0
      PROVE  /\ d \in Window /\ d \in 0 .. Occ /\ d <= n
             /\ Dest(d) \in ArchReg /\ Writes(d, Dest(d)) /\ Old(d) = SeenBy(d, Dest(d))
  <2>1. d \in Window /\ d \in 0 .. Occ /\ d <= n
    BY <1>1
  <2>2. Dest(d) # 0 /\ Dest(d) \in ArchReg
    BY <1>0, <1>2, <2>1 DEF DestinationsRenamed, WellTyped, Dest, Old
  <2>3. Writes(d, Dest(d))
    BY <1>0, <2>2 DEF OverlayFacts
  <2>4. Dest(d) \in ArchReg \ {0}
    BY <2>2
  <2> QED BY <1>0, <2>1, <2>2, <2>3, <2>4 DEF OverlayFacts
<1>3. ASSUME NEW a \in ArchReg, SeenBy(n, a) \in Freed(n) PROVE FALSE
  <2>1. PICK d \in 0 .. n - 1 : Old(d) # 0 /\ SeenBy(n, a) = Old(d)
    BY <1>3 DEF Freed
  <2>2. \A f \in d .. n - 1 : ~Writes(f, Dest(d))
    BY <1>0, <1>1, <1>2, <2>1 DEF SeenDistinct
  <2>3. d \in d .. n - 1
    OBVIOUS
  <2> QED BY <1>2, <2>1, <2>2, <2>3
<1>4. ASSUME NEW f \in Window, n <= f, Tag(f) # 0, Tag(f) \in Freed(n) PROVE FALSE
  <2>1. PICK d \in 0 .. n - 1 : Old(d) # 0 /\ Tag(f) = Old(d)
    BY <1>4 DEF Freed
  <2>2. d <= f
    BY <1>1, <1>4
  <2> QED BY <1>0, <1>2, <1>4, <2>1, <2>2 DEF SeenDistinct
<1>5. Freed(n) \cap FreeRegs = {}
  <2>1. ASSUME NEW p \in Freed(n), p \in FreeRegs PROVE FALSE
    <3>1. PICK d \in 0 .. n - 1 : Old(d) # 0 /\ p = Old(d)
      BY DEF Freed
    <3> QED BY <1>0, <1>2, <2>1, <3>1 DEF SeenDistinct
  <2> QED BY <2>1
<1>6. ASSUME NEW i \in 0 .. n - 1, NEW j \in 0 .. n - 1, Old(i) # 0, Old(i) = Old(j), i < j
      PROVE  FALSE
  <2>1. SeenBy(i, Dest(i)) = SeenBy(j, Dest(j)) /\ i <= j
    BY <1>2, <1>6
  <2>2. \A f \in i .. j - 1 : ~Writes(f, Dest(i))
    BY <1>0, <1>2, <1>6, <2>1 DEF SeenDistinct
  <2>3. i \in i .. j - 1
    BY <1>6
  <2> QED BY <1>2, <1>6, <2>2, <2>3
<1>7. \A i, j \in 0 .. n - 1 : Old(i) # 0 /\ Old(i) = Old(j) => i = j
  <2> TAKE i, j \in 0 .. n - 1
  <2>1. i < j \/ i = j \/ j < i
    OBVIOUS
  <2> QED BY <1>6, <2>1
<1> QED BY <1>3, <1>4, <1>5, <1>7

\* A step in which n instructions retire, the youngest r are undone and L enter
\* with the registers tags.
Handover(n, r, kept, occ, L, tags) ==
    /\ occ = Occ /\ kept = (occ - n) - r /\ Occ' = kept + L
    /\ \A d \in 0 .. kept - 1 : Tag(d)' = Tag(d + n)
    /\ \A k \in 1 .. L : /\ Tag(kept + (k - 1))' = tags[k]
                         /\ tags[k] # 0 => tags[k] \in FreeRegs
    /\ \A j, k \in 1 .. L : tags[j] # 0 /\ tags[j] = tags[k] => j = k
    /\ \A a \in ArchReg : Committed(a)' = SeenBy(n, a)
    /\ FreeRegs' = ((FreeRegs \cup Freed(n)) \ {tags[k] : k \in 1 .. L})
                       \cup Undone(occ, r)

\* Retirement frees what it replaces, a rewind frees what it undoes, and a group
\* takes free registers: every register keeps one owner.
LEMMA OwnershipStep ==
    ASSUME RenameInv,
           NEW n \in Nat, NEW r \in Nat, NEW kept \in Nat, NEW occ \in Nat,
           NEW L \in Nat, NEW tags, Handover(n, r, kept, occ, L, tags)
    PROVE  Ownership'
<1> USE DEF Handover
<1> DEFINE popped == {tags[k] : k \in 1 .. L}
<1>0. /\ OverlayFacts /\ OverlayFacts' /\ WellTyped /\ SeenDistinct /\ Ownership
  BY OverlayFactsHold, OverlayFactsNext, InvTypes, SeenDistinctHolds DEF RenameInv
<1>1. /\ Window = 0 .. occ - 1 /\ Window' = 0 .. (kept + L) - 1
      /\ n \in 0 .. Occ /\ kept + n = occ - r /\ n <= occ
  BY <1>0 DEF OverlayFacts
<1>2. /\ \A a \in ArchReg : SeenBy(n, a) \notin Freed(n)
      /\ \A f \in Window : n <= f /\ Tag(f) # 0 => Tag(f) \notin Freed(n)
      /\ Freed(n) \cap FreeRegs = {}
  BY <1>1, FreedFacts
\* An entry of the new window is one that stays, or a new one.
<1>3. ASSUME NEW w \in Window'
      PROVE  \/ /\ w \in 0 .. kept - 1 /\ w + n \in Window /\ w + n \in n .. (occ - r) - 1
                /\ Tag(w)' = Tag(w + n)
             \/ \E k \in 1 .. L : /\ w = kept + (k - 1) /\ Tag(w)' = tags[k]
                                  /\ Tag(w)' # 0 => Tag(w)' \in FreeRegs
  <2>1. CASE w < kept
    BY <1>1, <2>1
  <2>2. CASE w >= kept
    <3>1. PICK k \in 1 .. L : w = kept + (k - 1)
      <4>1. (w - kept) + 1 \in 1 .. L /\ w = kept + (((w - kept) + 1) - 1)
        BY <1>1, <2>2
      <4> QED BY <4>1
    <3> QED BY <3>1
  <2> QED BY <1>1, <2>1, <2>2
<1>4. \A d \in Window : Tag(d) \notin FreeRegs
  BY <1>0 DEF Ownership
<1>5. ASSUME NEW p \in Undone(occ, r)
      PROVE  /\ p # 0 /\ p \notin FreeRegs
             /\ \E d \in Window : d \in occ - r .. occ - 1 /\ p = Tag(d) /\ n <= d
  <2>1. PICK d \in occ - r .. occ - 1 : p = Tag(d) /\ p # 0
    BY DEF Undone
  <2>2. d \in Int /\ occ - r <= d /\ d <= occ - 1
    OBVIOUS
  <2>3. n <= occ - r
    BY <1>1
  <2>4. d \in Window /\ n <= d
    BY <1>1, <2>2, <2>3
  <2> QED BY <1>4, <2>1, <2>4
<1>6. ASSUME NEW a \in ArchReg, NEW b \in ArchReg, Committed(a)' = Committed(b)'
      PROVE  a = b
  <2>1. n <= n /\ SeenBy(n, a) = SeenBy(n, b)
    BY <1>6
  <2> QED BY <1>0, <1>1, <2>1 DEF SeenDistinct
<1>7. ASSUME NEW d \in Window', NEW e \in Window', Tag(d)' # 0, Tag(d)' = Tag(e)'
      PROVE  d = e
  <2>1. CASE /\ d \in 0 .. kept - 1 /\ d + n \in Window /\ Tag(d)' = Tag(d + n)
             /\ e \in 0 .. kept - 1 /\ e + n \in Window /\ Tag(e)' = Tag(e + n)
    <3>1. d + n = e + n
      BY <1>0, <1>7, <2>1 DEF Ownership
    <3> QED BY <2>1, <3>1
  <2>2. CASE /\ \E k \in 1 .. L : d = kept + (k - 1) /\ Tag(d)' = tags[k]
             /\ \E k \in 1 .. L : e = kept + (k - 1) /\ Tag(e)' = tags[k]
    BY <1>7, <2>2
  <2> QED BY <1>3, <1>4, <1>7, <2>1, <2>2
<1>8. ASSUME NEW d \in Window', NEW a \in ArchReg, Tag(d)' # 0, Tag(d)' = Committed(a)'
      PROVE  FALSE
  <2>1. Tag(d)' = SeenBy(n, a) /\ SeenBy(n, a) \notin FreeRegs
    BY <1>0, <1>1, <1>8 DEF SeenDistinct
  <2>2. /\ d \in 0 .. kept - 1 /\ d + n \in Window /\ Tag(d)' = Tag(d + n)
    BY <1>3, <1>8, <2>1
  <2>3. n <= d + n
    BY <2>2
  <2> QED BY <1>0, <1>1, <1>8, <2>1, <2>2, <2>3 DEF SeenDistinct
<1>9. ASSUME NEW a \in ArchReg, Committed(a)' \in FreeRegs' PROVE FALSE
  <2>1. SeenBy(n, a) \in FreeRegs'
    BY <1>9
  <2>2. SeenBy(n, a) \notin FreeRegs /\ SeenBy(n, a) \notin Freed(n)
    BY <1>0, <1>1, <1>2 DEF SeenDistinct
  <2>3. SeenBy(n, a) \in Undone(occ, r)
    BY <2>1, <2>2
  <2>4. PICK d \in Window : SeenBy(n, a) = Tag(d) /\ n <= d /\ Tag(d) # 0
    BY <1>5, <2>3
  <2> QED BY <1>0, <1>1, <2>4 DEF SeenDistinct
<1>10. ASSUME NEW w \in Window', Tag(w)' \in FreeRegs' PROVE FALSE
  <2>1. Tag(w)' # 0
    BY <1>0, <1>5, <1>10 DEF SeenDistinct, Freed
  <2>2. CASE /\ w \in 0 .. kept - 1 /\ w + n \in Window /\ w + n \in n .. (occ - r) - 1
             /\ Tag(w)' = Tag(w + n)
    <3>1. Tag(w + n) \notin FreeRegs /\ Tag(w + n) \notin Freed(n)
      BY <1>2, <1>4, <2>1, <2>2
    <3>2. PICK d \in occ - r .. occ - 1 : d \in Window /\ Tag(w + n) = Tag(d)
      BY <1>5, <1>10, <2>2, <3>1
    <3>3. d = w + n
      BY <1>0, <2>1, <2>2, <3>2 DEF Ownership
    <3> QED BY <2>2, <3>2, <3>3
  <2>3. CASE \E k \in 1 .. L : Tag(w)' = tags[k] /\ (Tag(w)' # 0 => Tag(w)' \in FreeRegs)
    <3>1. Tag(w)' \in popped /\ Tag(w)' \in FreeRegs
      BY <2>1, <2>3
    <3> QED BY <1>5, <1>10, <3>1
  <2> QED BY <1>3, <2>2, <2>3
<1>11. ASSUME NEW p \in PhyReg
       PROVE  \/ \E a \in ArchReg : p = Committed(a)'
              \/ \E d \in Window' : p # 0 /\ p = Tag(d)'
              \/ p \in FreeRegs'
  <2>1. ASSUME NEW a \in ArchReg, NEW d \in 0 .. n, p = SeenBy(d, a)
        PROVE  (\E b \in ArchReg : p = Committed(b)') \/ p \in FreeRegs'
    <3>1. d \in 0 .. Occ
      BY <1>1
    <3>2. p \notin FreeRegs
      BY <1>0, <2>1, <3>1 DEF SeenDistinct
    <3>3. CASE p = 0
      <4>1. 0 \in ArchReg
        BY RenameAssumption DEF ArchReg
      <4>2. SeenBy(n, 0) = 0
        BY <1>0, <1>1 DEF SeenDistinct
      <4> QED BY <3>3, <4>1, <4>2
    <3>4. CASE p # 0
      <4>1. p \notin popped
        BY <3>2, <3>4
      <4>2. p \in Freed(n) \/ p = SeenBy(n, a)
        BY <1>1, <2>1, FreedOrSeen
      <4> QED BY <4>1, <4>2
    <3> QED BY <3>3, <3>4
  <2>2. CASE \E a \in ArchReg : p = Committed(a)
    <3>1. PICK a \in ArchReg : p = Committed(a)
      BY <2>2
    <3>2. p = SeenBy(0, a) /\ 0 \in 0 .. n
      BY <1>0, <3>1 DEF OverlayFacts, SeenTurns
    <3> QED BY <2>1, <3>1, <3>2
  <2>3. CASE \E d \in Window : p # 0 /\ p = Tag(d)
    <3>1. PICK d \in Window : p # 0 /\ p = Tag(d)
      BY <2>3
    <3>2. CASE d < n
      <4>1. Dest(d) \in ArchReg /\ Writes(d, Dest(d)) /\ d \in Nat
        BY <1>0, <1>1, <3>1 DEF WellTyped, OverlayFacts, RenameInv, DestinationsRenamed, Dest, Tag
      <4>2. SeenBy(d + 1, Dest(d)) = p /\ d + 1 \in 0 .. n
        BY <1>0, <1>1, <3>1, <3>2, <4>1 DEF OverlayFacts, SeenTurns
      <4> QED BY <2>1, <4>1, <4>2
    <3>3. CASE d >= n /\ d < occ - r
      <4>1. d - n \in 0 .. kept - 1 /\ (d - n) + n = d /\ d - n \in Window'
        BY <1>1, <3>3
      <4>2. PICK w \in 0 .. kept - 1 : w = d - n /\ w + n = d /\ w \in Window'
        BY <4>1
      <4>3. Tag(w)' = p
        BY <3>1, <4>2
      <4> QED BY <3>1, <4>2, <4>3
    <3>4. CASE d >= occ - r
      <4>1. d \in occ - r .. occ - 1
        BY <1>1, <3>4
      <4>2. p \in Undone(occ, r)
        BY <3>1, <4>1 DEF Undone
      <4> QED BY <4>2
    <3> QED BY <1>1, <3>2, <3>3, <3>4
  <2>4. CASE p \in FreeRegs
    <3>1. CASE p \in popped
      <4>1. PICK k \in 1 .. L : p = tags[k]
        BY <3>1
      <4>2. kept + (k - 1) \in Window'
        <5>1. kept + (k - 1) \in 0 .. (kept + L) - 1
          OBVIOUS
        <5> QED BY <1>1, <5>1
      <4>3. p # 0
        BY <1>0, <2>4 DEF SeenDistinct
      <4> QED BY <4>1, <4>2, <4>3
    <3>2. CASE p \notin popped
      BY <2>4, <3>2
    <3> QED BY <3>1, <3>2
  <2> QED BY <1>0, <2>2, <2>3, <2>4 DEF Ownership
<1> QED BY <1>6, <1>7, <1>8, <1>9, <1>10, <1>11 DEF Ownership

-----------------------------------------------------------------------------
(* What one cycle frees fits into the free list.                            *)

\* Counting means the same in the proofs of the components.
LEMMA SameCounting ==
    /\ \A S : FLP!IsFiniteSet(S) <=> IsFiniteSet(S)
    /\ \A S : FLP!Cardinality(S) = Cardinality(S)
BY DEF FLP!IsFiniteSet, IsFiniteSet, FLP!Cardinality, Cardinality

\* Disjoint finite sets add up.
LEMMA DisjointCount ==
    ASSUME NEW S, IsFiniteSet(S), NEW T, IsFiniteSet(T), S \cap T = {}
    PROVE  IsFiniteSet(S \cup T) /\ Cardinality(S \cup T) = Cardinality(S) + Cardinality(T)
<1>1. Cardinality(S) \in Nat /\ Cardinality(T) \in Nat /\ Cardinality({}) = 0
  BY FS_CardinalityType, FS_EmptySet
<1>2. /\ IsFiniteSet(S \cup T)
      /\ Cardinality(S \cup T) = Cardinality(S) + Cardinality(T) - Cardinality(S \cap T)
  BY FS_Union
<1>3. Cardinality(S \cap T) = 0
  BY <1>1
<1>4. PICK c, d, e : c = Cardinality(S) /\ d = Cardinality(T) /\ e = Cardinality(S \cup T)
  OBVIOUS
<1>5. c \in Nat /\ d \in Nat /\ e = c + d
  BY <1>1, <1>2, <1>3, <1>4
<1> QED BY <1>2, <1>4, <1>5

\* The free registers, those that n instructions free and those that r rewound
\* instructions give back are different, and none is mapped by the instruction
\* n places behind the head: so all of them fit into the free list.
LEMMA Room ==
    ASSUME RenameInv, NEW n \in Nat, NEW r \in Nat, NEW occ, occ = Occ, n + r <= occ
    PROVE  /\ IsFiniteSet(FreeRegs) /\ IsFiniteSet(Freed(n)) /\ IsFiniteSet(Undone(occ, r))
           /\ Undone(occ, r) \cap (FreeRegs \cup Freed(n)) = {}
           /\ Cardinality(FreeRegs) + (Cardinality(Freed(n)) + Cardinality(Undone(occ, r)))
                 <= FREELIST_SIZE
<1> DEFINE M == {SeenBy(n, a) : a \in ArchReg}
<1>0. /\ OverlayFacts /\ WellTyped /\ SeenDistinct /\ Ownership /\ occ \in Nat
  BY OverlayFactsHold, InvTypes, SeenDistinctHolds DEF RenameInv, WellTyped
<1>1. Window = 0 .. occ - 1 /\ n \in 0 .. Occ /\ n <= occ - r
  BY <1>0 DEF OverlayFacts
<1>2. /\ \A a \in ArchReg : SeenBy(n, a) \notin Freed(n)
      /\ \A f \in Window : n <= f /\ Tag(f) # 0 => Tag(f) \notin Freed(n)
      /\ Freed(n) \cap FreeRegs = {}
  BY <1>1, FreedFacts
<1>3. ASSUME NEW p \in Undone(occ, r)
      PROVE  \E d \in Window : n <= d /\ p = Tag(d) /\ Tag(d) # 0
  <2>1. PICK d \in occ - r .. occ - 1 : p = Tag(d) /\ p # 0
    BY DEF Undone
  <2>2. d \in Window /\ n <= d
    <3>1. d \in Int /\ occ - r <= d /\ d <= occ - 1
      BY <1>0
    <3> QED BY <1>0, <1>1, <3>1
  <2> QED BY <2>1, <2>2
<1>4. Undone(occ, r) \cap (FreeRegs \cup Freed(n)) = {}
  BY <1>0, <1>2, <1>3 DEF Ownership
<1>5. M \cap (FreeRegs \cup Freed(n) \cup Undone(occ, r)) = {}
  BY <1>0, <1>1, <1>2, <1>3 DEF SeenDistinct
<1>6. FreeRegs \subseteq PhyReg /\ M \subseteq PhyReg
  <2>1. FLP!FreeRegs \subseteq FLP!PhyReg
    BY ListHypothesis, FLP!FreeRegsCount DEF RenameInv
  <2> QED BY <1>0, <1>1, <2>1 DEF SeenDistinct, FreeRegs, FLP!PhyReg, PhyReg
<1>7. Freed(n) \subseteq PhyReg /\ Undone(occ, r) \subseteq PhyReg
  <2>1. ASSUME NEW d \in 0 .. n - 1 PROVE Old(d) \in PhyReg
    BY <1>0, <1>1 DEF WellTyped
  <2> QED BY <1>0, <1>3, <2>1 DEF WellTyped, Freed
<1>8. /\ ARCH_REG_SIZE \in Nat /\ FREELIST_SIZE \in Nat
      /\ IsFiniteSet(PhyReg) /\ Cardinality(PhyReg) = ARCH_REG_SIZE + FREELIST_SIZE
      /\ IsFiniteSet(ArchReg) /\ Cardinality(ArchReg) = ARCH_REG_SIZE
  <2>1. ARCH_REG_SIZE \in Nat /\ FREELIST_SIZE \in Nat
    BY RenameAssumption DEF FREELIST_SIZE
  <2>2. /\ 0 \in Int /\ ARCH_REG_SIZE - 1 \in Int /\ ARCH_REG_SIZE + FREELIST_SIZE - 1 \in Int
        /\ (ARCH_REG_SIZE - 1) - 0 + 1 = ARCH_REG_SIZE
        /\ (ARCH_REG_SIZE + FREELIST_SIZE - 1) - 0 + 1 = ARCH_REG_SIZE + FREELIST_SIZE
    BY <2>1
  <2>3. /\ IsFiniteSet(0 .. ARCH_REG_SIZE - 1)
        /\ Cardinality(0 .. ARCH_REG_SIZE - 1) = IF 0 > ARCH_REG_SIZE - 1 THEN 0
                                                  ELSE ARCH_REG_SIZE - 1 - 0 + 1
    BY <2>2, FS_Interval
  <2>4. /\ IsFiniteSet(0 .. ARCH_REG_SIZE + FREELIST_SIZE - 1)
        /\ Cardinality(0 .. ARCH_REG_SIZE + FREELIST_SIZE - 1) =
              ARCH_REG_SIZE + FREELIST_SIZE
    <3>1. PICK b \in Nat : b = ARCH_REG_SIZE + FREELIST_SIZE - 1
                           /\ b + 1 = ARCH_REG_SIZE + FREELIST_SIZE
      BY <2>1, RenameAssumption
    <3>2. IsFiniteSet(0 .. b) /\ Cardinality(0 .. b) = b + 1
      BY FS_Interval
    <3> QED BY <3>1, <3>2
  <2> QED BY <2>1, <2>3, <2>4 DEF ArchReg, PhyReg
<1>9. IsFiniteSet(M) /\ Cardinality(M) = ARCH_REG_SIZE
  <2> DEFINE f == [a \in ArchReg |-> SeenBy(n, a)]
  <2>1. \A a, b \in ArchReg : f[a] = f[b] => a = b
    <3>1. \A a, b \in ArchReg : SeenBy(n, a) = SeenBy(n, b) => a = b
      BY <1>0, <1>1 DEF SeenDistinct
    <3> QED BY <3>1
  <2>2. M = {f[a] : a \in ArchReg}
    OBVIOUS
  <2> HIDE DEF f, M
  <2> QED BY <1>8, <2>1, <2>2, FLP!ImageCount, SameCounting
<1> HIDE DEF M
<1>10. /\ IsFiniteSet(FreeRegs) /\ IsFiniteSet(Freed(n)) /\ IsFiniteSet(Undone(occ, r))
       /\ Cardinality(FreeRegs) \in Nat /\ Cardinality(Freed(n)) \in Nat
       /\ Cardinality(Undone(occ, r)) \in Nat
  BY <1>6, <1>7, <1>8, FS_Subset, FS_CardinalityType
<1> DEFINE P == FreeRegs \cup Freed(n)
           Q == P \cup Undone(occ, r)
<1>11. IsFiniteSet(P) /\ Cardinality(P) = Cardinality(FreeRegs) + Cardinality(Freed(n))
  BY <1>2, <1>10, DisjointCount
<1>12. IsFiniteSet(Q) /\ Cardinality(Q) = Cardinality(P) + Cardinality(Undone(occ, r))
  BY <1>4, <1>10, <1>11, DisjointCount
<1>13. Cardinality(M \cup Q) = Cardinality(M) + Cardinality(Q)
  BY <1>5, <1>9, <1>12, DisjointCount
<1>14. Cardinality(M \cup Q) <= Cardinality(PhyReg)
  <2>1. M \cup Q \in SUBSET PhyReg
    BY <1>6, <1>7
  <2> QED BY <1>8, <2>1, FS_Subset
<1>15. Cardinality(FreeRegs) + (Cardinality(Freed(n)) + Cardinality(Undone(occ, r)))
          <= FREELIST_SIZE
  <2> HIDE DEF P, Q
  <2> QED BY <1>8, <1>9, <1>10, <1>11, <1>12, <1>13, <1>14
<1> QED BY <1>4, <1>10, <1>15

\* The wire retire.Told carries what the first n instructions replace.
LEMMA RetireWire ==
    ASSUME RenameInv, NEW n \in Nat, n <= Occ, NEW Told, Told = ROB!RetireTold(n)
    PROVE  /\ Len(Told) = n
           /\ FLP!Registers(Told) = Freed(n)
           /\ FLP!Used(Told, 1, Len(Told)) = Cardinality(Freed(n))
           /\ FLP!CanFree(Told)
<1>0. OverlayFacts /\ WellTyped
  BY OverlayFactsHold, InvTypes
<1>1. Window = 0 .. Occ - 1 /\ Occ \in Nat /\ n \in 0 .. Occ
  BY <1>0 DEF OverlayFacts, WellTyped
<1>2. Len(Told) = n /\ \A k \in 1 .. n : Told[k] = Old(k - 1)
  BY DEF ROB!RetireTold, Old
<1>3. FLP!Registers(Told) = Freed(n)
  <2>1. ASSUME NEW k \in 1 .. n, Told[k] # 0 PROVE Told[k] \in Freed(n)
    <3>1. k - 1 \in 0 .. n - 1
      OBVIOUS
    <3> QED BY <1>2, <2>1, <3>1 DEF Freed
  <2>2. ASSUME NEW d \in 0 .. n - 1, Old(d) # 0
        PROVE  \E k \in 1 .. n : Told[k] # 0 /\ Told[k] = Old(d)
    <3>1. d + 1 \in 1 .. n /\ (d + 1) - 1 = d
      OBVIOUS
    <3>2. PICK k \in 1 .. n : k - 1 = d
      BY <3>1
    <3> QED BY <1>2, <2>2, <3>2
  <2> QED BY <1>2, <2>1, <2>2 DEF FLP!Registers, Freed
<1>4. FLP!Different(Told)
  <2>1. \A i, j \in 0 .. n - 1 : Old(i) # 0 /\ Old(i) = Old(j) => i = j
    BY <1>1, FreedFacts
  <2>2. ASSUME NEW i \in 1 .. n, NEW j \in 1 .. n, Told[i] # 0, Told[i] = Told[j] PROVE i = j
    <3>1. i - 1 \in 0 .. n - 1 /\ j - 1 \in 0 .. n - 1
      OBVIOUS
    <3>2. i - 1 = j - 1
      BY <1>2, <2>1, <2>2, <3>1
    <3> QED BY <3>2
  <2> QED BY <1>2, <2>2 DEF FLP!Different
<1>5. FLP!Used(Told, 1, Len(Told)) = Cardinality(Freed(n))
  BY <1>2, <1>3, <1>4, FLP!RegistersCount, SameCounting
<1>6. ASSUME NEW k \in 1 .. n PROVE Told[k] \in FLP!PhyReg
  <2>1. k - 1 \in Window
    BY <1>1
  <2> QED BY <1>0, <1>2, <2>1 DEF WellTyped, PhyReg, FLP!PhyReg
<1>7. FLP!free_reg_number + Cardinality(Freed(n)) <= FREELIST_SIZE
  <2>1. Cardinality(FLP!FreeRegs) = FLP!free_reg_number
    BY ListHypothesis, FLP!FreeRegsCount, SameCounting DEF RenameInv
  <2>2. n + 0 <= Occ /\ 0 \in Nat
    BY <1>1
  <2>3. PICK occ : occ = Occ
    OBVIOUS
  <2>4. /\ IsFiniteSet(FreeRegs) /\ IsFiniteSet(Freed(n)) /\ IsFiniteSet(Undone(occ, 0))
        /\ Cardinality(FreeRegs) + (Cardinality(Freed(n)) + Cardinality(Undone(occ, 0)))
              <= FREELIST_SIZE
    BY <2>2, <2>3, Room
  <2>5. /\ Cardinality(FreeRegs) \in Nat /\ Cardinality(Freed(n)) \in Nat
        /\ Cardinality(Undone(occ, 0)) \in Nat
    BY <2>4, FS_CardinalityType
  <2>6. FREELIST_SIZE \in Nat
    BY RenameAssumption DEF FREELIST_SIZE
  <2> QED BY <2>1, <2>4, <2>5, <2>6 DEF FreeRegs
<1>8. Freed(n) \cap FLP!FreeRegs = {}
  BY <1>1, FreedFacts DEF FreeRegs
<1> QED BY <1>2, <1>3, <1>4, <1>5, <1>6, <1>7, <1>8 DEF FLP!CanFree

\* The wires of a rewind carry the last r instructions, youngest first.
LEMMA RewindWire ==
    ASSUME RenameInv, NEW r \in Nat, NEW occ, occ = Occ, r <= occ,
           \A k \in 1 .. r : ROB!RewindIndex(k) = Slot(occ - k),
           NEW reg_T, reg_T = ROB!RewindT(r), NEW reg_Told, reg_Told = ROB!RewindTold(r)
    PROVE  /\ Len(reg_T) = r /\ Len(reg_Told) = r
           /\ \A k \in 1 .. r : /\ reg_T[k] = Tag(occ - k) /\ reg_Told[k] = Old(occ - k)
                                /\ reg_T[k] \in PhyReg /\ reg_Told[k] \in PhyReg
           /\ FLP!Different(reg_T)
           /\ FLP!Registers(reg_T) = Undone(occ, r)
           /\ FLP!Used(reg_T, 1, Len(reg_T)) = Cardinality(Undone(occ, r))
<1>0. OverlayFacts /\ WellTyped /\ Ownership
  BY OverlayFactsHold, InvTypes DEF RenameInv
<1>1. Window = 0 .. occ - 1 /\ occ \in Nat
  BY <1>0 DEF OverlayFacts, WellTyped
<1>2. Len(reg_T) = r /\ Len(reg_Told) = r
  BY DEF ROB!RewindT, ROB!RewindTold
<1>3. ASSUME NEW k \in 1 .. r
      PROVE  /\ occ - k \in Window /\ reg_T[k] = Tag(occ - k) /\ reg_Told[k] = Old(occ - k)
             /\ reg_T[k] \in PhyReg /\ reg_Told[k] \in PhyReg
  <2>1. occ - k \in Window
    BY <1>1
  <2>2. reg_T[k] = Tag(occ - k) /\ reg_Told[k] = Old(occ - k)
    BY SameRing DEF ROB!RewindT, ROB!RewindTold, Tag, Old
  <2> QED BY <1>0, <2>1, <2>2 DEF WellTyped
<1>4. FLP!Different(reg_T)
  <2>1. ASSUME NEW i \in 1 .. r, NEW j \in 1 .. r, reg_T[i] # 0, reg_T[i] = reg_T[j]
        PROVE  i = j
    <3>1. occ - i = occ - j
      BY <1>0, <1>3, <2>1 DEF Ownership
    <3> QED BY <1>1, <3>1
  <2> QED BY <1>2, <2>1 DEF FLP!Different
<1>5. FLP!Registers(reg_T) = Undone(occ, r)
  <2>1. ASSUME NEW k \in 1 .. r, reg_T[k] # 0 PROVE reg_T[k] \in Undone(occ, r)
    <3>1. occ - k \in occ - r .. occ - 1
      BY <1>1
    <3> QED BY <1>3, <2>1, <3>1 DEF Undone
  <2>2. ASSUME NEW d \in occ - r .. occ - 1, Tag(d) # 0
        PROVE  \E k \in 1 .. r : reg_T[k] # 0 /\ reg_T[k] = Tag(d)
    <3>1. occ - d \in 1 .. r /\ occ - (occ - d) = d
      BY <1>1
    <3>2. PICK k \in 1 .. r : occ - k = d
      BY <3>1
    <3> QED BY <1>3, <2>2, <3>2
  <2> QED BY <1>2, <2>1, <2>2 DEF FLP!Registers, Undone
<1>6. FLP!Used(reg_T, 1, Len(reg_T)) = Cardinality(Undone(occ, r))
  BY <1>2, <1>4, <1>5, FLP!RegistersCount, SameCounting
<1> QED BY <1>2, <1>3, <1>4, <1>5, <1>6

-----------------------------------------------------------------------------
(* A cycle with a rewind.                                                   *)

\* The free list and the map table of the model are those of their proofs.
LEMMA SameTables ==
    /\ \A Told, reg_T, dests : FL!Cycle(Told, reg_T, dests) <=> FLP!Cycle(Told, reg_T, dests)
    /\ FL!free_reg_number = FLP!free_reg_number
    /\ \A k, Told, dests : FL!dispatch_free_reg(k, Told, dests) = FLP!dispatch_free_reg(k, Told, dests)
    /\ \A dests, tags : MT!MapAfter(dests, tags) = MTP!MapAfter(dests, tags)
    /\ \A reg_T, reg_Told : MT!MapUndone(reg_T, reg_Told) = MTP!MapUndone(reg_T, reg_Told)
    /\ MTP!ArchReg = ArchReg /\ MT!ArchReg = ArchReg
<1>1. \A Told, reg_T, dests : FL!Cycle(Told, reg_T, dests) <=> FLP!Cycle(Told, reg_T, dests)
  BY DEF FL!Cardinality, FLP!Cardinality, FL!Cycle, FLP!Cycle, FL!TailNext, FLP!TailNext, FL!Used, FLP!Used, FL!Wrap, FLP!Wrap,
         FL!Dispatch, FLP!Dispatch, FL!Rewind, FLP!Rewind, FL!Popped, FLP!Popped,
         FL!CountAfterRetire, FLP!CountAfterRetire, FL!EntryAfterRetire, FLP!EntryAfterRetire,
         FL!EmptyAfterRetire, FLP!EmptyAfterRetire, FL!RingCount, FLP!RingCount,
         FL!Back, FLP!Back, FL!FreeIndex, FLP!FreeIndex
<1>2. \A k, Told, dests :
         FL!dispatch_free_reg(k, Told, dests) = FLP!dispatch_free_reg(k, Told, dests)
  BY DEF FL!Cardinality, FLP!Cardinality, FL!dispatch_free_reg, FLP!dispatch_free_reg,
         FL!TailNext, FLP!TailNext,
         FL!Used, FLP!Used, FL!Wrap, FLP!Wrap,
         FL!CountAfterRetire, FLP!CountAfterRetire, FL!EntryAfterRetire, FLP!EntryAfterRetire,
         FL!EmptyAfterRetire, FLP!EmptyAfterRetire, FL!RingCount, FLP!RingCount
<1>3. FL!free_reg_number = FLP!free_reg_number
  BY DEF FL!free_reg_number, FLP!free_reg_number, FL!RingCount, FLP!RingCount
<1>4. MTP!ArchReg = ArchReg /\ MT!ArchReg = ArchReg
  BY DEF MTP!ArchReg, MT!ArchReg, ArchReg
<1>5. /\ \A dests, tags : MT!MapAfter(dests, tags) = MTP!MapAfter(dests, tags)
      /\ \A reg_T, reg_Told : MT!MapUndone(reg_T, reg_Told) = MTP!MapUndone(reg_T, reg_Told)
  BY DEF MT!MapAfter, MTP!MapAfter, MT!MapUndone, MTP!MapUndone, MTP!ArchReg, MT!ArchReg
<1> QED BY <1>1, <1>2, <1>3, <1>4, <1>5

\* After a cycle with a rewind the map is the one undone instructions saw, and
\* the free list has got back the registers of those that are gone.
LEMMA RewindTables ==
    ASSUME RenameInv, NEW n \in Nat, NEW r \in Nat, NEW occ, occ = Occ, n + r <= occ,
           \A k \in 1 .. r : ROB!RewindIndex(k) = Slot(occ - k),
           NEW cdb,
           FL!Cycle(ROB!RetireTold(n), ROB!RewindT(r), <<>>),
           MT!Cycle(cdb, <<>>, <<>>, ROB!RewindT(r), ROB!RewindTold(r))
    PROVE  /\ FLP!RingExact' /\ FLP!RingDistinct'
           /\ FreeRegs' = (FreeRegs \cup Freed(n)) \cup Undone(occ, r)
           /\ MT!TypeOK'
           /\ \A a \in ArchReg : map'[a] = SeenBy(occ - r, a)
<1>0. /\ OverlayFacts /\ WellTyped /\ MapIsOverlay /\ MT!TypeOK
      /\ FLP!RingExact /\ FLP!RingDistinct
  BY OverlayFactsHold, InvTypes DEF RenameInv
<1>1. occ \in Nat /\ n <= Occ /\ r <= occ /\ occ - 0 = occ
  BY <1>0 DEF WellTyped
<1>2. PICK Told : Told = ROB!RetireTold(n)
  OBVIOUS
<1>3. PICK reg_T : reg_T = ROB!RewindT(r)
  OBVIOUS
<1>4. PICK reg_Told : reg_Told = ROB!RewindTold(r)
  OBVIOUS
<1>5. /\ Len(Told) = n
      /\ FLP!Registers(Told) = Freed(n)
      /\ FLP!Used(Told, 1, Len(Told)) = Cardinality(Freed(n))
      /\ FLP!CanFree(Told)
  BY <1>1, <1>2, RetireWire
<1>6. /\ Len(reg_T) = r /\ Len(reg_Told) = r
      /\ \A k \in 1 .. r : /\ reg_T[k] = Tag(occ - k) /\ reg_Told[k] = Old(occ - k)
                           /\ reg_T[k] \in PhyReg /\ reg_Told[k] \in PhyReg
      /\ FLP!Different(reg_T)
      /\ FLP!Registers(reg_T) = Undone(occ, r)
      /\ FLP!Used(reg_T, 1, Len(reg_T)) = Cardinality(Undone(occ, r))
  BY <1>1, <1>3, <1>4, RewindWire
<1>7. /\ FLP!Cycle(Told, reg_T, <<>>)
      /\ MT!Cycle(cdb, <<>>, <<>>, reg_T, reg_Told)
  BY <1>2, <1>3, <1>4, SameTables
<1>8. ready' \in [ArchReg -> BOOLEAN]
  BY <1>7, SameTables DEF MT!Cycle, MT!Dispatch, MT!Rewind
<1>9. CASE r = 0
  <2>1. reg_T = <<>>
    BY <1>3, <1>9 DEF ROB!RewindT
  <2>2. Len(<<>>) = 0 /\ 0 \in Nat /\ 0 <= FLP!free_reg_number
    BY ListHypothesis, <1>0, FLP!RingPlaces
  <2>3. FLP!Cycle(Told, <<>>, <<>>)
    BY <1>7, <2>1
  <2>4. /\ FLP!RingExact' /\ FLP!RingDistinct'
        /\ FLP!FreeRegs' = (FLP!FreeRegs \cup FLP!Registers(Told)) \ FLP!Given(Told, <<>>)
    BY ListHypothesis, <1>0, <1>5, <2>2, <2>3, FLP!DispatchList
  <2>5. FLP!FreeRegs' = FLP!FreeRegs \cup FLP!Registers(Told)
    <3>1. FLP!Given(Told, <<>>) = {}
      BY <2>2 DEF FLP!Given
    <3> QED BY <2>4, <3>1
  <2>6. Undone(occ, r) = {}
    BY <1>1, <1>9 DEF Undone
  <2>7. map' = map
    <3>1. map' = MT!MapAfter(<<>>, <<>>)[0]
      BY <1>7, <2>1, <2>2 DEF MT!Cycle, MT!Dispatch
    <3>2. MTP!MapAfter(<<>>, <<>>)[0] = map
      BY <2>2, MTP!DispatchTurns
    <3> QED BY <3>1, <3>2, SameTables
  <2>8. \A a \in ArchReg : map'[a] = SeenBy(occ - r, a)
    BY <1>0, <1>1, <1>9, <2>7 DEF OverlayFacts
  <2> QED BY <1>0, <1>5, <1>8, <2>4, <2>5, <2>6, <2>7, <2>8, SameTables
          DEF FreeRegs, MT!TypeOK
<1>10. CASE r # 0
  <2>1. reg_T # <<>>
    BY <1>6, <1>10
  <2>2. /\ IsFiniteSet(FreeRegs) /\ IsFiniteSet(Freed(n)) /\ IsFiniteSet(Undone(occ, r))
        /\ Undone(occ, r) \cap (FreeRegs \cup Freed(n)) = {}
        /\ Cardinality(FreeRegs) + (Cardinality(Freed(n)) + Cardinality(Undone(occ, r)))
              <= FREELIST_SIZE
    BY Room
  <2>3. Cardinality(FreeRegs) = FLP!free_reg_number
    BY ListHypothesis, <1>0, FLP!FreeRegsCount, SameCounting DEF FreeRegs
  <2>4. FLP!free_reg_number
           + (FLP!Used(Told, 1, Len(Told)) + FLP!Used(reg_T, 1, Len(reg_T))) <= FREELIST_SIZE
    BY <1>5, <1>6, <2>2, <2>3
  <2>5. FLP!Registers(reg_T) \cap (FLP!FreeRegs \cup FLP!Registers(Told)) = {}
    BY <1>5, <1>6, <2>2 DEF FreeRegs
  <2>6. \A k \in 1 .. Len(reg_T) : reg_T[k] \in FLP!PhyReg
    BY <1>6 DEF PhyReg, FLP!PhyReg
  <2>7. /\ FLP!RingExact' /\ FLP!RingDistinct'
        /\ FLP!FreeRegs' = FLP!FreeRegs \cup FLP!Registers(Told) \cup FLP!Registers(reg_T)
    <3>1. Len(reg_T) \in Nat
      BY <1>6
    <3> QED BY ListHypothesis, <1>0, <1>5, <1>6, <1>7, <2>1, <2>4, <2>5, <2>6, <3>1, FLP!RewindList
  <2>8. PICK m : m = MTP!MapUndone(reg_T, reg_Told)
    OBVIOUS
  <2>9. map' = m[r]
    <3>1. map' = MT!MapUndone(reg_T, reg_Told)[Len(reg_T)]
      BY <1>7, <2>1 DEF MT!Cycle, MT!Rewind
    <3> QED BY <1>6, <2>8, <3>1, SameTables
  <2>10. /\ m[0] = map
         /\ \A k \in 1 .. r :
              m[k] = [a \in ArchReg |->
                        IF m[k - 1][a] = reg_T[k] THEN reg_Told[k] ELSE m[k - 1][a]]
    BY <1>6, <2>8, MTP!RewindTurns, SameTables
  <2>11. \A a \in ArchReg : \A k \in 0 .. r : m[k][a] = SeenBy(occ - k, a)
    <3>1. Undoing(r, occ, reg_T, reg_Told, m)
      BY <1>6, <2>10 DEF Undoing
    <3> QED BY <1>1, <3>1, RewindMaps
  <2>12. m[r] \in [ArchReg -> PhyReg]
    <3>1. map \in [MTP!ArchReg -> PhyReg]
      BY <1>0, SameTables DEF MT!TypeOK
    <3>2. \A k \in 0 .. Len(reg_T) : m[k] \in [ArchReg -> PhyReg]
      BY <1>6, <2>8, <3>1, MTP!RewindTypes, SameTables
    <3> QED BY <1>6, <3>2
  <2> QED BY <1>5, <1>6, <1>8, <2>7, <2>9, <2>11, <2>12, SameTables DEF FreeRegs, MT!TypeOK
<1> QED BY <1>9, <1>10

\* A cycle with a rewind keeps the invariant; the instructions that stay see
\* what they saw before.
LEMMA RewindStep ==
    ASSUME RenameInv, NEW store_accepted \in BOOLEAN,
           NEW n \in ROB!RetireNum(store_accepted), NEW complete, NEW resolve,
           RewindCycle(n, store_accepted, complete, resolve),
           NEW kept, kept = Occ'
    PROVE  /\ RenameInv'
           /\ \A a \in ArchReg : Committed(a)' = SeenBy(n, a)
           /\ \A a \in ArchReg : \A d \in 0 .. kept : SeenBy(d, a)' = SeenBy(d + n, a)
           /\ \A d \in 0 .. kept - 1 : Dest(d)' = Dest(d + n) /\ Tag(d)' = Tag(d + n)
           /\ \A r, occ : r = ROB!RewindNum(n, store_accepted) /\ occ = Occ =>
                 FreeRegs' = (FreeRegs \cup Freed(n)) \cup Undone(occ, r)
<1>0. RP!RobInv /\ OverlayFacts' /\ OverlayFacts /\ DestinationsRenamed
  BY OverlayFactsHold, OverlayFactsNext DEF RenameInv
<1>1. PICK r : r = ROB!RewindNum(n, store_accepted)
  OBVIOUS
<1>2. PICK occ : occ = Occ
  OBVIOUS
<1>3. /\ ROB!Rewind(n, store_accepted)
      /\ FL!Cycle(ROB!RetireTold(n), ROB!RewindT(r), <<>>)
      /\ MT!Cycle(CDB_tag(complete), <<>>, <<>>, ROB!RewindT(r), ROB!RewindTold(r))
  BY <1>1 DEF RewindCycle
<1>4. /\ RP!RobInv'
      /\ n \in Nat /\ r \in Nat /\ occ \in 0 .. ROB_SIZE /\ n + r < occ
      /\ Occ' = (occ - n) - r
      /\ \A d \in 0 .. (occ - n) - r - 1 :
            /\ Slot(d)' = Slot(d + n) /\ Slot(d + n) \in Index
            /\ rob_mem'[Slot(d + n)] =
                  IF ROB!RewindDone(n) /\ d = 0
                  THEN [rob_mem[Slot(d + n)] EXCEPT !.exception = FALSE]
                  ELSE rob_mem[Slot(d + n)]
      /\ \A k \in 1 .. r : ROB!RewindIndex(k) = Slot(occ - k)
  <2>1. Rewinding(n, store_accepted, r, occ)
    BY <1>1, <1>2 DEF Rewinding
  <2>2. RewindEffect(n, r, occ)
    BY <1>0, <1>3, <2>1, RewindShape
  <2> QED BY <2>2 DEF RewindEffect
<1>5. kept = (occ - n) - r /\ kept \in Nat /\ n + r <= occ /\ occ \in Nat /\ n <= occ
  <2>1. occ \in Nat
    BY <1>4, RenameAssumption
  <2> QED BY <1>4, <2>1
<1>6. /\ FLP!RingExact' /\ FLP!RingDistinct'
      /\ FreeRegs' = (FreeRegs \cup Freed(n)) \cup Undone(occ, r)
      /\ MT!TypeOK'
      /\ \A a \in ArchReg : map'[a] = SeenBy(occ - r, a)
  BY <1>2, <1>3, <1>4, <1>5, RewindTables
<1>7. ASSUME NEW d \in 0 .. kept - 1
      PROVE  Dest(d)' = Dest(d + n) /\ Tag(d)' = Tag(d + n) /\ Old(d)' = Old(d + n)
  <2>1. ROB!At(d)' = rob_mem'[Slot(d)'] /\ ROB!At(d + n) = rob_mem[Slot(d + n)]
    BY DEF ROB!At, Slot, ROB!Wrap
  <2>2. rob_mem'[Slot(d + n)] \in {rob_mem[Slot(d + n)],
                                    [rob_mem[Slot(d + n)] EXCEPT !.exception = FALSE]}
        /\ Slot(d)' = Slot(d + n) /\ Slot(d + n) \in Index
    BY <1>4, <1>5
  <2>3. rob_mem[Slot(d + n)] \in RP!Entry
    BY <1>0, <2>2, SameRing DEF RP!RobInv, RP!TypeOK, Index
  <2>4. /\ ROB!At(d)'.arch_dest_reg = ROB!At(d + n).arch_dest_reg
        /\ ROB!At(d)'.T = ROB!At(d + n).T
        /\ ROB!At(d)'.Told = ROB!At(d + n).Told
    BY <2>1, <2>2, <2>3 DEF RP!Entry
  <2> QED BY <2>4 DEF Dest, Tag, Old
<1>8. /\ \A a \in ArchReg : Committed(a)' = SeenBy(n, a)
      /\ \A a \in ArchReg : \A d \in 0 .. kept : SeenBy(d, a)' = SeenBy(d + n, a)
      /\ MapIsOverlay'
  BY <1>2, <1>4, <1>5, <1>6, <1>7, RewindOverlay
<1>9. Ownership'
  <2>1. Occ' = kept + 0 /\ 0 \in Nat
    BY <1>5
  <2>2. \A k \in 1 .. 0 : FALSE
    OBVIOUS
  <2>3. PICK tags : tags = <<>>
    OBVIOUS
  <2>4. FreeRegs' = ((FreeRegs \cup Freed(n)) \ {tags[k] : k \in 1 .. 0}) \cup Undone(occ, r)
    BY <1>6, <2>2
  <2>5. Handover(n, r, kept, occ, 0, tags)
    BY <1>2, <1>4, <1>5, <1>7, <1>8, <2>1, <2>2, <2>4 DEF Handover
  <2> QED BY <1>4, <1>5, <2>1, <2>5, OwnershipStep
<1>10. DestinationsRenamed'
  <2>1. Window' = 0 .. kept - 1 /\ Window = 0 .. occ - 1
    BY <1>0, <1>2 DEF OverlayFacts
  <2>2. ASSUME NEW d \in Window'
        PROVE  Dest(d)' = 0 <=> Tag(d)' = 0
    <3>1. d + n \in Window /\ d \in 0 .. kept - 1
      BY <1>4, <1>5, <2>1
    <3>2. Dest(d + n) = 0 <=> Tag(d + n) = 0
      BY <1>0, <3>1 DEF DestinationsRenamed, Dest, Tag
    <3> QED BY <1>7, <3>1, <3>2
  <2>3. ASSUME NEW d \in Window'
        PROVE  Dest(d)' = 0 <=> Old(d)' = 0
    <3>1. d + n \in Window /\ d \in 0 .. kept - 1
      BY <1>4, <1>5, <2>1
    <3>2. Dest(d + n) = 0 <=> Old(d + n) = 0
      BY <1>0, <3>1 DEF DestinationsRenamed, Dest, Old
    <3> QED BY <1>7, <3>1, <3>2
  <2> QED BY <2>2, <2>3 DEF DestinationsRenamed, Dest, Tag, Old
<1>11. map'[0] = 0
  <2>1. 0 \in ArchReg /\ occ - r \in 0 .. Occ
    BY <1>2, <1>4, <1>5, RenameAssumption DEF ArchReg
  <2>2. SeenBy(occ - r, 0) = 0
    BY <2>1, SeenDistinctHolds DEF SeenDistinct
  <2> QED BY <1>6, <2>1, <2>2
<1>12. RenameInv'
  BY <1>4, <1>6, <1>8, <1>9, <1>10, <1>11 DEF RenameInv
<1> QED BY <1>1, <1>2, <1>6, <1>7, <1>8, <1>12

-----------------------------------------------------------------------------
(* A cycle without a rewind.                                                *)

\* The wires of a cycle that retires n instructions and renames a group.
DispatchWires(n, insts, dests, Told, tags, m) ==
    /\ insts \in Group /\ Len(insts) <= FL!free_reg_number
    /\ dests = [k \in 1 .. Len(insts) |-> insts[k].arch_dest_reg]
    /\ Told = ROB!RetireTold(n)
    /\ tags = FreeTags(Told, dests)
    /\ m = MT!MapAfter(dests, tags)
    /\ FL!Cycle(Told, <<>>, dests)
    /\ \E cdb : MT!Cycle(cdb, dests, tags, <<>>, <<>>)

\* What the tables do for a dispatch group: each destination gets a free
\* register of its own and the map follows the group.
LEMMA RunTables ==
    ASSUME RenameInv, NEW n \in Nat, n <= Occ, NEW insts, NEW dests, NEW Told,
           NEW tags, NEW m, DispatchWires(n, insts, dests, Told, tags, m)
    PROVE  /\ FLP!RingExact' /\ FLP!RingDistinct' /\ MT!TypeOK'
           /\ Len(dests) \in Nat /\ Len(dests) = Len(insts)
           /\ \A k \in 1 .. Len(dests) :
                 /\ dests[k] \in ArchReg /\ tags[k] \in PhyReg
                 /\ dests[k] = insts[k].arch_dest_reg
                 /\ dests[k] = 0 <=> tags[k] = 0
                 /\ tags[k] # 0 => tags[k] \in FreeRegs
           /\ \A j, k \in 1 .. Len(dests) : tags[j] # 0 /\ tags[j] = tags[k] => j = k
           /\ FreeRegs' = (FreeRegs \cup Freed(n)) \ {tags[k] : k \in 1 .. Len(dests)}
           /\ m[0] = map
           /\ \A k \in 1 .. Len(dests) :
                 m[k] = [a \in ArchReg |-> IF a # 0 /\ a = dests[k] THEN tags[k] ELSE m[k - 1][a]]
           /\ \A a \in ArchReg, k \in 0 .. Len(dests) :
                 (\A j \in 1 .. k : a # 0 => dests[j] # a) => m[k][a] = map[a]
           /\ \A k \in 0 .. Len(dests) : m[k] \in [ArchReg -> PhyReg]
           /\ map' = m[Len(dests)]
<1> USE DEF DispatchWires
<1>0. /\ OverlayFacts /\ WellTyped /\ SeenDistinct /\ MT!TypeOK
      /\ FLP!RingExact /\ FLP!RingDistinct
  BY OverlayFactsHold, InvTypes, SeenDistinctHolds DEF RenameInv
<1>1. /\ Len(insts) \in Nat /\ Len(insts) \in 0 .. WAY
      /\ \A k \in 1 .. Len(insts) : insts[k] \in DecodedInst
  <2>1. PICK len \in 0 .. WAY : insts \in [1 .. len -> Decoded]
    BY DEF Group
  <2>2. Len(insts) = len
    BY <2>1
  <2> QED BY <2>1, <2>2, RenameAssumption
<1>2. /\ Len(dests) \in Nat /\ Len(dests) = Len(insts)
      /\ \A k \in 1 .. Len(dests) : dests[k] = insts[k].arch_dest_reg /\ dests[k] \in ArchReg
  BY <1>1 DEF DecodedInst
<1>3. /\ Len(Told) = n
      /\ FLP!Registers(Told) = Freed(n)
      /\ FLP!CanFree(Told)
  BY RetireWire
<1>4. \A k \in 1 .. Len(dests) : tags[k] = FLP!dispatch_free_reg(k, Told, dests)
  BY SameTables DEF FreeTags
<1> DEFINE asking == {k \in 1 .. Len(dests) : dests[k] # 0}
<1>5. /\ FLP!RingExact' /\ FLP!RingDistinct'
      /\ \A k \in 1 .. Len(dests) : dests[k] = 0 => FLP!dispatch_free_reg(k, Told, dests) = 0
      /\ \A k \in asking : FLP!dispatch_free_reg(k, Told, dests) \in FLP!FreeRegs
      /\ \A j, k \in asking :
            FLP!dispatch_free_reg(j, Told, dests) = FLP!dispatch_free_reg(k, Told, dests) => j = k
      /\ FLP!FreeRegs' = (FLP!FreeRegs \cup FLP!Registers(Told))
                             \ {FLP!dispatch_free_reg(k, Told, dests) : k \in asking}
  <2>1. FLP!Cycle(Told, <<>>, dests) /\ Len(dests) <= FLP!free_reg_number
    BY <1>2, SameTables
  <2>2. FLP!RingExact' /\ FLP!RingDistinct'
    BY ListHypothesis, <1>0, <1>2, <1>3, <2>1, FLP!DispatchList
  <2>3. ASSUME NEW k \in 1 .. Len(dests), dests[k] = 0
        PROVE  FLP!dispatch_free_reg(k, Told, dests) = 0
    BY ListHypothesis, <1>0, <1>2, <1>3, <2>1, <2>3, FLP!DispatchList
  <2>4. ASSUME NEW k \in asking PROVE FLP!dispatch_free_reg(k, Told, dests) \in FLP!FreeRegs
    BY ListHypothesis, <1>0, <1>2, <1>3, <2>1, FLP!DispatchList
  <2>5. ASSUME NEW j \in asking, NEW k \in asking,
               FLP!dispatch_free_reg(j, Told, dests) = FLP!dispatch_free_reg(k, Told, dests)
        PROVE  j = k
    BY ListHypothesis, <1>0, <1>2, <1>3, <2>1, <2>5, FLP!DispatchList
  <2>6. FLP!FreeRegs' = (FLP!FreeRegs \cup FLP!Registers(Told)) \ FLP!Given(Told, dests)
    BY ListHypothesis, <1>0, <1>2, <1>3, <2>1, FLP!DispatchList
  <2>7. FLP!Given(Told, dests) = {FLP!dispatch_free_reg(k, Told, dests) : k \in asking}
    BY DEF FLP!Given
  <2> QED BY <2>2, <2>3, <2>4, <2>5, <2>6, <2>7
<1>6. 0 \notin FreeRegs /\ 0 \notin Freed(n)
  BY <1>0 DEF SeenDistinct, Freed
<1>7. \A k \in 1 .. Len(dests) :
         /\ dests[k] = 0 <=> tags[k] = 0
         /\ tags[k] # 0 => tags[k] \in FreeRegs
  BY <1>4, <1>5, <1>6 DEF FreeRegs
<1>8. ASSUME NEW j \in 1 .. Len(dests), NEW k \in 1 .. Len(dests),
             tags[j] # 0, tags[j] = tags[k]
      PROVE  j = k
  <2>1. j \in asking /\ k \in asking
    BY <1>7, <1>8
  <2>2. tags[j] = FLP!dispatch_free_reg(j, Told, dests)
        /\ tags[k] = FLP!dispatch_free_reg(k, Told, dests)
    BY <1>4
  <2> HIDE DEF asking
  <2> QED BY <1>5, <1>8, <2>1, <2>2
<1>9. FreeRegs' = (FreeRegs \cup Freed(n)) \ {tags[k] : k \in 1 .. Len(dests)}
  <2>1. FreeRegs' = (FreeRegs \cup Freed(n)) \ {FLP!dispatch_free_reg(k, Told, dests) : k \in asking}
    BY <1>3, <1>5 DEF FreeRegs
  <2>2. \A p : p # 0 => (p \in {FLP!dispatch_free_reg(k, Told, dests) : k \in asking}
                           <=> p \in {tags[k] : k \in 1 .. Len(dests)})
    <3> HIDE DEF DispatchWires
    <3>1. ASSUME NEW k \in asking PROVE FLP!dispatch_free_reg(k, Told, dests) = tags[k]
      BY <1>4
    <3>2. ASSUME NEW k \in 1 .. Len(dests), tags[k] # 0 PROVE k \in asking
      BY <1>7, <3>2
    <3>3. asking \subseteq 1 .. Len(dests)
      OBVIOUS
    <3> HIDE DEF asking
    <3> QED BY <3>1, <3>2, <3>3
  <2> QED BY <1>6, <2>1, <2>2
<1> HIDE DEF DispatchWires
<1>10. /\ FreeRegs \subseteq PhyReg /\ 0 \in PhyReg
  <2>1. FLP!FreeRegs \subseteq FLP!PhyReg
    BY ListHypothesis, <1>0, FLP!FreeRegsCount
  <2> QED BY <2>1, RenameAssumption DEF FreeRegs, FLP!PhyReg, PhyReg, FREELIST_SIZE
<1>11. \A k \in 1 .. Len(dests) : tags[k] \in PhyReg
  BY <1>1, <1>2, <1>7, <1>10
<1>12. m = MTP!MapAfter(dests, tags) /\ map \in [ArchReg -> PhyReg]
  BY <1>0, SameTables DEF WellTyped, DispatchWires
<1>13. /\ m[0] = map
       /\ \A k \in 1 .. Len(dests) :
             m[k] = [a \in ArchReg |-> IF a # 0 /\ a = dests[k] THEN tags[k] ELSE m[k - 1][a]]
  <2>1. m[0] = map
    BY <1>2, <1>12, MTP!DispatchTurns
  <2>2. ASSUME NEW k \in 1 .. Len(dests)
        PROVE  m[k] = [a \in ArchReg |-> IF a # 0 /\ a = dests[k] THEN tags[k] ELSE m[k - 1][a]]
    BY <1>2, <1>12, SameTables, MTP!DispatchTurns
  <2> QED BY <2>1, <2>2
<1>14. ASSUME NEW a \in ArchReg, NEW k \in 0 .. Len(dests),
              \A j \in 1 .. k : a # 0 => dests[j] # a
       PROVE  m[k][a] = map[a]
  <2>1. a \in MTP!ArchReg
    BY SameTables
  <2> QED BY <1>2, <1>12, <1>14, <2>1, MTP!DispatchKeeps
<1>15. \A k \in 0 .. Len(dests) : m[k] \in [ArchReg -> PhyReg]
  BY <1>2, <1>11, <1>12, SameTables, MTP!DispatchTypes
<1>16. map' = m[Len(dests)] /\ ready' \in [ArchReg -> BOOLEAN]
  <2>1. PICK cdb : MT!Cycle(cdb, dests, tags, <<>>, <<>>)
    BY DEF DispatchWires
  <2> QED BY <1>2, <1>12, <2>1, SameTables DEF MT!Cycle, MT!Dispatch
<1>17. MT!TypeOK'
  BY <1>2, <1>15, <1>16, SameTables DEF MT!TypeOK
<1> QED BY <1>2, <1>5, <1>7, <1>8, <1>9, <1>11, <1>13, <1>14, <1>15, <1>16, <1>17

\* What a cycle that retires n instructions makes of the group it is offered:
\* the destinations, the registers given to them, and what the ROB takes.
Offer(n, insts, kept, dests, tags, group) ==
    /\ kept = Occ - n
    /\ dests = [k \in 1 .. Len(insts) |-> insts[k].arch_dest_reg]
    /\ tags = FreeTags(ROB!RetireTold(n), dests)
    /\ group = ToRob(insts, dests, tags)

\* What that cycle does: the instructions that stay move up, those of the group
\* come behind them, and the tables follow.
RunEffect(n, complete, resolve, insts, kept, dests, tags, group) ==
    /\ n \in Nat /\ kept \in Nat /\ Len(insts) \in Nat
    /\ Occ' = kept + Len(insts)
    /\ \A a \in ArchReg : Committed(a)' = SeenBy(n, a)
    /\ \A a \in ArchReg : \A d \in 0 .. kept : SeenBy(d, a)' = SeenBy(d + n, a)
    /\ \A d \in 0 .. kept - 1 :
          /\ Slot(d)' = Slot(d + n) /\ Slot(d + n) \in Index
          /\ rob_mem'[Slot(d + n)] =
                RP!AfterResolve(Slot(d + n), n, complete, resolve)
          /\ ~RP!Retired(Slot(d + n), n)
          /\ ROB!Place(Slot(d + n)) > Len(insts)
    /\ \A k \in 1 .. Len(insts) :
          /\ Slot(kept + (k - 1))' = RP!RobIndexOf(k)
          /\ RP!RobIndexOf(k) \in Index
          /\ rob_mem'[RP!RobIndexOf(k)] = RP!NewEntry(group[k])
          /\ ROB!Place(RP!RobIndexOf(k)) = k
          /\ tags[k] # 0 => tags[k] \in FreeRegs
          /\ \A a \in ArchReg :
                MT!phy_src_reg(k, a, dests, tags) = SeenBy(kept + (k - 1), a)'
          /\ Dest(kept + (k - 1))' = dests[k] /\ Tag(kept + (k - 1))' = tags[k]
    /\ \A d \in 0 .. kept - 1 : Dest(d)' = Dest(d + n) /\ Tag(d)' = Tag(d + n)
    /\ FreeRegs' = (FreeRegs \cup Freed(n)) \ {tags[k] : k \in 1 .. Len(insts)}

\* A cycle without a rewind keeps the invariant; the instructions that stay see
\* what they saw before, and those of the group what the map table gives them.
LEMMA RunStep ==
    ASSUME RenameInv, NEW store_accepted \in BOOLEAN,
           NEW n \in ROB!RetireNum(store_accepted), NEW complete \in SUBSET Index,
           NEW resolve \in ROB!Resolution, NEW insts \in Group,
           RunCycle(n, store_accepted, complete, resolve, insts),
           NEW kept, NEW dests, NEW tags, NEW group,
           Offer(n, insts, kept, dests, tags, group)
    PROVE  RenameInv' /\ RunEffect(n, complete, resolve, insts, kept, dests, tags, group)
<1> USE DEF Offer
<1>0. RP!RobInv /\ OverlayFacts' /\ OverlayFacts /\ WellTyped /\ SeenDistinct
      /\ DestinationsRenamed /\ MapIsOverlay
  BY OverlayFactsHold, OverlayFactsNext, InvTypes, SeenDistinctHolds DEF RenameInv
<1>1. PICK Told : Told = ROB!RetireTold(n)
  OBVIOUS
<1>2. /\ Len(insts) <= dispatch_stage_num_can_fetch(n, store_accepted, resolve)
      /\ ROB!Run(n, store_accepted, complete, resolve, group)
      /\ FL!Cycle(Told, <<>>, dests)
      /\ MT!Cycle(CDB_tag(complete), dests, tags, <<>>, <<>>)
  BY <1>1 DEF RunCycle
<1>3. n \in Nat /\ n <= Occ
  <2>1. RP!RobAssumption /\ RP!TypeOK /\ n \in RP!RetireNum(store_accepted)
    BY <1>0, RobHypothesis, SameCycle DEF RP!RobInv
  <2>2. n \in Nat /\ n <= RP!Occupied
    BY <2>1, RP!RetireBound DEF RP!RobAssumption
  <2> QED BY <2>2, SameRing
<1>4. PICK len \in 0 .. WAY : insts \in [1 .. len -> Decoded] /\ Len(insts) = len
  BY DEF Group
<1>5. WAY \in Nat /\ len \in Nat /\ \A k \in 1 .. len : insts[k] \in DecodedInst
  BY <1>4, RenameAssumption
<1>6. len <= FL!free_reg_number
  <2>1. FL!free_reg_number \in Nat
    BY ListHypothesis, FLP!RingPlaces, SameTables DEF RenameInv
  <2>2. FL!free_reg_valid \in Nat /\ FL!free_reg_valid <= FL!free_reg_number
    BY <1>5, <2>1 DEF FL!free_reg_valid
  <2>3. ROB!NumCanDispatch(n, store_accepted, resolve) \in Int
    <3>1. Occ \in Nat /\ ROB_SIZE \in Nat /\ ROB!Left(n) = Occ - n
      BY <1>0, RenameAssumption, SameRing DEF WellTyped
    <3> QED BY <1>3, <1>5, <3>1 DEF ROB!NumCanDispatch, ROB!Least
  <2> QED BY <1>2, <1>4, <2>1, <2>2, <2>3 DEF dispatch_stage_num_can_fetch, ROB!Least
<1>7. PICK m : m = MT!MapAfter(dests, tags)
  OBVIOUS
<1>8. /\ FLP!RingExact' /\ FLP!RingDistinct' /\ MT!TypeOK'
      /\ Len(dests) \in Nat /\ Len(dests) = len
      /\ \A k \in 1 .. len :
            /\ dests[k] \in ArchReg /\ tags[k] \in PhyReg
            /\ dests[k] = insts[k].arch_dest_reg
            /\ dests[k] = 0 <=> tags[k] = 0
            /\ tags[k] # 0 => tags[k] \in FreeRegs
      /\ \A j, k \in 1 .. len : tags[j] # 0 /\ tags[j] = tags[k] => j = k
      /\ FreeRegs' = (FreeRegs \cup Freed(n)) \ {tags[k] : k \in 1 .. len}
      /\ m[0] = map
      /\ \A k \in 1 .. len :
            m[k] = [a \in ArchReg |-> IF a # 0 /\ a = dests[k] THEN tags[k] ELSE m[k - 1][a]]
      /\ \A a \in ArchReg, k \in 0 .. len :
            (\A j \in 1 .. k : a # 0 => dests[j] # a) => m[k][a] = map[a]
      /\ \A k \in 0 .. len : m[k] \in [ArchReg -> PhyReg]
      /\ map' = m[len]
  <2>1. DispatchWires(n, insts, dests, Told, tags, m)
    BY <1>1, <1>2, <1>4, <1>6, <1>7 DEF DispatchWires
  <2>2. Len(dests) = len
    BY <1>4
  <2> HIDE DEF Offer
  <2>3. /\ FLP!RingExact' /\ FLP!RingDistinct' /\ MT!TypeOK'
        /\ m[0] = map /\ map' = m[len]
    BY <1>3, <2>1, <2>2, RunTables
  <2>4. ASSUME NEW k \in 1 .. len
        PROVE  /\ dests[k] \in ArchReg /\ tags[k] \in PhyReg
               /\ dests[k] = insts[k].arch_dest_reg
               /\ dests[k] = 0 <=> tags[k] = 0
               /\ tags[k] # 0 => tags[k] \in FreeRegs
               /\ m[k] = [a \in ArchReg |->
                            IF a # 0 /\ a = dests[k] THEN tags[k] ELSE m[k - 1][a]]
    BY <1>3, <2>1, <2>2, RunTables
  <2>5. ASSUME NEW j \in 1 .. len, NEW k \in 1 .. len, tags[j] # 0, tags[j] = tags[k]
        PROVE  j = k
    BY <1>3, <2>1, <2>2, <2>5, RunTables
  <2>6. FreeRegs' = (FreeRegs \cup Freed(n)) \ {tags[k] : k \in 1 .. len}
    BY <1>3, <2>1, <2>2, RunTables
  <2>7. ASSUME NEW a \in ArchReg, NEW k \in 0 .. len,
               \A j \in 1 .. k : a # 0 => dests[j] # a
        PROVE  m[k][a] = map[a]
    BY <1>3, <2>1, <2>2, <2>7, RunTables
  <2>8. ASSUME NEW k \in 0 .. len PROVE m[k] \in [ArchReg -> PhyReg]
    BY <1>3, <2>1, <2>2, RunTables
  <2> QED BY <1>5, <2>2, <2>3, <2>4, <2>5, <2>6, <2>7, <2>8
\* No instruction of the group replaces register 0.
<1>9. ASSUME NEW a \in ArchReg, a # 0 PROVE \A k \in 0 .. len : m[k][a] # 0
  <2> DEFINE S == {k \in 0 .. len : m[k][a] # 0}
  <2>1. 0 \in S
    <3>1. Occ \in 0 .. Occ /\ Occ <= Occ /\ 0 \in ArchReg
      BY <1>0, RenameAssumption DEF WellTyped, ArchReg
    <3>2. SeenBy(Occ, 0) = 0
      BY <1>0, <3>1 DEF SeenDistinct
    <3>3. SeenBy(Occ, a) # SeenBy(Occ, 0)
      BY <1>0, <1>9, <3>1 DEF SeenDistinct
    <3>4. map[a] = SeenBy(Occ, a)
      BY <1>0 DEF OverlayFacts
    <3> QED BY <1>5, <1>8, <3>2, <3>3, <3>4
  <2>2. ASSUME NEW j \in 0 .. len - 1, j \in S PROVE j + 1 \in S
    <3>1. PICK k \in 1 .. len : k = j + 1 /\ k - 1 = j
      BY <1>5
    <3>2. m[k][a] = IF a # 0 /\ a = dests[k] THEN tags[k] ELSE m[k - 1][a]
      <4>1. m[k] = [b \in ArchReg |-> IF b # 0 /\ b = dests[k] THEN tags[k] ELSE m[k - 1][b]]
        BY <1>8
      <4> QED BY <1>9, <4>1
    <3>3. m[k][a] # 0
      BY <1>8, <1>9, <2>2, <3>1, <3>2
    <3> QED BY <3>1, <3>3
  <2> HIDE DEF S
  <2>3. \A k \in 0 .. len : k \in S
    BY <1>5, <2>1, <2>2, IntervalInduction
  <2> QED BY <2>3 DEF S
<1>10. /\ group \in RP!Group /\ Len(group) = len
       /\ \A k \in 1 .. len :
             /\ group[k].arch_dest_reg = dests[k] /\ group[k].T = tags[k]
             /\ group[k].Told = IF dests[k] = 0 THEN 0 ELSE m[k - 1][dests[k]]
  <2>1. group = [k \in 1 .. len |->
                   [kind |-> insts[k].kind, arch_dest_reg |-> dests[k], T |-> tags[k],
                    Told |-> MT!Told_out(k, dests, tags),
                    target_pc |-> insts[k].target_pc, code |-> insts[k].code]]
    BY <1>4 DEF ToRob
  <2>2. ASSUME NEW k \in 1 .. len
        PROVE  /\ MT!Told_out(k, dests, tags) = IF dests[k] = 0 THEN 0 ELSE m[k - 1][dests[k]]
               /\ MT!Told_out(k, dests, tags) \in PhyReg
    <3>1. MT!Told_out(k, dests, tags) = IF dests[k] = 0 THEN 0 ELSE m[k - 1][dests[k]]
      BY <1>7 DEF MT!Told_out
    <3>2. k - 1 \in 0 .. len
      BY <1>5
    <3>3. m[k - 1] \in [ArchReg -> PhyReg] /\ dests[k] \in ArchReg
      BY <1>8, <3>2
    <3>4. 0 \in PhyReg
      BY RenameAssumption DEF PhyReg, FREELIST_SIZE
    <3> QED BY <3>1, <3>3, <3>4
  <2>3. ASSUME NEW k \in 1 .. len PROVE group[k] \in ROB!Inst
    <3>1. /\ insts[k].kind \in ROB!Kind /\ insts[k].target_pc \in PC
          /\ insts[k].code \in ROB!Code \ {"INST_ADDR_MISALIGN"}
      BY <1>5 DEF DecodedInst
    <3>2. group[k] = [kind |-> insts[k].kind, arch_dest_reg |-> dests[k], T |-> tags[k],
                      Told |-> MT!Told_out(k, dests, tags),
                      target_pc |-> insts[k].target_pc, code |-> insts[k].code]
      BY <2>1
    <3>3. dests[k] \in ArchReg /\ tags[k] \in PhyReg /\ MT!Told_out(k, dests, tags) \in PhyReg
      BY <1>8, <2>2
    <3> HIDE <2>1 DEF Offer
    <3> QED BY <3>1, <3>2, <3>3 DEF ROB!Inst
  <2>4. group \in [1 .. len -> ROB!Inst] /\ Len(group) = len
    <3>1. Len(group) = len
      BY <1>5, <2>1
    <3> QED BY <2>1, <2>3, <3>1
  <2>5. group \in RP!Group
    BY <1>4, <2>4 DEF RP!Group
  <2>6. ASSUME NEW k \in 1 .. len
        PROVE  /\ group[k].arch_dest_reg = dests[k] /\ group[k].T = tags[k]
               /\ group[k].Told = MT!Told_out(k, dests, tags)
    <3>1. group[k] = [kind |-> insts[k].kind, arch_dest_reg |-> dests[k], T |-> tags[k],
                      Told |-> MT!Told_out(k, dests, tags),
                      target_pc |-> insts[k].target_pc, code |-> insts[k].code]
      BY <2>1
    <3> HIDE <2>1 DEF Offer
    <3> QED BY <3>1
  <2> HIDE DEF Offer
  <2> QED BY <2>2, <2>4, <2>5, <2>6
<1>11. /\ RP!RobInv'
       /\ kept \in Nat /\ Occ' = kept + len /\ Occ \in Nat
       /\ \A d \in 0 .. kept - 1 :
             /\ Slot(d)' = Slot(d + n) /\ Slot(d + n) \in Index
             /\ rob_mem'[Slot(d + n)] =
                   RP!AfterResolve(Slot(d + n), n, complete, resolve)
             /\ ~RP!Retired(Slot(d + n), n)
             /\ ROB!Place(Slot(d + n)) > len
       /\ \A k \in 1 .. len :
             /\ Slot(kept + (k - 1))' = RP!RobIndexOf(k)
             /\ RP!RobIndexOf(k) \in Index
             /\ rob_mem'[RP!RobIndexOf(k)] = RP!NewEntry(group[k])
             /\ ROB!Place(RP!RobIndexOf(k)) = k
  <2>1. Staying(n, kept) /\ RP!RobInv /\ group \in RP!Group
        /\ ROB!Run(n, store_accepted, complete, resolve, group)
    BY <1>0, <1>2, <1>10 DEF Staying
  <2> HIDE DEF Offer
  <2>2. /\ RP!RobInv' /\ kept \in Nat /\ Occ' = kept + Len(group) /\ Occ \in 0 .. ROB_SIZE
    BY <2>1, RunShape
  <2>3. ASSUME NEW d \in 0 .. kept - 1
        PROVE  /\ Slot(d)' = Slot(d + n) /\ Slot(d + n) \in Index
               /\ rob_mem'[Slot(d + n)] =
                     RP!AfterResolve(Slot(d + n), n, complete, resolve)
               /\ ~RP!Retired(Slot(d + n), n)
               /\ ROB!Place(Slot(d + n)) > Len(group)
    BY <2>1, RunShape
  <2>4. ASSUME NEW k \in 1 .. Len(group)
        PROVE  /\ Slot(kept + (k - 1))' = RP!RobIndexOf(k)
               /\ RP!RobIndexOf(k) \in Index
               /\ rob_mem'[RP!RobIndexOf(k)] = RP!NewEntry(group[k])
               /\ ROB!Place(RP!RobIndexOf(k)) = k
    BY <2>1, RunShape
  <2> QED BY <1>0, <1>10, <2>2, <2>3, <2>4 DEF WellTyped
<1>12. ASSUME NEW d \in 0 .. kept - 1
       PROVE  Dest(d)' = Dest(d + n) /\ Tag(d)' = Tag(d + n) /\ Old(d)' = Old(d + n)
  <2>1. ROB!At(d)' = rob_mem'[Slot(d)'] /\ ROB!At(d + n) = rob_mem[Slot(d + n)]
    BY DEF ROB!At, Slot, ROB!Wrap
  <2>2. rob_mem[Slot(d + n)] \in RP!Entry
    BY <1>0, <1>11, SameRing DEF RP!RobInv, RP!TypeOK, Index
  <2>3. /\ ROB!At(d)'.arch_dest_reg = ROB!At(d + n).arch_dest_reg
        /\ ROB!At(d)'.T = ROB!At(d + n).T
        /\ ROB!At(d)'.Told = ROB!At(d + n).Told
    <3>1. PICK i \in Index : i = Slot(d + n)
      BY <1>11
    <3>2. /\ ROB!At(d)' = RP!AfterResolve(i, n, complete, resolve)
          /\ ~RP!Retired(i, n) /\ ROB!At(d + n) = rob_mem[i] /\ rob_mem[i] \in RP!Entry
      BY <1>11, <2>1, <2>2, <3>1
    <3>3. RP!AfterRetire(i, n) = rob_mem[i]
      BY <3>2 DEF RP!AfterRetire
    <3> HIDE DEF Offer
    <3> QED BY <3>2, <3>3 DEF RP!Entry, RP!AfterResolve, RP!AfterComplete
  <2> QED BY <2>3 DEF Dest, Tag, Old
<1>13. ASSUME NEW k \in 1 .. len
       PROVE  /\ Dest(kept + (k - 1))' = dests[k] /\ Tag(kept + (k - 1))' = tags[k]
              /\ Old(kept + (k - 1))' = IF dests[k] = 0 THEN 0 ELSE m[k - 1][dests[k]]
  <2>1. ROB!At(kept + (k - 1))' = rob_mem'[Slot(kept + (k - 1))']
    BY DEF ROB!At, Slot, ROB!Wrap
  <2>2. ROB!At(kept + (k - 1))' = RP!NewEntry(group[k])
    BY <1>11, <2>1
  <2>3. /\ ROB!At(kept + (k - 1))'.arch_dest_reg = group[k].arch_dest_reg
        /\ ROB!At(kept + (k - 1))'.T = group[k].T
        /\ ROB!At(kept + (k - 1))'.Told = group[k].Told
    <3>1. PICK e : e = ROB!At(kept + (k - 1))'
      OBVIOUS
    <3>2. PICK inst : inst = group[k]
      OBVIOUS
    <3>3. e = RP!NewEntry(inst)
      BY <2>2, <3>1, <3>2
    <3>4. e.arch_dest_reg = inst.arch_dest_reg /\ e.T = inst.T /\ e.Told = inst.Told
      BY <3>3 DEF RP!NewEntry
    <3> QED BY <3>1, <3>2, <3>4
  <2>4. /\ group[k].arch_dest_reg = dests[k] /\ group[k].T = tags[k]
        /\ group[k].Told = IF dests[k] = 0 THEN 0 ELSE m[k - 1][dests[k]]
    BY <1>10
  <2> HIDE DEF Offer
  <2> QED BY <2>3, <2>4 DEF Dest, Tag, Old
<1>14. /\ \A a \in ArchReg : Committed(a)' = SeenBy(n, a)
       /\ \A a \in ArchReg : \A d \in 0 .. kept : SeenBy(d, a)' = SeenBy(d + n, a)
       /\ \A a \in ArchReg : \A k \in 0 .. Len(dests) : m[k][a] = SeenBy(kept + k, a)'
       /\ MapIsOverlay'
  <2>1. \A k \in 1 .. Len(dests) :
              /\ Dest(kept + (k - 1))' = dests[k] /\ dests[k] \in ArchReg
              /\ Tag(kept + (k - 1))' = tags[k]
              /\ dests[k] # 0 => Old(kept + (k - 1))' = m[k - 1][dests[k]]
    BY <1>8, <1>13
  <2>2. Renaming(n, kept, dests, tags, m)
    <3> HIDE DEF Offer
    <3> QED BY <1>8, <1>11, <1>12, <2>1 DEF Renaming
  <2>3. kept = Occ - n /\ Occ \in Nat /\ kept \in Nat
    BY <1>11
  <2> HIDE DEF Offer
  <2>4. /\ \A a \in ArchReg : Committed(a)' = SeenBy(n, a)
        /\ \A a \in ArchReg : \A d \in 0 .. kept : SeenBy(d, a)' = SeenBy(d + n, a)
        /\ \A a \in ArchReg : \A k \in 0 .. Len(dests) : m[k][a] = SeenBy(kept + k, a)'
        /\ MapIsOverlay'
    BY <1>0, <1>3, <2>2, <2>3, DispatchOverlay
  <2> QED BY <2>4
<1>15. Ownership'
  <2>1. kept = (Occ - n) - 0 /\ 0 \in Nat
    BY <1>3, <1>11
  <2>2. PICK occ : occ = Occ
    OBVIOUS
  <2>3. Undone(occ, 0) = {}
    BY <1>11, <2>2 DEF Undone
  <2>4. FreeRegs' = ((FreeRegs \cup Freed(n)) \ {tags[k] : k \in 1 .. len}) \cup Undone(occ, 0)
    BY <1>8, <2>3
  <2>5. \A k \in 1 .. len : /\ Tag(kept + (k - 1))' = tags[k]
                            /\ tags[k] # 0 => tags[k] \in FreeRegs
    BY <1>8, <1>13
  <2>6. Handover(n, 0, kept, occ, len, tags) /\ occ \in Nat
    BY <1>3, <1>5, <1>8, <1>11, <1>12, <1>14, <2>1, <2>2, <2>4, <2>5 DEF Handover
  <2> QED BY <1>3, <1>5, <1>11, <2>1, <2>6, OwnershipStep
<1>16. DestinationsRenamed'
  <2>1. Window' = 0 .. (kept + len) - 1 /\ Window = 0 .. Occ - 1
    BY <1>0, <1>11 DEF OverlayFacts
  <2>2. ASSUME NEW d \in Window'
        PROVE  (Dest(d)' = 0 <=> Tag(d)' = 0) /\ (Dest(d)' = 0 <=> Old(d)' = 0)
    <3>1. CASE d < kept
      <4>1. d + n \in Window /\ d \in 0 .. kept - 1
        BY <1>3, <1>11, <2>1, <3>1
      <4>2. (Dest(d + n) = 0 <=> Tag(d + n) = 0) /\ (Dest(d + n) = 0 <=> Old(d + n) = 0)
        BY <1>0, <4>1 DEF DestinationsRenamed, Dest, Tag, Old
      <4> QED BY <1>12, <4>1, <4>2
    <3>2. CASE d >= kept
      <4>1. PICK k \in 1 .. len : d = kept + (k - 1)
        <5>1. (d - kept) + 1 \in 1 .. len /\ d = kept + (((d - kept) + 1) - 1)
          BY <1>5, <1>11, <2>1, <3>2
        <5> QED BY <5>1
      <4>2. k - 1 \in 0 .. len
        BY <1>5
      <4>3. dests[k] # 0 => m[k - 1][dests[k]] # 0
        BY <1>8, <1>9, <4>2
      <4>4. dests[k] = 0 <=> tags[k] = 0
        BY <1>8
      <4>5. /\ Dest(d)' = Dest(kept + (k - 1))' /\ Tag(d)' = Tag(kept + (k - 1))'
            /\ Old(d)' = Old(kept + (k - 1))'
        BY <4>1
      <4> HIDE DEF Offer
      <4> QED BY <1>13, <4>3, <4>4, <4>5
    <3> QED BY <1>11, <2>1, <3>1, <3>2
  <2> QED BY <2>2 DEF DestinationsRenamed, Dest, Tag, Old
<1>17. map'[0] = 0
  <2>1. 0 \in ArchReg /\ len \in 0 .. len
    BY <1>5, RenameAssumption DEF ArchReg
  <2>2. m[len][0] = map[0]
    BY <1>8, <2>1
  <2> QED BY <1>0, <1>8, <2>2 DEF WellTyped
<1>18. ASSUME NEW k \in 1 .. len, NEW a \in ArchReg
       PROVE  MT!phy_src_reg(k, a, dests, tags) = SeenBy(kept + (k - 1), a)'
  <2>1. k - 1 \in 0 .. Len(dests)
    BY <1>5, <1>8
  <2>2. m[k - 1][a] = SeenBy(kept + (k - 1), a)'
    BY <1>14, <2>1
  <2> QED BY <1>7, <2>2 DEF MT!phy_src_reg
<1>19. RenameInv'
  BY <1>8, <1>11, <1>14, <1>15, <1>16, <1>17 DEF RenameInv
<1> HIDE DEF Offer
<1> QED BY <1>3, <1>4, <1>5, <1>8, <1>11, <1>12, <1>13, <1>14, <1>18, <1>19 DEF RunEffect

-----------------------------------------------------------------------------
(* The invariant.                                                           *)

\* The registers are all mapped or free after reset.
LEMMA InitRename == Init => RenameInv
<1> SUFFICES ASSUME Init PROVE RenameInv
  OBVIOUS
<1>1. ROB!Init /\ FL!Init /\ MT!Init
  BY DEF Init
<1>2. RP!RobInv
  <2>1. RP!Init
    BY <1>1 DEF ROB!Init, RP!Init, ROB!Index, RP!Index, ROB!Cleared, RP!Cleared
  <2> QED BY <2>1, RobHypothesis, RP!InitEstablishes DEF RP!RobAssumption
<1>3. /\ FLP!RingExact /\ FLP!RingDistinct
      /\ FreeRegs = ARCH_REG_SIZE .. ARCH_REG_SIZE + FREELIST_SIZE - 1
  <2>1. FLP!Init
    BY <1>1 DEF FL!Init, FLP!Init, FL!FreeIndex, FLP!FreeIndex
  <2> QED BY <2>1, ListHypothesis, FLP!InitList DEF FreeRegs
<1>4. /\ map = [a \in ArchReg |-> a] /\ MT!TypeOK
      /\ \A a \in ArchReg : a \in PhyReg /\ map[a] = a
      /\ map[0] = 0
  BY <1>1, SameTables, RenameAssumption DEF MT!Init, MT!TypeOK, ArchReg, PhyReg, FREELIST_SIZE
<1>5. Occ = 0 /\ Window = {}
  BY <1>1 DEF ROB!Init, Occ, ROB!Occupied, Window
<1>6. \A a : Committed(a) = map[a] /\ SeenBy(0, a) = map[a]
  BY <1>5, OverlayFactsHold DEF OverlayFacts, SeenTurns, CommittedOrigin
<1>7. MapIsOverlay
  BY <1>5, <1>6, OverlayFactsHold DEF OverlayFacts
<1>8. DestinationsRenamed
  BY <1>5 DEF DestinationsRenamed
<1>9. Ownership
  <2>1. \A p \in PhyReg : p \in ArchReg \/ p \in FreeRegs
    BY <1>3, RenameAssumption DEF ArchReg, PhyReg, FREELIST_SIZE
  <2>2. \A a \in ArchReg : a \notin FreeRegs
    BY <1>3, RenameAssumption DEF ArchReg, FREELIST_SIZE
  <2> QED BY <1>4, <1>5, <1>6, <2>1, <2>2 DEF Ownership
<1> QED BY <1>2, <1>3, <1>4, <1>7, <1>8, <1>9 DEF RenameInv

\* Nothing of it changes when the core stands still.
LEMMA StillRename ==
    ASSUME RenameInv, UNCHANGED vars
    PROVE  /\ RenameInv'
           /\ \A a \in ArchReg : Committed(a)' = Committed(a)
           /\ \A a \in ArchReg : \A d \in 0 .. Occ : SeenBy(d, a)' = SeenBy(d, a)
<1>1. RP!RobInv'
  BY DEF vars, robVars, RenameInv, RP!RobInv, RP!TypeOK, RP!ValidIffLive, RP!OldestException,
         RP!RewindsToOldest, RP!Live, RP!Dist, RP!Occupied
<1>2. FLP!RingExact' /\ FLP!RingDistinct' /\ FreeRegs' = FreeRegs
  BY DEF vars, freeListVars, RenameInv, FLP!RingExact, FLP!TypeOK, FLP!RingDistinct, FLP!Ring,
         FLP!free_reg_number, FLP!RingCount, FreeRegs, FLP!FreeRegs
<1>3. MT!TypeOK' /\ map' = map /\ map'[0] = 0
  BY DEF vars, mapTableVars, RenameInv, MT!TypeOK
<1>4. Occ' = Occ
  BY DEF vars, robVars, Occ, ROB!Occupied
<1>5. \A d : ROB!At(d)' = ROB!At(d)
  BY DEF vars, robVars, ROB!At, ROB!Wrap
<1>6. /\ MapIsOverlay' /\ \A a \in ArchReg : Committed(a)' = Committed(a)
      /\ \A a \in ArchReg : \A d \in 0 .. Occ : SeenBy(d, a)' = SeenBy(d, a)
  <2>1. /\ OverlayFacts /\ WellTyped /\ MapIsOverlay /\ Occ \in Nat /\ 0 \in Nat
    BY OverlayFactsHold, InvTypes DEF RenameInv, WellTyped
  <2>2. PICK kept : kept = Occ - 0 /\ kept = Occ /\ kept \in Nat
    BY <2>1
  <2>3. PICK dests : dests = <<>> /\ Len(dests) = 0
    OBVIOUS
  <2>4. PICK m : m = [k \in {0} |-> map]
    OBVIOUS
  <2>5. Renaming(0, kept, dests, dests, m)
    <3>1. \A d \in 0 .. kept - 1 :
             Dest(d)' = Dest(d + 0) /\ Tag(d)' = Tag(d + 0) /\ Old(d)' = Old(d + 0)
      <4> TAKE d \in 0 .. kept - 1
      <4>1. d + 0 = d /\ ROB!At(d)' = ROB!At(d)
        BY <1>5, <2>2
      <4>2. Dest(d)' = Dest(d) /\ Tag(d)' = Tag(d) /\ Old(d)' = Old(d)
        BY <4>1 DEF Dest, Tag, Old
      <4> QED BY <4>1, <4>2
    <3>2. Occ' = kept + Len(dests) /\ Len(dests) \in Nat
      BY <1>4, <2>2, <2>3
    <3>3. /\ m[0] = map /\ map' = m[Len(dests)]
          /\ \A k \in 0 .. Len(dests) : m[k] = map
      BY <1>3, <2>3, <2>4
    <3> QED BY <2>3, <3>1, <3>2, <3>3 DEF Renaming
  <2>6. MapIsOverlay' /\ \A a \in ArchReg : Committed(a)' = SeenBy(0, a)
    BY <2>1, <2>2, <2>5, DispatchOverlay
  <2>7. \A a \in ArchReg : SeenBy(0, a) = Committed(a)
    BY <2>1 DEF OverlayFacts, SeenTurns
  <2>8. ASSUME NEW a \in ArchReg, NEW d \in 0 .. Occ PROVE SeenBy(d, a)' = SeenBy(d, a)
    <3>1. d \in 0 .. kept /\ d + 0 = d
      BY <2>1, <2>2
    <3>2. SeenBy(d, a)' = SeenBy(d + 0, a)
      BY <2>1, <2>2, <2>5, <3>1, DispatchOverlay
    <3> QED BY <3>1, <3>2
  <2> QED BY <2>6, <2>7, <2>8
<1>7. DestinationsRenamed'
  BY <1>4, <1>5 DEF RenameInv, DestinationsRenamed, Window, Occ
<1>8. Ownership'
  BY <1>2, <1>4, <1>5, <1>6 DEF RenameInv, Ownership, Tag, Window, Occ
<1> QED BY <1>1, <1>2, <1>3, <1>6, <1>7, <1>8 DEF RenameInv

-----------------------------------------------------------------------------
(* The tags of the waiting instructions.                                    *)

\* The places of the window are entries of the ROB.
SlotFacts ==
    /\ \A d \in Window : /\ Slot(d) \in Index /\ rob_mem[Slot(d)].valid
                         /\ ROB!Dist(Slot(d)) = d
    /\ \A i \in Index : /\ rob_mem[i] \in RP!Entry
                        /\ rob_mem[i].valid <=> ROB!Live(i)
                        /\ rob_mem[i].valid => ROB!Dist(i) \in Window /\ Slot(ROB!Dist(i)) = i
                        /\ ROB!Place(i) \in Nat /\ ROB!Place(i) >= 1
    /\ \A d : ROB!At(d) = rob_mem[Slot(d)]

\* The valid bits are the window, so its places are entries and the entries its places.
LEMMA SlotFactsHold == RP!RobInv => SlotFacts
<1> SUFFICES ASSUME RP!RobInv PROVE SlotFacts
  OBVIOUS
<1>0. RP!RobAssumption
  BY RobHypothesis
<1>1. RP!TypeOK /\ RP!ValidIffLive
  BY DEF RP!RobInv
<1>2. /\ head \in RP!Index /\ tail \in RP!Index /\ is_empty \in BOOLEAN
      /\ rob_mem \in [RP!Index -> RP!Entry]
  BY <1>1 DEF RP!TypeOK
<1>3. ASSUME NEW i \in RP!Index
      PROVE  /\ RP!Dist(i) \in Nat /\ RP!Dist(i) < ROB_SIZE
             /\ RP!Place(i) \in 1 .. ROB_SIZE
             /\ RP!Wrap(head + RP!Dist(i)) = i
             /\ RP!Occupied \in 0 .. ROB_SIZE
             /\ \A d \in 0 .. ROB_SIZE - 1 :
                   RP!Wrap(head + d) \in RP!Index /\ RP!Dist(RP!Wrap(head + d)) = d
  BY <1>0, <1>2, RP!RingTypes DEF RP!RobAssumption
<1>4. ROB_SIZE \in Nat /\ 0 \in RP!Index /\ Occ \in 0 .. ROB_SIZE
  <2>1. ROB_SIZE \in Nat /\ 0 \in RP!Index
    BY RenameAssumption DEF RP!Index
  <2> QED BY <1>3, <2>1, SameRing
<1>5. ASSUME NEW d \in Window
      PROVE  Slot(d) \in Index /\ rob_mem[Slot(d)].valid /\ ROB!Dist(Slot(d)) = d
  <2>1. d \in 0 .. ROB_SIZE - 1 /\ d < Occ
    BY <1>4, OverlayFactsHold DEF OverlayFacts
  <2>2. Slot(d) = RP!Wrap(head + d) /\ Slot(d) \in RP!Index /\ RP!Dist(Slot(d)) = d
    BY <1>3, <1>4, <2>1, SameRing
  <2>3. RP!Live(Slot(d))
    BY <2>1, <2>2, SameRing DEF RP!Live
  <2> QED BY <1>1, <2>2, <2>3, SameRing DEF RP!ValidIffLive, Index
<1>6. ASSUME NEW i \in Index
      PROVE  /\ rob_mem[i] \in RP!Entry
             /\ rob_mem[i].valid <=> ROB!Live(i)
             /\ rob_mem[i].valid => ROB!Dist(i) \in Window /\ Slot(ROB!Dist(i)) = i
             /\ ROB!Place(i) \in Nat /\ ROB!Place(i) >= 1
  <2>1. i \in RP!Index
    BY SameRing DEF Index
  <2>2. rob_mem[i] \in RP!Entry /\ (rob_mem[i].valid <=> ROB!Live(i))
    BY <1>1, <1>2, <2>1, SameRing DEF RP!ValidIffLive
  <2>3. ROB!Live(i) => ROB!Dist(i) \in Window
    BY <1>3, <1>4, <2>1, SameRing, OverlayFactsHold DEF OverlayFacts, ROB!Live, Occ
  <2> QED BY <1>3, <1>4, <2>1, <2>2, <2>3, SameRing
<1>7. \A d : ROB!At(d) = rob_mem[Slot(d)]
  BY SameRing
<1> QED BY <1>5, <1>6, <1>7 DEF SlotFacts

\* The same after a step.
LEMMA SlotFactsNext == RP!RobInv' => SlotFacts'
BY SlotFactsHold, PTL

\* What instructions see is as different after a step.
LEMMA SeenDistinctNext == RenameInv' => SeenDistinct'
BY SeenDistinctHolds, PTL

\* The source operand kept for each ROB entry is a register and a tag.
OperandTypes == operand \in [Index -> [src : ArchReg, tag : PhyReg]]

\* A cycle that dispatches gives the newcomers the tags they see, and the older
\* ones still see theirs (dispatch_stage.sv:124-129, map_table.sv:62-64).
LEMMA RunOperands ==
    ASSUME RenameInv, OperandTypes, OperandsExact,
           NEW store_accepted \in BOOLEAN,
           NEW n \in ROB!RetireNum(store_accepted), NEW complete \in SUBSET Index,
           NEW resolve \in ROB!Resolution, NEW insts \in Group,
           RunCycle(n, store_accepted, complete, resolve, insts)
    PROVE  OperandTypes' /\ OperandsExact'
<1>1. PICK kept : kept = Occ - n
  OBVIOUS
<1>2. PICK dests : dests = [k \in 1 .. Len(insts) |-> insts[k].arch_dest_reg]
  OBVIOUS
<1>3. PICK tags : tags = FreeTags(ROB!RetireTold(n), dests)
  OBVIOUS
<1>4. PICK group : group = ToRob(insts, dests, tags)
  OBVIOUS
<1>5. /\ RenameInv'
      /\ n \in Nat /\ kept \in Nat /\ Len(insts) \in Nat
      /\ Occ' = kept + Len(insts)
      /\ \A a \in ArchReg : \A d \in 0 .. kept : SeenBy(d, a)' = SeenBy(d + n, a)
      /\ \A d \in 0 .. kept - 1 :
            /\ Slot(d)' = Slot(d + n) /\ Slot(d + n) \in Index
            /\ rob_mem'[Slot(d + n)] =
                  RP!AfterResolve(Slot(d + n), n, complete, resolve)
            /\ ~RP!Retired(Slot(d + n), n)
            /\ ROB!Place(Slot(d + n)) > Len(insts)
      /\ \A k \in 1 .. Len(insts) :
            /\ Slot(kept + (k - 1))' = RP!RobIndexOf(k)
            /\ RP!RobIndexOf(k) \in Index
            /\ ROB!Place(RP!RobIndexOf(k)) = k
            /\ \A a \in ArchReg :
                  MT!phy_src_reg(k, a, dests, tags) = SeenBy(kept + (k - 1), a)'
  <2>1. Offer(n, insts, kept, dests, tags, group)
    BY <1>1, <1>2, <1>3, <1>4 DEF Offer
  <2>2. RenameInv' /\ RunEffect(n, complete, resolve, insts, kept, dests, tags, group)
    BY <2>1, RunStep
  <2> QED BY <2>2 DEF RunEffect
<1>6. /\ OverlayFacts /\ OverlayFacts' /\ SlotFacts /\ SlotFacts' /\ SeenDistinct'
      /\ WellTyped
  BY <1>5, OverlayFactsHold, OverlayFactsNext, SlotFactsHold, SlotFactsNext, SeenDistinctNext,
     InvTypes DEF RenameInv
<1>7. operand' = OperandsAfter(insts, dests, tags)
  BY <1>2, <1>3 DEF RunCycle
<1>8. \A k \in 1 .. Len(insts) : insts[k].arch_src_reg \in ArchReg
  <2>1. PICK len \in 0 .. WAY : insts \in [1 .. len -> Decoded] /\ Len(insts) = len
    BY DEF Group
  <2> QED BY <2>1, RenameAssumption DEF DecodedInst
<1>9. ASSUME NEW i \in Index
      PROVE  operand'[i] =
                IF ~rob_mem'[i].valid \/ rob_mem'[i].complete THEN NoOperand
                ELSE IF ROB!Place(i) <= Len(insts)
                THEN [src |-> insts[ROB!Place(i)].arch_src_reg,
                      tag |-> MT!phy_src_reg(ROB!Place(i), insts[ROB!Place(i)].arch_src_reg, dests, tags)]
                ELSE operand[i]
  BY <1>7 DEF OperandsAfter
<1>10. OperandTypes'
  <2>1. ASSUME NEW i \in Index PROVE operand'[i] \in [src : ArchReg, tag : PhyReg]
    <3>1. CASE ~rob_mem'[i].valid \/ rob_mem'[i].complete
      <4>1. 0 \in ArchReg /\ 0 \in PhyReg
        BY RenameAssumption DEF ArchReg, PhyReg, FREELIST_SIZE
      <4>2. operand'[i] = [src |-> 0, tag |-> 0]
        BY <1>9, <3>1 DEF NoOperand
      <4> QED BY <4>1, <4>2
    <3>2. CASE ~(~rob_mem'[i].valid \/ rob_mem'[i].complete) /\ ROB!Place(i) <= Len(insts)
      <4>1. PICK k \in 1 .. Len(insts) : k = ROB!Place(i)
        BY <1>5, <1>6, <3>2 DEF SlotFacts
      <4>2. insts[k].arch_src_reg \in ArchReg
        BY <1>8
      <4>3. kept + (k - 1) \in 0 .. Occ'
        BY <1>5
      <4>4. MT!phy_src_reg(k, insts[k].arch_src_reg, dests, tags) \in PhyReg
        BY <1>5, <1>6, <4>2, <4>3 DEF SeenDistinct
      <4>5. operand'[i] = [src |-> insts[k].arch_src_reg,
                           tag |-> MT!phy_src_reg(k, insts[k].arch_src_reg, dests, tags)]
        BY <1>9, <3>2, <4>1
      <4> QED BY <4>2, <4>4, <4>5
    <3>3. CASE ~(~rob_mem'[i].valid \/ rob_mem'[i].complete) /\ ~(ROB!Place(i) <= Len(insts))
      BY <1>9, <3>3 DEF OperandTypes
    <3> QED BY <3>1, <3>2, <3>3
  <2>2. operand' = [i \in Index |-> operand'[i]]
    BY <1>7 DEF OperandsAfter
  <2>3. operand' \in [Index -> [src : ArchReg, tag : PhyReg]]
    BY <2>1, <2>2
  <2> QED BY <2>3 DEF OperandTypes, Index, ROB!Index
<1>11. ASSUME NEW d \in Window', ~rob_mem'[Slot(d)'].complete
       PROVE  (operand[Slot(d)].tag = SeenBy(d, operand[Slot(d)].src))'
  <2>0. /\ d \in Nat /\ d < kept + Len(insts)
        /\ rob_mem'[Slot(d)'].valid
    BY <1>5, <1>6 DEF OverlayFacts, SlotFacts
  <2>1. CASE d < kept
    <3>1. d \in 0 .. kept - 1 /\ d \in 0 .. kept /\ d + n \in Window
      BY <1>1, <1>5, <1>6, <2>0, <2>1 DEF OverlayFacts, WellTyped
    <3>2. PICK i \in Index : i = Slot(d + n) /\ i = Slot(d)' /\ ~(ROB!Place(i) <= Len(insts))
      BY <1>5, <1>6, <3>1 DEF SlotFacts
    <3>3. operand'[i] = operand[i]
      BY <1>9, <1>11, <2>0, <3>2
    <3>4. ~rob_mem[i].complete
      <4>1. rob_mem'[i] = RP!AfterResolve(i, n, complete, resolve) /\ ~RP!Retired(i, n)
        BY <1>5, <3>1, <3>2
      <4>2. rob_mem[i] \in RP!Entry /\ ~rob_mem'[i].complete
        BY <1>6, <1>11, <3>2 DEF SlotFacts
      <4> QED BY <4>1, <4>2 DEF RP!AfterResolve, RP!AfterComplete, RP!AfterRetire, RP!Entry
    <3>5. operand[i].tag = SeenBy(d + n, operand[i].src)
      BY <3>1, <3>2, <3>4 DEF OperandsExact, Slot
    <3>6. operand[i].src \in ArchReg
      BY <3>2 DEF OperandTypes
    <3>7. PICK a \in ArchReg : a = operand[i].src
      BY <3>6
    <3>8. SeenBy(d, a)' = SeenBy(d + n, a)
      BY <1>5, <3>1
    <3> QED BY <3>2, <3>3, <3>5, <3>7, <3>8
  <2>2. CASE d >= kept
    <3>1. PICK k \in 1 .. Len(insts) : d = kept + (k - 1)
      <4>1. (d - kept) + 1 \in 1 .. Len(insts) /\ d = kept + (((d - kept) + 1) - 1)
        BY <1>5, <2>0, <2>2
      <4> QED BY <4>1
    <3>2. PICK i \in Index : i = Slot(d)' /\ ROB!Place(i) = k
      BY <1>5, <3>1
    <3>3. operand'[i] = [src |-> insts[k].arch_src_reg,
                         tag |-> MT!phy_src_reg(k, insts[k].arch_src_reg, dests, tags)]
      BY <1>5, <1>9, <1>11, <2>0, <3>2
    <3>4. PICK a \in ArchReg : a = insts[k].arch_src_reg
      BY <1>8
    <3>5. MT!phy_src_reg(k, a, dests, tags) = SeenBy(d, a)'
      BY <1>5, <3>1
    <3> QED BY <3>2, <3>3, <3>4, <3>5
  <2> QED BY <1>5, <2>0, <2>1, <2>2
<1>12. OperandsExact'
  BY <1>11 DEF OperandsExact, Slot
<1> QED BY <1>10, <1>12

\* What a rewind leaves sees what it saw (rob.sv:326-349).
LEMMA RewindOperands ==
    ASSUME RenameInv, OperandTypes, OperandsExact,
           NEW store_accepted \in BOOLEAN,
           NEW n \in ROB!RetireNum(store_accepted), NEW complete, NEW resolve,
           RewindCycle(n, store_accepted, complete, resolve)
    PROVE  OperandTypes' /\ OperandsExact'
<1>1. PICK kept : kept = Occ'
  OBVIOUS
<1>2. PICK occ : occ = Occ
  OBVIOUS
<1>3. PICK r : r = ROB!RewindNum(n, store_accepted)
  OBVIOUS
<1>4. /\ RenameInv'
      /\ \A a \in ArchReg : \A d \in 0 .. kept : SeenBy(d, a)' = SeenBy(d + n, a)
  BY <1>1, RewindStep
<1>5. /\ n \in Nat /\ r \in Nat /\ occ \in 0 .. ROB_SIZE /\ n + r < occ
      /\ Occ' = (occ - n) - r
      /\ \A d \in 0 .. (occ - n) - r - 1 :
            /\ Slot(d)' = Slot(d + n) /\ Slot(d + n) \in Index
            /\ rob_mem'[Slot(d + n)] =
                  IF ROB!RewindDone(n) /\ d = 0
                  THEN [rob_mem[Slot(d + n)] EXCEPT !.exception = FALSE]
                  ELSE rob_mem[Slot(d + n)]
  <2>1. RP!RobInv /\ ROB!Rewind(n, store_accepted) /\ Rewinding(n, store_accepted, r, occ)
    BY <1>2, <1>3 DEF RenameInv, RewindCycle, Rewinding
  <2>2. RewindEffect(n, r, occ)
    BY <2>1, RewindShape
  <2> QED BY <2>2 DEF RewindEffect
<1>6. /\ OverlayFacts /\ OverlayFacts' /\ SlotFacts /\ SlotFacts' /\ WellTyped
  BY <1>4, OverlayFactsHold, OverlayFactsNext, SlotFactsHold, SlotFactsNext, InvTypes
     DEF RenameInv
<1>7. operand' = OperandsAfter(<<>>, <<>>, <<>>)
  BY DEF RewindCycle
<1>8. ASSUME NEW i \in Index
      PROVE  operand'[i] =
                IF ~rob_mem'[i].valid \/ rob_mem'[i].complete THEN NoOperand ELSE operand[i]
  <2>1. ~(ROB!Place(i) <= Len(<<>>))
    BY <1>6 DEF SlotFacts
  <2> QED BY <1>7, <2>1 DEF OperandsAfter
<1>9. OperandTypes'
  <2>1. \A i \in Index : operand'[i] \in [src : ArchReg, tag : PhyReg]
    BY <1>8, RenameAssumption DEF NoOperand, ArchReg, PhyReg, FREELIST_SIZE, OperandTypes
  <2>2. operand' = [i \in Index |-> operand'[i]]
    BY <1>7 DEF OperandsAfter
  <2>3. operand' \in [Index -> [src : ArchReg, tag : PhyReg]]
    BY <2>1, <2>2
  <2> QED BY <2>3 DEF OperandTypes, Index, ROB!Index
<1>10. ASSUME NEW d \in Window', ~rob_mem'[Slot(d)'].complete
       PROVE  (operand[Slot(d)].tag = SeenBy(d, operand[Slot(d)].src))'
  <2>1. /\ d \in 0 .. kept - 1 /\ d \in 0 .. kept /\ d + n \in Window
        /\ d \in 0 .. (occ - n) - r - 1
    BY <1>1, <1>2, <1>5, <1>6 DEF OverlayFacts, WellTyped
  <2>2. PICK i \in Index : i = Slot(d + n) /\ i = Slot(d)'
    BY <1>5, <2>1
  <2>3. rob_mem'[i].valid
    BY <1>6, <2>2 DEF SlotFacts
  <2>4. operand'[i] = operand[i]
    BY <1>8, <1>10, <2>2, <2>3
  <2>5. ~rob_mem[i].complete
    <3>1. rob_mem[i] \in RP!Entry
      BY <1>6 DEF SlotFacts
    <3> QED BY <1>5, <1>10, <2>1, <2>2, <3>1 DEF RP!Entry
  <2>6. operand[i].tag = SeenBy(d + n, operand[i].src)
    BY <2>1, <2>2, <2>5 DEF OperandsExact, Slot
  <2>7. PICK a \in ArchReg : a = operand[i].src
    BY DEF OperandTypes
  <2>8. SeenBy(d, a)' = SeenBy(d + n, a)
    BY <1>4, <2>1
  <2> QED BY <2>2, <2>4, <2>6, <2>7, <2>8
<1>11. OperandsExact'
  BY <1>10 DEF OperandsExact, Slot
<1> QED BY <1>9, <1>11

-----------------------------------------------------------------------------
(* The entries of the ROB, one by one.                                      *)

\* What that cycle does to each entry of the ROB.
EntriesEffect(n, store_accepted, complete, resolve, insts, dests, tags, group) ==
    /\ n \in Nat /\ Len(insts) \in Nat /\ Len(group) = Len(insts)
    /\ RP!Run(n, store_accepted, complete, resolve, group) /\ RP!TypeOK
    /\ ~in_rewind /\ ~in_rewind'
    /\ \A i \in Index :
          /\ ROB!Place(i) <= Len(insts) =>
                /\ ROB!Place(i) \in 1 .. Len(insts)
                /\ rob_mem'[i] = RP!NewEntry(group[ROB!Place(i)])
          /\ ~(ROB!Place(i) <= Len(insts)) =>
                rob_mem'[i] = RP!AfterResolve(i, n, complete, resolve)
          /\ rob_mem[i].valid /\ ~RP!Retired(i, n) => ~(ROB!Place(i) <= Len(insts))
          /\ RP!Retired(i, n) => rob_mem[i].complete /\ ~rob_mem[i].exception
    /\ \A k \in 1 .. Len(insts) :
          /\ insts[k] \in DecodedInst
          /\ group[k].code = insts[k].code /\ group[k].T = tags[k]
          /\ dests[k] = insts[k].arch_dest_reg
          /\ \E i \in Index : ROB!Place(i) = k

\* A cycle without a rewind: an entry is new, or what was there goes on.
LEMMA RunEntries ==
    ASSUME RenameInv, NEW store_accepted \in BOOLEAN,
           NEW n \in ROB!RetireNum(store_accepted), NEW complete \in SUBSET Index,
           NEW resolve \in ROB!Resolution, NEW insts \in Group,
           RunCycle(n, store_accepted, complete, resolve, insts),
           NEW kept, NEW dests, NEW tags, NEW group,
           Offer(n, insts, kept, dests, tags, group)
    PROVE  EntriesEffect(n, store_accepted, complete, resolve, insts, dests, tags, group)
<1>1. /\ kept = Occ - n
      /\ dests = [k \in 1 .. Len(insts) |-> insts[k].arch_dest_reg]
      /\ tags = FreeTags(ROB!RetireTold(n), dests)
      /\ group = ToRob(insts, dests, tags)
  BY DEF Offer
<1>2. /\ n \in Nat /\ kept \in Nat /\ Len(insts) \in Nat
      /\ \A d \in 0 .. kept - 1 : ROB!Place(Slot(d + n)) > Len(insts)
      /\ \A k \in 1 .. Len(insts) : RP!RobIndexOf(k) \in Index /\ ROB!Place(RP!RobIndexOf(k)) = k
  <2>1. RunEffect(n, complete, resolve, insts, kept, dests, tags, group)
    BY RunStep
  <2> QED BY <2>1 DEF RunEffect
<1>3. /\ OverlayFacts /\ SlotFacts /\ WellTyped /\ RP!TypeOK /\ RP!RobAssumption
  BY OverlayFactsHold, SlotFactsHold, InvTypes, RobHypothesis DEF RenameInv, RP!RobInv
<1>4. RP!Run(n, store_accepted, complete, resolve, group)
  <2>1. ROB!Run(n, store_accepted, complete, resolve, group)
    BY <1>1 DEF RunCycle
  <2> QED BY <2>1, SameCycle
<1>5. Len(group) = Len(insts)
      /\ \A k \in 1 .. Len(insts) : group[k].code = insts[k].code /\ group[k].T = tags[k]
  <2>1. group = [k \in 1 .. Len(insts) |->
                   [kind |-> insts[k].kind, arch_dest_reg |-> dests[k], T |-> tags[k],
                    Told |-> MT!Told_out(k, dests, tags),
                    target_pc |-> insts[k].target_pc, code |-> insts[k].code]]
    BY <1>1 DEF ToRob
  <2> QED BY <1>2, <2>1
<1>6. \A k \in 1 .. Len(insts) : insts[k] \in DecodedInst /\ dests[k] = insts[k].arch_dest_reg
  <2>1. PICK len \in 0 .. WAY : insts \in [1 .. len -> Decoded] /\ Len(insts) = len
    BY DEF Group
  <2> QED BY <1>1, <2>1, RenameAssumption DEF DecodedInst
<1>7. ASSUME NEW i \in Index, ROB!Place(i) <= Len(insts)
      PROVE  /\ ROB!Place(i) \in 1 .. Len(insts)
             /\ rob_mem'[i] = RP!NewEntry(group[ROB!Place(i)])
  <2>1. ROB!Place(i) \in 1 .. Len(insts)
    BY <1>2, <1>3, <1>7 DEF SlotFacts
  <2>2. RP!Place(i) <= Len(group) /\ i \in RP!Index /\ RP!Place(i) = ROB!Place(i)
    BY <1>5, <1>7, SameRing DEF Index
  <2> QED BY <1>4, <2>1, <2>2 DEF RP!Run
<1>8. ASSUME NEW i \in Index, ~(ROB!Place(i) <= Len(insts))
      PROVE  rob_mem'[i] = RP!AfterResolve(i, n, complete, resolve)
  <2>1. ~(RP!Place(i) <= Len(group)) /\ i \in RP!Index
    BY <1>5, <1>8, SameRing DEF Index
  <2> QED BY <1>4, <2>1 DEF RP!Run
<1>9. ASSUME NEW i \in Index, rob_mem[i].valid, ~RP!Retired(i, n)
      PROVE  ~(ROB!Place(i) <= Len(insts))
  <2>1. ROB!Dist(i) \in Window /\ Slot(ROB!Dist(i)) = i /\ ~(ROB!Dist(i) < n)
    BY <1>3, <1>9, SameRing DEF SlotFacts, RP!Retired
  <2>2. PICK d \in 0 .. kept - 1 : d + n = ROB!Dist(i)
    <3>1. ROB!Dist(i) - n \in 0 .. kept - 1 /\ (ROB!Dist(i) - n) + n = ROB!Dist(i)
      BY <1>1, <1>2, <1>3, <2>1 DEF OverlayFacts, WellTyped
    <3> QED BY <3>1
  <2>3. ROB!Place(i) > Len(insts)
    BY <1>2, <2>1, <2>2
  <2> QED BY <1>2, <1>3, <2>3 DEF SlotFacts
<1>10. ASSUME NEW i \in Index, RP!Retired(i, n)
       PROVE  rob_mem[i].complete /\ ~rob_mem[i].exception
  <2>1. n \in RP!RetireNum(store_accepted) /\ i \in RP!Index
    BY SameCycle, SameRing DEF Index
  <2> QED BY <1>3, <1>10, <2>1, RP!RetiredIsDone DEF RP!RobAssumption
<1>11. ~in_rewind /\ ~in_rewind'
  BY <1>4 DEF RP!Run, RP!InRewindNext
<1> QED BY <1>2, <1>3, <1>4, <1>5, <1>6, <1>7, <1>8, <1>9, <1>10, <1>11
       DEF EntriesEffect

\* A cycle with a rewind: an entry is taken out or stays, and the last one that
\* stays is no longer faulty.
LEMMA RewindEntries ==
    ASSUME RenameInv, NEW store_accepted \in BOOLEAN,
           NEW n \in ROB!RetireNum(store_accepted), NEW complete, NEW resolve,
           RewindCycle(n, store_accepted, complete, resolve)
    PROVE  /\ RP!Rewind(n, store_accepted) /\ RP!TypeOK
           /\ \A i \in Index :
                 \/ rob_mem'[i] = RP!Cleared /\ ~rob_mem'[i].valid
                 \/ rob_mem'[i] = rob_mem[i]
                 \/ RP!RewindDone(n) /\ i = RP!HeadNext(n)
                    /\ rob_mem'[i] = [rob_mem[i] EXCEPT !.exception = FALSE]
           /\ has_rewind /\ oldest_exc_rob_index = RP!HeadNext(n) /\ n < Occ
           /\ oldest_exc_rob_index = Slot(n) /\ n \in Window /\ oldest_exc_rob_index \in Index
           /\ RP!InRewindNext(n, store_accepted)
<1>1. RP!Rewind(n, store_accepted) /\ RP!TypeOK /\ RP!RobInv /\ RP!RobAssumption
  <2>1. ROB!Rewind(n, store_accepted)
    BY DEF RewindCycle
  <2> QED BY <2>1, SameCycle, RobHypothesis DEF RenameInv, RP!RobInv
<1>2. RP!InRewindNext(n, store_accepted)
  BY <1>1 DEF RP!Rewind
<1>3. /\ n \in Nat /\ n < RP!Occupied /\ has_rewind
      /\ oldest_exc_rob_index = RP!HeadNext(n) /\ RP!HeadNext(n) \in RP!Index
  <2>1. n \in RP!RetireNum(store_accepted)
    BY SameCycle
  <2> QED BY <1>1, <1>2, <2>1, RP!RewindHead DEF RP!RobAssumption
<1>4. RP!HeadNext(n) = Slot(n) /\ n < Occ /\ n \in Window
  BY <1>3, SameRing, OverlayFactsHold, InvTypes DEF OverlayFacts, WellTyped, RP!HeadNext
<1>5. ASSUME NEW i \in Index
      PROVE  \/ rob_mem'[i] = RP!Cleared /\ ~rob_mem'[i].valid
             \/ rob_mem'[i] = rob_mem[i]
             \/ RP!RewindDone(n) /\ i = RP!HeadNext(n)
                /\ rob_mem'[i] = [rob_mem[i] EXCEPT !.exception = FALSE]
  <2>1. i \in RP!Index
    BY SameRing DEF Index
  <2> QED BY <1>1, <2>1 DEF RP!Rewind, RP!Cleared
<1> QED BY <1>1, <1>2, <1>3, <1>4, <1>5, SameRing DEF Index

-----------------------------------------------------------------------------
(* Faults.                                                                  *)

\* An instruction that is faulty before it completes is a branch whose
\* resolution has been sent; and the faulty instruction of a rewind is complete.
FaultInv ==
    /\ resolved \subseteq Index
    /\ \A i \in Index :
          rob_mem[i].valid /\ ~rob_mem[i].complete /\ rob_mem[i].exception => i \in resolved
    /\ \A s : s = Slot(0) => (in_rewind => rob_mem[s].complete)
    /\ TargetOfOldest

\* The channels of a cycle name instructions of the ROB.
LEMMA Channels ==
    /\ Completions \subseteq SUBSET Index
    /\ Resolutions \subseteq ROB!Resolution
    /\ \A resolve \in Resolutions :
          resolve.valid => /\ resolve.rob_index \in InFlight \ resolved
                           /\ resolve.rob_index \in Index
<1>1. Completions \subseteq SUBSET Index
  BY DEF Completions, CanComplete, InFlight
<1>2. ASSUME NEW resolve \in Resolutions
      PROVE  /\ resolve \in ROB!Resolution
             /\ resolve.valid => /\ resolve.rob_index \in InFlight \ resolved
                                 /\ resolve.rob_index \in Index
  <2>1. CASE resolve = ROB!NoResolution
    BY <2>1 DEF ROB!Resolution, ROB!NoResolution
  <2>2. CASE resolve \in
               [valid : {TRUE},
                rob_index : {i \in InFlight \ resolved : rob_mem[i].kind = "branch"},
                target_pc : PC]
    <3>1. resolve.rob_index \in InFlight \ resolved /\ resolve.rob_index \in Index
      BY <2>2 DEF InFlight
    <3>2. resolve \in [valid : {TRUE}, rob_index : ROB!Index, target_pc : PC]
      BY <2>2 DEF InFlight, Index
    <3> QED BY <3>1, <3>2 DEF ROB!Resolution
  <2> QED BY <2>1, <2>2 DEF Resolutions
<1> QED BY <1>1, <1>2

\* The oldest fault and its target are kept up to date by a cycle that dispatches,
\* whichever branch is resolved in it (rob.sv:249-271).
LEMMA RunFaults ==
    ASSUME RenameInv, FaultInv, NEW store_accepted \in BOOLEAN,
           NEW n \in ROB!RetireNum(store_accepted), NEW complete \in SUBSET Index,
           NEW resolve \in Resolutions, NEW insts \in Group,
           RunCycle(n, store_accepted, complete, resolve, insts)
    PROVE  FaultInv'
<1>1. PICK dests : dests = [k \in 1 .. Len(insts) |-> insts[k].arch_dest_reg]
  OBVIOUS
<1>2. PICK tags : tags = FreeTags(ROB!RetireTold(n), dests)
  OBVIOUS
<1>3. PICK group : group = ToRob(insts, dests, tags)
  OBVIOUS
<1>4. /\ resolve \in ROB!Resolution
      /\ resolve.valid => /\ resolve.rob_index \in InFlight \ resolved
                          /\ resolve.rob_index \in Index
  BY Channels
<1>5. /\ n \in Nat /\ Len(insts) \in Nat /\ Len(group) = Len(insts)
      /\ RP!Run(n, store_accepted, complete, resolve, group) /\ RP!TypeOK
      /\ ~in_rewind'
      /\ \A i \in Index :
            /\ ROB!Place(i) <= Len(insts) =>
                  /\ ROB!Place(i) \in 1 .. Len(insts)
                  /\ rob_mem'[i] = RP!NewEntry(group[ROB!Place(i)])
            /\ ~(ROB!Place(i) <= Len(insts)) =>
                  rob_mem'[i] = RP!AfterResolve(i, n, complete, resolve)
            /\ rob_mem[i].valid /\ ~RP!Retired(i, n) => ~(ROB!Place(i) <= Len(insts))
            /\ RP!Retired(i, n) => rob_mem[i].complete /\ ~rob_mem[i].exception
  <2>1. PICK kept : kept = Occ - n
    OBVIOUS
  <2>2. Offer(n, insts, kept, dests, tags, group)
    BY <1>1, <1>2, <1>3, <2>1 DEF Offer
  <2>3. EntriesEffect(n, store_accepted, complete, resolve, insts, dests, tags, group)
    BY <1>4, <2>2, RunEntries
  <2> QED BY <2>3 DEF EntriesEffect
<1>6. SlotFacts /\ RP!RobAssumption /\ RP!RobInv
  BY SlotFactsHold, RobHypothesis DEF RenameInv
<1>7. resolved' = {i \in resolved \cup IF resolve.valid THEN {resolve.rob_index} ELSE {} :
                      rob_mem'[i].valid /\ ~rob_mem'[i].complete}
  BY DEF RunCycle, ResolvedAfter
<1>8. resolved' \subseteq Index
  BY <1>4, <1>7 DEF FaultInv
<1>9. ASSUME NEW i \in Index,
             rob_mem'[i].valid, ~rob_mem'[i].complete, rob_mem'[i].exception
      PROVE  i \in resolved'
  <2>1. ~(ROB!Place(i) <= Len(insts))
    <3>1. SUFFICES ASSUME ROB!Place(i) <= Len(insts) PROVE FALSE
      OBVIOUS
    <3>2. rob_mem'[i] = RP!NewEntry(group[ROB!Place(i)])
      BY <1>5, <3>1
    <3>3. rob_mem'[i].complete = rob_mem'[i].exception
      BY <3>2 DEF RP!NewEntry
    <3> QED BY <1>9, <3>3
  <2>2. rob_mem'[i] = RP!AfterResolve(i, n, complete, resolve) /\ rob_mem[i] \in RP!Entry
    BY <1>5, <1>6, <2>1 DEF SlotFacts
  <2>3. CASE RP!Mispredict(n, resolve) /\ i = resolve.rob_index
    BY <1>7, <1>9, <2>3 DEF RP!Mispredict
  <2>4. CASE ~(RP!Mispredict(n, resolve) /\ i = resolve.rob_index)
    <3>1. rob_mem[i].valid /\ ~rob_mem[i].complete /\ rob_mem[i].exception
      BY <1>9, <2>2, <2>4
         DEF RP!AfterResolve, RP!AfterComplete, RP!AfterRetire, RP!Cleared, RP!Entry
    <3> QED BY <1>7, <1>9, <3>1 DEF FaultInv
  <2> QED BY <2>3, <2>4
<1>10. ASSUME has_rewind', rob_mem'[oldest_exc_rob_index'].code = "NO_ERROR"
       PROVE  rewind_target_PC' = rob_mem'[oldest_exc_rob_index'].target_pc
  <2>1. CASE RP!TakesOver(n, resolve)
    <3>1. RP!Mispredict(n, resolve) /\ resolve.valid
      BY <2>1 DEF RP!TakesOver, RP!Mispredict
    <3>2. PICK q \in Index : q = resolve.rob_index
      BY <1>4, <3>1
    <3>3. oldest_exc_rob_index' = q /\ rewind_target_PC' = resolve.target_pc
      BY <1>5, <2>1, <3>2 DEF RP!Run
    <3>4. rob_mem[q].valid /\ ~RP!Retired(q, n) /\ rob_mem[q] \in RP!Entry
      BY <1>6, <3>1, <3>2 DEF RP!Mispredict, RP!AfterRetire, RP!Cleared, SlotFacts
    <3>5. rob_mem'[q] = RP!AfterResolve(q, n, complete, resolve)
      BY <1>5, <3>4
    <3>6. rob_mem'[q].target_pc = resolve.target_pc
      BY <3>1, <3>2, <3>4, <3>5
         DEF RP!AfterResolve, RP!AfterComplete, RP!AfterRetire, RP!Entry
    <3> QED BY <3>3, <3>6
  <2>2. CASE ~RP!TakesOver(n, resolve) /\ RP!FirstFaulty(group) # {}
    <3>1. PICK k \in RP!FirstFaulty(group) : oldest_exc_rob_index' = RP!RobIndexOf(k)
      BY <1>5, <2>2 DEF RP!Run
    <3>2. /\ k \in 1 .. Len(group) /\ RP!Faulty(group[k])
          /\ RP!RobIndexOf(k) \in RP!Index /\ RP!Place(RP!RobIndexOf(k)) = k
      <4>1. Len(group) \in Nat /\ Len(group) <= ROB_SIZE /\ tail \in RP!Index
        <5>1. tail \in RP!Index /\ RP!Occupied \in 0 .. ROB_SIZE /\ RP!Left(n) = RP!Occupied - n
          BY <1>5, <1>6 DEF RP!TypeOK, RP!Occupied, RP!Left, RP!Index, RP!RobAssumption
        <5>2. n <= RP!Occupied
          <6>1. n \in RP!RetireNum(store_accepted)
            BY SameCycle
          <6> QED BY <1>5, <1>6, <6>1, RP!RetireBound DEF RP!RobAssumption
        <5>3. WAY \in Nat /\ ROB_SIZE \in Nat /\ Len(group) <= RP!NumCanDispatch(n, store_accepted, resolve)
          BY <1>5, RenameAssumption DEF RP!Run
        <5> QED BY <1>5, <5>1, <5>2, <5>3 DEF RP!NumCanDispatch, RP!Least
      <4> QED BY <1>6, <3>1, <4>1, RP!FirstFaultyPlace DEF RP!RobAssumption
    <3>3. PICK i \in Index : i = RP!RobIndexOf(k) /\ ROB!Place(i) = k
      BY <3>2, SameRing DEF Index
    <3>4. rob_mem'[i] = RP!NewEntry(group[k])
      BY <1>5, <3>2, <3>3
    <3>5. rob_mem'[i].code # "NO_ERROR"
      BY <3>2, <3>4 DEF RP!NewEntry, RP!Faulty
    <3> QED BY <1>10, <3>1, <3>3, <3>5
  <2>3. CASE ~RP!TakesOver(n, resolve) /\ RP!FirstFaulty(group) = {}
    <3>1. oldest_exc_rob_index' = oldest_exc_rob_index /\ rewind_target_PC' = rewind_target_PC
      BY <1>5, <2>3 DEF RP!Run
    <3>2. has_rewind
      <4>1. \A k \in 1 .. Len(group) : ~RP!Faulty(group[k])
        <5>1. Len(group) \in Nat /\ Len(group) <= ROB_SIZE /\ tail \in RP!Index
          <6>1. tail \in RP!Index /\ RP!Occupied \in 0 .. ROB_SIZE /\ RP!Left(n) = RP!Occupied - n
            BY <1>5, <1>6 DEF RP!TypeOK, RP!Occupied, RP!Left, RP!Index, RP!RobAssumption
          <6>2. n <= RP!Occupied
            <7>1. n \in RP!RetireNum(store_accepted)
              BY SameCycle
            <7> QED BY <1>5, <1>6, <7>1, RP!RetireBound DEF RP!RobAssumption
          <6>3. WAY \in Nat /\ ROB_SIZE \in Nat /\ Len(group) <= RP!NumCanDispatch(n, store_accepted, resolve)
            BY <1>5, RenameAssumption DEF RP!Run
          <6> QED BY <1>5, <6>1, <6>2, <6>3 DEF RP!NumCanDispatch, RP!Least
        <5> QED BY <1>6, <2>3, <5>1, RP!FirstFaultyPlace DEF RP!RobAssumption
      <4> QED BY <1>5, <1>10, <2>3, <4>1 DEF RP!Run, RP!TakesOver
    <3>3. PICK o \in Index : o = oldest_exc_rob_index
      BY <1>5, SameRing DEF RP!TypeOK, Index
    <3>4. rob_mem[o].exception /\ rob_mem[o].valid /\ rob_mem[o] \in RP!Entry
      BY <1>6, <3>2, <3>3, SameRing DEF RP!RobInv, RP!OldestException, SlotFacts
    <3>5. ~RP!Retired(o, n)
      BY <1>5, <3>4
    <3>6. rob_mem'[o] = RP!AfterResolve(o, n, complete, resolve)
      BY <1>5, <3>4, <3>5
    <3>7. ~(RP!Mispredict(n, resolve) /\ o = resolve.rob_index)
      BY <1>4, <3>4 DEF RP!Mispredict, FaultInv, InFlight
    <3>8. rob_mem'[o].code = rob_mem[o].code /\ rob_mem'[o].target_pc = rob_mem[o].target_pc
      BY <3>4, <3>5, <3>6, <3>7
         DEF RP!AfterResolve, RP!AfterComplete, RP!AfterRetire, RP!Entry
    <3> QED BY <1>10, <3>1, <3>2, <3>3, <3>8 DEF FaultInv, TargetOfOldest
  <2> QED BY <2>1, <2>2, <2>3
<1>11. TargetOfOldest'
  BY <1>10 DEF TargetOfOldest
<1> QED BY <1>5, <1>8, <1>9, <1>11 DEF FaultInv

\* The faulty instruction that a rewind goes back to is complete.
LEMMA FaultyIsComplete ==
    ASSUME RenameInv, FaultInv, NEW store_accepted \in BOOLEAN,
           NEW n \in ROB!RetireNum(store_accepted), NEW complete, NEW resolve,
           RewindCycle(n, store_accepted, complete, resolve)
    PROVE  rob_mem[Slot(n)].complete
<1>1. /\ RP!TypeOK
      /\ oldest_exc_rob_index = Slot(n)
      /\ RP!InRewindNext(n, store_accepted)
  BY RewindEntries
<1>2. CASE in_rewind
  <2>1. oldest_exc_rob_index = head
    BY <1>2 DEF RenameInv, RP!RobInv, RP!RewindsToOldest
  <2>2. Slot(0) = head
    BY <1>1, RenameAssumption DEF Slot, ROB!Wrap, RP!TypeOK, RP!Index
  <2> QED BY <1>1, <1>2, <2>1, <2>2 DEF FaultInv
<1>3. CASE RP!StartsRewind(n, store_accepted)
  <2>1. RP!At(n).complete
    BY <1>3 DEF RP!StartsRewind, RP!Examines
  <2> QED BY <2>1, SameRing
<1> QED BY <1>1, <1>2, <1>3 DEF RP!InRewindNext

\* A rewind leaves the fault that it was started for (rob.sv:249-271).
LEMMA RewindFaults ==
    ASSUME RenameInv, FaultInv, NEW store_accepted \in BOOLEAN,
           NEW n \in ROB!RetireNum(store_accepted), NEW complete \in SUBSET Index,
           NEW resolve \in Resolutions,
           RewindCycle(n, store_accepted, complete, resolve)
    PROVE  FaultInv'
<1>1. /\ RP!Rewind(n, store_accepted) /\ RP!TypeOK
      /\ \A i \in Index :
            \/ rob_mem'[i] = RP!Cleared /\ ~rob_mem'[i].valid
            \/ rob_mem'[i] = rob_mem[i]
            \/ RP!RewindDone(n) /\ i = RP!HeadNext(n)
               /\ rob_mem'[i] = [rob_mem[i] EXCEPT !.exception = FALSE]
      /\ has_rewind /\ oldest_exc_rob_index = RP!HeadNext(n) /\ n < Occ
      /\ oldest_exc_rob_index = Slot(n) /\ n \in Window /\ oldest_exc_rob_index \in Index
      /\ RP!InRewindNext(n, store_accepted)
  BY RewindEntries
<1>2. SlotFacts /\ RP!RobAssumption /\ RP!RobInv /\ RenameInv' /\ SlotFacts'
  <2>1. RenameInv'
    <3>1. PICK kept : kept = Occ'
      OBVIOUS
    <3> QED BY <3>1, RewindStep
  <2> QED BY <2>1, SlotFactsHold, SlotFactsNext, RobHypothesis DEF RenameInv
<1>3. resolved' = {i \in resolved \cup IF resolve.valid THEN {resolve.rob_index} ELSE {} :
                      rob_mem'[i].valid /\ ~rob_mem'[i].complete}
  BY DEF RewindCycle, ResolvedAfter
<1>4. resolved' \subseteq Index
  BY <1>3, Channels DEF FaultInv
<1>5. ASSUME NEW i \in Index,
             rob_mem'[i].valid, ~rob_mem'[i].complete, rob_mem'[i].exception
      PROVE  i \in resolved'
  <2>1. rob_mem[i] \in RP!Entry
    BY <1>2 DEF SlotFacts
  <2>2. rob_mem[i].valid /\ ~rob_mem[i].complete /\ rob_mem[i].exception
    BY <1>1, <1>5, <2>1 DEF RP!Entry
  <2> QED BY <1>3, <1>5, <2>2 DEF FaultInv
<1>6. PICK o \in Index : o = oldest_exc_rob_index /\ o = Slot(n)
  BY <1>1
<1>7. rob_mem[o].complete
  BY <1>6, FaultyIsComplete
<1>8. ASSUME ~RP!RewindDone(n)
      PROVE  rob_mem'[o] = rob_mem[o] /\ Slot(0)' = o
  <2>1. Slot(0)' = o
    <3>1. head' = RP!HeadNext(n) /\ head' \in RP!Index
      BY <1>1, <1>2, SameRing DEF RP!Rewind, Index
    <3>2. head' + 0 = head' /\ ~(head' >= ROB_SIZE)
      BY <3>1, RenameAssumption DEF RP!Index
    <3>3. Slot(0)' = head'
      BY <3>2 DEF Slot, ROB!Wrap
    <3> QED BY <1>1, <1>6, <3>1, <3>3
  <2>2. rob_mem'[o].valid
    <3>1. Occ' > 0 /\ Occ' \in Nat
      <4>1. PICK r : r = ROB!RewindNum(n, store_accepted)
        OBVIOUS
      <4>2. PICK occ : occ = Occ
        OBVIOUS
      <4>3. n \in Nat /\ r \in Nat /\ occ \in 0 .. ROB_SIZE /\ n + r < occ
            /\ Occ' = (occ - n) - r
        <5>1. /\ RP!RobInv /\ ROB!Rewind(n, store_accepted)
              /\ Rewinding(n, store_accepted, r, occ)
          BY <4>1, <4>2 DEF RenameInv, RewindCycle, Rewinding
        <5>2. RewindEffect(n, r, occ)
          BY <5>1, RewindShape
        <5> QED BY <5>2 DEF RewindEffect
      <4> QED BY <4>3, RenameAssumption
    <3>2. 0 \in Window'
      <4>1. Window' = 0 .. Occ' - 1
        BY OverlayFactsNext DEF OverlayFacts
      <4>2. PICK o1 \in Nat : o1 = Occ' /\ o1 > 0
        BY <3>1
      <4>3. 0 \in 0 .. o1 - 1
        <5>1. o1 > 0
          BY <4>2
        <5> QED BY <5>1
      <4> QED BY <4>1, <4>2, <4>3
    <3> QED BY <1>2, <2>1, <3>2 DEF SlotFacts
  <2> QED BY <1>1, <1>6, <1>8, <2>1, <2>2
<1>9. \A s : s = Slot(0)' => (in_rewind' => rob_mem'[s].complete)
  <2>1. in_rewind' = ~RP!RewindDone(n)
    BY <1>1 DEF RP!Rewind
  <2> QED BY <1>7, <1>8, <2>1
<1>10. TargetOfOldest'
  <2>1. CASE RP!RewindDone(n)
    <3>1. ~has_rewind'
      BY <1>1, <2>1 DEF RP!Rewind
    <3> QED BY <3>1 DEF TargetOfOldest
  <2>2. CASE ~RP!RewindDone(n)
    <3>1. oldest_exc_rob_index' = oldest_exc_rob_index /\ rewind_target_PC' = rewind_target_PC
      BY <1>1, <2>2 DEF RP!Rewind
    <3>2. rob_mem'[o] = rob_mem[o]
      BY <1>8, <2>2
    <3> QED BY <1>1, <1>6, <3>1, <3>2 DEF FaultInv, TargetOfOldest
  <2> QED BY <2>1, <2>2
<1> QED BY <1>4, <1>5, <1>9, <1>10 DEF FaultInv

-----------------------------------------------------------------------------
(* The ready bits.                                                          *)

\* The ready bits after a cycle that dispatches, with what completes in it
\* (map_table.sv:50-55, 73).
LEMMA RunReady ==
    ASSUME RenameInv, ReadyExact, NEW store_accepted \in BOOLEAN,
           NEW n \in ROB!RetireNum(store_accepted), NEW complete \in Completions,
           NEW resolve \in Resolutions, NEW insts \in Group,
           RunCycle(n, store_accepted, complete, resolve, insts)
    PROVE  ReadyExact'
<1>1. PICK dests : dests = [k \in 1 .. Len(insts) |-> insts[k].arch_dest_reg]
  OBVIOUS
<1>2. PICK tags : tags = FreeTags(ROB!RetireTold(n), dests)
  OBVIOUS
<1>3. PICK group : group = ToRob(insts, dests, tags)
  OBVIOUS
<1>4. PICK kept : kept = Occ - n
  OBVIOUS
<1> DEFINE L == Len(insts)
<1>5. complete \in SUBSET Index /\ complete \subseteq InFlight /\ resolve \in ROB!Resolution
  BY Channels DEF Completions, CanComplete
<1>6. /\ RenameInv'
      /\ n \in Nat /\ kept \in Nat /\ L \in Nat
      /\ Occ' = kept + L
      /\ \A a \in ArchReg : \A d \in 0 .. kept : SeenBy(d, a)' = SeenBy(d + n, a)
      /\ \A k \in 1 .. L :
            /\ Slot(kept + (k - 1))' = RP!RobIndexOf(k)
            /\ RP!RobIndexOf(k) \in Index
            /\ rob_mem'[RP!RobIndexOf(k)] = RP!NewEntry(group[k])
            /\ tags[k] # 0 => tags[k] \in FreeRegs
  <2>1. Offer(n, insts, kept, dests, tags, group)
    BY <1>1, <1>2, <1>3, <1>4, <1>5 DEF Offer
  <2>2. RenameInv' /\ RunEffect(n, complete, resolve, insts, kept, dests, tags, group)
    BY <2>1, <1>5, RunStep
  <2> QED BY <2>2 DEF RunEffect
<1>7. /\ ~in_rewind
      /\ \A i \in Index :
            /\ ROB!Place(i) <= L =>
                  /\ ROB!Place(i) \in 1 .. L
                  /\ rob_mem'[i] = RP!NewEntry(group[ROB!Place(i)])
            /\ ~(ROB!Place(i) <= L) =>
                  rob_mem'[i] = RP!AfterResolve(i, n, complete, resolve)
            /\ rob_mem[i].valid /\ ~RP!Retired(i, n) => ~(ROB!Place(i) <= L)
            /\ RP!Retired(i, n) => rob_mem[i].complete
      /\ \A k \in 1 .. L :
            /\ insts[k] \in DecodedInst
            /\ group[k].code = insts[k].code /\ group[k].T = tags[k]
            /\ dests[k] = insts[k].arch_dest_reg
  <2>1. Offer(n, insts, kept, dests, tags, group)
    BY <1>1, <1>2, <1>3, <1>4 DEF Offer
  <2>2. EntriesEffect(n, store_accepted, complete, resolve, insts, dests, tags, group)
    BY <1>5, <2>1, RunEntries
  <2> QED BY <2>2 DEF EntriesEffect
<1>8. /\ OverlayFacts /\ OverlayFacts' /\ SlotFacts /\ SlotFacts' /\ SeenDistinct /\ Ownership
      /\ WellTyped
  BY <1>6, OverlayFactsHold, OverlayFactsNext, SlotFactsHold, SlotFactsNext, SeenDistinctHolds,
     InvTypes DEF RenameInv
<1>9. MapIsOverlay /\ MapIsOverlay'
  BY <1>6 DEF RenameInv
<1>10. ASSUME NEW k \in 1 .. L
       PROVE  kept + (k - 1) \in Window' /\ Dest(kept + (k - 1))' = dests[k]
  <2>1. kept + (k - 1) \in Window'
    BY <1>6, <1>8 DEF OverlayFacts
  <2>2. ROB!At(kept + (k - 1))' = rob_mem'[Slot(kept + (k - 1))']
    BY DEF ROB!At, Slot, ROB!Wrap
  <2>3. ROB!At(kept + (k - 1))'.arch_dest_reg = group[k].arch_dest_reg
    <3>1. ROB!At(kept + (k - 1))' = RP!NewEntry(group[k])
      BY <1>6, <2>2
    <3> QED BY <3>1 DEF RP!NewEntry
  <2>4. group[k].arch_dest_reg = dests[k]
    BY <1>3 DEF ToRob
  <2> QED BY <2>1, <2>3, <2>4 DEF Dest
\* A register that the group does not write keeps its mapping.
<1>11. ASSUME NEW a \in ArchReg, a # 0 => \A k \in 1 .. L : dests[k] # a
       PROVE  map'[a] = map[a]
  <2>1. \A f \in kept .. Occ' - 1 : ~Writes(f, a)'
    <3> TAKE f \in kept .. Occ' - 1
    <3>1. PICK k \in 1 .. L : f = kept + (k - 1)
      <4>1. (f - kept) + 1 \in 1 .. L /\ f = kept + (((f - kept) + 1) - 1)
        BY <1>6
      <4> QED BY <4>1
    <3> QED BY <1>8, <1>10, <1>11, <3>1 DEF OverlayFacts
  <2>2. SeenBy(Occ, a)' = SeenBy(kept, a)'
    <3>1. PICK o \in Nat : o = Occ' /\ kept <= o
      BY <1>6
    <3>2. SeenBy(o, a)' = SeenBy(kept, a)'
      BY <1>6, <1>8, <2>1, <3>1 DEF OverlayFacts, SeenStays
    <3>3. map'[a] = SeenBy(o, a)'
      BY <1>8, <1>9, <3>1 DEF OverlayFacts
    <3>4. map'[a] = SeenBy(Occ, a)'
      BY <1>9 DEF MapIsOverlay, Occ
    <3> QED BY <3>2, <3>3, <3>4
  <2>3. SeenBy(kept, a)' = SeenBy(Occ, a)
    <3>1. kept \in 0 .. kept /\ kept + n = Occ
      BY <1>4, <1>6, <1>8 DEF WellTyped
    <3> QED BY <1>6, <3>1
  <2> QED BY <1>9, <2>2, <2>3 DEF MapIsOverlay, Occ
<1>12. \A a \in ArchReg :
          ready'[a] <=> /\ ready[a] \/ map[a] \in CDB_tag(complete)
                        /\ a # 0 => \A k \in 1 .. L : dests[k] # a
  <2>1. MT!Cycle(CDB_tag(complete), dests, tags, <<>>, <<>>)
    BY <1>1, <1>2 DEF RunCycle
  <2>2. Len(dests) = L
    BY <1>1, <1>6
  <2> QED BY <2>1, <2>2, SameTables DEF MT!Cycle, MT!Dispatch, MT!ReadyAfterComplete
<1>13. /\ \A i : i \in InFlight' <=> i \in Index /\ rob_mem'[i].valid /\ ~rob_mem'[i].complete
       /\ \A i : i \in InFlight <=> i \in Index /\ rob_mem[i].valid /\ ~rob_mem[i].complete
  <2>1. InFlight' = {i \in Index : ROB!Live(i)' /\ ~rob_mem'[i].complete}
    BY DEF InFlight, Live, Index, ROB!Index
  <2>2. \A i \in Index : rob_mem'[i].valid <=> ROB!Live(i)'
    BY <1>8 DEF SlotFacts, Index, ROB!Index
  <2> QED BY <1>8, <2>1, <2>2 DEF InFlight, Live, SlotFacts
\* What is in flight and does not complete stays so.
<1>14. ASSUME NEW i \in InFlight, i \notin complete
       PROVE  i \in InFlight' /\ rob_mem'[i].T = rob_mem[i].T
  <2>1. i \in Index /\ rob_mem[i].valid /\ ~rob_mem[i].complete /\ rob_mem[i] \in RP!Entry
    BY <1>8, <1>13 DEF SlotFacts
  <2>2. rob_mem'[i] = RP!AfterResolve(i, n, complete, resolve) /\ ~RP!Retired(i, n)
    BY <1>7, <2>1
  <2>3. rob_mem'[i].valid /\ ~rob_mem'[i].complete /\ rob_mem'[i].T = rob_mem[i].T
    BY <1>14, <2>1, <2>2 DEF RP!AfterResolve, RP!AfterComplete, RP!AfterRetire, RP!Entry
  <2> QED BY <1>13, <2>1, <2>3
<1>15. ASSUME NEW i \in InFlight', ~(ROB!Place(i) <= L)
       PROVE  i \in InFlight /\ i \notin complete /\ rob_mem'[i].T = rob_mem[i].T
  <2>1. i \in Index /\ rob_mem'[i].valid /\ ~rob_mem'[i].complete /\ rob_mem[i] \in RP!Entry
    BY <1>8, <1>13 DEF SlotFacts
  <2>2. rob_mem'[i] = RP!AfterResolve(i, n, complete, resolve)
    BY <1>7, <1>15, <2>1
  <2>3. /\ rob_mem[i].valid /\ ~rob_mem[i].complete /\ i \notin complete
        /\ rob_mem'[i].T = rob_mem[i].T
    BY <2>1, <2>2
       DEF RP!AfterResolve, RP!AfterComplete, RP!AfterRetire, RP!Cleared, RP!Entry
  <2> QED BY <1>13, <2>1, <2>3
<1>16. ASSUME NEW i \in InFlight, NEW j \in InFlight,
              rob_mem[i].T # 0, rob_mem[i].T = rob_mem[j].T
       PROVE  i = j
  <2>1. PICK d \in Window : Slot(d) = i /\ Tag(d) = rob_mem[i].T
    <3>1. i \in Index /\ ROB!Dist(i) \in Window /\ Slot(ROB!Dist(i)) = i
      BY <1>8, <1>13 DEF SlotFacts
    <3> QED BY <1>8, <3>1 DEF SlotFacts, Tag
  <2>2. PICK e \in Window : Slot(e) = j /\ Tag(e) = rob_mem[j].T
    <3>1. j \in Index /\ ROB!Dist(j) \in Window /\ Slot(ROB!Dist(j)) = j
      BY <1>8, <1>13 DEF SlotFacts
    <3> QED BY <1>8, <3>1 DEF SlotFacts, Tag
  <2> QED BY <1>8, <1>16, <2>1, <2>2 DEF Ownership
<1>17. ASSUME NEW a \in ArchReg, ~ready'[a]
       PROVE  \E i \in InFlight' : rob_mem'[i].T # 0 /\ rob_mem'[i].T = map'[a]
  <2>1. CASE a # 0 /\ \E k \in 1 .. L : dests[k] = a
    <3>1. PICK k \in 1 .. L : dests[k] = a
      BY <2>1
    <3>2. PICK w \in Window' : w = kept + (k - 1) /\ Writes(w, a)'
      BY <1>8, <1>10, <2>1, <3>1 DEF OverlayFacts
    <3>3. PICK o \in Nat : o = Occ' /\ Window' = 0 .. o - 1
      BY <1>6, <1>8 DEF OverlayFacts
    <3>4. map'[a] = SeenBy(o, a)'
      BY <1>8, <1>9, <3>3 DEF OverlayFacts
    <3>5. PICK f \in 0 .. o - 1 :
              /\ Writes(f, a)'
              /\ \A e \in f + 1 .. o - 1 : ~Writes(e, a)'
              /\ SeenBy(o, a)' = Tag(f)'
      <4>1. SeenOrigin'
        BY <1>8 DEF OverlayFacts
      <4>2. \/ \A e \in 0 .. o - 1 : ~Writes(e, a)'
            \/ \E f \in 0 .. o - 1 :
                  /\ Writes(f, a)'
                  /\ \A e \in f + 1 .. o - 1 : ~Writes(e, a)'
                  /\ SeenBy(o, a)' = Tag(f)'
        BY <4>1 DEF SeenOrigin
      <4> QED BY <3>2, <3>3, <4>2
    <3>6. w <= f
      <4>0. w \in 0 .. o - 1
        BY <3>3
      <4>1. f < w => w \in f + 1 .. o - 1
        BY <4>0
      <4> QED BY <3>2, <3>5, <4>0, <4>1
    <3>7. PICK j \in 1 .. L : f = kept + (j - 1)
      <4>1. (f - kept) + 1 \in 1 .. L /\ f = kept + (((f - kept) + 1) - 1)
        BY <1>6, <3>2, <3>3, <3>6
      <4> QED BY <4>1
    <3>8. dests[j] = a
      BY <1>8, <1>10, <3>5, <3>7 DEF OverlayFacts
    <3>9. insts[j].code = "NO_ERROR"
      BY <1>7, <2>1, <3>8 DEF DecodedInst
    <3>10. PICK i \in Index : i = Slot(f)' /\ rob_mem'[i] = RP!NewEntry(group[j])
      BY <1>6, <3>7
    <3>11. rob_mem'[i].valid /\ ~rob_mem'[i].complete
      <4>1. group[j].code = "NO_ERROR"
        BY <1>7, <3>9
      <4>2. rob_mem'[i].valid = TRUE /\ rob_mem'[i].complete = RP!Faulty(group[j])
        BY <3>10 DEF RP!NewEntry
      <4> QED BY <4>1, <4>2 DEF RP!Faulty
    <3>12. rob_mem'[i].T = Tag(f)'
      <4>1. ROB!At(f)' = rob_mem'[Slot(f)']
        BY DEF ROB!At, Slot, ROB!Wrap
      <4> QED BY <3>10, <4>1 DEF Tag
    <3>13. rob_mem'[i].T # 0
      <4>1. f \in Window' /\ Dest(f)' # 0
        BY <1>8, <2>1, <3>3, <3>5 DEF OverlayFacts
      <4>2. Tag(f)' # 0
        BY <1>6, <4>1 DEF RenameInv, DestinationsRenamed, Dest, Tag
      <4> QED BY <3>12, <4>2
    <3> QED BY <1>13, <3>4, <3>5, <3>10, <3>11, <3>12, <3>13
  <2>2. CASE a # 0 => \A k \in 1 .. L : dests[k] # a
    <3>1. map'[a] = map[a] /\ ~ready[a] /\ map[a] \notin CDB_tag(complete)
      BY <1>11, <1>12, <1>17, <2>2
    <3>2. PICK i \in InFlight : rob_mem[i].T # 0 /\ rob_mem[i].T = map[a]
      BY <3>1 DEF ReadyExact
    <3>3. i \notin complete
      BY <3>1, <3>2 DEF CDB_tag
    <3> QED BY <1>14, <3>1, <3>2, <3>3
  <2> QED BY <2>1, <2>2
<1>18. ASSUME NEW a \in ArchReg, ready'[a],
              NEW i \in InFlight', rob_mem'[i].T # 0, rob_mem'[i].T = map'[a]
       PROVE  FALSE
  <2>1. /\ map'[a] = map[a]
        /\ ready[a] \/ map[a] \in CDB_tag(complete)
    BY <1>11, <1>12, <1>18
  <2>2. CASE ROB!Place(i) <= L
    <3>1. PICK k \in 1 .. L : rob_mem'[i] = RP!NewEntry(group[k])
      BY <1>7, <1>13, <2>2
    <3>2. rob_mem'[i].T = tags[k]
      BY <1>7, <3>1 DEF RP!NewEntry
    <3>3. map[a] \in FreeRegs
      BY <1>6, <1>18, <2>1, <3>2
    <3>4. map[a] = SeenBy(Occ, a) /\ Occ \in 0 .. Occ
      BY <1>8, <1>9 DEF MapIsOverlay, Occ, WellTyped
    <3> QED BY <1>8, <3>3, <3>4 DEF SeenDistinct
  <2>3. CASE ~(ROB!Place(i) <= L)
    <3>1. i \in InFlight /\ i \notin complete /\ rob_mem[i].T # 0 /\ rob_mem[i].T = map[a]
      BY <1>15, <1>18, <2>1, <2>3
    <3>2. ~ready[a]
      BY <1>7, <3>1 DEF ReadyExact
    <3>3. PICK j \in complete : rob_mem[j].T = map[a]
      BY <2>1, <3>1, <3>2 DEF CDB_tag
    <3> QED BY <1>5, <1>16, <3>1, <3>3
  <2> QED BY <2>2, <2>3
<1> QED BY <1>17, <1>18 DEF ReadyExact

\* The ready bits after a rewind, whose last cycle leaves only completed writers
\* (map_table.sv:77-85).
LEMMA RewindReady ==
    ASSUME RenameInv, FaultInv, ReadyExact, NEW store_accepted \in BOOLEAN,
           NEW n \in ROB!RetireNum(store_accepted), NEW complete, NEW resolve,
           RewindCycle(n, store_accepted, complete, resolve)
    PROVE  ReadyExact'
<1>1. PICK r : r = ROB!RewindNum(n, store_accepted)
  OBVIOUS
<1>2. PICK occ : occ = Occ
  OBVIOUS
<1>3. /\ RenameInv' /\ RP!RobInv /\ ROB!Rewind(n, store_accepted)
  <2>1. PICK kept : kept = Occ'
    OBVIOUS
  <2> QED BY <2>1, RewindStep DEF RenameInv, RewindCycle
<1>4. /\ n \in Nat /\ r \in Nat /\ occ \in 0 .. ROB_SIZE /\ n + r < occ
      /\ Occ' = (occ - n) - r
      /\ ROB!RewindDone(n) => r = (occ - n) - 1
      /\ \A d \in 0 .. (occ - n) - r - 1 :
            /\ Slot(d)' = Slot(d + n) /\ Slot(d + n) \in Index
            /\ rob_mem'[Slot(d + n)] =
                  IF ROB!RewindDone(n) /\ d = 0
                  THEN [rob_mem[Slot(d + n)] EXCEPT !.exception = FALSE]
                  ELSE rob_mem[Slot(d + n)]
      /\ \A k \in 1 .. r : ROB!RewindIndex(k) = Slot(occ - k)
  <2>1. /\ RP!RobInv /\ ROB!Rewind(n, store_accepted)
        /\ Rewinding(n, store_accepted, r, occ)
    BY <1>1, <1>2, <1>3 DEF RenameInv, RewindCycle, Rewinding
  <2>2. RewindEffect(n, r, occ)
    BY <2>1, RewindShape
  <2> QED BY <2>2 DEF RewindEffect
<1>5. /\ OverlayFacts /\ OverlayFacts' /\ SlotFacts /\ SlotFacts' /\ WellTyped
      /\ occ \in Nat /\ r <= occ /\ Window = 0 .. occ - 1
      /\ Window' = 0 .. ((occ - n) - r) - 1
  <2>1. occ \in Nat
    BY <1>4, RenameAssumption
  <2> QED BY <1>2, <1>3, <1>4, <2>1, OverlayFactsHold, OverlayFactsNext, SlotFactsHold,
          SlotFactsNext, InvTypes DEF OverlayFacts, RenameInv
<1>6. PICK reg_T : reg_T = ROB!RewindT(r)
  OBVIOUS
<1>7. PICK reg_Told : reg_Told = ROB!RewindTold(r)
  OBVIOUS
<1>8. /\ Len(reg_T) = r
      /\ \A k \in 1 .. r : reg_T[k] = Tag(occ - k)
  BY <1>2, <1>4, <1>5, <1>6, <1>7, RewindWire
<1>9. PICK m : m = MTP!MapUndone(reg_T, reg_Told)
  OBVIOUS
<1>10. /\ m[0] = map
       /\ \A k \in 1 .. r :
            m[k] = [a \in ArchReg |->
                      IF m[k - 1][a] = reg_T[k] THEN reg_Told[k] ELSE m[k - 1][a]]
  <2>1. Len(reg_T) = r /\ r \in Nat
    BY <1>4, <1>8
  <2>2. /\ m[0] = map
        /\ \A k \in 1 .. r :
             m[k] = [a \in MTP!ArchReg |->
                       IF m[k - 1][a] = reg_T[k] THEN reg_Told[k] ELSE m[k - 1][a]]
    BY <1>9, <2>1, MTP!RewindTurns
  <2> QED BY <2>2, SameTables
<1>11. MT!Cycle(CDB_tag(complete), <<>>, <<>>, reg_T, reg_Told)
  BY <1>1, <1>6, <1>7 DEF RewindCycle
\* A bit that stays down: nothing undone gave its register.
<1>12. ASSUME NEW a \in ArchReg, ~ready'[a]
       PROVE  ~ready[a] /\ (\A k \in 1 .. r : m[k - 1][a] # reg_T[k]) /\ map'[a] = m[r][a]
  <2>1. CASE reg_T = <<>>
    <3>1. r = 0 /\ Len(<<>>) = 0 /\ 0 \in Nat
      BY <1>8, <2>1
    <3>2. map' = MT!MapAfter(<<>>, <<>>)[0]
      BY <1>11, <2>1, <3>1 DEF MT!Cycle, MT!Dispatch
    <3>3. MTP!MapAfter(<<>>, <<>>)[0] = map
      BY <3>1, MTP!DispatchTurns
    <3>4. ~ready[a]
      <4>1. ready' = [b \in MT!ArchReg |->
                        /\ MT!ReadyAfterComplete(CDB_tag(complete))[b]
                        /\ b # 0 => \A k \in 1 .. Len(<<>>) : (<<>>)[k] # b]
        BY <1>11, <2>1 DEF MT!Cycle, MT!Dispatch
      <4>2. 1 .. Len(<<>>) = {}
        BY <3>1
      <4>3. ~MT!ReadyAfterComplete(CDB_tag(complete))[a]
        BY <1>12, <4>1, <4>2, SameTables
      <4> QED BY <4>3, SameTables DEF MT!ReadyAfterComplete
    <3> QED BY <1>10, <3>1, <3>2, <3>3, <3>4, SameTables
  <2>2. CASE reg_T # <<>>
    <3>1. /\ map' = MT!MapUndone(reg_T, reg_Told)[Len(reg_T)]
          /\ ready' = [b \in MT!ArchReg |->
               \/ MT!ReadyAfterComplete(CDB_tag(complete))[b]
               \/ \E k \in 1 .. Len(reg_T) : MT!MapUndone(reg_T, reg_Told)[k - 1][b] = reg_T[k]]
      BY <1>11, <2>2 DEF MT!Cycle, MT!Rewind
    <3>2. MT!MapUndone(reg_T, reg_Told) = m
      BY <1>9, SameTables
    <3> QED BY <1>8, <1>12, <3>1, <3>2, SameTables DEF MT!ReadyAfterComplete
  <2> QED BY <2>1, <2>2
<1>13. ASSUME NEW a \in ArchReg, ~ready'[a]
       PROVE  \A k \in 0 .. r : m[k][a] = map[a]
  <2> DEFINE S == {k \in 0 .. r : m[k][a] = map[a]}
  <2>1. 0 \in S
    BY <1>4, <1>10
  <2>2. ASSUME NEW j \in 0 .. r - 1, j \in S PROVE j + 1 \in S
    <3>1. PICK k \in 1 .. r : k = j + 1 /\ k - 1 = j
      BY <1>4
    <3>2. m[k][a] = IF m[k - 1][a] = reg_T[k] THEN reg_Told[k] ELSE m[k - 1][a]
      BY <1>10
    <3>3. m[k][a] = map[a]
      BY <1>12, <1>13, <2>2, <3>1, <3>2
    <3> QED BY <3>1, <3>3
  <2> HIDE DEF S
  <2>3. \A k \in 0 .. r : k \in S
    BY <1>4, <2>1, <2>2, IntervalInduction
  <2> QED BY <2>3 DEF S
<1>14. /\ \A i : i \in InFlight' <=> i \in Index /\ rob_mem'[i].valid /\ ~rob_mem'[i].complete
       /\ \A i : i \in InFlight <=> i \in Index /\ rob_mem[i].valid /\ ~rob_mem[i].complete
  <2>1. InFlight' = {i \in Index : ROB!Live(i)' /\ ~rob_mem'[i].complete}
    BY DEF InFlight, Live, Index, ROB!Index
  <2>2. \A i \in Index : rob_mem'[i].valid <=> ROB!Live(i)'
    BY <1>5 DEF SlotFacts, Index, ROB!Index
  <2> QED BY <1>5, <2>1, <2>2 DEF InFlight, Live, SlotFacts
<1>15. ASSUME NEW a \in ArchReg, ~ready'[a]
       PROVE  \E i \in InFlight' : rob_mem'[i].T # 0 /\ rob_mem'[i].T = map'[a]
  <2>1. ~ready[a] /\ map'[a] = map[a]
    <3>1. r \in 0 .. r
      BY <1>4
    <3> QED BY <1>12, <1>13, <1>15, <3>1
  <2>2. PICK i \in InFlight : rob_mem[i].T # 0 /\ rob_mem[i].T = map[a]
    BY <2>1 DEF ReadyExact
  <2>3. /\ i \in Index /\ rob_mem[i].valid /\ ~rob_mem[i].complete /\ rob_mem[i] \in RP!Entry
    BY <1>5, <1>14 DEF SlotFacts
  <2>4. PICK d \in Window : d = ROB!Dist(i) /\ Slot(d) = i /\ Tag(d) = rob_mem[i].T
    BY <1>5, <2>3 DEF SlotFacts, Tag
  <2>5. ~(d < n)
    <3>1. ASSUME d < n PROVE FALSE
      <4>1. RP!Retired(i, n)
        BY <2>4, <3>1, SameRing DEF RP!Retired
      <4>2. rob_mem[i].complete
        <5>1. n \in RP!RetireNum(store_accepted) /\ i \in RP!Index /\ RP!TypeOK /\ RP!RobAssumption
          BY <1>3, <2>3, SameCycle, SameRing, RobHypothesis DEF Index, RP!RobInv
        <5> QED BY <4>1, <5>1, RP!RetiredIsDone DEF RP!RobAssumption
      <4> QED BY <2>3, <4>2
    <3> QED BY <3>1
  <2>6. ~(d >= occ - r)
    <3>1. ASSUME d >= occ - r PROVE FALSE
      <4>1. PICK k \in 1 .. r : occ - k = d
        <5>1. occ - d \in 1 .. r /\ occ - (occ - d) = d
          BY <1>4, <1>5, <3>1
        <5> QED BY <5>1
      <4>2. k - 1 \in 0 .. r
        BY <1>4
      <4>3. reg_T[k] = m[k - 1][a]
        BY <1>8, <1>13, <1>15, <2>2, <2>4, <4>1, <4>2
      <4> QED BY <1>12, <1>15, <4>3
    <3> QED BY <3>1
  <2>7. PICK e \in 0 .. ((occ - n) - r) - 1 : e + n = d
    <3>1. d - n \in 0 .. ((occ - n) - r) - 1 /\ (d - n) + n = d
      BY <1>4, <1>5, <2>5, <2>6
    <3> QED BY <3>1
  <2>8. Slot(e)' = i /\ rob_mem'[i] \in {rob_mem[i], [rob_mem[i] EXCEPT !.exception = FALSE]}
    BY <1>4, <2>4, <2>7
  <2>9. rob_mem'[i].valid /\ ~rob_mem'[i].complete /\ rob_mem'[i].T = rob_mem[i].T
    BY <2>3, <2>8 DEF RP!Entry
  <2> QED BY <1>14, <2>1, <2>2, <2>3, <2>9
\* Once the rewind has finished nothing is in flight.
<1>16. ASSUME NEW i \in InFlight', ~in_rewind' PROVE FALSE
  <2>1. ROB!RewindDone(n)
    BY <1>3, <1>16 DEF ROB!Rewind
  <2>2. Window' = 0 .. 0
    BY <1>4, <1>5, <2>1
  <2>3. i \in Index /\ rob_mem'[i].valid /\ ~rob_mem'[i].complete
    BY <1>14
  <2>4. PICK d \in Window' : i = Slot(d)'
    BY <1>5, <2>3 DEF SlotFacts, Index, ROB!Index
  <2>5. i = Slot(0)'
    BY <2>2, <2>4
  <2>6. /\ 0 \in 0 .. (occ - n) - r - 1 /\ 0 + n = n
    BY <1>4, <1>5, <2>1
  <2>7. i = Slot(n) /\ rob_mem'[i] = [rob_mem[i] EXCEPT !.exception = FALSE]
    BY <1>4, <2>1, <2>5, <2>6
  <2>8. rob_mem[i].complete /\ rob_mem[i] \in RP!Entry
    BY <1>5, <2>3, <2>7, FaultyIsComplete DEF SlotFacts
  <2> QED BY <2>3, <2>7, <2>8 DEF RP!Entry
<1> QED BY <1>15, <1>16 DEF ReadyExact

-----------------------------------------------------------------------------
(* The theorems.                                                            *)

\* The inductive invariant of the core.
CoreInv ==
    /\ RenameInv
    /\ OperandTypes /\ OperandsExact
    /\ FaultInv
    /\ ReadyExact

\* The core starts in it.
LEMMA InitCore == Init => CoreInv
<1> SUFFICES ASSUME Init PROVE CoreInv
  OBVIOUS
<1>1. RenameInv /\ ROB!Init /\ MT!Init
  BY InitRename DEF Init
<1>2. /\ Occ = 0 /\ Window = {}
      /\ ~has_rewind /\ ~in_rewind
      /\ \A i \in Index : rob_mem[i] = ROB!Cleared
  BY <1>1 DEF ROB!Init, Occ, ROB!Occupied, Window, Index, ROB!Index
<1>3. OperandTypes /\ OperandsExact
  <2>1. 0 \in ArchReg /\ 0 \in PhyReg
    BY RenameAssumption DEF ArchReg, PhyReg, FREELIST_SIZE
  <2> QED BY <1>2, <2>1 DEF Init, OperandTypes, OperandsExact, NoOperand
<1>4. FaultInv
  BY <1>2 DEF Init, FaultInv, TargetOfOldest, ROB!Cleared
<1>5. ReadyExact
  <2>1. \A a \in ArchReg : ready[a]
    BY <1>1, SameTables DEF MT!Init
  <2>2. \A i \in Index : ~Live(i)
    BY <1>1, <1>2, SlotFactsHold DEF RenameInv, SlotFacts, ROB!Cleared, Live
  <2> QED BY <2>1, <2>2 DEF ReadyExact, InFlight
<1> QED BY <1>1, <1>3, <1>4, <1>5 DEF CoreInv

\* Every clock cycle keeps it.
LEMMA NextCore == CoreInv /\ [Next]_vars => CoreInv'
<1> SUFFICES ASSUME CoreInv, [Next]_vars PROVE CoreInv'
  OBVIOUS
<1>0. RenameInv /\ OperandTypes /\ OperandsExact /\ FaultInv /\ ReadyExact
  BY DEF CoreInv
<1>1. CASE UNCHANGED vars
  <2>1. RenameInv'
    BY <1>0, <1>1, StillRename
  <2>2. /\ \A d : Slot(d)' = Slot(d)
        /\ \A i : ROB!Dist(i)' = ROB!Dist(i) /\ (ROB!Live(i)' <=> ROB!Live(i))
        /\ Occ' = Occ /\ Window' = Window
    BY <1>1 DEF vars, robVars, Slot, ROB!Wrap, ROB!Dist, ROB!Live, ROB!Occupied, Occ, Window
  <2>3. OperandTypes' /\ OperandsExact'
    <3>1. \A a \in ArchReg : \A d \in 0 .. Occ : SeenBy(d, a)' = SeenBy(d, a)
      BY <1>0, <1>1, StillRename
    <3>2. Window \subseteq 0 .. Occ
      BY OverlayFactsHold, InvTypes, <1>0 DEF OverlayFacts, WellTyped
    <3>3. operand' = operand /\ rob_mem' = rob_mem
      BY <1>1 DEF vars, robVars
    <3>4. ASSUME NEW d \in Window, ~rob_mem[Slot(d)].complete
          PROVE  (operand[Slot(d)].tag = SeenBy(d, operand[Slot(d)].src))'
      <4>0. Slot(d) \in Index
        BY <1>0, SlotFactsHold DEF RenameInv, SlotFacts
      <4>1. PICK a \in ArchReg : a = operand[Slot(d)].src
        BY <1>0, <4>0 DEF OperandTypes
      <4>2. operand[Slot(d)].tag = SeenBy(d, a)
        BY <1>0, <3>4, <4>1 DEF OperandsExact, Slot
      <4> QED BY <2>2, <3>1, <3>2, <3>3, <4>1, <4>2
    <3> QED BY <1>0, <2>2, <3>3, <3>4 DEF OperandTypes, OperandsExact, Slot
  <2>4. FaultInv'
    BY <1>0, <1>1, <2>2 DEF vars, robVars, FaultInv, TargetOfOldest
  <2>5. ReadyExact'
    BY <1>0, <1>1, <2>2 DEF vars, robVars, mapTableVars, ReadyExact, InFlight, Live
  <2> QED BY <2>1, <2>3, <2>4, <2>5 DEF CoreInv
<1>2. CASE Next /\ ~UNCHANGED vars
  <2>1. PICK store_accepted \in StoreAnswers, complete \in Completions, resolve \in Resolutions :
           Tick(store_accepted, complete, resolve)
    BY <1>2 DEF Next
  <2>2. store_accepted \in BOOLEAN /\ complete \in SUBSET Index /\ resolve \in ROB!Resolution
    BY Channels DEF StoreAnswers
  <2>3. PICK n \in ROB!RetireNum(store_accepted) :
          \/ RewindCycle(n, store_accepted, complete, resolve)
          \/ \E insts \in Group : RunCycle(n, store_accepted, complete, resolve, insts)
    BY <2>1 DEF Tick
  <2>4. CASE RewindCycle(n, store_accepted, complete, resolve)
    <3>1. RenameInv'
      <4>1. PICK kept : kept = Occ'
        OBVIOUS
      <4> QED BY <1>0, <2>2, <2>4, <4>1, RewindStep
    <3>2. OperandTypes' /\ OperandsExact'
      BY <1>0, <2>2, <2>4, RewindOperands
    <3>3. FaultInv'
      BY <1>0, <2>2, <2>4, RewindFaults
    <3>4. ReadyExact'
      BY <1>0, <2>2, <2>4, RewindReady
    <3> QED BY <3>1, <3>2, <3>3, <3>4 DEF CoreInv
  <2>5. ASSUME NEW insts \in Group, RunCycle(n, store_accepted, complete, resolve, insts)
        PROVE  CoreInv'
    <3>1. RenameInv'
      <4>1. PICK kept : kept = Occ - n
        OBVIOUS
      <4>2. PICK dests : dests = [k \in 1 .. Len(insts) |-> insts[k].arch_dest_reg]
        OBVIOUS
      <4>3. PICK tags : tags = FreeTags(ROB!RetireTold(n), dests)
        OBVIOUS
      <4>4. PICK group : group = ToRob(insts, dests, tags)
        OBVIOUS
      <4>5. Offer(n, insts, kept, dests, tags, group)
        BY <4>1, <4>2, <4>3, <4>4 DEF Offer
      <4> QED BY <1>0, <2>2, <2>5, <4>5, RunStep
    <3>2. OperandTypes' /\ OperandsExact'
      BY <1>0, <2>2, <2>5, RunOperands
    <3>3. FaultInv'
      BY <1>0, <2>2, <2>5, RunFaults
    <3>4. ReadyExact'
      BY <1>0, <2>2, <2>5, RunReady
    <3> QED BY <3>1, <3>2, <3>3, <3>4 DEF CoreInv
  <2> QED BY <2>3, <2>4, <2>5
<1> QED BY <1>1, <1>2

\* The invariant of the rename core.
THEOREM CoreInvariant == Spec => []CoreInv
BY InitCore, NextCore, PTL DEF Spec

\* Everything the three components and the dispatch stage hold is of its type,
\* at every size (rob.sv, freelist.sv, map_table.sv, dispatch_stage.sv).
THEOREM TypesOfTheCore == Spec => []TypeOK
<1>1. CoreInv => TypeOK
  <2> SUFFICES ASSUME CoreInv PROVE TypeOK
    OBVIOUS
  <2>1. RP!TypeOK
    BY DEF CoreInv, RenameInv, RP!RobInv
  <2>2. ROB!TypeOK
    BY <2>1 DEF ROB!TypeOK, RP!TypeOK, ROB!Index, RP!Index, ROB!Entry, RP!Entry,
               ROB!Kind, RP!Kind, ROB!Code, RP!Code
  <2>3. FL!TypeOK
    BY DEF CoreInv, RenameInv, FLP!RingExact, FLP!TypeOK, FL!TypeOK, FLP!FreeIndex,
           FL!FreeIndex, FLP!PhyReg, FL!PhyReg
  <2> QED BY <2>2, <2>3 DEF CoreInv, RenameInv, OperandTypes, FaultInv, TypeOK
<1> QED BY <1>1, CoreInvariant, PTL

\* Through every interleaving of dispatch, retirement and rewind the map table
\* stays the overlay of the ROB on the committed mapping, and an instruction
\* remembers the mapping it replaced (map_table.sv:57-86, rob.sv:326-349).
THEOREM MapFollowsProgramOrder == Spec => []MapIsOverlay
<1>1. CoreInv => MapIsOverlay
  BY DEF CoreInv, RenameInv
<1> QED BY <1>1, CoreInvariant, PTL

\* The free list never runs dry under a dispatch group that the dispatch stage
\* let through (freelist.sv:71-73, 89-97; dispatch_stage.sv:62-72).
THEOREM NoDestinationForgotten == Spec => []DestinationsRenamed
<1>1. CoreInv => DestinationsRenamed
  BY DEF CoreInv, RenameInv
<1> QED BY <1>1, CoreInvariant, PTL

\* A waiting instruction's tag names the youngest older writer of its source
\* until it completes (dispatch_stage.sv:124-129, map_table.sv:62-64).
THEOREM TagsStayRight == Spec => []OperandsExact
<1>1. CoreInv => OperandsExact
  BY DEF CoreInv
<1> QED BY <1>1, CoreInvariant, PTL

\* No instruction waits for a register that nobody will write, and none reads
\* one that is still to be written (map_table.sv:50-55, 73, 77-85;
\* rob.sv:235-243).
THEOREM ReadyBitsExact == Spec => []ReadyExact
<1>1. CoreInv => ReadyExact
  BY DEF CoreInv
<1> QED BY <1>1, CoreInvariant, PTL

\* Fetch restarts at the target of the oldest mispredicted branch, in whatever
\* order branches were resolved (rob.sv:249-271).
THEOREM RestartsAtOldest == Spec => []TargetOfOldest
<1>1. CoreInv => TargetOfOldest
  BY DEF CoreInv, FaultInv
<1> QED BY <1>1, CoreInvariant, PTL

\* A set without two different members has none or one.
LEMMA NoneOrOne ==
    ASSUME NEW S, \A x, y \in S : x = y
    PROVE  IF S = {} THEN Cardinality(S) = 0 ELSE Cardinality(S) = 1
<1>1. CASE S = {}
  BY <1>1, FS_EmptySet
<1>2. CASE S # {}
  <2>1. PICK x : x \in S
    BY <1>2
  <2>2. S = {x}
    BY <2>1
  <2> QED BY <1>2, <2>2, FS_Singleton
<1> QED BY <1>1, <1>2

\* No physical register is leaked and none has two owners, however dispatch,
\* retirement and rewind follow each other (freelist.sv:77-108,
\* map_table.sv:57-86, rob.sv:222-228, 343-348).
THEOREM EveryRegisterOwnedOnce == Spec => []OneOwner
<1>1. CoreInv => OneOwner
  <2> SUFFICES ASSUME CoreInv, NEW p \in PhyReg
               PROVE  LET rows == {a \in ArchReg : map[a] = p}
                          olds == {d \in Window : p # 0 /\ ROB!At(d).Told = p}
                          free == {d \in 0 .. FL!free_reg_number - 1 :
                                     free_list_entry[FL!Wrap(fl_head + d)] = p}
                      IN Cardinality(rows) + Cardinality(olds) + Cardinality(free) = 1
    BY DEF OneOwner
  <2> DEFINE rows == {a \in ArchReg : map[a] = p}
             olds == {d \in Window : p # 0 /\ ROB!At(d).Told = p}
             free == {d \in 0 .. FL!free_reg_number - 1 :
                        free_list_entry[FL!Wrap(fl_head + d)] = p}
  <2>0. RenameInv /\ OverlayFacts /\ WellTyped /\ SeenDistinct /\ Ownership /\ MapIsOverlay
    BY OverlayFactsHold, InvTypes, SeenDistinctHolds DEF CoreInv, RenameInv
  <2>1. PICK occ \in Nat : occ = Occ
    BY <2>0 DEF WellTyped
  <2>2. Window = 0 .. occ - 1 /\ occ \in 0 .. Occ
    BY <2>0, <2>1 DEF OverlayFacts
  <2>3. \A a \in ArchReg : map[a] = SeenBy(occ, a)
    BY <2>0, <2>1 DEF OverlayFacts
  <2>4. /\ \A a \in ArchReg : SeenBy(occ, a) \notin Freed(occ)
        /\ Freed(occ) \cap FreeRegs = {}
        /\ \A i, j \in 0 .. occ - 1 : Old(i) # 0 /\ Old(i) = Old(j) => i = j
    BY <2>0, <2>2, FreedFacts
  <2>5. /\ rows # {} <=> \E a \in ArchReg : p = SeenBy(occ, a)
        /\ \A a, b \in rows : a = b
    <3>1. \A a, b \in ArchReg : SeenBy(occ, a) = SeenBy(occ, b) => a = b
      BY <2>0, <2>1, <2>2 DEF SeenDistinct
    <3> QED BY <2>3, <3>1
  <2>6. /\ olds # {} <=> p \in Freed(occ)
        /\ \A d, e \in olds : d = e
    BY <2>2, <2>4 DEF Freed, Old
  <2>7. /\ free # {} <=> p \in FreeRegs
        /\ \A d, e \in free : d = e
    <3>1. FL!free_reg_number = FLP!free_reg_number
          /\ \A d : free_list_entry[FL!Wrap(fl_head + d)] = FLP!Ring(d)
      BY DEF FL!free_reg_number, FLP!free_reg_number, FL!RingCount, FLP!RingCount,
             FL!Wrap, FLP!Wrap, FLP!Ring
    <3>2. free = {d \in 0 .. FLP!free_reg_number - 1 : FLP!Ring(d) = p}
      BY <3>1
    <3>3. FreeRegs = {FLP!Ring(d) : d \in 0 .. FLP!free_reg_number - 1}
      BY DEF FreeRegs, FLP!FreeRegs, FLP!Ring
    <3>4. \A d, e \in 0 .. FLP!free_reg_number - 1 : FLP!Ring(d) = FLP!Ring(e) => d = e
      BY <2>0 DEF RenameInv, FLP!RingDistinct
    <3> HIDE DEF free
    <3> QED BY <3>2, <3>3, <3>4
  <2> HIDE DEF rows, olds, free
  \* No two kinds of owner.
  <2>8. /\ ~(rows # {} /\ olds # {})
        /\ ~(rows # {} /\ free # {})
        /\ ~(olds # {} /\ free # {})
    BY <2>0, <2>2, <2>4, <2>5, <2>6, <2>7 DEF SeenDistinct
  \* No register without an owner.
  <2>9. rows # {} \/ olds # {} \/ free # {}
    <3>1. ASSUME NEW a \in ArchReg, NEW d \in 0 .. occ, p = SeenBy(d, a)
          PROVE  rows # {} \/ olds # {}
      <4>1. SeenBy(d, a) \in Freed(occ) \/ SeenBy(d, a) = SeenBy(occ, a)
        BY <2>0, <2>2, FreedOrSeen
      <4> QED BY <2>5, <2>6, <3>1, <4>1
    <3>2. CASE \E a \in ArchReg : p = Committed(a)
      <4>1. PICK a \in ArchReg : p = SeenBy(0, a)
        BY <2>0, <3>2 DEF OverlayFacts, SeenTurns
      <4>2. 0 \in 0 .. occ
        BY <2>1
      <4> QED BY <3>1, <4>1, <4>2
    <3>3. CASE \E d \in Window : p # 0 /\ p = Tag(d)
      <4>1. PICK d \in Window : p # 0 /\ p = Tag(d)
        BY <3>3
      <4>2. d \in Nat /\ d + 1 \in 0 .. occ
        BY <2>1, <2>2
      <4>3. Dest(d) \in ArchReg /\ Dest(d) # 0
        BY <2>0, <4>1 DEF WellTyped, RenameInv, DestinationsRenamed, Dest, Tag
      <4>4. Writes(d, Dest(d))
        BY <2>0, <4>3 DEF OverlayFacts
      <4>5. SeenBy(d + 1, Dest(d)) = Tag(d)
        BY <2>0, <4>2, <4>4 DEF OverlayFacts, SeenTurns
      <4> QED BY <3>1, <4>1, <4>2, <4>3, <4>5
    <3>4. CASE p \in FreeRegs
      BY <2>7, <3>4
    <3> QED BY <2>0, <3>2, <3>3, <3>4 DEF Ownership
  <2>10. Cardinality(rows) = IF rows = {} THEN 0 ELSE 1
    BY <2>5, NoneOrOne
  <2>11. Cardinality(olds) = IF olds = {} THEN 0 ELSE 1
    BY <2>6, NoneOrOne
  <2>12. Cardinality(free) = IF free = {} THEN 0 ELSE 1
    BY <2>7, NoneOrOne
  <2>13. Cardinality(rows) + Cardinality(olds) + Cardinality(free) = 1
    BY <2>8, <2>9, <2>10, <2>11, <2>12
  <2> QED BY <2>13 DEF rows, olds, free
<1> QED BY <1>1, CoreInvariant, PTL

-----------------------------------------------------------------------------
(* The rename core implements the in-order window.                          *)

\* The abstract state that the core stands for.
Win == [d \in 1 .. ROB!Occupied |->
           [dest |-> ROB!At(d - 1).arch_dest_reg,
            T |-> ROB!At(d - 1).T,
            fault |-> ROB!At(d - 1).exception]]
\* The committed mappings, which no register of the core holds.
Com == [a \in ArchReg |-> Committed(a)]
\* Whether the entry d places behind the head has faulted.
Fault(d) == ROB!At(d).exception

\* What the abstract operators say of the ROB.
WindowFacts ==
    Occ \in Nat =>
    /\ Len(Win) = Occ /\ DOMAIN Win = 1 .. Occ
    /\ \A d \in 1 .. Occ : /\ Win[d].dest = Dest(d - 1)
                           /\ Win[d].T = Tag(d - 1)
                           /\ Win[d].fault = Fault(d - 1)
    /\ \A a \in ArchReg : \A k \in 0 .. Occ : Abstract!Overlay(k, a) = SeenBy(k, a)

\* The abstract window is the ROB in program order, and its overlay is what the
\* instructions see.
LEMMA WindowFactsHold == WindowFacts
<1> SUFFICES ASSUME Occ \in Nat
             PROVE  /\ Len(Win) = Occ /\ DOMAIN Win = 1 .. Occ
                    /\ \A d \in 1 .. Occ : /\ Win[d].dest = Dest(d - 1)
                                           /\ Win[d].T = Tag(d - 1)
                                           /\ Win[d].fault = Fault(d - 1)
                    /\ \A a \in ArchReg : \A k \in 0 .. Occ :
                          Abstract!Overlay(k, a) = SeenBy(k, a)
  BY DEF WindowFacts
<1>1. Len(Win) = Occ /\ DOMAIN Win = 1 .. Occ
  BY DEF Win, Occ
<1>2. ASSUME NEW d \in 1 .. Occ
      PROVE  Win[d].dest = Dest(d - 1) /\ Win[d].T = Tag(d - 1) /\ Win[d].fault = Fault(d - 1)
  BY DEF Win, Occ, Dest, Tag, Fault
<1>3. ASSUME NEW a \in ArchReg, NEW k \in 0 .. Occ
      PROVE  Abstract!Overlay(k, a) = SeenBy(k, a)
  <2> DEFINE writers == {d \in 1 .. k : Abstract!Writes(d, a)}
  <2>1. Abstract!Overlay(k, a) =
          IF writers = {} THEN Committed(a)
          ELSE Win[CHOOSE d \in writers : \A e \in writers : e <= d].T
    BY DEF Abstract!Overlay, Win, Com
  <2>2. \A d \in 1 .. k : Abstract!Writes(d, a) <=> Writes(d - 1, a)
    <3>1. \A d \in 1 .. k : Abstract!Writes(d, a) <=> a # 0 /\ Win[d].dest = a
      BY DEF Abstract!Writes, Win
    <3>2. \A d : Writes(d, a) <=> a # 0 /\ Dest(d) = a
      BY OverlayFactsHold DEF OverlayFacts
    <3> QED BY <1>2, <3>1, <3>2
  <2> HIDE DEF writers
  <2>3. CASE \A e \in 0 .. k - 1 : ~Writes(e, a)
    <3>1. writers = {}
      BY <2>2, <2>3 DEF writers
    <3>2. SeenBy(k, a) = Committed(a)
      <4>1. ~\E f \in 0 .. k - 1 : Writes(f, a)
        BY <2>3
      <4> QED BY <4>1 DEF SeenBy
    <3> QED BY <2>1, <3>1, <3>2
  <2>4. CASE \E f \in 0 .. k - 1 :
                /\ Writes(f, a) /\ \A e \in f + 1 .. k - 1 : ~Writes(e, a)
                /\ SeenBy(k, a) = Tag(f)
    <3>1. PICK f \in 0 .. k - 1 :
                /\ Writes(f, a) /\ \A e \in f + 1 .. k - 1 : ~Writes(e, a)
                /\ SeenBy(k, a) = Tag(f)
      BY <2>4
    <3>2. f + 1 \in writers /\ \A e \in writers : e <= f + 1
      BY <2>2, <3>1 DEF writers
    <3>3. writers \subseteq Nat
      BY DEF writers
    <3>4. (CHOOSE d \in writers : \A e \in writers : e <= d) = f + 1
      <4>1. PICK y : y = CHOOSE d \in writers : \A e \in writers : e <= d
        OBVIOUS
      <4>2. y \in writers /\ \A e \in writers : e <= y
        BY <3>2, <4>1
      <4>3. y \in Nat /\ f + 1 \in Nat /\ y <= f + 1 /\ f + 1 <= y
        BY <3>2, <3>3, <4>2
      <4> QED BY <4>1, <4>3
    <3>5. f + 1 \in 1 .. Occ /\ (f + 1) - 1 = f
      OBVIOUS
    <3> QED BY <1>2, <2>1, <3>1, <3>2, <3>4, <3>5
  <2> QED BY <2>3, <2>4, SeenOriginHolds DEF SeenOrigin
<1> QED BY <1>1, <1>2, <1>3

\* The same after a step.
LEMMA WindowFactsNext == WindowFacts'
BY WindowFactsHold, PTL

\* The part of the window that stays when n instructions retire and r are
\* squashed.
Middle(n, r, kept, seq) ==
    /\ n + r <= Occ /\ kept = (Occ - n) - r
    /\ seq = SubSeq(Win, n + 1, Len(Win) - r)

\* That part, what retires and what is squashed, in the terms of the ROB.
MiddleFacts(n, r, kept, seq) ==
    /\ Len(seq) = kept /\ DOMAIN seq = 1 .. kept
    /\ \A d \in 1 .. kept : /\ seq[d].dest = Dest((d - 1) + n)
                            /\ seq[d].T = Tag((d - 1) + n)
                            /\ seq[d].fault = Fault((d - 1) + n)
    /\ Abstract!Replaced(n) = Freed(n)
    /\ \A occ : occ = Occ => Abstract!Squashed(r) = Undone(occ, r)

\* What leaves the window and what stays.
LEMMA WindowParts ==
    ASSUME RenameInv, NEW n \in Nat, NEW r \in Nat, NEW kept, NEW seq,
           Middle(n, r, kept, seq)
    PROVE  MiddleFacts(n, r, kept, seq)
<1> USE DEF Middle
<1>0. WellTyped /\ DestinationsRenamed /\ MapIsOverlay /\ OverlayFacts
  BY InvTypes, OverlayFactsHold DEF RenameInv
<1>1. /\ Occ \in Nat /\ Len(Win) = Occ /\ Window = 0 .. Occ - 1
      /\ \A d \in 1 .. Occ : /\ Win[d].dest = Dest(d - 1)
                             /\ Win[d].T = Tag(d - 1)
                             /\ Win[d].fault = Fault(d - 1)
      /\ \A a \in ArchReg : \A k \in 0 .. Occ : Abstract!Overlay(k, a) = SeenBy(k, a)
  BY <1>0, WindowFactsHold DEF WindowFacts, WellTyped, OverlayFacts
<1>2. PICK occ \in Nat : occ = Occ
  BY <1>1
<1>3. kept \in Nat /\ kept = (occ - n) - r /\ n + r <= occ
  BY <1>2
<1>4. /\ Len(seq) = kept /\ DOMAIN seq = 1 .. kept
      /\ \A d \in 1 .. kept : seq[d] = Win[d + n]
  <2> DEFINE S == {Win[d] : d \in n + 1 .. occ - r}
  <2>1. n + 1 \in Int /\ occ - r \in Int /\ \A d \in n + 1 .. occ - r : Win[d] \in S
    BY <1>2
  <2> HIDE DEF S
  <2>2. seq = SubSeq(Win, n + 1, occ - r)
    BY <1>1, <1>2
  <2>3. /\ seq \in Seq(S)
        /\ Len(seq) = IF n + 1 <= occ - r THEN ((occ - r) - (n + 1)) + 1 ELSE 0
        /\ \A d \in 1 .. ((occ - r) - (n + 1)) + 1 : seq[d] = Win[((n + 1) + d) - 1]
    BY <2>1, <2>2, SubSeqProperties
  <2>4. ((occ - r) - (n + 1)) + 1 = kept /\ Len(seq) = kept
    BY <1>3, <2>3
  <2>5. \A d \in 1 .. kept : ((n + 1) + d) - 1 = d + n
    BY <1>3
  <2> QED BY <2>3, <2>4, <2>5
<1>5. ASSUME NEW d \in 1 .. kept
      PROVE  /\ seq[d].dest = Dest((d - 1) + n)
             /\ seq[d].T = Tag((d - 1) + n)
             /\ seq[d].fault = Fault((d - 1) + n)
  <2>1. d + n \in 1 .. Occ /\ (d + n) - 1 = (d - 1) + n
    BY <1>2, <1>3
  <2> QED BY <1>1, <1>4, <2>1
<1>6. Abstract!Replaced(n) = Freed(n)
  <2>1. Abstract!Replaced(n) =
           {Abstract!Overlay(d - 1, Win[d].dest) : d \in {e \in 1 .. n : Win[e].dest # 0}}
    BY DEF Abstract!Replaced, Win
  <2>2. ASSUME NEW d \in 1 .. n
        PROVE  /\ Win[d].dest # 0 <=> Old(d - 1) # 0
               /\ Win[d].dest # 0 => Abstract!Overlay(d - 1, Win[d].dest) = Old(d - 1)
    <3>1. d \in 1 .. Occ /\ d - 1 \in 0 .. Occ /\ d - 1 \in Window
      BY <1>1, <1>2, <1>3
    <3>2. Win[d].dest = Dest(d - 1) /\ Dest(d - 1) \in ArchReg
      BY <1>0, <1>1, <3>1 DEF WellTyped
    <3>3. Dest(d - 1) = 0 <=> Old(d - 1) = 0
      BY <1>0, <3>1 DEF DestinationsRenamed, Dest, Old
    <3>4. ASSUME Dest(d - 1) # 0
          PROVE  Abstract!Overlay(d - 1, Dest(d - 1)) = Old(d - 1)
      <4>1. Dest(d - 1) \in ArchReg \ {0} /\ Writes(d - 1, Dest(d - 1))
        BY <1>0, <3>2, <3>4 DEF OverlayFacts
      <4>2. Old(d - 1) = SeenBy(d - 1, Dest(d - 1))
        BY <1>0, <3>1, <4>1 DEF OverlayFacts
      <4> QED BY <1>1, <3>1, <3>2, <4>2
    <3> QED BY <3>2, <3>3, <3>4
  <2>3. ASSUME NEW p, p \in Abstract!Replaced(n) PROVE p \in Freed(n)
    <3>1. PICK d \in 1 .. n : Win[d].dest # 0 /\ p = Abstract!Overlay(d - 1, Win[d].dest)
      BY <2>1, <2>3
    <3>2. d - 1 \in 0 .. n - 1 /\ p = Old(d - 1) /\ p # 0
      BY <2>2, <3>1
    <3> QED BY <3>2 DEF Freed
  <2>4. ASSUME NEW p, p \in Freed(n) PROVE p \in Abstract!Replaced(n)
    <3>1. PICK e \in 0 .. n - 1 : p = Old(e) /\ p # 0
      BY <2>4 DEF Freed
    <3>2. PICK d \in 1 .. n : d = e + 1 /\ d - 1 = e
      OBVIOUS
    <3>3. Win[d].dest # 0 /\ p = Abstract!Overlay(d - 1, Win[d].dest)
      BY <2>2, <3>1, <3>2
    <3> QED BY <2>1, <3>3
  <2> QED BY <2>3, <2>4
<1>7. Abstract!Squashed(r) = Undone(occ, r)
  <2>1. Abstract!Squashed(r) = {Win[d].T : d \in (Len(Win) - r) + 1 .. Len(Win)} \ {0}
    BY DEF Abstract!Squashed, Win
  <2>2. Abstract!Squashed(r) = {Win[d].T : d \in (occ - r) + 1 .. occ} \ {0}
    BY <1>1, <1>2, <2>1
  <2>3. ASSUME NEW p, p \in Abstract!Squashed(r) PROVE p \in Undone(occ, r)
    <3>1. PICK d \in (occ - r) + 1 .. occ : p = Win[d].T /\ p # 0
      BY <2>2, <2>3
    <3>2. d \in 1 .. Occ /\ d - 1 \in occ - r .. occ - 1
      BY <1>2, <1>3
    <3>3. p = Tag(d - 1)
      BY <1>1, <3>1, <3>2
    <3> QED BY <3>1, <3>2, <3>3 DEF Undone
  <2>4. ASSUME NEW p, p \in Undone(occ, r) PROVE p \in Abstract!Squashed(r)
    <3>1. PICK e \in occ - r .. occ - 1 : p = Tag(e) /\ p # 0
      BY <2>4 DEF Undone
    <3>2. PICK d \in (occ - r) + 1 .. occ : d \in 1 .. Occ /\ d - 1 = e
      <4>1. e + 1 \in (occ - r) + 1 .. occ /\ e + 1 \in 1 .. Occ /\ (e + 1) - 1 = e
        BY <1>2, <1>3
      <4> QED BY <4>1
    <3>3. p = Win[d].T
      BY <1>1, <3>1, <3>2
    <3> QED BY <2>2, <3>1, <3>3
  <2> QED BY <2>3, <2>4
<1> QED BY <1>2, <1>4, <1>5, <1>6, <1>7 DEF MiddleFacts

\* The sequences and sets a step of the window speaks of.
StepNames(n, r, seq, new, avail, taken) ==
    /\ seq = SubSeq(Win, n + 1, Len(Win) - r)
    /\ new = SubSeq(Win', Len(seq) + 1, Len(Win'))
    /\ avail = FL!FreeRegs \cup Abstract!Replaced(n) \cup Abstract!Squashed(r)
    /\ taken = {new[d].T : d \in DOMAIN new} \ {0}

\* What a step of the window asks of them.
StepFacts(n, r, seq, new, avail, taken) ==
    /\ n + r <= Len(Win)
    /\ Len(seq) <= Len(Win') /\ Len(Win') <= ROB_SIZE
    /\ Len(new) <= WAY
    /\ \A d \in 1 .. n : ~Win[d].fault
    /\ r > 0 => seq # <<>> /\ seq[1].fault /\ new = <<>>
    /\ new # <<>> => \A d \in DOMAIN Win : ~Win[d].fault
    /\ \A d \in DOMAIN seq :
          /\ Win'[d].dest = seq[d].dest
          /\ Win'[d].T = seq[d].T
          /\ seq[d].fault => Win'[d].fault \/ Len(Win') = 1
    /\ \A d \in DOMAIN new : (new[d].T = 0) <=> (new[d].dest = 0)
    /\ taken \subseteq avail
    /\ Cardinality(taken) = Cardinality({d \in DOMAIN new : new[d].dest # 0})
    /\ FL!FreeRegs' = avail \ taken
    /\ Com' = [a \in ArchReg |-> Abstract!Overlay(n, a)]

\* A step of the window, spelled out.
LEMMA StepParts ==
    ASSUME NEW n, NEW r, NEW seq, NEW new, NEW avail, NEW taken,
           StepNames(n, r, seq, new, avail, taken), StepFacts(n, r, seq, new, avail, taken)
    PROVE  Abstract!Step(n, r)
<1>1. Abstract!Step(n, r) <=>
         LET kept == SubSeq(Win, n + 1, Len(Win) - r)
             enter == SubSeq(Win', Len(kept) + 1, Len(Win'))
             regs == FL!FreeRegs \cup Abstract!Replaced(n) \cup Abstract!Squashed(r)
             given == {enter[d].T : d \in DOMAIN enter} \ {0}
         IN  StepFacts(n, r, kept, enter, regs, given)
  BY DEF StepFacts, Abstract!Step, Win, Com, Abstract!Cardinality, Cardinality
<1> QED BY <1>1 DEF StepNames

\* The state around a step, as both kinds of cycle need it.
AroundStep ==
    /\ FL!FreeRegs = FreeRegs
    /\ RenameInv => Occ \in 0 .. ROB_SIZE
    /\ \A d : ROB!At(d) = rob_mem[Slot(d)]

\* It holds of every state.
LEMMA AroundStepHolds == AroundStep
<1>1. FL!FreeRegs = FreeRegs
  BY DEF FreeRegs, FL!FreeRegs, FLP!FreeRegs, FL!free_reg_number, FLP!free_reg_number,
         FL!RingCount, FLP!RingCount, FL!Wrap, FLP!Wrap
<1>2. ASSUME RenameInv PROVE Occ \in 0 .. ROB_SIZE
  <2>1. RP!RobAssumption /\ RP!TypeOK
    BY <1>2, RobHypothesis DEF RenameInv, RP!RobInv
  <2> QED BY <2>1, SameRing DEF RP!TypeOK, RP!Occupied, RP!Index, RP!RobAssumption
<1> QED BY <1>1, <1>2, SameRing DEF AroundStep

\* The same after a step.
LEMMA AroundStepNext == AroundStep'
BY AroundStepHolds, PTL

\* The part of the next window that comes behind the first kept instructions.
Newcomers(kept, L, new) ==
    Occ' = kept + L /\ new = SubSeq(Win', kept + 1, Len(Win'))

\* That window and that part, in the terms of the ROB.
NewcomerFacts(kept, L, new) ==
    /\ Len(Win') = kept + L
    /\ \A d \in 1 .. kept : /\ Win'[d].dest = Dest(d - 1)'
                            /\ Win'[d].T = Tag(d - 1)'
                            /\ Win'[d].fault = Fault(d - 1)'
    /\ Len(new) = L /\ DOMAIN new = 1 .. L
    /\ L = 0 => new = <<>>
    /\ \A d \in 1 .. L : /\ new[d].dest = Dest(kept + (d - 1))'
                         /\ new[d].T = Tag(kept + (d - 1))'

\* What enters the window.
LEMMA NewParts ==
    ASSUME NEW kept \in Nat, NEW L \in Nat, NEW new, Newcomers(kept, L, new)
    PROVE  NewcomerFacts(kept, L, new)
<1> USE DEF Newcomers
<1>1. /\ Len(Win') = kept + L
      /\ \A d \in 1 .. kept + L : /\ Win'[d].dest = Dest(d - 1)'
                                  /\ Win'[d].T = Tag(d - 1)'
                                  /\ Win'[d].fault = Fault(d - 1)'
  BY WindowFactsNext DEF WindowFacts
<1>2. /\ Len(new) = L /\ DOMAIN new = 1 .. L
      /\ L = 0 => new = <<>>
      /\ \A d \in 1 .. L : new[d] = Win'[kept + d]
  <2> DEFINE S == {Win'[d] : d \in kept + 1 .. kept + L}
  <2>1. \A d \in kept + 1 .. kept + L : Win'[d] \in S
    OBVIOUS
  <2> HIDE DEF S
  <2>2. new = SubSeq(Win', kept + 1, kept + L)
    BY <1>1
  <2>3. /\ new \in Seq(S)
        /\ Len(new) = IF kept + 1 <= kept + L THEN ((kept + L) - (kept + 1)) + 1 ELSE 0
        /\ \A d \in 1 .. ((kept + L) - (kept + 1)) + 1 : new[d] = Win'[((kept + 1) + d) - 1]
    BY <2>1, <2>2, SubSeqProperties
  <2>4. Len(new) = L /\ ((kept + L) - (kept + 1)) + 1 = L
    BY <2>3
  <2>5. \A d \in 1 .. L : ((kept + 1) + d) - 1 = kept + d
    OBVIOUS
  <2> QED BY <2>3, <2>4, <2>5
<1>3. ASSUME NEW d \in 1 .. L
      PROVE  new[d].dest = Dest(kept + (d - 1))' /\ new[d].T = Tag(kept + (d - 1))'
  <2>1. kept + d \in 1 .. kept + L /\ (kept + d) - 1 = kept + (d - 1)
    OBVIOUS
  <2> QED BY <1>1, <1>2, <2>1
<1>4. \A d \in 1 .. kept : d \in 1 .. kept + L
  OBVIOUS
<1> QED BY <1>1, <1>2, <1>3, <1>4 DEF NewcomerFacts

\* A cycle without a rewind is a step of the window that squashes nothing.
LEMMA RunRefines ==
    ASSUME RenameInv, NEW store_accepted \in BOOLEAN,
           NEW n \in ROB!RetireNum(store_accepted), NEW complete \in SUBSET Index,
           NEW resolve \in ROB!Resolution, NEW insts \in Group,
           RunCycle(n, store_accepted, complete, resolve, insts)
    PROVE  n \in 0 .. WAY /\ Abstract!Step(n, 0)
<1>0. /\ WellTyped /\ SeenDistinct /\ OverlayFacts /\ OverlayFacts' /\ SlotFacts
      /\ AroundStep /\ AroundStep' /\ WindowFacts
  BY OverlayFactsHold, OverlayFactsNext, SeenDistinctHolds, InvTypes, SlotFactsHold,
     AroundStepHolds, AroundStepNext, WindowFactsHold DEF RenameInv
<1>1. PICK kept : kept = Occ - n
  OBVIOUS
<1>2. PICK dests : dests = [k \in 1 .. Len(insts) |-> insts[k].arch_dest_reg]
  OBVIOUS
<1>3. PICK tags : tags = FreeTags(ROB!RetireTold(n), dests)
  OBVIOUS
<1>4. PICK group : group = ToRob(insts, dests, tags)
  OBVIOUS
<1>5. PICK L : L = Len(insts)
  OBVIOUS
<1>6. /\ RenameInv' /\ n \in Nat /\ kept \in Nat /\ L \in Nat /\ Occ' = kept + L
      /\ \A a \in ArchReg : Committed(a)' = SeenBy(n, a)
      /\ \A d \in 0 .. kept - 1 :
            /\ Slot(d)' = Slot(d + n) /\ Slot(d + n) \in Index
            /\ rob_mem'[Slot(d + n)] =
                  RP!AfterResolve(Slot(d + n), n, complete, resolve)
            /\ ~RP!Retired(Slot(d + n), n)
            /\ Dest(d)' = Dest(d + n) /\ Tag(d)' = Tag(d + n)
      /\ \A k \in 1 .. L :
            /\ tags[k] # 0 => tags[k] \in FreeRegs
            /\ Dest(kept + (k - 1))' = dests[k] /\ Tag(kept + (k - 1))' = tags[k]
      /\ FreeRegs' = (FreeRegs \cup Freed(n)) \ {tags[k] : k \in 1 .. L}
  <2>1. Offer(n, insts, kept, dests, tags, group)
    BY <1>1, <1>2, <1>3, <1>4, <1>5 DEF Offer
  <2>2. RenameInv' /\ RunEffect(n, complete, resolve, insts, kept, dests, tags, group)
    BY <2>1, <1>5, RunStep
  <2>3. /\ n \in Nat /\ kept \in Nat /\ L \in Nat /\ Occ' = kept + L
        /\ \A a \in ArchReg : Committed(a)' = SeenBy(n, a)
        /\ FreeRegs' = (FreeRegs \cup Freed(n)) \ {tags[k] : k \in 1 .. L}
    BY <1>5, <2>2 DEF RunEffect
  <2>4. ASSUME NEW d \in 0 .. kept - 1
        PROVE  /\ Slot(d)' = Slot(d + n) /\ Slot(d + n) \in Index
               /\ rob_mem'[Slot(d + n)] =
                     RP!AfterResolve(Slot(d + n), n, complete, resolve)
               /\ ~RP!Retired(Slot(d + n), n)
               /\ Dest(d)' = Dest(d + n) /\ Tag(d)' = Tag(d + n)
    BY <2>2 DEF RunEffect
  <2>5. ASSUME NEW k \in 1 .. L
        PROVE  /\ tags[k] # 0 => tags[k] \in FreeRegs
               /\ Dest(kept + (k - 1))' = dests[k] /\ Tag(kept + (k - 1))' = tags[k]
    BY <1>5, <2>2 DEF RunEffect
  <2> QED BY <2>2, <2>3, <2>4, <2>5
<1>7. Len(group) = L /\ ROB!Run(n, store_accepted, complete, resolve, group)
  <2>1. Len(group) = L
    <3>1. Offer(n, insts, kept, dests, tags, group)
      BY <1>1, <1>2, <1>3, <1>4 DEF Offer
    <3>2. EntriesEffect(n, store_accepted, complete, resolve, insts, dests, tags, group)
      BY <3>1, RunEntries
    <3> QED BY <1>5, <3>2 DEF EntriesEffect
  <2> QED BY <1>2, <1>3, <1>4, <2>1 DEF RunCycle
<1>8. /\ n \in 0 .. WAY /\ L <= WAY /\ Occ \in Nat /\ n <= Occ /\ kept = (Occ - n) - 0
      /\ n + 0 <= Occ /\ 0 \in Nat
      /\ \A d \in 0 .. n - 1 : ~Fault(d)
  <2>1. RP!RobAssumption /\ RP!TypeOK /\ n \in RP!RetireNum(store_accepted)
    BY RobHypothesis, SameCycle DEF RenameInv, RP!RobInv
  <2>2. n <= RP!Occupied /\ \A d \in 0 .. n - 1 : ~RP!At(d).exception
    BY <2>1, RP!RetireBound DEF RP!RobAssumption
  <2>3. n \in 0 .. WAY
    BY DEF ROB!RetireNum
  <2>4. L <= WAY
    <3>1. PICK len \in 0 .. WAY : insts \in [1 .. len -> Decoded]
      BY DEF Group
    <3>2. L = len
      BY <1>5, <3>1
    <3> QED BY <3>2, RenameAssumption
  <2>5. Occ \in Nat
    BY <1>0 DEF WellTyped
  <2> QED BY <1>1, <1>6, <2>2, <2>3, <2>4, <2>5, SameRing DEF Fault
<1>9. PICK seq : seq = SubSeq(Win, n + 1, Len(Win) - 0)
  OBVIOUS
<1>10. /\ Len(seq) = kept /\ DOMAIN seq = 1 .. kept
       /\ \A d \in 1 .. kept : /\ seq[d].dest = Dest((d - 1) + n)
                               /\ seq[d].T = Tag((d - 1) + n)
                               /\ seq[d].fault = Fault((d - 1) + n)
       /\ Abstract!Replaced(n) = Freed(n)
       /\ Abstract!Squashed(0) = {}
  <2>1. PICK occ \in Nat : occ = Occ
    BY <1>8
  <2>2. Undone(occ, 0) = {}
    BY DEF Undone
  <2>3. Middle(n, 0, kept, seq)
    BY <1>8, <1>9 DEF Middle
  <2>4. MiddleFacts(n, 0, kept, seq)
    BY <1>6, <1>8, <2>3, WindowParts
  <2> QED BY <2>1, <2>2, <2>4 DEF MiddleFacts
<1>11. PICK new : new = SubSeq(Win', Len(seq) + 1, Len(Win'))
  OBVIOUS
<1>12. /\ Len(Win') = kept + L
       /\ \A d \in 1 .. kept : /\ Win'[d].dest = Dest(d - 1)'
                               /\ Win'[d].T = Tag(d - 1)'
                               /\ Win'[d].fault = Fault(d - 1)'
       /\ Len(new) = L /\ DOMAIN new = 1 .. L
       /\ L = 0 => new = <<>>
       /\ \A d \in 1 .. L : /\ new[d].dest = dests[d]
                            /\ new[d].T = tags[d]
  <2>1. Newcomers(kept, L, new)
    BY <1>6, <1>10, <1>11 DEF Newcomers
  <2>2. NewcomerFacts(kept, L, new)
    BY <1>6, <2>1, NewParts
  <2>3. ASSUME NEW d \in 1 .. L PROVE new[d].dest = dests[d] /\ new[d].T = tags[d]
    BY <1>6, <2>2 DEF NewcomerFacts
  <2> QED BY <2>2, <2>3 DEF NewcomerFacts
<1>13. PICK taken : taken = {new[d].T : d \in DOMAIN new} \ {0}
  OBVIOUS
<1>14. taken = {tags[k] : k \in 1 .. L} \ {0}
  BY <1>12, <1>13
<1>15. /\ Len(Win) = Occ /\ DOMAIN Win = 1 .. Occ
       /\ \A d \in 1 .. Occ : Win[d].fault = Fault(d - 1)
       /\ \A a \in ArchReg : Abstract!Overlay(n, a) = SeenBy(n, a)
  <2>1. n \in 0 .. Occ
    BY <1>8
  <2> QED BY <1>0, <1>8, <2>1 DEF WindowFacts
<1>16. \A d \in 1 .. n : ~Win[d].fault
  <2> TAKE d \in 1 .. n
  <2>1. d \in 1 .. Occ /\ d - 1 \in 0 .. n - 1
    BY <1>8
  <2> QED BY <1>8, <1>15, <2>1
<1>17. new # <<>> => \A d \in DOMAIN Win : ~Win[d].fault
  <2> SUFFICES ASSUME L # 0, NEW d \in 1 .. Occ PROVE ~Fault(d - 1)
    BY <1>12, <1>15
  <2>1. ROB!NumCanDispatch(n, store_accepted, resolve) # 0
    BY <1>6, <1>7 DEF ROB!Run
  <2>2. ~has_rewind
    BY <2>1 DEF ROB!NumCanDispatch
  <2>3. d - 1 \in Window
    BY <1>0, <1>8 DEF OverlayFacts
  <2>4. Slot(d - 1) \in RP!Index /\ rob_mem[Slot(d - 1)].valid
    BY <1>0, <2>3, SameRing DEF SlotFacts, Index
  <2>5. ~rob_mem[Slot(d - 1)].exception
    BY <2>2, <2>4 DEF RenameInv, RP!RobInv, RP!ValidIffLive, RP!OldestException
  <2> QED BY <1>0, <2>5 DEF AroundStep, Fault
<1>18. ASSUME NEW d \in 1 .. kept
       PROVE  /\ Win'[d].dest = seq[d].dest /\ Win'[d].T = seq[d].T
              /\ seq[d].fault => Win'[d].fault
  <2>1. d - 1 \in 0 .. kept - 1
    BY <1>6
  <2>2. PICK i : i = Slot((d - 1) + n)
    OBVIOUS
  <2>3. /\ Fault(d - 1)' = rob_mem'[i].exception
        /\ Fault((d - 1) + n) = rob_mem[i].exception
    BY <1>0, <1>6, <2>1, <2>2 DEF AroundStep, Fault
  <2>4. RP!RobAssumption /\ RP!TypeOK /\ i \in RP!Index
        /\ complete \in SUBSET RP!Index /\ resolve \in RP!Resolution
    BY <1>6, <2>1, <2>2, RobHypothesis, SameRing, SameCycle DEF RenameInv, RP!RobInv, Index
  <2>5. rob_mem[i].exception => rob_mem'[i].exception
    <3>1. RP!AfterResolve(i, n, complete, resolve).exception
             <=> \/ rob_mem[i].exception /\ ~RP!Retired(i, n)
                 \/ RP!Mispredict(n, resolve) /\ i = resolve.rob_index
      BY <1>6, <2>4, RP!RunEntry DEF RP!RobAssumption
    <3>2. rob_mem'[i] = RP!AfterResolve(i, n, complete, resolve) /\ ~RP!Retired(i, n)
      BY <1>6, <2>1, <2>2
    <3> QED BY <3>1, <3>2
  <2>6. /\ Win'[d].dest = Dest(d - 1)' /\ Win'[d].T = Tag(d - 1)'
        /\ Win'[d].fault = Fault(d - 1)'
    BY <1>12
  <2>7. /\ seq[d].dest = Dest((d - 1) + n) /\ seq[d].T = Tag((d - 1) + n)
        /\ seq[d].fault = Fault((d - 1) + n)
    BY <1>10
  <2>8. Dest(d - 1)' = Dest((d - 1) + n) /\ Tag(d - 1)' = Tag((d - 1) + n)
    BY <1>6, <2>1
  <2> QED BY <2>3, <2>5, <2>6, <2>7, <2>8
<1>19. \A d \in 1 .. L : /\ tags[d] = 0 <=> dests[d] = 0
                         /\ \A e \in 1 .. L : tags[d] # 0 /\ tags[d] = tags[e] => d = e
  <2>1. Window' = 0 .. (kept + L) - 1
    BY <1>0, <1>6 DEF OverlayFacts
  <2>2. \A d \in 1 .. L : kept + (d - 1) \in Window'
    BY <1>6, <2>1
  <2>3. \A d \in Window' : Dest(d)' = 0 <=> Tag(d)' = 0
    BY <1>6 DEF RenameInv, DestinationsRenamed, Dest, Tag
  <2>4. \A d, e \in Window' : Tag(d)' # 0 /\ Tag(d)' = Tag(e)' => d = e
    BY <1>6 DEF RenameInv, Ownership
  <2>5. ASSUME NEW d \in 1 .. L, NEW e \in 1 .. L, tags[d] # 0, tags[d] = tags[e] PROVE d = e
    <3>1. kept + (d - 1) = kept + (e - 1)
      BY <1>6, <2>2, <2>4, <2>5
    <3> QED BY <1>6, <3>1
  <2> QED BY <1>6, <2>2, <2>3, <2>5
<1>20. Cardinality(taken) = Cardinality({d \in DOMAIN new : new[d].dest # 0})
  <2> DEFINE asking == {d \in 1 .. L : dests[d] # 0}
  <2>1. asking = {d \in DOMAIN new : new[d].dest # 0}
    BY <1>12
  <2>2. IsFiniteSet(asking)
    <3>1. IsFiniteSet(1 .. L)
      BY <1>6, FS_Interval
    <3> QED BY <3>1, FS_Subset
  <2>3. taken = {tags[d] : d \in asking}
    BY <1>14, <1>19
  <2>4. \A d, e \in asking : tags[d] = tags[e] => d = e
    BY <1>19
  <2> HIDE DEF asking
  <2>5. Cardinality({tags[d] : d \in asking}) = Cardinality(asking)
    BY <2>2, <2>4, FLP!ImageCount, SameCounting
  <2> QED BY <2>1, <2>3, <2>5
<1>21. PICK avail : avail = FL!FreeRegs \cup Abstract!Replaced(n) \cup Abstract!Squashed(0)
  OBVIOUS
<1>22. taken \subseteq avail /\ FL!FreeRegs' = avail \ taken
  <2>1. avail = FreeRegs \cup Freed(n) /\ FL!FreeRegs' = FreeRegs'
    BY <1>0, <1>10, <1>21 DEF AroundStep
  <2>2. 0 \notin avail
    BY <1>0, <2>1 DEF SeenDistinct, Freed
  <2>3. taken \subseteq avail
    BY <1>6, <1>14, <2>1
  <2> QED BY <1>6, <1>14, <2>1, <2>2, <2>3
<1>23. Com' = [a \in ArchReg |-> Abstract!Overlay(n, a)]
  BY <1>6, <1>15 DEF Com
<1>24. Len(Win') <= ROB_SIZE
  BY <1>0, <1>6, <1>12 DEF AroundStep
<1>25. Abstract!Step(n, 0)
  <2>1. StepNames(n, 0, seq, new, avail, taken)
    BY <1>9, <1>11, <1>13, <1>21 DEF StepNames
  <2>2. /\ n + 0 <= Len(Win) /\ Len(seq) <= Len(Win') /\ Len(new) <= WAY
    BY <1>6, <1>8, <1>10, <1>12, <1>15
  <2>3. \A d \in DOMAIN new : (new[d].T = 0) <=> (new[d].dest = 0)
    BY <1>12, <1>19
  <2>4. \A d \in DOMAIN seq :
           /\ Win'[d].dest = seq[d].dest /\ Win'[d].T = seq[d].T
           /\ seq[d].fault => Win'[d].fault
    BY <1>10, <1>18
  <2>5. ~(0 > 0)
    OBVIOUS
  <2>6. StepFacts(n, 0, seq, new, avail, taken)
    BY <1>16, <1>17, <1>20, <1>22, <1>23, <1>24, <2>2, <2>3, <2>4, <2>5 DEF StepFacts
  <2> QED BY <2>1, <2>6, StepParts
<1> QED BY <1>8, <1>25

\* A cycle with a rewind is a step of the window that lets nothing in.
LEMMA RewindRefines ==
    ASSUME RenameInv, NEW store_accepted \in BOOLEAN,
           NEW n \in ROB!RetireNum(store_accepted), NEW complete, NEW resolve,
           RewindCycle(n, store_accepted, complete, resolve)
    PROVE  \E r \in 0 .. WAY : n \in 0 .. WAY /\ Abstract!Step(n, r)
<1>0. /\ WellTyped /\ OverlayFacts /\ AroundStep /\ AroundStep' /\ WindowFacts
  BY OverlayFactsHold, InvTypes, AroundStepHolds, AroundStepNext, WindowFactsHold DEF RenameInv
<1>1. PICK r : r = ROB!RewindNum(n, store_accepted)
  OBVIOUS
<1>2. PICK occ : occ = Occ
  OBVIOUS
<1>3. PICK kept : kept = Occ'
  OBVIOUS
<1>4. /\ n \in Nat /\ r \in Nat /\ occ \in Nat /\ n + r < occ
      /\ kept \in Nat /\ kept > 0 /\ kept = (occ - n) - r
      /\ ROB!RewindDone(n) => kept = 1
      /\ \A d \in 0 .. kept - 1 :
            rob_mem'[Slot(d)'] = IF ROB!RewindDone(n) /\ d = 0
                                 THEN [rob_mem[Slot(d + n)] EXCEPT !.exception = FALSE]
                                 ELSE rob_mem[Slot(d + n)]
  <2>1. /\ RP!RobInv /\ ROB!Rewind(n, store_accepted)
        /\ Rewinding(n, store_accepted, r, occ)
    BY <1>1, <1>2 DEF RenameInv, RewindCycle, Rewinding
  <2>2. RewindEffect(n, r, occ)
    BY <2>1, RewindShape
  <2>3. /\ n \in Nat /\ r \in Nat /\ occ \in Nat /\ n + r < occ /\ kept = (occ - n) - r
        /\ ROB!RewindDone(n) => r = (occ - n) - 1
    BY <1>3, <2>2, RenameAssumption DEF RewindEffect
  <2>4. kept \in Nat /\ kept > 0 /\ (ROB!RewindDone(n) => kept = 1)
    BY <2>3
  <2>5. ASSUME NEW d \in 0 .. kept - 1
        PROVE  rob_mem'[Slot(d)'] = IF ROB!RewindDone(n) /\ d = 0
                                    THEN [rob_mem[Slot(d + n)] EXCEPT !.exception = FALSE]
                                    ELSE rob_mem[Slot(d + n)]
    BY <2>2, <2>3 DEF RewindEffect
  <2> QED BY <2>3, <2>4, <2>5
<1>5. /\ \A a \in ArchReg : Committed(a)' = SeenBy(n, a)
      /\ \A d \in 0 .. kept - 1 : Dest(d)' = Dest(d + n) /\ Tag(d)' = Tag(d + n)
      /\ FreeRegs' = (FreeRegs \cup Freed(n)) \cup Undone(occ, r)
  BY <1>1, <1>2, <1>3, RewindStep
<1>6. n \in 0 .. WAY /\ r \in 0 .. WAY
  <2>1. n \in 0 .. WAY
    BY DEF ROB!RetireNum
  <2>2. WAY \in Nat /\ ROB!Left(n) - 1 \in Nat
    BY <1>2, <1>4, RenameAssumption DEF ROB!Left, Occ
  <2> QED BY <1>1, <1>4, <2>1, <2>2 DEF ROB!RewindNum, ROB!Least
<1>7. \A d \in 0 .. n - 1 : ~Fault(d)
  <2>1. RP!RobAssumption /\ RP!TypeOK /\ n \in RP!RetireNum(store_accepted)
    BY RobHypothesis, SameCycle DEF RenameInv, RP!RobInv
  <2>2. \A d \in 0 .. n - 1 : ~RP!At(d).exception
    BY <2>1, RP!RetireBound DEF RP!RobAssumption
  <2> QED BY <2>2, SameRing DEF Fault
<1>8. PICK seq : seq = SubSeq(Win, n + 1, Len(Win) - r)
  OBVIOUS
<1>9. /\ Len(seq) = kept /\ DOMAIN seq = 1 .. kept
      /\ \A d \in 1 .. kept : /\ seq[d].dest = Dest((d - 1) + n)
                              /\ seq[d].T = Tag((d - 1) + n)
                              /\ seq[d].fault = Fault((d - 1) + n)
      /\ Abstract!Replaced(n) = Freed(n)
      /\ Abstract!Squashed(r) = Undone(occ, r)
  <2>1. Middle(n, r, kept, seq)
    BY <1>2, <1>4, <1>8 DEF Middle
  <2>2. MiddleFacts(n, r, kept, seq)
    BY <1>4, <2>1, WindowParts
  <2> QED BY <1>2, <2>2 DEF MiddleFacts
<1>10. PICK new : new = SubSeq(Win', Len(seq) + 1, Len(Win'))
  OBVIOUS
<1>11. /\ Len(Win') = kept
       /\ \A d \in 1 .. kept : /\ Win'[d].dest = Dest(d - 1)'
                               /\ Win'[d].T = Tag(d - 1)'
                               /\ Win'[d].fault = Fault(d - 1)'
       /\ Len(new) = 0 /\ DOMAIN new = {} /\ new = <<>>
  <2>1. kept + 0 = kept /\ 0 \in Nat /\ 1 .. 0 = {}
    BY <1>4
  <2>2. Newcomers(kept, 0, new)
    BY <1>3, <1>9, <1>10, <2>1 DEF Newcomers
  <2>3. NewcomerFacts(kept, 0, new)
    BY <1>4, <2>1, <2>2, NewParts
  <2> QED BY <2>1, <2>3 DEF NewcomerFacts
<1>12. PICK taken : taken = {new[d].T : d \in DOMAIN new} \ {0}
  OBVIOUS
<1>13. taken = {} /\ {d \in DOMAIN new : new[d].dest # 0} = {}
  BY <1>11, <1>12
<1>14. PICK avail : avail = FL!FreeRegs \cup Abstract!Replaced(n) \cup Abstract!Squashed(r)
  OBVIOUS
<1>15. FL!FreeRegs' = avail
  BY <1>0, <1>5, <1>9, <1>14 DEF AroundStep
<1>16. /\ Len(Win) = occ
       /\ \A d \in 1 .. occ : Win[d].fault = Fault(d - 1)
       /\ \A a \in ArchReg : Abstract!Overlay(n, a) = SeenBy(n, a)
  <2>1. n \in 0 .. Occ /\ Occ \in Nat
    BY <1>2, <1>4
  <2> QED BY <1>0, <1>2, <2>1 DEF WindowFacts
<1>17. \A d \in 1 .. n : ~Win[d].fault
  <2> TAKE d \in 1 .. n
  <2>1. d \in 1 .. occ /\ d - 1 \in 0 .. n - 1
    BY <1>4
  <2> QED BY <1>7, <1>16, <2>1
<1>18. seq # <<>> /\ seq[1].fault
  <2>1. has_rewind /\ oldest_exc_rob_index = Slot(n)
    BY RewindEntries
  <2>2. rob_mem[oldest_exc_rob_index].exception
    BY <2>1 DEF RenameInv, RP!RobInv, RP!OldestException
  <2>3. 1 \in 1 .. kept /\ (1 - 1) + n = n
    BY <1>4
  <2>4. Fault(n)
    BY <1>0, <2>1, <2>2 DEF AroundStep, Fault
  <2>5. Len(seq) # 0
    BY <1>4, <1>9
  <2> QED BY <1>9, <2>3, <2>4, <2>5
<1>19. ASSUME NEW d \in 1 .. kept
       PROVE  /\ Win'[d].dest = seq[d].dest /\ Win'[d].T = seq[d].T
              /\ seq[d].fault => Win'[d].fault \/ kept = 1
  <2>1. d - 1 \in 0 .. kept - 1
    BY <1>4
  <2>2. /\ Fault(d - 1)' = rob_mem'[Slot(d - 1)'].exception
        /\ Fault((d - 1) + n) = rob_mem[Slot((d - 1) + n)].exception
    BY <1>0 DEF AroundStep, Fault
  <2>3. ~ROB!RewindDone(n) => rob_mem'[Slot(d - 1)'] = rob_mem[Slot((d - 1) + n)]
    BY <1>4, <2>1
  <2>4. Fault((d - 1) + n) => Fault(d - 1)' \/ kept = 1
    BY <1>4, <2>2, <2>3
  <2>5. /\ Win'[d].dest = Dest(d - 1)' /\ Win'[d].T = Tag(d - 1)'
        /\ Win'[d].fault = Fault(d - 1)'
    BY <1>11
  <2> QED BY <1>5, <1>9, <2>1, <2>4, <2>5
<1>20. Com' = [a \in ArchReg |-> Abstract!Overlay(n, a)]
  BY <1>5, <1>16 DEF Com
<1>21. Len(Win') <= ROB_SIZE
  <2>1. RenameInv'
    BY <1>3, RewindStep
  <2>2. Occ' \in 0 .. ROB_SIZE
    BY <1>0, <2>1 DEF AroundStep
  <2> QED BY <1>3, <1>11, <2>2
<1>22. Abstract!Step(n, r)
  <2>1. StepNames(n, r, seq, new, avail, taken)
    BY <1>8, <1>10, <1>12, <1>14 DEF StepNames
  <2>2. /\ n + r <= Len(Win) /\ Len(seq) <= Len(Win') /\ Len(new) <= WAY
    BY <1>4, <1>6, <1>9, <1>11, <1>16, RenameAssumption
  <2>3. \A d \in DOMAIN new : (new[d].T = 0) <=> (new[d].dest = 0)
    BY <1>11
  <2>4. \A d \in DOMAIN seq :
           /\ Win'[d].dest = seq[d].dest /\ Win'[d].T = seq[d].T
           /\ seq[d].fault => Win'[d].fault \/ Len(Win') = 1
    BY <1>9, <1>11, <1>19
  <2>5. taken \subseteq avail /\ FL!FreeRegs' = avail \ taken
        /\ Cardinality(taken) = Cardinality({d \in DOMAIN new : new[d].dest # 0})
    BY <1>13, <1>15
  <2>6. StepFacts(n, r, seq, new, avail, taken)
    BY <1>11, <1>17, <1>18, <1>20, <1>21, <2>2, <2>3, <2>4, <2>5 DEF StepFacts
  <2> QED BY <2>1, <2>6, StepParts
<1> QED BY <1>6, <1>22

\* The core starts with an empty window and the registers of the free list.
LEMMA InitRefines == Init => Abstract!Init
<1> SUFFICES ASSUME Init PROVE Abstract!Init
  OBVIOUS
<1>1. ROB!Init /\ FL!Init /\ MT!Init
  BY DEF Init
<1>2. ROB!Occupied = 0 /\ Window = {}
  BY <1>1 DEF ROB!Init, ROB!Occupied, Window
<1>3. Win = <<>>
  BY <1>2 DEF Win
<1>4. Com = [a \in ArchReg |-> a]
  <2>1. \A a \in ArchReg : Committed(a) = map[a] /\ map[a] = a
    BY <1>1, <1>2, SameTables DEF Committed, MT!Init
  <2> QED BY <2>1 DEF Com
<1>5. FL!FreeRegs = PhyReg \ ArchReg
  <2>1. FLP!Init
    BY <1>1 DEF FL!Init, FLP!Init, FL!FreeIndex, FLP!FreeIndex
  <2>2. FreeRegs = ARCH_REG_SIZE .. ARCH_REG_SIZE + FREELIST_SIZE - 1
    BY <2>1, ListHypothesis, FLP!InitList DEF FreeRegs
  <2>3. PhyReg \ ArchReg = ARCH_REG_SIZE .. ARCH_REG_SIZE + FREELIST_SIZE - 1
    BY RenameAssumption DEF PhyReg, ArchReg, FREELIST_SIZE
  <2> QED BY <2>2, <2>3, AroundStepHolds DEF AroundStep
<1> QED BY <1>3, <1>4, <1>5 DEF Abstract!Init, Win, Com

\* Every step of the core is a step of the window or leaves the window alone.
LEMMA NextRefines == RenameInv /\ [Next]_vars => [Abstract!Next]_(Abstract!vars)
<1> SUFFICES ASSUME RenameInv, [Next]_vars PROVE [Abstract!Next]_(Abstract!vars)
  OBVIOUS
<1>1. CASE UNCHANGED vars
  <2>1. Com' = Com
    <3>1. \A a \in ArchReg : Committed(a)' = Committed(a)
      BY <1>1, StillRename
    <3> QED BY <3>1 DEF Com
  <2>2. Win' = Win
    <3>1. ROB!Occupied' = ROB!Occupied
      BY <1>1 DEF vars, robVars, ROB!Occupied
    <3>2. \A d : ROB!At(d)' = ROB!At(d)
      BY <1>1 DEF vars, robVars, ROB!At, ROB!Wrap
    <3> QED BY <3>1, <3>2 DEF Win
  <2>3. FL!FreeRegs' = FL!FreeRegs
    BY <1>1 DEF vars, freeListVars, FL!FreeRegs, FL!free_reg_number, FL!RingCount, FL!Wrap
  <2> QED BY <2>1, <2>2, <2>3 DEF Abstract!vars, Win, Com
<1>2. CASE Next /\ ~UNCHANGED vars
  <2>1. PICK store_accepted \in StoreAnswers, complete \in Completions, resolve \in Resolutions :
           Tick(store_accepted, complete, resolve)
    BY <1>2 DEF Next
  <2>2. store_accepted \in BOOLEAN /\ complete \in SUBSET Index /\ resolve \in ROB!Resolution
    BY Channels DEF StoreAnswers
  <2>3. PICK n \in ROB!RetireNum(store_accepted) :
          \/ RewindCycle(n, store_accepted, complete, resolve)
          \/ \E insts \in Group : RunCycle(n, store_accepted, complete, resolve, insts)
    BY <2>1 DEF Tick
  <2>4. CASE RewindCycle(n, store_accepted, complete, resolve)
    <3>1. \E r \in 0 .. WAY : n \in 0 .. WAY /\ Abstract!Step(n, r)
      BY <2>2, <2>4, RewindRefines
    <3> QED BY <3>1 DEF Abstract!Next
  <2>5. ASSUME NEW insts \in Group, RunCycle(n, store_accepted, complete, resolve, insts)
        PROVE  Abstract!Next
    <3>1. n \in 0 .. WAY /\ Abstract!Step(n, 0)
      BY <2>2, <2>5, RunRefines
    <3>2. 0 \in 0 .. WAY
      BY RenameAssumption
    <3> QED BY <3>1, <3>2 DEF Abstract!Next
  <2> QED BY <2>3, <2>4, <2>5
<1> QED BY <1>1, <1>2

\* Rename, commit and recovery (rob.sv:180-348, freelist.sv:63-110,
\* map_table.sv:50-86, dispatch_stage.sv:62-129) keep a window of instructions in
\* program order: they leave it at the old end and commit their mapping, a faulty
\* one is waited for and everything younger is squashed, new ones enter with
\* fresh registers, and neither the place in a ring nor the order of the free
\* list ever shows.
THEOREM CoreIsInOrderWindow == Spec => IsInOrderWindow
<1>1. RenameInv /\ [Next]_vars => [Abstract!Next]_(Abstract!vars)
  BY NextRefines
<1>2. Spec => []RenameInv
  <2>1. CoreInv => RenameInv
    BY DEF CoreInv
  <2> QED BY <2>1, CoreInvariant, PTL
<1> QED BY <1>1, <1>2, InitRefines, PTL DEF Spec, IsInOrderWindow, Abstract!Spec
=============================================================================
