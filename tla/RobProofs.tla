----------------------------- MODULE RobProofs -----------------------------
(***************************************************************************)
(* Proofs about the reorder buffer by itself, for every size and width, and *)
(* under any completions and resolutions.                                   *)
(***************************************************************************)
EXTENDS Rob, NaturalLemmas

(***************************************************************************)
(* The inductive invariant.                                                 *)
(***************************************************************************)
RobInv ==
    /\ TypeOK
    /\ ValidIffLive
    /\ OldestException
    /\ RewindsToOldest

\* The ring operators stay within the ring.
LEMMA RingTypes ==
    ASSUME head \in Index, tail \in Index, is_empty \in BOOLEAN,
           NEW i \in Index
    PROVE  /\ Dist(i) \in Nat /\ Dist(i) < ROB_SIZE
           /\ Place(i) \in 1 .. ROB_SIZE
           /\ Occupied \in 0 .. ROB_SIZE
           /\ is_empty <=> Occupied = 0
           /\ \A d \in 0 .. ROB_SIZE - 1 : Wrap(head + d) \in Index /\ Dist(Wrap(head + d)) = d
           /\ Wrap(head + Dist(i)) = i
BY RobAssumption DEF Index, Dist, Place, Occupied, Wrap

\* What the retire loop guarantees of the entries it retires.
LEMMA RetireBound ==
    ASSUME TypeOK, NEW store_accepted \in BOOLEAN,
           NEW n \in RetireNum(store_accepted)
    PROVE  /\ n \in Nat
           /\ n <= Occupied
           /\ in_rewind => n = 0
           /\ \A d \in 0 .. n - 1 : At(d).complete /\ ~At(d).exception
<1>1. n \in 0 .. WAY /\ Occupied \in Nat
  BY RobAssumption DEF RetireNum, TypeOK, Occupied, Index
<1>2. in_rewind => n = 0
  BY DEF RetireNum
<1>3. ~in_rewind => \A d \in 0 .. n - 1 : Retires(d, store_accepted)
  BY DEF RetireNum
<1>4. \A d \in 0 .. n - 1 : d < Occupied /\ At(d).complete /\ ~At(d).exception
  BY <1>1, <1>2, <1>3, RobAssumption DEF Retires, Examines
<1>5. n <= Occupied
  <2>1. CASE n = 0
    BY <2>1, <1>1
  <2>2. CASE n > 0
    <3>1. n - 1 \in 0 .. n - 1
      BY <2>2, <1>1, RobAssumption
    <3> QED BY <3>1, <1>1, <1>4, RobAssumption
  <2> QED BY <2>1, <2>2, <1>1, RobAssumption
<1> QED BY <1>1, <1>2, <1>4, <1>5, RobAssumption

\* A dispatch group fits behind the tail.
LEMMA GroupBound ==
    ASSUME NEW n, NEW store_accepted, NEW resolve, NEW group \in Group,
           n \in Nat, TypeOK, n <= Occupied,
           Len(group) <= NumCanDispatch(n, store_accepted, resolve)
    PROVE  /\ Len(group) \in Nat
           /\ Len(group) <= ROB_SIZE - Left(n)
           /\ \A k \in 1 .. Len(group) : group[k] \in Inst
           /\ InRewindNext(n, store_accepted) \/ has_rewind \/ Mispredict(n, resolve)
                 => Len(group) = 0
<1>1. PICK k \in 0 .. WAY : group \in [1 .. k -> Insts]
  BY DEF Group
<1>2. Len(group) = k /\ \A j \in 1 .. k : group[j] \in Inst
  BY <1>1, RobAssumption
<1>3. Occupied \in 0 .. ROB_SIZE
  BY RobAssumption DEF TypeOK, Occupied, Index
<1> QED BY <1>2, <1>3, RobAssumption DEF NumCanDispatch, Least, Left

\* Where the ring is after a cycle that retires n instructions and dispatches g.
LEMMA RunRing ==
    ASSUME TypeOK, ValidIffLive, NEW n \in Nat, NEW g \in Nat,
           n <= Occupied, g <= ROB_SIZE - Left(n),
           head' = HeadNext(n), tail' = RobIndexOf(g),
           is_empty' = (Left(n) = 0 /\ g = 0)
    PROVE  /\ head' \in Index /\ tail' \in Index /\ is_empty' \in BOOLEAN
           /\ Occupied' = Left(n) + g
           /\ is_empty' => head' = Wrap(tail' + 1)
           /\ \A i \in Index :
                 /\ Live(i)' <=> (Live(i) /\ ~Retired(i, n)) \/ Place(i) <= g
                 /\ Place(i) <= g => ~(Live(i) /\ ~Retired(i, n))
                 /\ Live(i) /\ ~Retired(i, n) => Dist(i)' = Dist(i) - n
                 /\ Place(i) <= g => Dist(i)' = Left(n) + Place(i) - 1
<1>1. head \in Index /\ tail \in Index /\ is_empty \in BOOLEAN
      /\ (is_empty => head = Wrap(tail + 1))
  BY DEF TypeOK, ValidIffLive
<1>2. /\ head' \in Index /\ tail' \in Index /\ is_empty' \in BOOLEAN
      /\ Occupied' = Left(n) + g
      /\ is_empty' => head' = Wrap(tail' + 1)
  <2>1. head' \in Index /\ tail' \in Index
    BY <1>1, RobAssumption DEF Index, HeadNext, RobIndexOf, Wrap, Left, Occupied
  <2>2. is_empty' <=> Left(n) = 0 /\ g = 0
    OBVIOUS
  <2>3. Occupied' = Left(n) + g
    <3>1. CASE is_empty'
      BY <3>1, <2>2 DEF Occupied
    <3>2. CASE ~is_empty'
      BY <3>2, <2>1, <2>2, <1>1, RobAssumption
         DEF Index, HeadNext, RobIndexOf, Wrap, Left, Occupied
    <3> QED BY <3>1, <3>2
  <2>4. is_empty' => head' = Wrap(tail' + 1)
    BY <2>2, <1>1, RobAssumption DEF Index, HeadNext, RobIndexOf, Wrap, Left, Occupied
  <2> QED BY <2>1, <2>3, <2>4
<1>3. ASSUME NEW i \in Index
      PROVE  /\ Live(i)' <=> (Live(i) /\ ~Retired(i, n)) \/ Place(i) <= g
             /\ Place(i) <= g => ~(Live(i) /\ ~Retired(i, n))
             /\ Live(i) /\ ~Retired(i, n) => Dist(i)' = Dist(i) - n
             /\ Place(i) <= g => Dist(i)' = Left(n) + Place(i) - 1
  BY <1>1, <1>2, RobAssumption
     DEF Index, HeadNext, RobIndexOf, Wrap, Left, Occupied, Live, Dist, Retired, Place
<1> QED BY <1>2, <1>3

\* A dispatched entry is valid, and faulty as its instruction is.
LEMMA NewEntryFields ==
    ASSUME NEW inst
    PROVE  /\ NewEntry(inst).valid = TRUE
           /\ NewEntry(inst).exception = Faulty(inst)
BY DEF NewEntry

\* The fields of a resolution.
LEMMA ResolutionType ==
    ASSUME NEW resolve \in Resolution
    PROVE  resolve.rob_index \in Index /\ resolve.target_pc \in PC
<1>1. CASE resolve = NoResolution
  BY <1>1, RobAssumption DEF NoResolution, Index
<1>2. CASE resolve \in [valid : {TRUE}, rob_index : Index, target_pc : PC]
  BY <1>2
<1> QED BY <1>1, <1>2 DEF Resolution

\* What a run cycle does to an entry it does not dispatch into.
LEMMA RunEntry ==
    ASSUME TypeOK, NEW n \in Nat, NEW complete \in SUBSET Index,
           NEW resolve \in Resolution, NEW i \in Index
    PROVE  /\ AfterResolve(i, n, complete, resolve) \in Entry
           /\ AfterResolve(i, n, complete, resolve).valid
                 <=> rob_mem[i].valid /\ ~Retired(i, n)
           /\ AfterResolve(i, n, complete, resolve).exception
                 <=> \/ rob_mem[i].exception /\ ~Retired(i, n)
                     \/ Mispredict(n, resolve) /\ i = resolve.rob_index
<1>1. rob_mem[i] \in Entry /\ resolve.target_pc \in PC
  BY ResolutionType DEF TypeOK
<1>2. Cleared \in Entry
  BY RobAssumption DEF Cleared, Entry, Kind, Code
<1>3. /\ AfterRetire(i, n) \in Entry
      /\ AfterRetire(i, n).valid <=> rob_mem[i].valid /\ ~Retired(i, n)
      /\ AfterRetire(i, n).exception <=> rob_mem[i].exception /\ ~Retired(i, n)
  BY <1>1, <1>2 DEF AfterRetire, Cleared
<1>4. /\ AfterComplete(i, n, complete) \in Entry
      /\ AfterComplete(i, n, complete).valid = AfterRetire(i, n).valid
      /\ AfterComplete(i, n, complete).exception = AfterRetire(i, n).exception
  BY <1>3 DEF AfterComplete, Entry
<1>5. CASE Mispredict(n, resolve) /\ i = resolve.rob_index
  BY <1>1, <1>3, <1>4, <1>5 DEF AfterResolve, Entry, Code
<1>6. CASE ~(Mispredict(n, resolve) /\ i = resolve.rob_index)
  BY <1>3, <1>4, <1>6 DEF AfterResolve
<1> QED BY <1>5, <1>6

\* A mispredicted branch is a live one that does not retire in the cycle.
LEMMA MispredictLive ==
    ASSUME TypeOK, ValidIffLive, NEW n \in Nat, NEW resolve \in Resolution,
           Mispredict(n, resolve)
    PROVE  /\ resolve.rob_index \in Index
           /\ Live(resolve.rob_index)
           /\ ~Retired(resolve.rob_index, n)
<1>1. resolve.rob_index \in Index
  BY ResolutionType
<1> QED BY <1>1 DEF Mispredict, AfterRetire, Cleared, ValidIffLive

\* The oldest instruction with an exception does not retire.
LEMMA OldestStays ==
    ASSUME RobInv, NEW store_accepted \in BOOLEAN,
           NEW n \in RetireNum(store_accepted), NEW i \in Index,
           Live(i), rob_mem[i].exception
    PROVE  ~Retired(i, n)
<1>1. /\ n \in Nat
      /\ \A d \in 0 .. n - 1 : ~At(d).exception
  BY RetireBound DEF RobInv
<1>2. Dist(i) \in Nat /\ Wrap(head + Dist(i)) = i
  BY RingTypes DEF RobInv, TypeOK
<1>3. ASSUME Dist(i) < n PROVE FALSE
  <2>1. Dist(i) \in 0 .. n - 1
    BY <1>1, <1>2, <1>3
  <2> QED BY <2>1, <1>1, <1>2 DEF At
<1> QED BY <1>3 DEF Retired

\* A group with a faulty instruction has exactly one first faulty place, and
\* the tail of the ring at that place is an index of the ring.
LEMMA FirstFaultyPlace ==
    ASSUME NEW group, Len(group) \in Nat, Len(group) <= ROB_SIZE, tail \in Index
    PROVE  /\ \A k \in 1 .. Len(group) : Faulty(group[k]) =>
                 \E f \in FirstFaulty(group) : f <= k
           /\ \A f \in FirstFaulty(group) :
                 /\ f \in 1 .. Len(group)
                 /\ Faulty(group[f])
                 /\ RobIndexOf(f) \in Index
                 /\ Place(RobIndexOf(f)) = f
                 /\ \A k \in 1 .. Len(group) : Faulty(group[k]) => f <= k
<1> DEFINE F == {k \in 1 .. Len(group) : Faulty(group[k])}
<1>1. ASSUME NEW k \in 1 .. Len(group), Faulty(group[k])
      PROVE  \E f \in FirstFaulty(group) : f <= k
  <2>1. F \in SUBSET Nat /\ k \in F
    BY <1>1
  <2>2. PICK f \in F : \A y \in F : f <= y
    BY <2>1, LeastElement
  <2>3. f \in FirstFaulty(group)
    BY <2>2 DEF FirstFaulty
  <2> QED BY <2>1, <2>2, <2>3
<1>2. ASSUME NEW f \in FirstFaulty(group)
      PROVE  /\ f \in 1 .. Len(group)
             /\ Faulty(group[f])
             /\ RobIndexOf(f) \in Index
             /\ Place(RobIndexOf(f)) = f
             /\ \A k \in 1 .. Len(group) : Faulty(group[k]) => f <= k
  <2>1. f \in 1 .. Len(group) /\ Faulty(group[f])
        /\ \A j \in 1 .. f - 1 : ~Faulty(group[j])
    BY DEF FirstFaulty
  <2>2. RobIndexOf(f) \in Index /\ Place(RobIndexOf(f)) = f
    BY <2>1, RobAssumption DEF RobIndexOf, Place, Wrap, Index
  <2>3. ASSUME NEW k \in 1 .. Len(group), Faulty(group[k]) PROVE f <= k
    BY <2>1, <2>3
  <2> QED BY <2>1, <2>2, <2>3
<1> QED BY <1>1, <1>2

-----------------------------------------------------------------------------
(* The invariant across a cycle that does not rewind.                       *)

\* A cycle that does not rewind preserves the invariant.
LEMMA RunPreserves ==
    ASSUME RobInv, NEW store_accepted \in BOOLEAN,
           NEW n \in RetireNum(store_accepted), NEW complete \in SUBSET Index,
           NEW resolve \in Resolution, NEW group \in Group,
           Run(n, store_accepted, complete, resolve, group)
    PROVE  RobInv'
<1> DEFINE g == Len(group)
<1>1. TypeOK /\ ValidIffLive /\ OldestException
  BY DEF RobInv
<1>2. n \in Nat /\ n <= Occupied
  BY <1>1, RetireBound
<1>3. /\ g \in Nat /\ g <= ROB_SIZE - Left(n)
      /\ \A k \in 1 .. g : group[k] \in Inst
      /\ has_rewind \/ Mispredict(n, resolve) => g = 0
  BY <1>1, <1>2, GroupBound DEF Run
<1>4. /\ head' = HeadNext(n) /\ tail' = RobIndexOf(g)
      /\ is_empty' = (Left(n) = 0 /\ g = 0)
  BY DEF Run
<1>5. /\ head' \in Index /\ tail' \in Index /\ is_empty' \in BOOLEAN
      /\ Occupied' = Left(n) + g
      /\ is_empty' => head' = Wrap(tail' + 1)
      /\ \A i \in Index :
            /\ Live(i)' <=> (Live(i) /\ ~Retired(i, n)) \/ Place(i) <= g
            /\ Place(i) <= g => ~(Live(i) /\ ~Retired(i, n))
            /\ Live(i) /\ ~Retired(i, n) => Dist(i)' = Dist(i) - n
            /\ Place(i) <= g => Dist(i)' = Left(n) + Place(i) - 1
  <2> HIDE DEF g
  <2> QED BY <1>1, <1>2, <1>3, <1>4, RunRing
<1>6. ASSUME NEW i \in Index
      PROVE  /\ Place(i) \in 1 .. ROB_SIZE
             /\ Place(i) <= g => rob_mem'[i] = NewEntry(group[Place(i)])
             /\ ~(Place(i) <= g) => rob_mem'[i] = AfterResolve(i, n, complete, resolve)
  BY <1>1, RingTypes DEF Run, TypeOK
<1>7. g <= ROB_SIZE
  BY <1>1, <1>2, <1>3, RobAssumption DEF TypeOK, Left, Occupied, Index
<1>8. /\ \A k \in 1 .. g : Faulty(group[k]) => \E f \in FirstFaulty(group) : f <= k
      /\ \A f \in FirstFaulty(group) :
            /\ f \in 1 .. g
            /\ Faulty(group[f])
            /\ RobIndexOf(f) \in Index
            /\ Place(RobIndexOf(f)) = f
            /\ \A k \in 1 .. g : Faulty(group[k]) => f <= k
  BY <1>1, <1>3, <1>7, FirstFaultyPlace DEF TypeOK
<1>9. resolve.rob_index \in Index /\ resolve.target_pc \in PC
  BY ResolutionType
<1> HIDE DEF g
<1>10. TypeOK'
  <2>1. ASSUME NEW i \in Index PROVE rob_mem'[i] \in Entry
    <3>1. CASE Place(i) <= g
      <4>1. group[Place(i)] \in Inst
        BY <1>3, <1>6, <3>1
      <4>2. NewEntry(group[Place(i)]) \in Entry
        BY <4>1 DEF NewEntry, Inst, Entry, Faulty
      <4> QED BY <1>6, <3>1, <4>2
    <3>2. CASE ~(Place(i) <= g)
      BY <1>1, <1>2, <1>6, <3>2, RunEntry
    <3> QED BY <3>1, <3>2
  <2>2. rob_mem' \in [Index -> Entry]
    BY <2>1 DEF Run
  <2>3. oldest_exc_rob_index' \in Index
    BY <1>1, <1>8, <1>9 DEF Run, TypeOK
  <2>4. rewind_target_PC' \in PC
    BY <1>1, <1>9 DEF Run, TypeOK
  <2>5. /\ has_rewind' \in BOOLEAN /\ in_rewind' \in BOOLEAN
        /\ fetch_flush' \in BOOLEAN /\ store_flush' \in BOOLEAN
        /\ exception_code' \in Code
    BY <1>1 DEF Run, TypeOK, TakesOver, Code
  <2> QED BY <1>5, <2>2, <2>3, <2>4, <2>5 DEF TypeOK
<1>11. ValidIffLive'
  <2>1. ASSUME NEW i \in Index PROVE rob_mem'[i].valid <=> Live(i)'
    <3>1. CASE Place(i) <= g
      BY <1>5, <1>6, <3>1, NewEntryFields
    <3>2. CASE ~(Place(i) <= g)
      <4>1. rob_mem'[i] = AfterResolve(i, n, complete, resolve)
        BY <1>6, <3>2
      <4>2. rob_mem'[i].valid <=> rob_mem[i].valid /\ ~Retired(i, n)
        BY <1>1, <1>2, <4>1, RunEntry
      <4>3. rob_mem[i].valid <=> Live(i)
        BY <1>1 DEF ValidIffLive
      <4> QED BY <1>5, <3>2, <4>2, <4>3
    <3> QED BY <3>1, <3>2
  <2> QED BY <1>5, <2>1 DEF ValidIffLive, Wrap
\* Entries that stay keep their exception bit, but for the mispredicted one.
<1>12. ASSUME NEW i \in Index, Live(i), ~Retired(i, n)
       PROVE  /\ Live(i)' /\ Dist(i)' = Dist(i) - n
              /\ rob_mem'[i].exception
                     <=> \/ rob_mem[i].exception
                         \/ Mispredict(n, resolve) /\ i = resolve.rob_index
  <2>1. ~(Place(i) <= g) /\ Live(i)' /\ Dist(i)' = Dist(i) - n
    BY <1>5, <1>12
  <2>2. rob_mem'[i] = AfterResolve(i, n, complete, resolve)
    BY <1>6, <2>1
  <2>3. rob_mem'[i].exception
            <=> \/ rob_mem[i].exception /\ ~Retired(i, n)
                \/ Mispredict(n, resolve) /\ i = resolve.rob_index
    BY <1>1, <1>2, <2>2, RunEntry
  <2> QED BY <1>12, <2>1, <2>3
<1>13. has_rewind => /\ Live(oldest_exc_rob_index)
                     /\ oldest_exc_rob_index \in Index
                     /\ ~Retired(oldest_exc_rob_index, n)
                     /\ rob_mem[oldest_exc_rob_index].exception
  BY <1>1, OldestStays DEF OldestException, TypeOK
<1>14. Mispredict(n, resolve) => Live(resolve.rob_index) /\ ~Retired(resolve.rob_index, n)
  BY <1>1, <1>2, MispredictLive
<1>15. \A i \in Index : Dist(i) \in Nat
  BY <1>1, RingTypes DEF TypeOK
<1>16. g > 0 => ~has_rewind /\ ~Mispredict(n, resolve)
  BY <1>3
<1>17. FirstFaulty(group) # {} => g > 0
  BY <1>3, <1>8
<1>18. CASE TakesOver(n, resolve)
  <2>1. Mispredict(n, resolve) /\ g = 0 /\ oldest_exc_rob_index' = resolve.rob_index
        /\ has_rewind' = TRUE
    BY <1>1, <1>3, <1>18 DEF Run, TakesOver, TypeOK
  <2>2. Live(resolve.rob_index)' /\ rob_mem'[resolve.rob_index].exception
    BY <1>9, <1>12, <1>14, <2>1
  <2>3. ASSUME NEW i \in Index, Live(i)', rob_mem'[i].exception
        PROVE  Dist(resolve.rob_index)' <= Dist(i)'
    <3>1. Live(i) /\ ~Retired(i, n)
      BY <1>5, <1>6, <2>1, <2>3
    <3>2. CASE i = resolve.rob_index
      BY <1>9, <1>12, <1>15, <3>1, <3>2, <1>2
    <3>3. CASE i # resolve.rob_index
      <4>1. rob_mem[i].exception
        BY <1>12, <2>3, <3>1, <3>3
      <4>2. has_rewind /\ Dist(oldest_exc_rob_index) <= Dist(i)
        BY <1>1, <3>1, <4>1 DEF OldestException
      <4>3. Dist(resolve.rob_index) < Dist(oldest_exc_rob_index)
        BY <1>18, <4>2 DEF TakesOver
      <4>4. Dist(resolve.rob_index) <= Dist(i)
        BY <1>9, <1>13, <1>15, <4>2, <4>3
      <4>5. Dist(resolve.rob_index)' = Dist(resolve.rob_index) - n /\ Dist(i)' = Dist(i) - n
        BY <1>9, <1>12, <1>14, <2>1, <3>1
      <4> QED BY <1>2, <1>9, <1>15, <4>4, <4>5
    <3> QED BY <3>2, <3>3
  <2>4. OldestException'
    BY <2>1, <2>2, <2>3 DEF OldestException
  <2>5. RewindsToOldest'
    BY <2>1 DEF Run, InRewindNext, RewindsToOldest
  <2> QED BY <1>10, <1>11, <2>4, <2>5 DEF RobInv
<1>19. CASE ~TakesOver(n, resolve) /\ has_rewind
  <2>1. g = 0 /\ has_rewind' = TRUE /\ oldest_exc_rob_index' = oldest_exc_rob_index
    BY <1>1, <1>3, <1>17, <1>19 DEF Run, TypeOK
  <2>2. Live(oldest_exc_rob_index)' /\ rob_mem'[oldest_exc_rob_index'].exception
    <3>1. PICK o \in Index : o = oldest_exc_rob_index
      BY <1>13, <1>19
    <3>2. Live(o)' /\ rob_mem'[o].exception
      BY <1>12, <1>13, <1>19, <3>1
    <3> QED BY <2>1, <3>1, <3>2 DEF Live, Dist, Occupied
  <2>3. ASSUME NEW i \in Index, Live(i)', rob_mem'[i].exception
        PROVE  Dist(oldest_exc_rob_index)' <= Dist(i)'
    <3>1. Live(i) /\ ~Retired(i, n)
      BY <1>5, <1>6, <2>1, <2>3
    <3>2. Dist(oldest_exc_rob_index) <= Dist(i)
      <4>1. CASE rob_mem[i].exception
        BY <1>1, <3>1, <4>1 DEF OldestException
      <4>2. CASE Mispredict(n, resolve) /\ i = resolve.rob_index
        BY <1>13, <1>15, <1>19, <4>2 DEF TakesOver
      <4> QED BY <1>12, <2>3, <3>1, <4>1, <4>2
    <3>3. Dist(i)' = Dist(i) - n /\ Dist(oldest_exc_rob_index)' = Dist(oldest_exc_rob_index) - n
      <4>1. /\ oldest_exc_rob_index \in Index /\ Live(oldest_exc_rob_index)
            /\ ~Retired(oldest_exc_rob_index, n)
        BY <1>13, <1>19
      <4>2. Dist(oldest_exc_rob_index)' = Dist(oldest_exc_rob_index) - n
        BY <4>1, <1>12, <2>1
      <4> QED BY <4>2, <1>12, <3>1
    <3> QED BY <1>2, <1>13, <1>15, <1>19, <3>2, <3>3
  <2>4. OldestException'
    BY <2>1, <2>2, <2>3 DEF OldestException
  <2>5. RewindsToOldest'
    BY <2>1 DEF Run, InRewindNext, RewindsToOldest
  <2> QED BY <1>10, <1>11, <2>4, <2>5 DEF RobInv
<1>20. CASE ~TakesOver(n, resolve) /\ ~has_rewind
  <2>1. ~Mispredict(n, resolve) /\ fetch_flush' = FALSE
    BY <1>20 DEF TakesOver, Run
  <2>2. has_rewind' = (\E k \in 1 .. g : Faulty(group[k]))
    BY <1>20, <2>1 DEF Run, g
  <2>3. \A i \in Index : Live(i) => ~rob_mem[i].exception
    BY <1>1, <1>20 DEF OldestException
  <2>4. FirstFaulty(group) # {} => \E f \in FirstFaulty(group) : oldest_exc_rob_index' = RobIndexOf(f)
    BY <1>20 DEF Run
  <2>5. ASSUME has_rewind'
        PROVE  Live(oldest_exc_rob_index)' /\ rob_mem'[oldest_exc_rob_index'].exception
    <3>1. PICK f \in FirstFaulty(group) : oldest_exc_rob_index' = RobIndexOf(f)
      BY <1>8, <2>2, <2>4, <2>5
    <3>2. RobIndexOf(f) \in Index /\ Place(RobIndexOf(f)) = f /\ f <= g /\ Faulty(group[f])
      BY <1>8
    <3>3. Live(oldest_exc_rob_index)'
      BY <1>5, <3>1, <3>2 DEF Live, Dist, Occupied
    <3>4. rob_mem'[oldest_exc_rob_index'] = NewEntry(group[f])
      BY <1>6, <3>1, <3>2
    <3> QED BY <3>2, <3>3, <3>4, NewEntryFields
  <2>6. ASSUME NEW i \in Index, Live(i)', rob_mem'[i].exception
        PROVE  has_rewind' /\ Dist(oldest_exc_rob_index)' <= Dist(i)'
    <3>1. Place(i) <= g
      BY <1>5, <1>12, <2>1, <2>3, <2>6
    <3>2. Place(i) \in 1 .. g /\ Faulty(group[Place(i)])
      <4>1. Place(i) \in 1 .. g
        BY <1>3, <1>6, <3>1, RobAssumption
      <4>2. rob_mem'[i].exception = Faulty(group[Place(i)])
        BY <1>6, <3>1, NewEntryFields
      <4> QED BY <2>6, <4>1, <4>2
    <3>3. has_rewind'
      BY <2>2, <3>2
    <3>4. PICK f \in FirstFaulty(group) : oldest_exc_rob_index' = RobIndexOf(f)
      BY <1>8, <2>4, <3>2
    <3>5. RobIndexOf(f) \in Index /\ Place(RobIndexOf(f)) = f /\ f <= g /\ f <= Place(i)
      BY <1>8, <3>2
    <3>6. Dist(oldest_exc_rob_index)' = Left(n) + f - 1
      <4>1. PICK j \in Index : j = RobIndexOf(f)
        BY <3>5
      <4>2. Dist(j)' = Left(n) + f - 1
        BY <1>5, <3>5, <4>1
      <4> QED BY <3>4, <4>1, <4>2 DEF Dist
    <3>7. Dist(i)' = Left(n) + Place(i) - 1
      BY <1>5, <3>1
    <3>8. f \in Nat /\ Place(i) \in Nat /\ Left(n) \in Int
      BY <1>1, <1>2, <1>3, <1>8, <3>2, RingTypes DEF TypeOK, Left
    <3> QED BY <3>3, <3>5, <3>6, <3>7, <3>8
  <2>7. OldestException'
    BY <2>5, <2>6 DEF OldestException
  <2>8. RewindsToOldest'
    BY <2>1 DEF Run, InRewindNext, RewindsToOldest
  <2> QED BY <1>10, <1>11, <2>7, <2>8 DEF RobInv
<1> QED BY <1>18, <1>19, <1>20

-----------------------------------------------------------------------------
(* The invariant across a cycle that rewinds.                               *)

\* A rewind has its faulty instruction at the head it leaves behind: the
\* oldest one of the ring.
LEMMA RewindHead ==
    ASSUME RobInv, NEW store_accepted \in BOOLEAN,
           NEW n \in RetireNum(store_accepted),
           InRewindNext(n, store_accepted)
    PROVE  /\ n \in Nat /\ n < Occupied
           /\ has_rewind
           /\ oldest_exc_rob_index = HeadNext(n)
           /\ HeadNext(n) \in Index /\ Dist(HeadNext(n)) = n
<1>1. TypeOK /\ OldestException /\ RewindsToOldest
  BY DEF RobInv
<1>2. /\ n \in Nat /\ n <= Occupied /\ (in_rewind => n = 0)
  BY <1>1, RetireBound
<1>3. Occupied \in 0 .. ROB_SIZE /\ (is_empty <=> Occupied = 0)
      /\ \A d \in 0 .. ROB_SIZE - 1 : Wrap(head + d) \in Index /\ Dist(Wrap(head + d)) = d
  BY <1>1, RingTypes DEF TypeOK
<1>4. CASE in_rewind
  <2>1. n = 0 /\ n < Occupied /\ has_rewind /\ oldest_exc_rob_index = head
    BY <1>1, <1>2, <1>3, <1>4 DEF RewindsToOldest
  <2>2. HeadNext(n) = head /\ head \in Index /\ Dist(head) = 0
    BY <1>1, <2>1, RobAssumption DEF TypeOK, HeadNext, Wrap, Index, Dist
  <2> QED BY <2>1, <2>2
<1>5. CASE ~in_rewind
  <2>1. n < Occupied /\ At(n).exception
    BY <1>5 DEF InRewindNext, StartsRewind, Examines
  <2>2. n \in 0 .. ROB_SIZE - 1
    BY <1>2, <1>3, <2>1, RobAssumption
  <2>3. HeadNext(n) \in Index /\ Dist(HeadNext(n)) = n
    BY <1>3, <2>2 DEF HeadNext
  <2>4. Live(HeadNext(n)) /\ rob_mem[HeadNext(n)].exception
    BY <2>1, <2>3 DEF Live, At, HeadNext
  <2>5. has_rewind /\ Dist(oldest_exc_rob_index) <= n
    BY <1>1, <2>3, <2>4 DEF OldestException
  <2>6. oldest_exc_rob_index \in Index /\ ~Retired(oldest_exc_rob_index, n)
    BY <1>1, <2>5, OldestStays DEF OldestException, TypeOK
  <2>7. Dist(oldest_exc_rob_index) = n
    BY <1>1, <1>2, <2>5, <2>6, RingTypes DEF Retired, TypeOK
  <2>8. oldest_exc_rob_index = HeadNext(n)
    BY <1>1, <2>6, <2>7, RingTypes DEF TypeOK, HeadNext
  <2> QED BY <1>2, <2>1, <2>3, <2>5, <2>8
<1> QED BY <1>4, <1>5

\* Where the ring is after a cycle that retires n and rewinds r instructions.
LEMMA RewindRing ==
    ASSUME TypeOK, NEW n \in Nat, NEW r \in Nat, n < Occupied, r <= Left(n) - 1,
           head' = HeadNext(n), tail' = Back(tail, r), is_empty' = is_empty
    PROVE  /\ head' \in Index /\ tail' \in Index /\ is_empty' = FALSE
           /\ Occupied' = Left(n) - r
           /\ \A i \in Index :
                 /\ Live(i)' <=> Live(i) /\ ~Retired(i, n) /\ ~Rewound(i, r)
                 /\ Retired(i, n) => Live(i)
                 /\ Rewound(i, r) => Live(i)
                 /\ Live(i)' => Dist(i)' = Dist(i) - n
                 /\ i = head' => Live(i)' /\ Dist(i)' = 0
<1>1. head \in Index /\ tail \in Index /\ is_empty \in BOOLEAN
  BY DEF TypeOK
<1>2. is_empty = FALSE
  BY <1>1 DEF Occupied
<1>3. /\ head' \in Index /\ tail' \in Index
  BY <1>1, <1>2, RobAssumption DEF Index, HeadNext, Back, Wrap, Left, Occupied
<1>4. Occupied' = Left(n) - r
  BY <1>1, <1>2, RobAssumption DEF Index, HeadNext, Back, Wrap, Left, Occupied
<1>5. ASSUME NEW i \in Index
      PROVE  /\ Live(i)' <=> Live(i) /\ ~Retired(i, n) /\ ~Rewound(i, r)
             /\ Retired(i, n) => Live(i)
             /\ Rewound(i, r) => Live(i)
             /\ Live(i)' => Dist(i)' = Dist(i) - n
             /\ i = head' => Live(i)' /\ Dist(i)' = 0
  BY <1>1, <1>2, <1>4, RobAssumption
     DEF Index, HeadNext, Back, Wrap, Left, Occupied, Live, Dist, Retired, Rewound
<1> QED BY <1>2, <1>3, <1>4, <1>5

\* A cycle that rewinds preserves the invariant.
LEMMA RewindPreserves ==
    ASSUME RobInv, NEW store_accepted \in BOOLEAN,
           NEW n \in RetireNum(store_accepted),
           Rewind(n, store_accepted)
    PROVE  RobInv'
<1> DEFINE r == RewindNum(n, store_accepted)
<1>1. TypeOK /\ ValidIffLive /\ OldestException /\ RewindsToOldest
  BY DEF RobInv
<1>2. /\ n \in Nat /\ n < Occupied /\ has_rewind
      /\ oldest_exc_rob_index = HeadNext(n)
      /\ HeadNext(n) \in Index /\ Dist(HeadNext(n)) = n
  BY RewindHead DEF Rewind
<1>3. Occupied \in Nat
  BY <1>1, RobAssumption DEF TypeOK, Occupied, Index
<1>4. r \in Nat /\ r <= Left(n) - 1 /\ (RewindDone(n) => r = Left(n) - 1)
  BY <1>2, <1>3, RobAssumption DEF Rewind, RewindNum, RewindDone, Least, Left
<1>5. head' = HeadNext(n) /\ tail' = Back(tail, r) /\ is_empty' = is_empty
  BY DEF Rewind
<1>6. \A i \in Index :
         rob_mem'[i] = IF Retired(i, n) \/ Rewound(i, r) THEN Cleared
                       ELSE IF RewindDone(n) /\ i = HeadNext(n)
                       THEN [rob_mem[i] EXCEPT !.exception = FALSE]
                       ELSE rob_mem[i]
  BY DEF Rewind
<1>7. rob_mem' \in [Index -> Entry]
  <2>1. Cleared \in Entry
    BY RobAssumption DEF Cleared, Entry, Kind, Code
  <2>2. ASSUME NEW i \in Index PROVE rob_mem'[i] \in Entry
    <3>1. rob_mem[i] \in Entry
      BY <1>1 DEF TypeOK
    <3>2. [rob_mem[i] EXCEPT !.exception = FALSE] \in Entry
      BY <3>1 DEF Entry
    <3> QED BY <1>6, <2>1, <3>1, <3>2
  <2> QED BY <2>2 DEF Rewind
<1> HIDE DEF r
<1>8. /\ head' \in Index /\ tail' \in Index /\ is_empty' = FALSE
      /\ Occupied' = Left(n) - r
      /\ \A i \in Index :
            /\ Live(i)' <=> Live(i) /\ ~Retired(i, n) /\ ~Rewound(i, r)
            /\ Retired(i, n) => Live(i)
            /\ Rewound(i, r) => Live(i)
            /\ Live(i)' => Dist(i)' = Dist(i) - n
            /\ i = head' => Live(i)' /\ Dist(i)' = 0
  BY <1>1, <1>2, <1>4, <1>5, RewindRing
<1>9. ASSUME NEW i \in Index
       PROVE  Dist(i)' \in Nat /\ (Live(i)' <=> Dist(i)' < Occupied')
  <2>1. PICK h \in Index : h = head'
    BY <1>8
  <2>2. Dist(i)' = IF i >= h THEN i - h ELSE i + ROB_SIZE - h
    BY <2>1 DEF Dist
  <2>3. Dist(i)' \in Nat
    BY <2>2, RobAssumption DEF Index
  <2>4. Live(i)' <=> Dist(i)' < Occupied'
    BY DEF Live
  <2> QED BY <2>3, <2>4
<1>10. TypeOK'
  <2>1. At(n).code \in Code
    BY <1>1, <1>2 DEF At, HeadNext, TypeOK, Entry
  <2>2. /\ has_rewind' \in BOOLEAN /\ in_rewind' \in BOOLEAN
        /\ fetch_flush' \in BOOLEAN /\ store_flush' \in BOOLEAN
    <3>1. RewindDone(n) \in BOOLEAN
      BY DEF RewindDone
    <3> QED BY <3>1 DEF Rewind
  <2>3. exception_code' \in Code
    <3>1. "NO_ERROR" \in Code
      BY DEF Code
    <3> QED BY <2>1, <3>1 DEF Rewind
  <2>4. oldest_exc_rob_index' \in Index /\ rewind_target_PC' \in PC
    BY <1>1, RobAssumption DEF Rewind, TypeOK, Index
  <2> QED BY <1>7, <1>8, <2>2, <2>3, <2>4 DEF TypeOK
<1>11. ASSUME NEW i \in Index
       PROVE  /\ rob_mem'[i].valid <=> Live(i)'
              /\ Live(i)' /\ rob_mem'[i].exception => ~RewindDone(n) /\ rob_mem[i].exception
              /\ Live(i)' /\ rob_mem[i].exception /\ ~RewindDone(n) => rob_mem'[i].exception
  <2>1. rob_mem[i] \in Entry /\ (rob_mem[i].valid <=> Live(i))
    BY <1>1 DEF TypeOK, ValidIffLive
  <2>2. CASE Retired(i, n) \/ Rewound(i, r)
    <3>1. rob_mem'[i] = Cleared
      BY <1>6, <2>2
    <3>2. Cleared.valid = FALSE /\ Cleared.exception = FALSE
      BY DEF Cleared
    <3> QED BY <1>8, <2>2, <3>1, <3>2
  <2>3. CASE ~Retired(i, n) /\ ~Rewound(i, r) /\ RewindDone(n) /\ i = HeadNext(n)
    <3>1. rob_mem'[i] = [rob_mem[i] EXCEPT !.exception = FALSE]
      BY <1>6, <2>3
    <3>2. rob_mem'[i].valid = rob_mem[i].valid /\ rob_mem'[i].exception = FALSE
      BY <2>1, <3>1 DEF Entry
    <3> QED BY <1>8, <2>1, <2>3, <3>2
  <2>4. CASE ~Retired(i, n) /\ ~Rewound(i, r) /\ ~(RewindDone(n) /\ i = HeadNext(n))
    <3>1. rob_mem'[i] = rob_mem[i] /\ (Live(i)' <=> Live(i))
      BY <1>6, <1>8, <2>4
    <3>2. ASSUME RewindDone(n), Live(i)' PROVE FALSE
      <4>1. Occupied' = 1 /\ Dist(i)' < Occupied' /\ Dist(i)' \in Nat
        <5>1. Occupied' = 1
          BY <1>2, <1>3, <1>4, <1>8, <3>2 DEF Left
        <5>2. Dist(i)' \in Nat /\ Dist(i)' < Occupied'
          BY <1>9, <3>2
        <5> QED BY <5>1, <5>2
      <4>2. i = head'
        BY <1>8, <4>1, RobAssumption DEF Dist, Index
      <4> QED BY <1>5, <2>4, <3>2, <4>2
    <3> QED BY <2>1, <3>1, <3>2
  <2> QED BY <2>2, <2>3, <2>4
<1>12. ValidIffLive'
  BY <1>8, <1>11 DEF ValidIffLive
<1>13. OldestException' /\ RewindsToOldest'
  <2>1. fetch_flush' = FALSE /\ in_rewind' = ~RewindDone(n)
        /\ has_rewind' = (has_rewind /\ ~RewindDone(n))
    BY DEF Rewind
  <2>2. CASE RewindDone(n)
    <3>1. ~has_rewind' /\ ~in_rewind'
      BY <2>1, <2>2
    <3> QED BY <1>11, <2>1, <2>2, <3>1 DEF OldestException, RewindsToOldest
  <2>3. CASE ~RewindDone(n)
    <3>1. has_rewind' /\ in_rewind' /\ oldest_exc_rob_index' = head'
      BY <1>2, <1>5, <2>1, <2>3 DEF Rewind
    <3>2. PICK h \in Index : h = head'
      BY <1>8
    <3>3. Live(h)' /\ Dist(h)' = 0
      BY <1>8, <3>2
    <3>4. rob_mem[h].exception
      BY <1>1, <1>2, <1>5, <3>2 DEF OldestException
    <3>5. rob_mem'[h].exception
      BY <1>11, <2>3, <3>3, <3>4
    <3>6. Live(oldest_exc_rob_index)' /\ rob_mem'[oldest_exc_rob_index'].exception
      BY <3>1, <3>2, <3>3, <3>5 DEF Live, Dist, Occupied
    <3>7. Dist(oldest_exc_rob_index)' = 0
      BY <3>1, <3>2, <3>3 DEF Dist
    <3>8. OldestException'
      BY <1>9, <3>1, <3>6, <3>7 DEF OldestException
    <3> QED BY <1>8, <2>1, <3>1, <3>8 DEF RewindsToOldest
  <2> QED BY <2>2, <2>3
<1> QED BY <1>10, <1>12, <1>13 DEF RobInv

-----------------------------------------------------------------------------
(* How instructions leave the ring.                                         *)

\* An instruction that is retired, and every older one, is complete and has no
\* exception.
LEMMA RetiredIsDone ==
    ASSUME TypeOK, NEW store_accepted \in BOOLEAN,
           NEW n \in RetireNum(store_accepted),
           NEW i \in Index, Retired(i, n)
    PROVE  /\ rob_mem[i].complete /\ ~rob_mem[i].exception
           /\ \A j \in Index : Dist(j) < Dist(i) =>
                 rob_mem[j].complete /\ ~rob_mem[j].exception
<1>1. n \in Nat /\ \A d \in 0 .. n - 1 : At(d).complete /\ ~At(d).exception
  BY RetireBound
<1>2. \A j \in Index : Dist(j) \in 0 .. ROB_SIZE - 1 /\ At(Dist(j)) = rob_mem[j]
  <2> TAKE j \in Index
  <2>1. Dist(j) \in 0 .. ROB_SIZE - 1 /\ Wrap(head + Dist(j)) = j
    <3>1. head \in Index /\ tail \in Index /\ is_empty \in BOOLEAN
      BY DEF TypeOK
    <3> QED BY <3>1, RingTypes, RobAssumption
  <2> QED BY <2>1 DEF At
<1>3. ASSUME NEW j \in Index, Dist(j) < n
      PROVE  rob_mem[j].complete /\ ~rob_mem[j].exception
  <2>1. Dist(j) \in 0 .. n - 1
    BY <1>1, <1>2, <1>3, RobAssumption
  <2>2. At(Dist(j)).complete /\ ~At(Dist(j)).exception
    BY <1>1, <2>1
  <2> QED BY <1>2, <2>2
<1>4. Dist(i) < n
  BY DEF Retired
<1>5. ASSUME NEW j \in Index, Dist(j) < Dist(i) PROVE Dist(j) < n
  <2>1. Dist(j) \in Int /\ Dist(i) \in Int
    BY <1>2, RobAssumption
  <2> QED BY <1>1, <1>4, <1>5, <2>1
<1> QED BY <1>3, <1>4, <1>5

\* The step formula of LeavesInOrder.
LeavesStep ==
    \A i \in Index : Live(i) /\ ~rob_mem'[i].valid =>
       \/ /\ rob_mem[i].complete /\ ~rob_mem[i].exception
          /\ \A j \in Index : Dist(j) < Dist(i) =>
                rob_mem[j].complete /\ ~rob_mem[j].exception
       \/ has_rewind /\ Dist(oldest_exc_rob_index) < Dist(i)

\* A cycle that does not rewind takes instructions out by retirement only.
LEMMA RunLeaves ==
    ASSUME RobInv, NEW store_accepted \in BOOLEAN,
           NEW n \in RetireNum(store_accepted),
           NEW complete \in SUBSET Index, NEW resolve \in Resolution,
           NEW group \in Group,
           Run(n, store_accepted, complete, resolve, group)
    PROVE  LeavesStep
<1>1. TypeOK /\ ValidIffLive
  BY DEF RobInv
<1>2. ASSUME NEW i \in Index, Live(i), ~rob_mem'[i].valid
      PROVE  Retired(i, n)
  <2>1. CASE Place(i) <= Len(group)
    <3>1. rob_mem'[i] = NewEntry(group[Place(i)])
      BY <2>1 DEF Run
    <3> QED BY <1>2, <3>1, NewEntryFields
  <2>2. CASE ~(Place(i) <= Len(group))
    <3>1. rob_mem'[i] = AfterResolve(i, n, complete, resolve)
      BY <2>2 DEF Run
    <3>2. CASE ~Retired(i, n)
      <4>1. rob_mem[i] \in Entry /\ rob_mem[i].valid
        BY <1>1, <1>2 DEF TypeOK, ValidIffLive
      <4>2. AfterResolve(i, n, complete, resolve).valid = rob_mem[i].valid
        BY <3>2, <4>1 DEF AfterResolve, AfterComplete, AfterRetire, Entry
      <4> QED BY <1>2, <3>1, <4>1, <4>2
    <3> QED BY <3>2
  <2> QED BY <2>1, <2>2
<1>3. ASSUME NEW i \in Index, Live(i), ~rob_mem'[i].valid
      PROVE  /\ rob_mem[i].complete /\ ~rob_mem[i].exception
             /\ \A j \in Index : Dist(j) < Dist(i) =>
                   rob_mem[j].complete /\ ~rob_mem[j].exception
  BY <1>1, <1>2, <1>3, RetiredIsDone
<1> QED BY <1>3 DEF LeavesStep

\* A cycle that rewinds takes the other ones out behind the faulty one.
LEMMA RewindLeaves ==
    ASSUME RobInv, NEW store_accepted \in BOOLEAN,
           NEW n \in RetireNum(store_accepted),
           Rewind(n, store_accepted)
    PROVE  LeavesStep
<1> DEFINE r == RewindNum(n, store_accepted)
<1>1. TypeOK /\ ValidIffLive
  BY DEF RobInv
<1>2. /\ n \in Nat /\ n < Occupied /\ has_rewind
      /\ oldest_exc_rob_index = HeadNext(n)
      /\ HeadNext(n) \in Index /\ Dist(HeadNext(n)) = n
  BY RewindHead DEF Rewind
<1>3. Occupied \in Nat
  BY <1>1, RobAssumption DEF TypeOK, Occupied, Index
<1>4. r \in Nat /\ r <= Left(n) - 1
  BY <1>2, <1>3, RobAssumption DEF Rewind, RewindNum, Least, Left
<1>5. head' = HeadNext(n) /\ tail' = Back(tail, r) /\ is_empty' = is_empty
  BY DEF Rewind
<1>6. \A i \in Index :
         rob_mem'[i] = IF Retired(i, n) \/ Rewound(i, r) THEN Cleared
                       ELSE IF RewindDone(n) /\ i = HeadNext(n)
                       THEN [rob_mem[i] EXCEPT !.exception = FALSE]
                       ELSE rob_mem[i]
  BY DEF Rewind
<1> HIDE DEF r
<1>7. \A i \in Index :
         /\ Live(i)' <=> Live(i) /\ ~Retired(i, n) /\ ~Rewound(i, r)
         /\ i = head' => Live(i)'
  BY <1>1, <1>2, <1>4, <1>5, RewindRing
<1>8. ASSUME NEW i \in Index, Live(i), ~rob_mem'[i].valid
      PROVE  Retired(i, n) \/ Rewound(i, r)
  <2>1. rob_mem[i] \in Entry /\ rob_mem[i].valid
    BY <1>1, <1>8 DEF TypeOK, ValidIffLive
  <2>2. [rob_mem[i] EXCEPT !.exception = FALSE].valid = rob_mem[i].valid
    BY <2>1 DEF Entry
  <2> QED BY <1>6, <1>8, <2>1, <2>2
<1>9. ASSUME NEW i \in Index, Live(i), Rewound(i, r), ~Retired(i, n)
      PROVE  Dist(oldest_exc_rob_index) < Dist(i)
  <2>1. i # HeadNext(n)
    BY <1>5, <1>7, <1>9
  <2>2. Dist(i) \in Nat /\ n <= Dist(i)
    BY <1>1, <1>2, <1>9, RingTypes DEF TypeOK, Retired
  <2>3. Dist(i) # n
    BY <1>1, <1>2, <2>1, RingTypes DEF TypeOK
  <2> QED BY <1>2, <2>2, <2>3
<1>10. ASSUME NEW i \in Index, Live(i), ~rob_mem'[i].valid
       PROVE  \/ /\ rob_mem[i].complete /\ ~rob_mem[i].exception
                 /\ \A j \in Index : Dist(j) < Dist(i) =>
                       rob_mem[j].complete /\ ~rob_mem[j].exception
              \/ has_rewind /\ Dist(oldest_exc_rob_index) < Dist(i)
  <2>1. CASE Retired(i, n)
    BY <1>1, <2>1, RetiredIsDone
  <2>2. CASE ~Retired(i, n)
    BY <1>2, <1>8, <1>9, <1>10, <2>2
  <2> QED BY <2>1, <2>2
<1> QED BY <1>10 DEF LeavesStep

-----------------------------------------------------------------------------
(* The invariant in every reachable state.                                  *)

\* The reset state satisfies the invariant.
LEMMA InitEstablishes == Init => RobInv
<1> SUFFICES ASSUME Init PROVE RobInv
  OBVIOUS
<1>1. Cleared \in Entry /\ ~Cleared.valid /\ ~Cleared.exception
  BY RobAssumption DEF Cleared, Entry, Kind, Code
<1>2. TypeOK
  <2>1. rob_mem \in [Index -> Entry]
    BY <1>1 DEF Init
  <2>2. head \in Index /\ tail \in Index /\ oldest_exc_rob_index \in Index
    BY RobAssumption DEF Init, Index
  <2>3. exception_code \in Code /\ rewind_target_PC \in PC
    BY RobAssumption DEF Init, Code
  <2>4. /\ is_empty \in BOOLEAN /\ has_rewind \in BOOLEAN /\ in_rewind \in BOOLEAN
        /\ fetch_flush \in BOOLEAN /\ store_flush \in BOOLEAN
    BY DEF Init
  <2> QED BY <2>1, <2>2, <2>3, <2>4 DEF TypeOK
<1>3. \A i \in Index : ~Live(i) /\ rob_mem[i] = Cleared
  BY RobAssumption DEF Init, Live, Dist, Occupied, Index
<1> QED BY <1>1, <1>2, <1>3, RobAssumption
        DEF RobInv, ValidIffLive, OldestException, RewindsToOldest,
            Init, Wrap

\* Every cycle preserves the invariant.
LEMMA NextPreserves == RobInv /\ [Next]_robVars => RobInv'
<1> SUFFICES ASSUME RobInv, [Next]_robVars PROVE RobInv'
  OBVIOUS
<1>1. CASE Next
  <2>1. PICK store_accepted \in BOOLEAN : \E n \in RetireNum(store_accepted) :
           \/ Rewind(n, store_accepted)
           \/ \E complete \in SUBSET Index, resolve \in Resolution, group \in Group :
                 Run(n, store_accepted, complete, resolve, group)
    BY <1>1 DEF Next
  <2>2. PICK n \in RetireNum(store_accepted) :
           \/ Rewind(n, store_accepted)
           \/ \E complete \in SUBSET Index, resolve \in Resolution, group \in Group :
                 Run(n, store_accepted, complete, resolve, group)
    BY <2>1
  <2>3. CASE Rewind(n, store_accepted)
    BY <2>3, RewindPreserves
  <2>4. CASE \E complete \in SUBSET Index, resolve \in Resolution, group \in Group :
               Run(n, store_accepted, complete, resolve, group)
    BY <2>4, RunPreserves
  <2> QED BY <2>2, <2>3, <2>4
<1>2. CASE UNCHANGED robVars
  BY <1>2 DEF robVars, RobInv, TypeOK, ValidIffLive, OldestException,
              RewindsToOldest, Live, Dist, Occupied
<1> QED BY <1>1, <1>2

\* The invariant holds in every reachable state, whatever completions and
\* resolutions arrive (rob.sv:98-351).
THEOREM RobInvariant == Spec => []RobInv
BY InitEstablishes, NextPreserves, PTL DEF Spec

\* Every register of the ROB holds a value of its type (rob.sv:98-351).
THEOREM TypeCorrect == Spec => []TypeOK
<1>1. RobInv => TypeOK
  BY DEF RobInv
<1> QED BY <1>1, RobInvariant, PTL

\* The valid entries are those between head and tail (rob.sv:226-231,
\* 289-291, 346-348).
THEOREM RingExact == Spec => []ValidIffLive
<1>1. RobInv => ValidIffLive
  BY DEF RobInv
<1> QED BY <1>1, RobInvariant, PTL

\* oldest_exc_rob_index is the oldest fault of the ring while has_rewind is
\* up, whatever the order of faults (rob.sv:249-269, 307-319).
THEOREM OldestIsOldest == Spec => []OldestException
<1>1. RobInv => OldestException
  BY DEF RobInv
<1> QED BY <1>1, RobInvariant, PTL

\* A rewind squashes nothing older than the oldest fault (rob.sv:209-219,
\* 329-349).
THEOREM RewindIsPrecise == Spec => []RewindsToOldest
<1>1. RobInv => RewindsToOldest
  BY DEF RobInv
<1> QED BY <1>1, RobInvariant, PTL

\* Instructions leave the ring only by retirement in order or because an older
\* one is the oldest fault (rob.sv:182-232, 326-348).
THEOREM LeavingIsInOrder == Spec => LeavesInOrder
<1>1. RobInv /\ Next => LeavesStep
  <2> SUFFICES ASSUME RobInv, Next PROVE LeavesStep
    OBVIOUS
  <2> PICK store_accepted \in BOOLEAN : \E n \in RetireNum(store_accepted) :
           \/ Rewind(n, store_accepted)
           \/ \E complete \in SUBSET Index, resolve \in Resolution, group \in Group :
                 Run(n, store_accepted, complete, resolve, group)
    BY DEF Next
  <2>1. PICK n \in RetireNum(store_accepted) :
           \/ Rewind(n, store_accepted)
           \/ \E complete \in SUBSET Index, resolve \in Resolution, group \in Group :
                 Run(n, store_accepted, complete, resolve, group)
    OBVIOUS
  <2>2. CASE Rewind(n, store_accepted)
    BY <2>2, RewindLeaves
  <2>3. CASE \E complete \in SUBSET Index, resolve \in Resolution, group \in Group :
               Run(n, store_accepted, complete, resolve, group)
    BY <2>3, RunLeaves
  <2> QED BY <2>1, <2>2, <2>3
<1>2. RobInv /\ [Next]_robVars => [LeavesStep]_robVars
  BY <1>1
<1> QED BY <1>2, RobInvariant, PTL DEF Spec, LeavesInOrder, LeavesStep

\* Fetch restarts only while a fault keeps the ring closed.
FlushBlocks == fetch_flush => has_rewind

\* The registered restart comes with the fault (rob.sv:249-286).
LEMMA FlushIsBlocked == Spec => []FlushBlocks
<1>1. Init => FlushBlocks
  BY DEF Init, FlushBlocks
<1>2. ASSUME FlushBlocks, [Next]_robVars PROVE FlushBlocks'
  <2>1. CASE UNCHANGED robVars
    BY <1>2, <2>1 DEF FlushBlocks, robVars
  <2>2. ASSUME NEW store_accepted, NEW n, Rewind(n, store_accepted)
        PROVE  FlushBlocks'
    BY <2>2 DEF Rewind, FlushBlocks
  <2>3. ASSUME NEW store_accepted, NEW n, NEW complete, NEW resolve, NEW group,
               Run(n, store_accepted, complete, resolve, group)
        PROVE  FlushBlocks'
    BY <2>3 DEF Run, TakesOver, FlushBlocks
  <2> QED BY <1>2, <2>1, <2>2, <2>3 DEF Next
<1> QED BY <1>1, <1>2, PTL DEF Spec

\* The step that QuietRestart allows.
QuietStep ==
    fetch_flush \/ fetch_flush' =>
        \A i \in Index : rob_mem'[i].valid => rob_mem[i].valid /\ Dist(i)' <= Dist(i)

\* An entry behind the new head comes nearer to it.
LEMMA ComesNearer ==
    ASSUME TypeOK, NEW n \in Nat, NEW i \in Index, ~Retired(i, n), head' = HeadNext(n)
    PROVE  Dist(i)' <= Dist(i)
<1>1. head \in Index
  BY DEF TypeOK
<1> QED BY <1>1, RobAssumption DEF Index, HeadNext, Wrap, Dist, Retired

\* A cycle that sees a fault, or resolves one, lets nothing in (rob.sv:174-178).
LEMMA RunIsQuiet ==
    ASSUME RobInv, FlushBlocks, NEW store_accepted \in BOOLEAN,
           NEW n \in RetireNum(store_accepted), NEW complete, NEW resolve,
           NEW group \in Group, Run(n, store_accepted, complete, resolve, group)
    PROVE  QuietStep
<1> SUFFICES ASSUME fetch_flush \/ fetch_flush', NEW i \in Index, rob_mem'[i].valid
             PROVE  rob_mem[i].valid /\ Dist(i)' <= Dist(i)
  BY DEF QuietStep
<1>1. has_rewind \/ Mispredict(n, resolve)
  BY DEF Run, TakesOver, FlushBlocks
<1>2. Len(group) \in Nat /\ Len(group) <= 0
  BY <1>1, GroupBound DEF Run, NumCanDispatch
<1>3. Place(i) \in 1 .. ROB_SIZE
  BY RingTypes DEF RobInv, TypeOK
<1>4. rob_mem'[i] = AfterResolve(i, n, complete, resolve)
  BY <1>2, <1>3, RobAssumption DEF Run
<1>5. rob_mem \in [Index -> Entry]
  BY DEF RobInv, TypeOK
<1>6. AfterRetire(i, n).valid
  BY <1>4, <1>5 DEF AfterResolve, AfterComplete, AfterRetire, Entry, Cleared
<1>7. rob_mem[i].valid /\ ~Retired(i, n)
  BY <1>6 DEF AfterRetire, Cleared
<1>8. Dist(i)' <= Dist(i)
  BY <1>7, RetireBound, ComesNearer DEF RobInv, Run
<1> QED BY <1>7, <1>8

\* A rewind only clears entries (rob.sv:326-349).
LEMMA RewindIsQuiet ==
    ASSUME RobInv, NEW store_accepted \in BOOLEAN, NEW n \in RetireNum(store_accepted),
           Rewind(n, store_accepted)
    PROVE  QuietStep
<1> SUFFICES ASSUME NEW i \in Index, rob_mem'[i].valid
             PROVE  rob_mem[i].valid /\ Dist(i)' <= Dist(i)
  BY DEF QuietStep
<1>1. rob_mem \in [Index -> Entry]
  BY DEF RobInv, TypeOK
<1>2. rob_mem[i].valid /\ ~Retired(i, n)
  BY <1>1 DEF Rewind, Entry, Cleared
<1>3. Dist(i)' <= Dist(i)
  BY <1>2, RetireBound, ComesNearer DEF RobInv, Rewind
<1> QED BY <1>2, <1>3

\* From the resolution of a mispredicted branch until fetch has restarted,
\* nothing enters the ring (rob.sv:174-178, 254-286).
THEOREM RestartIsQuiet == Spec => QuietRestart
<1>1. RobInv /\ FlushBlocks /\ Next => QuietStep
  BY RunIsQuiet, RewindIsQuiet DEF Next
<1>2. RobInv /\ FlushBlocks /\ [Next]_robVars => [QuietStep]_robVars
  BY <1>1
<1> QED BY <1>2, RobInvariant, FlushIsBlocked, PTL DEF Spec, QuietRestart, QuietStep
=============================================================================
