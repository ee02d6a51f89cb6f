--------------------------- MODULE MapTableProofs ---------------------------
(***************************************************************************)
(* Proofs about the map table by itself, for every number of registers:     *)
(* the maps after the turns of the dispatch and rewind loops satisfy the    *)
(* equations that define them, and are maps.                                *)
(***************************************************************************)
EXTENDS MapTable, NaturalLemmas

-----------------------------------------------------------------------------
(* The equations of the loops have a solution, which can be continued by one *)
(* turn at a time.                                                           *)

\* The turns of the dispatch loop.
LEMMA DispatchTurns ==
    ASSUME NEW arch_dest_reg, NEW free_tag, Len(arch_dest_reg) \in Nat
    PROVE  /\ MapAfter(arch_dest_reg, free_tag)[0] = map
           /\ \A k \in 1 .. Len(arch_dest_reg) :
                 MapAfter(arch_dest_reg, free_tag)[k] =
                    [a \in ArchReg |-> IF a # 0 /\ a = arch_dest_reg[k] THEN free_tag[k] ELSE MapAfter(arch_dest_reg, free_tag)[k - 1][a]]
<1> DEFINE n == Len(arch_dest_reg)
           Turn(f, k) == [a \in ArchReg |-> IF a # 0 /\ a = arch_dest_reg[k] THEN free_tag[k] ELSE f[k - 1][a]]
           Turns(f, j) == f = [k \in 0 .. j |-> IF k = 0 THEN map ELSE Turn(f, k)]
           S == {j \in 0 .. n : \E f : Turns(f, j)}
<1>1. 0 \in S
  <2> DEFINE f == [k \in 0 .. 0 |-> map]
  <2>1. \A k \in 0 .. 0 : (IF k = 0 THEN map ELSE Turn(f, k)) = map
    OBVIOUS
  <2>2. f = [k \in 0 .. 0 |-> IF k = 0 THEN map ELSE Turn(f, k)]
    BY <2>1, Zenon
  <2> HIDE DEF f, Turn
  <2> QED BY <2>2
<1>2. ASSUME NEW j \in 0 .. n - 1, j \in S PROVE j + 1 \in S
  <2>1. PICK f : Turns(f, j)
    BY <1>2
  <2> DEFINE g == [k \in 0 .. j + 1 |-> IF k <= j THEN f[k] ELSE Turn(f, k)]
  <2> HIDE DEF Turn
  <2>2. ASSUME NEW k \in 0 .. j + 1
        PROVE  g[k] = IF k = 0 THEN map ELSE Turn(g, k)
    <3>1. CASE k = 0
      BY <2>1, <3>1
    <3>2. CASE k # 0
      <4>1. k - 1 \in 0 .. j + 1 /\ k - 1 <= j
        BY <3>2
      <4>2. g[k - 1] = f[k - 1]
        BY <4>1
      <4>3. Turn(g, k) = Turn(f, k)
        BY <4>2 DEF Turn
      <4>4. g[k] = Turn(f, k)
        BY <2>1, <3>2
      <4> QED BY <3>2, <4>3, <4>4
    <3> QED BY <3>1, <3>2
  <2>3. Turns(g, j + 1)
    <3>1. g = [k \in 0 .. j + 1 |-> g[k]]
      OBVIOUS
    <3> HIDE DEF g
    <3>2. [k \in 0 .. j + 1 |-> g[k]] =
            [k \in 0 .. j + 1 |-> IF k = 0 THEN map ELSE Turn(g, k)]
      BY <2>2, Zenon
    <3> QED BY <3>1, <3>2
  <2>4. j + 1 \in 0 .. n
    OBVIOUS
  <2> HIDE DEF g, Turns
  <2> QED BY <2>3, <2>4
<1> HIDE DEF S, Turns
<1>3. \A k \in 0 .. n : k \in S
  BY <1>1, <1>2, IntervalInduction
<1>4. \E f : Turns(f, n)
  BY <1>3 DEF S
<1> DEFINE m == MapAfter(arch_dest_reg, free_tag)
<1>5. m = CHOOSE f : Turns(f, n)
  BY Zenon DEF MapAfter, Turns
<1> HIDE DEF m
<1>6. Turns(m, n)
  BY <1>4, <1>5
<1>7. m[0] = map /\ \A k \in 1 .. n : m[k] = Turn(m, k)
  <2>1. m = [k \in 0 .. n |-> IF k = 0 THEN map ELSE Turn(m, k)]
    BY <1>6 DEF Turns
  <2>2. 0 \in 0 .. n /\ \A k \in 1 .. n : k \in 0 .. n /\ k # 0
    OBVIOUS
  <2> HIDE DEF Turn, n
  <2>3. \A k \in 0 .. n : m[k] = IF k = 0 THEN map ELSE Turn(m, k)
    BY <2>1
  <2> QED BY <2>2, <2>3
<1> QED BY <1>7 DEF m

\* The turns of the rewind loop.
LEMMA RewindTurns ==
    ASSUME NEW reg_T, NEW reg_Told, Len(reg_T) \in Nat
    PROVE  /\ MapUndone(reg_T, reg_Told)[0] = map
           /\ \A k \in 1 .. Len(reg_T) :
                 MapUndone(reg_T, reg_Told)[k] =
                    [a \in ArchReg |-> IF MapUndone(reg_T, reg_Told)[k - 1][a] = reg_T[k] THEN reg_Told[k] ELSE MapUndone(reg_T, reg_Told)[k - 1][a]]
<1> DEFINE n == Len(reg_T)
           Turn(f, k) == [a \in ArchReg |-> IF f[k - 1][a] = reg_T[k] THEN reg_Told[k] ELSE f[k - 1][a]]
           Turns(f, j) == f = [k \in 0 .. j |-> IF k = 0 THEN map ELSE Turn(f, k)]
           S == {j \in 0 .. n : \E f : Turns(f, j)}
<1>1. 0 \in S
  <2> DEFINE f == [k \in 0 .. 0 |-> map]
  <2>1. \A k \in 0 .. 0 : (IF k = 0 THEN map ELSE Turn(f, k)) = map
    OBVIOUS
  <2>2. f = [k \in 0 .. 0 |-> IF k = 0 THEN map ELSE Turn(f, k)]
    BY <2>1, Zenon
  <2> HIDE DEF f, Turn
  <2> QED BY <2>2
<1>2. ASSUME NEW j \in 0 .. n - 1, j \in S PROVE j + 1 \in S
  <2>1. PICK f : Turns(f, j)
    BY <1>2
  <2> DEFINE g == [k \in 0 .. j + 1 |-> IF k <= j THEN f[k] ELSE Turn(f, k)]
  <2> HIDE DEF Turn
  <2>2. ASSUME NEW k \in 0 .. j + 1
        PROVE  g[k] = IF k = 0 THEN map ELSE Turn(g, k)
    <3>1. CASE k = 0
      BY <2>1, <3>1
    <3>2. CASE k # 0
      <4>1. k - 1 \in 0 .. j + 1 /\ k - 1 <= j
        BY <3>2
      <4>2. g[k - 1] = f[k - 1]
        BY <4>1
      <4>3. Turn(g, k) = Turn(f, k)
        BY <4>2 DEF Turn
      <4>4. g[k] = Turn(f, k)
        BY <2>1, <3>2
      <4> QED BY <3>2, <4>3, <4>4
    <3> QED BY <3>1, <3>2
  <2>3. Turns(g, j + 1)
    <3>1. g = [k \in 0 .. j + 1 |-> g[k]]
      OBVIOUS
    <3> HIDE DEF g
    <3>2. [k \in 0 .. j + 1 |-> g[k]] =
            [k \in 0 .. j + 1 |-> IF k = 0 THEN map ELSE Turn(g, k)]
      BY <2>2, Zenon
    <3> QED BY <3>1, <3>2
  <2>4. j + 1 \in 0 .. n
    OBVIOUS
  <2> HIDE DEF g, Turns
  <2> QED BY <2>3, <2>4
<1> HIDE DEF S, Turns
<1>3. \A k \in 0 .. n : k \in S
  BY <1>1, <1>2, IntervalInduction
<1>4. \E f : Turns(f, n)
  BY <1>3 DEF S
<1> DEFINE m == MapUndone(reg_T, reg_Told)
<1>5. m = CHOOSE f : Turns(f, n)
  BY Zenon DEF MapUndone, Turns
<1> HIDE DEF m
<1>6. Turns(m, n)
  BY <1>4, <1>5
<1>7. m[0] = map /\ \A k \in 1 .. n : m[k] = Turn(m, k)
  <2>1. m = [k \in 0 .. n |-> IF k = 0 THEN map ELSE Turn(m, k)]
    BY <1>6 DEF Turns
  <2>2. 0 \in 0 .. n /\ \A k \in 1 .. n : k \in 0 .. n /\ k # 0
    OBVIOUS
  <2> HIDE DEF Turn, n
  <2>3. \A k \in 0 .. n : m[k] = IF k = 0 THEN map ELSE Turn(m, k)
    BY <2>1
  <2> QED BY <2>2, <2>3
<1> QED BY <1>7 DEF m

\* The turns of the dispatch loop go from maps to maps.
LEMMA DispatchTypes ==
    ASSUME map \in [ArchReg -> PhyReg], NEW arch_dest_reg, NEW free_tag, Len(arch_dest_reg) \in Nat,
           \A k \in 1 .. Len(arch_dest_reg) : free_tag[k] \in PhyReg
    PROVE  \A k \in 0 .. Len(arch_dest_reg) :
              MapAfter(arch_dest_reg, free_tag)[k] \in [ArchReg -> PhyReg]
<1> DEFINE m == MapAfter(arch_dest_reg, free_tag)
           n == Len(arch_dest_reg)
           S == {k \in 0 .. n : m[k] \in [ArchReg -> PhyReg]}
<1>1. 0 \in S
  BY DispatchTurns
<1>2. ASSUME NEW k \in 0 .. n - 1, k \in S PROVE k + 1 \in S
  <2>1. k + 1 \in 1 .. n /\ k + 1 \in 0 .. n /\ (k + 1) - 1 = k
    OBVIOUS
  <2>2. PICK j \in 1 .. n : j = k + 1 /\ j - 1 = k
    BY <2>1
  <2>3. m[j] = [a \in ArchReg |-> IF a # 0 /\ a = arch_dest_reg[j] THEN free_tag[j] ELSE m[j - 1][a]]
    BY DispatchTurns
  <2>4. m[k] \in [ArchReg -> PhyReg]
    BY <1>2
  <2> HIDE DEF m
  <2>5. m[j] \in [ArchReg -> PhyReg]
    BY <2>2, <2>3, <2>4
  <2> QED BY <2>1, <2>2, <2>5
<1> HIDE DEF S
<1>3. \A k \in 0 .. n : k \in S
  BY <1>1, <1>2, IntervalInduction
<1> QED BY <1>3 DEF S

\* The turns of the rewind loop go from maps to maps.
LEMMA RewindTypes ==
    ASSUME map \in [ArchReg -> PhyReg], NEW reg_T, NEW reg_Told, Len(reg_T) \in Nat,
           \A k \in 1 .. Len(reg_T) : reg_Told[k] \in PhyReg
    PROVE  \A k \in 0 .. Len(reg_T) :
              MapUndone(reg_T, reg_Told)[k] \in [ArchReg -> PhyReg]
<1> DEFINE m == MapUndone(reg_T, reg_Told)
           n == Len(reg_T)
           S == {k \in 0 .. n : m[k] \in [ArchReg -> PhyReg]}
<1>1. 0 \in S
  BY RewindTurns
<1>2. ASSUME NEW k \in 0 .. n - 1, k \in S PROVE k + 1 \in S
  <2>1. k + 1 \in 1 .. n /\ k + 1 \in 0 .. n /\ (k + 1) - 1 = k
    OBVIOUS
  <2>2. PICK j \in 1 .. n : j = k + 1 /\ j - 1 = k
    BY <2>1
  <2>3. m[j] = [a \in ArchReg |-> IF m[j - 1][a] = reg_T[j] THEN reg_Told[j] ELSE m[j - 1][a]]
    BY RewindTurns
  <2>4. m[k] \in [ArchReg -> PhyReg]
    BY <1>2
  <2> HIDE DEF m
  <2>5. m[j] \in [ArchReg -> PhyReg]
    BY <2>2, <2>3, <2>4
  <2> QED BY <2>1, <2>2, <2>5
<1> HIDE DEF S
<1>3. \A k \in 0 .. n : k \in S
  BY <1>1, <1>2, IntervalInduction
<1> QED BY <1>3 DEF S

\* A register that no instruction of the group writes keeps its mapping.
LEMMA DispatchKeeps ==
    ASSUME NEW arch_dest_reg, NEW free_tag, Len(arch_dest_reg) \in Nat,
           NEW a \in ArchReg, NEW k \in 0 .. Len(arch_dest_reg),
           \A j \in 1 .. k : a # 0 => arch_dest_reg[j] # a
    PROVE  MapAfter(arch_dest_reg, free_tag)[k][a] = map[a]
<1> DEFINE m == MapAfter(arch_dest_reg, free_tag)
           n == Len(arch_dest_reg)
           S == {i \in 0 .. k : m[i][a] = map[a]}
<1>1. 0 \in S
  BY DispatchTurns
<1>2. ASSUME NEW i \in 0 .. k - 1, i \in S PROVE i + 1 \in S
  <2>1. PICK j \in 1 .. n : j = i + 1 /\ j - 1 = i /\ j \in 1 .. k
    OBVIOUS
  <2>2. m[j] = [b \in ArchReg |-> IF b # 0 /\ b = arch_dest_reg[j] THEN free_tag[j]
                                  ELSE m[j - 1][b]]
    BY DispatchTurns
  <2>3. m[i][a] = map[a]
    BY <1>2
  <2> HIDE DEF m
  <2>4. m[j][a] = map[a]
    BY <2>1, <2>2, <2>3
  <2> QED BY <2>1, <2>4
<1> HIDE DEF S
<1>3. \A i \in 0 .. k : i \in S
  BY <1>1, <1>2, IntervalInduction
<1>4. k \in S
  BY <1>3
<1> QED BY <1>4 DEF S
=============================================================================
