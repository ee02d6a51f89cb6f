--------------------------- MODULE FreeListProofs ---------------------------
(***************************************************************************)
(* Proofs about the free list by itself, for every size and width: what is  *)
(* in the ring after a clock cycle, and that the loops over the registers   *)
(* freed, asked for and rewound do not disturb each other.                  *)
(***************************************************************************)
EXTENDS FreeList, FiniteSetTheorems, FunctionTheorems, NaturalLemmas

\* The assumption on the constants.
Sizes == FREELIST_SIZE \in Nat \ {0} /\ ARCH_REG_SIZE \in Nat \ {0}

-----------------------------------------------------------------------------
(* Counting what the loops do not skip.                                     *)

\* The places of an array with different entries are as many as the entries.
LEMMA ImageCount ==
    ASSUME NEW S, IsFiniteSet(S), NEW f, \A x, y \in S : f[x] = f[y] => x = y
    PROVE  /\ IsFiniteSet({f[x] : x \in S})
           /\ Cardinality({f[x] : x \in S}) = Cardinality(S)
<1> DEFINE T == {f[x] : x \in S}
           g == [x \in S |-> f[x]]
<1>1. g \in Bijection(S, T)
  <2>1. g \in [S -> T]
    OBVIOUS
  <2>2. \A x, y \in S : g[x] = g[y] => x = y
    OBVIOUS
  <2>3. \A t \in T : \E x \in S : g[x] = t
    OBVIOUS
  <2> HIDE DEF g, T
  <2> QED BY <2>1, <2>2, <2>3, Fun_IsBij
<1>2. ExistsBijection(S, T)
  BY <1>1 DEF ExistsBijection
<1> HIDE DEF T
<1>3. IsFiniteSet(T) /\ Cardinality(T) = Cardinality(S)
  BY <1>2, FS_Bijection
<1> QED BY <1>3 DEF T

\* A count is a natural number, and each turn of a loop adds one or nothing.
LEMMA UsedTurns ==
    ASSUME NEW s, NEW from \in Nat, NEW to \in Int
    PROVE  /\ Used(s, from, to) \in Nat
           /\ from > to => Used(s, from, to) = 0
           /\ from <= to => /\ Used(s, from, to) =
                                 Used(s, from, to - 1) + IF s[to] # 0 THEN 1 ELSE 0
                            /\ Used(s, from, to) =
                                 Used(s, from + 1, to) + IF s[from] # 0 THEN 1 ELSE 0
<1> DEFINE U(f, t) == {k \in f .. t : s[k] # 0}
<1>1. ASSUME NEW f \in Int, NEW t \in Int PROVE IsFiniteSet(U(f, t)) /\ Cardinality(U(f, t)) \in Nat
  <2>1. IsFiniteSet(f .. t) /\ U(f, t) \in SUBSET (f .. t)
    BY FS_Interval
  <2>2. IsFiniteSet(U(f, t))
    BY <2>1, FS_Subset
  <2> QED BY <2>2, FS_CardinalityType
<1>2. CASE from > to
  <2>1. U(from, to) = {}
    BY <1>2
  <2> QED BY <1>1, <1>2, <2>1, FS_EmptySet DEF Used
<1>3. CASE from <= to
  <2>1. Cardinality(U(from, to)) =
          Cardinality(U(from, to - 1)) + IF s[to] # 0 THEN 1 ELSE 0
    <3>1. to - 1 \in Int /\ to \notin U(from, to - 1) /\ IsFiniteSet(U(from, to - 1))
      BY <1>1
    <3>2. CASE s[to] # 0
      <4>1. U(from, to) = U(from, to - 1) \cup {to}
        BY <1>3, <3>2
      <4> QED BY <3>1, <3>2, <4>1, FS_AddElement
    <3>3. CASE s[to] = 0
      <4>1. U(from, to) = U(from, to - 1)
        BY <1>3, <3>3
      <4>2. Cardinality(U(from, to - 1)) \in Nat
        BY <1>1, <3>1
      <4> QED BY <3>3, <4>1, <4>2
    <3> QED BY <3>2, <3>3
  <2>2. Cardinality(U(from, to)) =
          Cardinality(U(from + 1, to)) + IF s[from] # 0 THEN 1 ELSE 0
    <3>1. from + 1 \in Int /\ from \notin U(from + 1, to) /\ IsFiniteSet(U(from + 1, to))
      BY <1>1
    <3>2. CASE s[from] # 0
      <4>1. U(from, to) = U(from + 1, to) \cup {from}
        BY <1>3, <3>2
      <4> QED BY <3>1, <3>2, <4>1, FS_AddElement
    <3>3. CASE s[from] = 0
      <4>1. U(from, to) = U(from + 1, to)
        BY <1>3, <3>3
      <4>2. Cardinality(U(from + 1, to)) \in Nat
        BY <1>1, <3>1
      <4> QED BY <3>3, <4>1, <4>2
    <3> QED BY <3>2, <3>3
  <2>3. \A f, t \in Int : Used(s, f, t) = Cardinality(U(f, t))
    BY DEF Used
  <2> HIDE DEF U
  <2> QED BY <1>1, <1>3, <2>1, <2>2, <2>3
<1> QED BY <1>2, <1>3

\* The counts of the turns so far.
LEMMA UsedPrefix ==
    ASSUME NEW s
    PROVE  /\ Used(s, 1, 0) = 0
           /\ \A k \in Nat : Used(s, 1, k) \in Nat
           /\ \A k \in Nat : s[k + 1] # 0 => Used(s, 1, k + 1) = Used(s, 1, k) + 1
           /\ \A k \in Nat : s[k + 1] = 0 => Used(s, 1, k + 1) = Used(s, 1, k)
<1>1. Used(s, 1, 0) = 0
  <2>1. 1 \in Nat /\ 0 \in Int /\ 1 > 0
    OBVIOUS
  <2> QED BY <2>1, UsedTurns
<1>2. ASSUME NEW k \in Nat
      PROVE  /\ Used(s, 1, k) \in Nat
             /\ s[k + 1] # 0 => Used(s, 1, k + 1) = Used(s, 1, k) + 1
             /\ s[k + 1] = 0 => Used(s, 1, k + 1) = Used(s, 1, k)
  <2>1. 1 \in Nat /\ k \in Int /\ k + 1 \in Int /\ 1 <= k + 1 /\ (k + 1) - 1 = k
    OBVIOUS
  <2>2. Used(s, 1, k) \in Nat
    BY <2>1, UsedTurns
  <2>3. Used(s, 1, k + 1) = Used(s, 1, k) + IF s[k + 1] # 0 THEN 1 ELSE 0
    BY <2>1, UsedTurns
  <2> QED BY <2>2, <2>3
<1> QED BY <1>1, <1>2

\* Counts grow with the turns, and strictly where the loop does not skip.
LEMMA UsedGrows ==
    ASSUME NEW s, NEW i \in Nat, NEW j \in Nat, i <= j
    PROVE  /\ Used(s, 1, i) <= Used(s, 1, j)
           /\ i < j /\ s[j] # 0 => Used(s, 1, i) < Used(s, 1, j)
           /\ Used(s, 1, j) <= j
<1> DEFINE S == {k \in i .. j : Used(s, 1, i) <= Used(s, 1, k)}
           R == {k \in 0 .. j : Used(s, 1, k) <= k}
<1> HIDE DEF S
<1>0. Used(s, 1, i) \in Nat
  BY UsedPrefix
<1>1. i \in S
  BY <1>0 DEF S
<1>2. \A k \in i .. j - 1 : k \in S => k + 1 \in S
  <2> TAKE k \in i .. j - 1
  <2>0. k \in Nat
    OBVIOUS
  <2>1. k \in Nat /\ Used(s, 1, k) \in Nat
    BY <2>0, UsedPrefix
  <2>2. Used(s, 1, k + 1) = Used(s, 1, k) \/ Used(s, 1, k + 1) = Used(s, 1, k) + 1
    BY <2>1, UsedPrefix
  <2> QED BY <1>0, <2>1, <2>2 DEF S
<1>3. 0 \in R
  BY UsedPrefix
<1>4. \A k \in 0 .. j - 1 : k \in R => k + 1 \in R
  BY UsedPrefix
<1> HIDE DEF R
<1>5. \A k \in i .. j : k \in S
  BY <1>1, <1>2, IntervalInduction
<1>6. \A k \in 0 .. j : k \in R
  BY <1>3, <1>4, IntervalInduction
<1>7. \A k \in i .. j : Used(s, 1, i) <= Used(s, 1, k)
  BY <1>5 DEF S
<1>8. Used(s, 1, j) <= j
  BY <1>6 DEF R
<1>9. ASSUME i < j, s[j] # 0 PROVE Used(s, 1, i) < Used(s, 1, j)
  <2>1. j - 1 \in Nat /\ j - 1 \in i .. j /\ (j - 1) + 1 = j
    BY <1>9
  <2>2. Used(s, 1, j) = Used(s, 1, j - 1) + 1
    BY <1>9, <2>1, UsedPrefix
  <2>3. Used(s, 1, i) \in Nat /\ Used(s, 1, j - 1) \in Nat
    BY <2>1, UsedPrefix
  <2> QED BY <1>7, <2>1, <2>2, <2>3
<1> QED BY <1>7, <1>8, <1>9

\* Every count up to the last is reached at a turn that is not skipped.
LEMMA UsedReaches ==
    ASSUME NEW s, NEW n \in Nat, NEW v \in 1 .. Used(s, 1, n)
    PROVE  \E k \in 1 .. n : s[k] # 0 /\ Used(s, 1, k) = v
<1> DEFINE S == {k \in 0 .. n : v <= Used(s, 1, k)}
<1>1. S \in SUBSET Nat /\ n \in S
  BY UsedPrefix
<1>2. PICK k \in S : \A y \in S : k <= y
  BY <1>1, LeastElement
<1>3. k \in 1 .. n /\ v <= Used(s, 1, k)
  BY <1>2, UsedPrefix
<1>4. k - 1 \in Nat /\ (k - 1) + 1 = k /\ ~(v <= Used(s, 1, k - 1))
  BY <1>2, <1>3
<1>5. s[k] # 0 /\ Used(s, 1, k) = v
  <2>1. k \in Nat /\ Used(s, 1, k - 1) \in Nat /\ Used(s, 1, k) \in Nat
    <3>1. k \in Nat
      BY <1>3
    <3> QED BY <1>4, <3>1, UsedPrefix
  <2>2. s[k] # 0
    BY <1>3, <1>4, <2>1, UsedPrefix
  <2>3. Used(s, 1, k) = Used(s, 1, k - 1) + 1
    BY <1>4, <2>2, UsedPrefix
  <2> QED BY <1>3, <1>4, <2>1, <2>2, <2>3
<1> QED BY <1>3, <1>5

\* The count of the last turns is what the first ones leave of the whole.
LEMMA UsedSuffix ==
    ASSUME NEW s, NEW n \in Nat, NEW k \in 1 .. n + 1
    PROVE  Used(s, k, n) = Used(s, 1, n) - Used(s, 1, k - 1)
<1> DEFINE S == {j \in 1 .. n + 1 : Used(s, j, n) = Used(s, 1, n) - Used(s, 1, j - 1)}
<1>1. 1 \in S
  <2>1. Used(s, 1, n) \in Nat /\ Used(s, 1, 0) = 0
    BY UsedPrefix
  <2> QED BY <2>1
<1>2. ASSUME NEW j \in 1 .. (n + 1) - 1, j \in S PROVE j + 1 \in S
  <2>1. j \in Nat /\ n \in Int /\ j <= n /\ j - 1 \in Nat /\ (j - 1) + 1 = j
    OBVIOUS
  <2>2. /\ Used(s, j, n) \in Nat /\ Used(s, j + 1, n) \in Nat /\ Used(s, 1, n) \in Nat
        /\ Used(s, j, n) = Used(s, j + 1, n) + IF s[j] # 0 THEN 1 ELSE 0
    <3>1. Used(s, j, n) \in Nat /\ Used(s, j, n) = Used(s, j + 1, n) + IF s[j] # 0 THEN 1 ELSE 0
      BY <2>1, UsedTurns
    <3>2. j + 1 \in Nat
      BY <2>1
    <3>3. Used(s, j + 1, n) \in Nat
      BY <2>1, <3>2, UsedTurns
    <3> QED BY <3>1, <3>3, UsedPrefix
  <2>3. /\ Used(s, 1, j - 1) \in Nat /\ Used(s, 1, j) \in Nat
        /\ s[j] # 0 => Used(s, 1, j) = Used(s, 1, j - 1) + 1
        /\ s[j] = 0 => Used(s, 1, j) = Used(s, 1, j - 1)
    BY <2>1, UsedPrefix
  <2>4. Used(s, j, n) = Used(s, 1, n) - Used(s, 1, j - 1)
    BY <1>2
  <2>5. Used(s, j + 1, n) = Used(s, 1, n) - Used(s, 1, j)
    BY <2>2, <2>3, <2>4
  <2> QED BY <2>1, <2>5
<1> HIDE DEF S
<1>3. \A j \in 1 .. n + 1 : j \in S
  BY <1>1, <1>2, IntervalInduction
<1> QED BY <1>3 DEF S

-----------------------------------------------------------------------------
(* The ring.                                                                *)

\* The register d places behind the head.
Ring(d) == free_list_entry[Wrap(head + d)]

\* The flag tells the empty ring from the full one.
RingExact == TypeOK /\ (isEmpty => head = Wrap(tail + 1))

\* The places of the ring behind the head are different, and what is freed comes
\* behind what is in it.
LEMMA RingPlaces ==
    ASSUME Sizes, RingExact
    PROVE  /\ free_reg_number \in 0 .. FREELIST_SIZE
           /\ \A d \in 0 .. FREELIST_SIZE - 1 : Wrap(head + d) \in FreeIndex
           /\ \A d, e \in 0 .. FREELIST_SIZE - 1 : Wrap(head + d) = Wrap(head + e) => d = e
           /\ \A v \in 1 .. FREELIST_SIZE - free_reg_number :
                 Wrap(tail + v) = Wrap(head + (free_reg_number + v - 1))
BY DEF Sizes, RingExact, TypeOK, free_reg_number, RingCount, Wrap, FreeIndex

\* What the retire loop leaves in the ring: the old registers, then the freed ones.
LEMMA RetireRing ==
    ASSUME Sizes, RingExact, NEW Told, Len(Told) \in Nat,
           free_reg_number + Used(Told, 1, Len(Told)) <= FREELIST_SIZE
    PROVE  /\ TailNext(Told) \in FreeIndex
           /\ CountAfterRetire(Told) = free_reg_number + Used(Told, 1, Len(Told))
           /\ \A d \in 0 .. free_reg_number - 1 :
                 EntryAfterRetire(Wrap(head + d), Told) = Ring(d)
           /\ \A j \in 1 .. Len(Told) : Told[j] # 0 =>
                 EntryAfterRetire(Wrap(head + (free_reg_number + Used(Told, 1, j) - 1)), Told)
                    = Told[j]
<1> DEFINE N == free_reg_number
           n == Len(Told)
           U(j) == Used(Told, 1, j)
<1>1. N \in 0 .. FREELIST_SIZE
  BY RingPlaces
<1>2. \A j \in 0 .. n : U(j) \in Nat
  BY UsedPrefix
<1>3. \A j \in 1 .. n : U(j) <= U(n) /\ (Told[j] # 0 => 1 <= U(j))
  <2> TAKE j \in 1 .. n
  <2>1. j \in Nat /\ n \in Nat /\ j <= n /\ 0 \in Nat /\ 0 < j
    OBVIOUS
  <2>2. U(0) = 0
    BY UsedPrefix
  <2>3. U(j) <= U(n)
    BY <2>1, UsedGrows
  <2>4. Told[j] # 0 => U(0) < U(j)
    BY <2>1, UsedGrows
  <2> QED BY <1>2, <2>2, <2>3, <2>4
<1>4. \A i, j \in 1 .. n : Told[i] # 0 /\ Told[j] # 0 /\ U(i) = U(j) => i = j
  <2>1. ASSUME NEW i \in 1 .. n, NEW j \in 1 .. n, i < j, Told[j] # 0 PROVE U(i) < U(j)
    <3>1. i \in Nat /\ j \in Nat /\ i <= j
      BY <2>1
    <3> QED BY <2>1, <3>1, UsedGrows
  <2>2. \A j \in 1 .. n : U(j) \in Nat
    BY <1>2
  <2> HIDE DEF U
  <2> QED BY <2>1, <2>2
<1>5. U(n) \in Nat /\ N + U(n) <= FREELIST_SIZE
  BY <1>2
<1>6. \A j \in 1 .. n : Told[j] # 0 =>
         /\ N + U(j) - 1 \in 0 .. FREELIST_SIZE - 1
         /\ Wrap(tail + U(j)) = Wrap(head + (N + U(j) - 1))
  <2> TAKE j \in 1 .. n
  <2> HAVE Told[j] # 0
  <2>1. U(j) \in 1 .. FREELIST_SIZE - N
    BY <1>1, <1>2, <1>3, <1>5 DEF Sizes
  <2> HIDE DEF N, U
  <2>2. Wrap(tail + U(j)) = Wrap(head + (N + U(j) - 1))
    BY <2>1, RingPlaces DEF N
  <2> QED BY <1>1, <2>1, <2>2 DEF Sizes
<1>7. ASSUME NEW d \in 0 .. N - 1
      PROVE  EntryAfterRetire(Wrap(head + d), Told) = Ring(d)
  <2>1. \A j \in 1 .. n : Told[j] # 0 => Wrap(head + d) # Wrap(tail + U(j))
    <3> TAKE j \in 1 .. n
    <3> HAVE Told[j] # 0
    <3>1. N + U(j) - 1 \in 0 .. FREELIST_SIZE - 1 /\ U(j) \in Nat /\ 1 <= U(j)
      BY <1>2, <1>3, <1>6
    <3> HIDE DEF N, U
    <3>2. d \in 0 .. FREELIST_SIZE - 1 /\ d # N + U(j) - 1
      BY <1>1, <3>1 DEF Sizes
    <3>3. Wrap(head + d) # Wrap(head + (N + U(j) - 1))
      BY <3>1, <3>2, RingPlaces
    <3> QED BY <1>6, <3>3
  <2> QED BY <2>1 DEF EntryAfterRetire, Ring
<1>8. ASSUME NEW j \in 1 .. n, Told[j] # 0
      PROVE  EntryAfterRetire(Wrap(head + (N + U(j) - 1)), Told) = Told[j]
  <2> DEFINE at == {k \in 1 .. n : Told[k] # 0 /\
                       Wrap(head + (N + U(j) - 1)) = Wrap(tail + U(k))}
  <2>1. j \in at
    BY <1>6, <1>8
  <2>2. \A k \in at : k = j
    <3> TAKE k \in at
    <3>1. k \in 1 .. n /\ Told[k] # 0 /\ Wrap(head + (N + U(j) - 1)) = Wrap(tail + U(k))
      OBVIOUS
    <3>2. Wrap(head + (N + U(j) - 1)) = Wrap(head + (N + U(k) - 1))
      BY <1>6, <3>1
    <3>3. N + U(j) - 1 \in 0 .. FREELIST_SIZE - 1 /\ N + U(k) - 1 \in 0 .. FREELIST_SIZE - 1
      BY <1>6, <1>8, <3>1
    <3> HIDE DEF N, U
    <3>4. N + U(j) - 1 = N + U(k) - 1
      BY <3>2, <3>3, RingPlaces
    <3>5. U(j) = U(k)
      BY <1>1, <1>2, <3>1, <3>4
    <3> QED BY <1>4, <1>8, <3>1, <3>5
  <2>3. (CHOOSE k \in at : TRUE) = j
    BY <2>1, <2>2
  <2> QED BY <2>1, <2>3 DEF EntryAfterRetire
<1>9. /\ TailNext(Told) \in FreeIndex
      /\ CountAfterRetire(Told) = N + U(n)
  <2>1. U(n) \in 0 .. FREELIST_SIZE
    BY <1>1, <1>5 DEF Sizes
  <2> HIDE DEF U
  <2> QED BY <1>1, <1>5, <2>1
          DEF Sizes, RingExact, TypeOK, CountAfterRetire, EmptyAfterRetire, TailNext,
              free_reg_number, RingCount, Wrap, FreeIndex, U, N
<1> QED BY <1>7, <1>8, <1>9

\* The registers other than 0 in a group.
Registers(s) == {s[j] : j \in {k \in 1 .. Len(s) : s[k] # 0}}

\* No register occurs twice.
Different(s) == \A i, j \in 1 .. Len(s) : s[i] # 0 /\ s[i] = s[j] => i = j

\* No register is twice in the ring.
RingDistinct ==
    \A d, e \in 0 .. free_reg_number - 1 : Ring(d) = Ring(e) => d = e

\* The registers Told fit into the ring and are not in it.
CanFree(Told) ==
    /\ Len(Told) \in Nat
    /\ free_reg_number + Used(Told, 1, Len(Told)) <= FREELIST_SIZE
    /\ \A j \in 1 .. Len(Told) : Told[j] \in PhyReg
    /\ Different(Told)
    /\ Registers(Told) \cap FreeRegs = {}

\* A group of different registers has as many as the loop does not skip.
LEMMA RegistersCount ==
    ASSUME NEW s, Len(s) \in Nat, Different(s)
    PROVE  /\ IsFiniteSet(Registers(s))
           /\ Cardinality(Registers(s)) = Used(s, 1, Len(s))
<1> DEFINE K == {k \in 1 .. Len(s) : s[k] # 0}
<1>1. IsFiniteSet(K)
  <2>1. IsFiniteSet(1 .. Len(s)) /\ K \in SUBSET (1 .. Len(s))
    BY FS_Interval
  <2> QED BY <2>1, FS_Subset
<1>2. \A j, k \in K : s[j] = s[k] => j = k
  BY DEF Different
<1>3. Registers(s) = {s[k] : k \in K} /\ Used(s, 1, Len(s)) = Cardinality(K)
  BY DEF Registers, Used
<1> HIDE DEF K
<1> QED BY <1>1, <1>2, <1>3, ImageCount

\* The ring holds as many registers as it counts.
LEMMA FreeRegsCount ==
    ASSUME Sizes, RingExact, RingDistinct
    PROVE  /\ FreeRegs \subseteq PhyReg
           /\ IsFiniteSet(FreeRegs)
           /\ Cardinality(FreeRegs) = free_reg_number
<1>1. PICK N \in 0 .. FREELIST_SIZE : N = free_reg_number
  BY RingPlaces
<1> DEFINE S == 0 .. N - 1
           f == [d \in S |-> Ring(d)]
<1>2. IsFiniteSet(S) /\ Cardinality(S) = N
  BY FS_Interval DEF Sizes
<1>3. \A d, e \in S : f[d] = f[e] => d = e
  BY <1>1 DEF RingDistinct
<1>4. FreeRegs = {f[d] : d \in S}
  BY <1>1 DEF FreeRegs, Ring
<1>5. \A d \in S : f[d] \in PhyReg
  <2> TAKE d \in S
  <2>1. Wrap(head + d) \in FreeIndex
    BY <1>1, RingPlaces DEF Sizes
  <2> QED BY <2>1 DEF Ring, RingExact, TypeOK
<1> HIDE DEF f, S
<1>6. /\ IsFiniteSet({f[d] : d \in S})
      /\ Cardinality({f[d] : d \in S}) = Cardinality(S)
  BY <1>2, <1>3, ImageCount
<1> QED BY <1>1, <1>2, <1>4, <1>5, <1>6

\* After reset the ring is full, with the registers that the map table does not use.
LEMMA InitList ==
    ASSUME Sizes, Init
    PROVE  /\ RingExact /\ RingDistinct
           /\ FreeRegs = ARCH_REG_SIZE .. ARCH_REG_SIZE + FREELIST_SIZE - 1
<1>1. /\ head = 0 /\ tail = FREELIST_SIZE - 1 /\ isEmpty = FALSE
      /\ free_list_entry = [i \in FreeIndex |-> i + ARCH_REG_SIZE]
  BY DEF Init
<1>2. free_reg_number = FREELIST_SIZE
  BY <1>1 DEF Sizes, free_reg_number, RingCount
<1>3. \A d \in 0 .. FREELIST_SIZE - 1 : Ring(d) = d + ARCH_REG_SIZE
  BY <1>1 DEF Sizes, Ring, Wrap, FreeIndex
<1>4. RingExact
  <2>1. \A i \in FreeIndex : i + ARCH_REG_SIZE \in PhyReg
    BY DEF Sizes, FreeIndex, PhyReg
  <2>2. free_list_entry \in [FreeIndex -> PhyReg]
    BY <1>1, <2>1
  <2>3. 0 \in FreeIndex /\ FREELIST_SIZE - 1 \in FreeIndex
    BY DEF Sizes, FreeIndex
  <2> QED BY <1>1, <2>2, <2>3 DEF RingExact, TypeOK
<1>5. RingDistinct
  <2>1. \A d, e \in 0 .. FREELIST_SIZE - 1 : d + ARCH_REG_SIZE = e + ARCH_REG_SIZE => d = e
    BY DEF Sizes
  <2> QED BY <1>2, <1>3, <2>1 DEF RingDistinct
<1>6. FreeRegs = {d + ARCH_REG_SIZE : d \in 0 .. FREELIST_SIZE - 1}
  BY <1>2, <1>3 DEF FreeRegs, Ring
<1>7. ASSUME NEW p \in ARCH_REG_SIZE .. ARCH_REG_SIZE + FREELIST_SIZE - 1
      PROVE  p \in {d + ARCH_REG_SIZE : d \in 0 .. FREELIST_SIZE - 1}
  <2>1. p - ARCH_REG_SIZE \in 0 .. FREELIST_SIZE - 1 /\ (p - ARCH_REG_SIZE) + ARCH_REG_SIZE = p
    BY DEF Sizes
  <2> QED BY <2>1
<1>8. \A d \in 0 .. FREELIST_SIZE - 1 :
         d + ARCH_REG_SIZE \in ARCH_REG_SIZE .. ARCH_REG_SIZE + FREELIST_SIZE - 1
  BY DEF Sizes
<1> QED BY <1>4, <1>5, <1>6, <1>7, <1>8

\* After the retire loop the ring has the old registers and the freed ones, in
\* different places.
LEMMA RetireList ==
    ASSUME Sizes, RingExact, RingDistinct, NEW Told, CanFree(Told)
    PROVE  LET total == free_reg_number + Used(Told, 1, Len(Told))
               A(p) == EntryAfterRetire(Wrap(head + p), Told)
           IN  /\ total \in 0 .. FREELIST_SIZE
               /\ CountAfterRetire(Told) = total
               /\ \A i \in FreeIndex : EntryAfterRetire(i, Told) \in PhyReg
               /\ \A p \in 0 .. free_reg_number - 1 : A(p) = Ring(p)
               /\ \A p, q \in 0 .. total - 1 : A(p) = A(q) => p = q
               /\ {A(p) : p \in 0 .. total - 1} = FreeRegs \cup Registers(Told)
<1> DEFINE N == free_reg_number
           U(j) == Used(Told, 1, j)
           n == Len(Told)
           A(p) == EntryAfterRetire(Wrap(head + p), Told)
           total == N + U(n)
<1>1. /\ CountAfterRetire(Told) = total
      /\ \A p \in 0 .. N - 1 : A(p) = Ring(p)
      /\ \A j \in 1 .. n : Told[j] # 0 => A(N + U(j) - 1) = Told[j]
  BY RetireRing DEF CanFree
<1>2. N \in 0 .. FREELIST_SIZE /\ n \in Nat /\ U(n) \in Nat /\ total \in 0 .. FREELIST_SIZE
  BY RingPlaces, UsedPrefix DEF CanFree, Sizes
<1>3. ASSUME NEW i \in FreeIndex PROVE EntryAfterRetire(i, Told) \in PhyReg
  BY DEF EntryAfterRetire, CanFree, RingExact, TypeOK
\* Each place is an old one, or that of a freed register.
<1>4. \A p \in 0 .. total - 1 :
         \/ p \in 0 .. N - 1
         \/ \E j \in 1 .. n : Told[j] # 0 /\ p = N + U(j) - 1
  <2> TAKE p \in 0 .. total - 1
  <2>1. CASE p < N
    BY <1>2, <2>1
  <2>2. CASE p >= N
    <3>1. p - N + 1 \in 1 .. U(n)
      BY <1>2, <2>2
    <3>2. PICK j \in 1 .. n : Told[j] # 0 /\ U(j) = p - N + 1
      BY <1>2, <3>1, UsedReaches
    <3> QED BY <1>2, <3>2
  <2> QED BY <1>2, <2>1, <2>2
<1>5. \A d \in 0 .. N - 1 : Ring(d) \in FreeRegs
  BY DEF Ring, FreeRegs
<1>6. \A j \in 1 .. n : Told[j] # 0 => Told[j] \in Registers(Told)
  BY DEF Registers
<1>7. ASSUME NEW p \in 0 .. total - 1, NEW q \in 0 .. total - 1, A(p) = A(q)
      PROVE  p = q
  <2> HIDE DEF A, N, U, n, total
  <2>1. CASE p \in 0 .. N - 1 /\ q \in 0 .. N - 1
    BY <1>1, <1>7, <2>1 DEF RingDistinct, N
  <2>2. CASE p \in 0 .. N - 1 /\ \E j \in 1 .. n : Told[j] # 0 /\ q = N + U(j) - 1
    BY <1>1, <1>5, <1>6, <1>7, <2>2 DEF CanFree
  <2>3. CASE q \in 0 .. N - 1 /\ \E j \in 1 .. n : Told[j] # 0 /\ p = N + U(j) - 1
    BY <1>1, <1>5, <1>6, <1>7, <2>3 DEF CanFree
  <2>4. CASE (\E j \in 1 .. n : Told[j] # 0 /\ p = N + U(j) - 1)
             /\ \E j \in 1 .. n : Told[j] # 0 /\ q = N + U(j) - 1
    <3>1. PICK i \in 1 .. n : Told[i] # 0 /\ p = N + U(i) - 1
      BY <2>4
    <3>2. PICK j \in 1 .. n : Told[j] # 0 /\ q = N + U(j) - 1
      BY <2>4
    <3>3. i = j
      BY <1>1, <1>7, <3>1, <3>2 DEF CanFree, Different, n
    <3> QED BY <3>1, <3>2, <3>3
  <2> QED BY <1>4, <2>1, <2>2, <2>3, <2>4
<1>8. {A(p) : p \in 0 .. total - 1} = FreeRegs \cup Registers(Told)
  <2> HIDE DEF A
  <2>1. ASSUME NEW p \in 0 .. total - 1 PROVE A(p) \in FreeRegs \cup Registers(Told)
    <3> HIDE DEF N, U, n, total
    <3> QED BY <1>1, <1>4, <1>5, <1>6
  <2>2. ASSUME NEW x \in FreeRegs PROVE x \in {A(p) : p \in 0 .. total - 1}
    <3>1. PICK d \in 0 .. N - 1 : x = Ring(d)
      BY DEF FreeRegs, Ring
    <3>2. d \in 0 .. total - 1 /\ A(d) = x
      BY <1>1, <1>2, <3>1
    <3> QED BY <3>2
  <2>3. ASSUME NEW x \in Registers(Told) PROVE x \in {A(p) : p \in 0 .. total - 1}
    <3>1. PICK j \in 1 .. n : Told[j] # 0 /\ x = Told[j]
      BY DEF Registers
    <3>2. N + U(j) - 1 \in 0 .. total - 1
      <4>1. j \in Nat /\ 0 \in Nat /\ j <= n /\ 0 < j
        BY <1>2
      <4>2. U(0) = 0 /\ U(j) \in Nat
        BY <4>1, UsedPrefix
      <4>3. U(0) < U(j) /\ U(j) <= U(n)
        BY <1>2, <3>1, <4>1, UsedGrows
      <4> HIDE DEF N, U
      <4> QED BY <1>2, <4>2, <4>3
    <3>3. A(N + U(j) - 1) = x
      BY <1>1, <3>1
    <3> HIDE DEF N, U
    <3> QED BY <3>2, <3>3
  <2> HIDE DEF total
  <2> QED BY <2>1, <2>2, <2>3
<1> QED BY <1>1, <1>2, <1>3, <1>7, <1>8

-----------------------------------------------------------------------------
(* The list after a clock cycle.                                            *)

\* The registers that a dispatch group gets.
Given(Told, dests) ==
    {dispatch_free_reg(k, Told, dests) : k \in {j \in 1 .. Len(dests) : dests[j] # 0}}

\* A dispatch group gets registers of the ring, each its own, and nothing for
\* register 0; the ring loses them and gains the freed ones.
LEMMA DispatchList ==
    ASSUME Sizes, RingExact, RingDistinct, NEW Told, CanFree(Told),
           NEW dests, Len(dests) \in Nat, Len(dests) <= free_reg_number,
           Cycle(Told, <<>>, dests)
    PROVE  LET tag(k) == dispatch_free_reg(k, Told, dests)
               asking == {k \in 1 .. Len(dests) : dests[k] # 0}
           IN  /\ RingExact' /\ RingDistinct'
               /\ \A k \in 1 .. Len(dests) : dests[k] = 0 => tag(k) = 0
               /\ \A k \in asking : tag(k) \in FreeRegs
               /\ \A j, k \in asking : tag(j) = tag(k) => j = k
               /\ FreeRegs' = (FreeRegs \cup Registers(Told)) \ Given(Told, dests)
<1> DEFINE N == free_reg_number
           A(p) == EntryAfterRetire(Wrap(head + p), Told)
           total == N + Used(Told, 1, Len(Told))
           len == Len(dests)
           V(k) == Used(dests, 1, k)
           asking == {k \in 1 .. len : dests[k] # 0}
           tag(k) == dispatch_free_reg(k, Told, dests)
<1>1. /\ total \in 0 .. FREELIST_SIZE
      /\ CountAfterRetire(Told) = total
      /\ \A i \in FreeIndex : EntryAfterRetire(i, Told) \in PhyReg
      /\ \A p \in 0 .. N - 1 : A(p) = Ring(p)
      /\ \A p, q \in 0 .. total - 1 : A(p) = A(q) => p = q
      /\ {A(p) : p \in 0 .. total - 1} = FreeRegs \cup Registers(Told)
  BY RetireList
<1>2. /\ N \in 0 .. FREELIST_SIZE /\ len \in Nat /\ V(len) \in Nat
      /\ V(len) <= N /\ N <= total
  <2>1. N \in 0 .. FREELIST_SIZE /\ len \in Nat /\ V(len) \in Nat
        /\ Used(Told, 1, Len(Told)) \in Nat
    BY RingPlaces, UsedPrefix DEF CanFree, Sizes
  <2>2. V(len) <= len
    BY <2>1, UsedGrows
  <2> QED BY <2>1, <2>2
\* The k-th instruction pops the place that counts the destinations up to it.
<1>3. ASSUME NEW k \in asking
      PROVE  /\ V(k) - 1 \in 0 .. V(len) - 1
             /\ tag(k) = A(V(k) - 1)
  <2>1. k \in Nat /\ k <= len /\ k - 1 \in Nat /\ (k - 1) + 1 = k /\ dests[k] # 0
    BY <1>2
  <2>2. V(k) \in Nat /\ V(k - 1) \in Nat /\ V(k) = V(k - 1) + 1
    <3>1. V(k) \in Nat
      BY <2>1, UsedPrefix
    <3>2. V(k - 1) \in Nat
      BY <2>1, UsedPrefix
    <3>3. PICK j \in Nat : j = k - 1
      BY <2>1
    <3>4. j + 1 = k /\ dests[j + 1] # 0
      BY <2>1, <3>3
    <3>5. V(j + 1) = V(j) + 1
      BY <3>4, UsedPrefix
    <3> QED BY <3>1, <3>2, <3>3, <3>4, <3>5
  <2>3. V(k) <= V(len)
    BY <1>2, <2>1, UsedGrows
  <2>4. V(k) <= CountAfterRetire(Told)
    BY <1>1, <1>2, <2>2, <2>3
  <2>5. tag(k) = EntryAfterRetire(Wrap(head + V(k - 1)), Told)
    BY <2>1, <2>4 DEF dispatch_free_reg
  <2> HIDE DEF V, tag
  <2> QED BY <1>2, <2>2, <2>3, <2>5
<1>4. \A j, k \in asking : V(j) = V(k) => j = k
  <2>1. ASSUME NEW i \in asking, NEW j \in asking, i < j PROVE V(i) < V(j)
    <3>1. i \in Nat /\ j \in Nat /\ i <= j /\ dests[j] # 0
      BY <2>1
    <3> QED BY <2>1, <3>1, UsedGrows
  <2>2. \A k \in asking : V(k) \in Nat
    <3> TAKE k \in asking
    <3>1. k \in Nat
      OBVIOUS
    <3> QED BY <3>1, UsedPrefix
  <2> HIDE DEF V
  <2> QED BY <2>1, <2>2
<1>5. \A k \in 1 .. len : dests[k] = 0 => tag(k) = 0
  BY DEF dispatch_free_reg
<1>6. \A k \in asking : tag(k) \in FreeRegs
  <2> TAKE k \in asking
  <2>1. V(k) - 1 \in 0 .. N - 1 /\ tag(k) = A(V(k) - 1)
    <3> HIDE DEF V, tag, A
    <3> QED BY <1>2, <1>3
  <2>2. A(V(k) - 1) = Ring(V(k) - 1)
    BY <1>1, <2>1
  <2> HIDE DEF V, tag, A
  <2> QED BY <2>1, <2>2 DEF FreeRegs, Ring
<1>7. \A j, k \in asking : tag(j) = tag(k) => j = k
  <2> TAKE j, k \in asking
  <2> HAVE tag(j) = tag(k)
  <2> HIDE DEF V, tag, A, total, N
  <2>1. V(j) - 1 \in 0 .. total - 1 /\ V(k) - 1 \in 0 .. total - 1
    BY <1>1, <1>2, <1>3
  <2>2. V(j) - 1 = V(k) - 1
    BY <1>1, <1>3, <2>1
  <2>3. V(j) = V(k)
    <3>1. V(j) \in Int /\ V(k) \in Int
      <4>1. j \in Nat /\ k \in Nat
        OBVIOUS
      <4> QED BY <4>1, UsedPrefix DEF V
    <3> QED BY <2>2, <3>1
  <2> QED BY <1>4, <2>3
\* The ring after the cycle.
<1>8. /\ tail' = TailNext(Told) /\ TailNext(Told) \in FreeIndex
      /\ head' = Wrap(head + V(len))
      /\ free_list_entry' = [i \in FreeIndex |-> EntryAfterRetire(i, Told)]
      /\ isEmpty' = (V(len) = total)
  <2>1. Popped(Told, dests) = V(len)
    BY <1>1, <1>2 DEF Popped
  <2> QED BY <1>1, <2>1, RetireRing DEF Cycle, Dispatch, CanFree
<1>9. /\ head' \in FreeIndex /\ isEmpty' \in BOOLEAN
      /\ free_reg_number' = total - V(len)
      /\ isEmpty' => head' = Wrap(tail' + 1)
  <2>1. TailNext(Told) = Wrap(tail + Used(Told, 1, Len(Told)))
    BY DEF TailNext
  <2>2. Used(Told, 1, Len(Told)) \in Nat
    BY UsedPrefix DEF CanFree
  <2>3. PICK v \in Nat : v = V(len)
    BY <1>2
  <2>4. PICK u \in Nat : u = Used(Told, 1, Len(Told))
    BY <2>2
  <2>5. /\ head' = Wrap(head + v) /\ tail' = Wrap(tail + u)
        /\ isEmpty' = (v = free_reg_number + u)
    BY <1>8, <2>1, <2>3, <2>4
  <2>6. v <= free_reg_number /\ free_reg_number + u <= FREELIST_SIZE
    BY <1>1, <1>2, <2>3, <2>4
  <2>7. /\ head' \in FreeIndex /\ isEmpty' \in BOOLEAN
        /\ free_reg_number' = free_reg_number + u - v
        /\ isEmpty' => head' = Wrap(tail' + 1)
    <3>1. /\ head \in FreeIndex /\ tail \in FreeIndex /\ FREELIST_SIZE \in Nat \ {0}
          /\ isEmpty \in BOOLEAN
      BY DEF RingExact, TypeOK, Sizes
    <3>2. /\ free_reg_number \in 0 .. FREELIST_SIZE
          /\ \/ tail + 1 = head + free_reg_number
             \/ tail + 1 = head + free_reg_number - FREELIST_SIZE
             \/ tail + 1 = head + free_reg_number + FREELIST_SIZE
      BY <3>1 DEF RingExact, free_reg_number, RingCount, Wrap, FreeIndex
    <3>3. head' \in FreeIndex /\ tail' \in FreeIndex /\ isEmpty' \in BOOLEAN
      BY <2>5, <2>6, <3>1, <3>2 DEF Wrap, FreeIndex
    <3>4. PICK c \in 0 .. FREELIST_SIZE : c = free_reg_number
      BY <3>2
    <3>5. CASE isEmpty'
      <4>1. free_reg_number' = 0 /\ v = c + u
        BY <2>5, <3>4, <3>5 DEF free_reg_number, RingCount
      <4>2. head' = Wrap(tail' + 1)
        BY <2>5, <2>6, <3>1, <3>2, <3>4, <4>1 DEF Wrap, FreeIndex
      <4> QED BY <3>3, <3>4, <4>1, <4>2
    <3>6. CASE ~isEmpty'
      <4>0. v # c + u
        BY <2>5, <3>4, <3>6
      <4>1. v < c + u
        BY <2>6, <3>4, <4>0
      <4>2. free_reg_number' =
              IF tail' >= head' THEN tail' - head' + 1 ELSE tail' + FREELIST_SIZE - head' + 1
        BY <3>6 DEF free_reg_number, RingCount
      <4>3. free_reg_number' = c + u - v
        BY <2>5, <2>6, <3>1, <3>2, <3>3, <3>4, <4>1, <4>2 DEF Wrap, FreeIndex
      <4> QED BY <3>3, <3>4, <3>6, <4>3
    <3> QED BY <3>3, <3>5, <3>6
  <2>8. free_reg_number + u - v = total - V(len)
    <3>1. PICK c \in Nat : c = free_reg_number
      BY <1>2
    <3>2. total = c + u
      BY <2>4, <3>1
    <3>3. c + u - v = (c + u) - v
      OBVIOUS
    <3> HIDE DEF V, total
    <3> QED BY <2>3, <3>1, <3>2, <3>3
  <2> HIDE DEF V, total
  <2> QED BY <2>7, <2>8
<1>10. ASSUME NEW d \in 0 .. (total - V(len)) - 1
       PROVE  /\ V(len) + d \in 0 .. total - 1
              /\ Ring(d)' = A(V(len) + d)
  <2>1. V(len) + d \in 0 .. total - 1
    <3> HIDE DEF V, total
    <3> QED BY <1>1, <1>2
  <2>2. Wrap(head' + d) = Wrap(head + (V(len) + d)) /\ Wrap(head + (V(len) + d)) \in FreeIndex
    <3>1. PICK v \in Nat : v = V(len)
      BY <1>2
    <3>2. v + d \in 0 .. FREELIST_SIZE - 1 /\ v <= FREELIST_SIZE
      BY <1>1, <1>2, <2>1, <3>1 DEF Sizes
    <3>3. head' = Wrap(head + v)
      BY <1>8, <3>1
    <3>4. head \in FreeIndex
      BY DEF RingExact, TypeOK
    <3>5. Wrap(head' + d) = Wrap(head + (v + d)) /\ Wrap(head + (v + d)) \in FreeIndex
      <4> HIDE DEF V, total
      <4> QED BY <3>2, <3>3, <3>4 DEF Sizes, Wrap, FreeIndex
    <3> QED BY <3>1, <3>5
  <2> QED BY <1>8, <2>1, <2>2 DEF Ring
<1> HIDE DEF A, V, total, N, tag
<1>11. RingExact'
  BY <1>1, <1>8, <1>9 DEF RingExact, TypeOK, Wrap
<1>12. RingDistinct'
  <2>1. ASSUME NEW d \in 0 .. (total - V(len)) - 1, NEW e \in 0 .. (total - V(len)) - 1,
               Ring(d)' = Ring(e)'
        PROVE  d = e
    <3>1. V(len) + d = V(len) + e
      BY <1>1, <1>10, <2>1
    <3> QED BY <1>2, <3>1
  <2> QED BY <1>9, <2>1 DEF RingDistinct
<1>13. FreeRegs' = {A(p) : p \in V(len) .. total - 1}
  <2>1. FreeRegs' = {Ring(d)' : d \in 0 .. (total - V(len)) - 1}
    BY <1>9 DEF FreeRegs, Ring
  <2>2. ASSUME NEW p \in V(len) .. total - 1
        PROVE  p - V(len) \in 0 .. (total - V(len)) - 1 /\ Ring(p - V(len))' = A(p)
    <3>1. PICK d : d = p - V(len)
      OBVIOUS
    <3>2. d \in 0 .. (total - V(len)) - 1 /\ V(len) + d = p
      BY <1>1, <1>2, <3>1
    <3>3. Ring(d)' = A(p)
      BY <1>10, <3>2
    <3> QED BY <3>1, <3>2, <3>3
  <2>3. ASSUME NEW d \in 0 .. (total - V(len)) - 1
        PROVE  V(len) + d \in V(len) .. total - 1
    BY <1>1, <1>2
  <2> QED BY <1>10, <2>1, <2>2, <2>3
<1>14. {tag(k) : k \in asking} = {A(p) : p \in 0 .. V(len) - 1}
  <2>1. ASSUME NEW p \in 0 .. V(len) - 1 PROVE \E k \in asking : tag(k) = A(p)
    <3>1. p + 1 \in 1 .. V(len)
      BY <1>2
    <3>2. PICK k \in 1 .. len : dests[k] # 0 /\ V(k) = p + 1
      BY <1>2, <3>1, UsedReaches DEF V
    <3>3. V(k) - 1 = p
      BY <3>2
    <3> QED BY <1>3, <3>2, <3>3
  <2> QED BY <1>3, <2>1
<1>15. FreeRegs' = (FreeRegs \cup Registers(Told)) \ {tag(k) : k \in asking}
  <2>1. \A p \in 0 .. total - 1 : p \in V(len) .. total - 1 <=> ~(p \in 0 .. V(len) - 1)
    BY <1>1, <1>2
  <2>2. V(len) .. total - 1 \subseteq 0 .. total - 1 /\ 0 .. V(len) - 1 \subseteq 0 .. total - 1
    BY <1>1, <1>2
  <2>3. \A p, q \in 0 .. total - 1 : A(p) = A(q) => p = q
    BY <1>1
  <2>4. {A(p) : p \in V(len) .. total - 1} =
           {A(p) : p \in 0 .. total - 1} \ {A(p) : p \in 0 .. V(len) - 1}
    BY <2>1, <2>2, <2>3
  <2> QED BY <1>1, <1>13, <1>14, <2>4
<1>16. FreeRegs' = (FreeRegs \cup Registers(Told)) \ Given(Told, dests)
  BY <1>15 DEF Given, tag, asking
<1> QED BY <1>5, <1>6, <1>7, <1>11, <1>12, <1>16 DEF tag

\* The rewind pushes every register back, each to a place of its own in front
\* of the head, and keeps what the retirement of the same cycle pushed.
LEMMA RewindList ==
    ASSUME Sizes, RingExact, RingDistinct, NEW Told, CanFree(Told),
           NEW reg_T, reg_T # <<>>, Len(reg_T) \in Nat,
           \A k \in 1 .. Len(reg_T) : reg_T[k] \in PhyReg,
           Different(reg_T),
           Registers(reg_T) \cap (FreeRegs \cup Registers(Told)) = {},
           free_reg_number + (Used(Told, 1, Len(Told)) + Used(reg_T, 1, Len(reg_T)))
              <= FREELIST_SIZE,
           NEW dests, Cycle(Told, reg_T, dests)
    PROVE  /\ RingExact' /\ RingDistinct'
           /\ FreeRegs' = FreeRegs \cup Registers(Told) \cup Registers(reg_T)
<1> DEFINE N == free_reg_number
           A(p) == EntryAfterRetire(Wrap(head + p), Told)
           U == Used(Told, 1, Len(Told))
           total == N + U
           len == Len(reg_T)
           V(k) == Used(reg_T, 1, k)
           at(i) == {k \in 1 .. len : reg_T[k] # 0 /\ i = Back(head, Used(reg_T, k, len))}
<1>1. /\ total \in 0 .. FREELIST_SIZE
      /\ CountAfterRetire(Told) = total
      /\ \A i \in FreeIndex : EntryAfterRetire(i, Told) \in PhyReg
      /\ \A p, q \in 0 .. total - 1 : A(p) = A(q) => p = q
      /\ {A(p) : p \in 0 .. total - 1} = FreeRegs \cup Registers(Told)
  BY RetireList
<1>2. /\ N \in Nat /\ U \in Nat /\ V(len) \in Nat /\ total + V(len) <= FREELIST_SIZE
  <2>1. N \in Nat /\ U \in Nat
    BY RingPlaces, UsedPrefix DEF CanFree, Sizes
  <2>2. V(len) \in Nat
    BY UsedPrefix
  <2>3. N + (U + V(len)) <= FREELIST_SIZE /\ FREELIST_SIZE \in Nat
    BY DEF Sizes
  <2> HIDE DEF N, U, V
  <2> QED BY <2>1, <2>2, <2>3
<1>3. /\ tail' = TailNext(Told) /\ TailNext(Told) \in FreeIndex
      /\ head' = Back(head, V(len))
      /\ free_list_entry' = [i \in FreeIndex |->
            IF at(i) = {} THEN EntryAfterRetire(i, Told)
            ELSE reg_T[CHOOSE k \in at(i) : TRUE]]
      /\ isEmpty' = (isEmpty /\ U = 0 /\ V(len) = 0)
  <2>1. TailNext(Told) \in FreeIndex
    BY RetireRing DEF CanFree
  <2> QED BY <2>1 DEF Cycle, Rewind, EmptyAfterRetire
\* The k-th of the registers goes to the place that counts those up to it.
<1>4. ASSUME NEW k \in 1 .. len, reg_T[k] # 0
      PROVE  /\ V(k) - 1 \in 0 .. V(len) - 1
             /\ V(k) \in Nat
             /\ Used(reg_T, k, len) = V(len) - (V(k) - 1)
  <2>1. k \in Nat /\ k <= len /\ k - 1 \in Nat /\ (k - 1) + 1 = k /\ k \in 1 .. len + 1
    OBVIOUS
  <2>2. V(k) \in Nat /\ V(k - 1) \in Nat /\ V(k) = V(k - 1) + 1
    <3>1. V(k) \in Nat
      BY <2>1, UsedPrefix
    <3>2. V(k - 1) \in Nat
      BY <2>1, UsedPrefix
    <3>3. PICK j \in Nat : j = k - 1
      BY <2>1
    <3>4. j + 1 = k /\ reg_T[j + 1] # 0
      BY <1>4, <2>1, <3>3
    <3>5. V(j + 1) = V(j) + 1
      BY <3>4, UsedPrefix
    <3> QED BY <3>1, <3>2, <3>3, <3>4, <3>5
  <2>3. V(k) <= V(len)
    BY <2>1, UsedGrows
  <2>4. Used(reg_T, k, len) = V(len) - V(k - 1)
    BY <2>1, UsedSuffix
  <2> HIDE DEF V
  <2> QED BY <1>2, <2>2, <2>3, <2>4
<1>5. \A j, k \in 1 .. len : reg_T[j] # 0 /\ reg_T[k] # 0 /\ V(j) = V(k) => j = k
  <2>1. ASSUME NEW i \in 1 .. len, NEW j \in 1 .. len, i < j, reg_T[j] # 0
        PROVE  V(i) < V(j)
    <3>1. i \in Nat /\ j \in Nat /\ i <= j
      BY <2>1
    <3> QED BY <2>1, <3>1, UsedGrows
  <2>2. \A k \in 1 .. len : V(k) \in Nat
    <3> TAKE k \in 1 .. len
    <3>1. k \in Nat
      OBVIOUS
    <3> QED BY <3>1, UsedPrefix
  <2> HIDE DEF V
  <2> QED BY <2>1, <2>2
\* Places of the new ring: first the registers pushed back, then the old ring.
<1>6. PICK v \in Nat : v = V(len)
  BY <1>2
<1>7. PICK t \in Nat : t = total
  BY <1>1
<1>8. /\ head \in FreeIndex /\ FREELIST_SIZE \in Nat \ {0} /\ t + v <= FREELIST_SIZE
      /\ head' = Back(head, v)
  <2> HIDE DEF V, total
  <2> QED BY <1>2, <1>3, <1>6, <1>7 DEF RingExact, TypeOK, Sizes
<1>9. /\ head' \in FreeIndex
      /\ \A p \in 0 .. v - 1 : /\ Wrap(head' + p) = Back(head, v - p)
                               /\ Wrap(head' + p) \in FreeIndex
      /\ \A d \in 0 .. t - 1 : /\ Wrap(head' + (v + d)) = Wrap(head + d)
                               /\ Wrap(head + d) \in FreeIndex
      /\ \A d \in 0 .. t - 1, x \in 1 .. v : Wrap(head + d) # Back(head, x)
      /\ \A x, y \in 1 .. v : Back(head, x) = Back(head, y) => x = y
  BY <1>8 DEF Wrap, Back, FreeIndex
<1>10. ASSUME NEW d \in 0 .. t - 1 PROVE Ring(v + d)' = A(d)
  <2>1. ASSUME NEW k \in at(Wrap(head + d)) PROVE FALSE
    <3>1. k \in 1 .. len /\ reg_T[k] # 0 /\ Wrap(head + d) = Back(head, Used(reg_T, k, len))
      OBVIOUS
    <3>2. Used(reg_T, k, len) \in 1 .. v
      <4>1. /\ V(k) - 1 \in 0 .. v - 1 /\ V(k) \in Nat
            /\ Used(reg_T, k, len) = v - (V(k) - 1)
        BY <1>4, <1>6, <3>1
      <4>2. PICK w \in Nat : w = V(k)
        BY <4>1
      <4>3. w - 1 \in 0 .. v - 1 /\ Used(reg_T, k, len) = v - (w - 1)
        BY <4>1, <4>2
      <4>4. v - (w - 1) \in 1 .. v
        BY <4>3
      <4> QED BY <4>3, <4>4
    <3> QED BY <1>9, <3>1, <3>2
  <2>2. at(Wrap(head + d)) = {}
    BY <2>1
  <2> HIDE DEF at
  <2> QED BY <1>3, <1>9, <2>2 DEF Ring
<1>11. ASSUME NEW k \in 1 .. len, reg_T[k] # 0 PROVE Ring(V(k) - 1)' = reg_T[k]
  <2>1. V(k) - 1 \in 0 .. v - 1 /\ V(k) \in Nat
        /\ Used(reg_T, k, len) = v - (V(k) - 1)
    BY <1>4, <1>6, <1>11
  <2>2. PICK p \in 0 .. v - 1 : p = V(k) - 1
    BY <2>1
  <2>3. Wrap(head' + p) = Back(head, Used(reg_T, k, len)) /\ Wrap(head' + p) \in FreeIndex
    BY <1>9, <2>1, <2>2
  <2>4. k \in at(Wrap(head' + p))
    BY <1>11, <2>3
  <2>5. ASSUME NEW j \in at(Wrap(head' + p)) PROVE j = k
    <3>1. /\ j \in 1 .. len /\ reg_T[j] # 0
          /\ Back(head, Used(reg_T, k, len)) = Back(head, Used(reg_T, j, len))
      BY <2>3
    <3>2. V(j) - 1 \in 0 .. v - 1 /\ V(j) \in Nat
          /\ Used(reg_T, j, len) = v - (V(j) - 1)
      BY <1>4, <1>6, <3>1
    <3>3. PICK x \in Nat : x = V(j)
      BY <3>2
    <3>4. PICK y \in Nat : y = V(k)
      BY <2>1
    <3>5. x - 1 \in 0 .. v - 1 /\ y - 1 \in 0 .. v - 1
          /\ Back(head, v - (y - 1)) = Back(head, v - (x - 1))
      BY <2>1, <3>1, <3>2, <3>3, <3>4
    <3>6. v - (y - 1) \in 1 .. v /\ v - (x - 1) \in 1 .. v
      BY <3>5
    <3>7. v - (y - 1) = v - (x - 1)
      BY <1>9, <3>5, <3>6
    <3>8. x = y
      BY <3>7
    <3> QED BY <1>5, <1>11, <3>1, <3>3, <3>4, <3>8
  <2>6. (CHOOSE j \in at(Wrap(head' + p)) : TRUE) = k
    BY <2>4, <2>5
  <2> HIDE DEF at
  <2>7. free_list_entry'[Wrap(head' + p)] = reg_T[k]
    BY <1>3, <2>3, <2>4, <2>6
  <2> QED BY <2>2, <2>7 DEF Ring
<1>12. \A p \in 0 .. v - 1 : \E k \in 1 .. len : reg_T[k] # 0 /\ p = V(k) - 1
  <2> TAKE p \in 0 .. v - 1
  <2>1. p + 1 \in 1 .. V(len)
    BY <1>6
  <2>2. PICK k \in 1 .. len : reg_T[k] # 0 /\ V(k) = p + 1
    BY <2>1, UsedReaches
  <2>3. p = V(k) - 1
    BY <2>2
  <2> QED BY <2>2, <2>3
<1>13. /\ free_reg_number' = t + v
       /\ isEmpty' \in BOOLEAN
       /\ isEmpty' => head' = Wrap(tail' + 1)
  <2>1. PICK u \in Nat : u = U
    BY <1>2
  <2>2. PICK c \in Nat : c = free_reg_number
    BY <1>2
  <2>3. t = c + u
    BY <1>7, <2>1, <2>2
  <2>4. /\ tail' = Wrap(tail + u) /\ isEmpty' = (isEmpty /\ u = 0 /\ v = 0)
        /\ tail \in FreeIndex /\ isEmpty \in BOOLEAN
        /\ tail' \in FreeIndex
    <3>1. tail' = Wrap(tail + u)
      BY <1>3, <2>1 DEF TailNext
    <3>2. isEmpty' = (isEmpty /\ u = 0 /\ v = 0)
      BY <1>3, <1>6, <2>1
    <3> QED BY <1>3, <3>1, <3>2 DEF RingExact, TypeOK
  <2>5. /\ \/ tail + 1 = head + c
           \/ tail + 1 = head + c - FREELIST_SIZE
           \/ tail + 1 = head + c + FREELIST_SIZE
        /\ isEmpty => c = 0 /\ head = Wrap(tail + 1)
        /\ c = 0 => isEmpty
    BY <1>8, <2>2, <2>4 DEF RingExact, free_reg_number, RingCount, Wrap, FreeIndex
  <2>6. CASE isEmpty'
    <3>1. head' = head /\ tail' = tail /\ t = 0 /\ v = 0 /\ head = Wrap(tail + 1)
      <4>1. v = 0 /\ u = 0 /\ c = 0 /\ head = Wrap(tail + 1)
        BY <2>4, <2>5, <2>6
      <4>2. head' = head /\ tail' = tail
        BY <1>8, <2>4, <4>1 DEF Back, Wrap, FreeIndex
      <4> QED BY <2>3, <4>1, <4>2
    <3>2. free_reg_number' = 0
      BY <2>6 DEF free_reg_number, RingCount
    <3> QED BY <2>6, <3>1, <3>2
  <2>7. CASE ~isEmpty'
    <3>1. free_reg_number' =
            IF tail' >= head' THEN tail' - head' + 1 ELSE tail' + FREELIST_SIZE - head' + 1
      BY <2>7 DEF free_reg_number, RingCount
    <3>2. t + v > 0
      BY <2>3, <2>4, <2>5, <2>7
    <3>3. free_reg_number' = t + v
      BY <1>8, <1>9, <2>3, <2>4, <2>5, <3>1, <3>2 DEF Back, Wrap, FreeIndex
    <3> QED BY <2>4, <2>7, <3>3
  <2> QED BY <2>6, <2>7
<1>14. RingExact'
  <2>1. ASSUME NEW i \in FreeIndex PROVE free_list_entry'[i] \in PhyReg
    <3>1. CASE at(i) = {}
      BY <1>1, <1>3, <3>1
    <3>2. CASE at(i) # {}
      <4>1. (CHOOSE k \in at(i) : TRUE) \in 1 .. len
        BY <3>2
      <4> HIDE DEF at
      <4> QED BY <1>3, <3>2, <4>1
    <3> QED BY <3>1, <3>2
  <2> HIDE DEF at, V, A, total, U
  <2> QED BY <1>3, <1>9, <1>13, <2>1 DEF RingExact, TypeOK, Wrap
<1>15. \A p \in 0 .. (t + v) - 1 :
          \/ p \in 0 .. v - 1
          \/ \E d \in 0 .. t - 1 : p = v + d
  <2> TAKE p \in 0 .. (t + v) - 1
  <2>1. p \in 0 .. v - 1 \/ (p - v \in 0 .. t - 1 /\ p = v + (p - v))
    OBVIOUS
  <2> QED BY <2>1
<1>16. \A d \in 0 .. t - 1 : A(d) \in FreeRegs \cup Registers(Told)
  BY <1>1, <1>7
<1>17. \A k \in 1 .. len : reg_T[k] # 0 =>
          reg_T[k] \in Registers(reg_T) /\ reg_T[k] \notin FreeRegs \cup Registers(Told)
  BY DEF Registers
\* The new places below v hold the registers pushed back, the others the old ring.
<1>18. ASSUME NEW p \in 0 .. (t + v) - 1
       PROVE  \/ \E k \in 1 .. len : reg_T[k] # 0 /\ p = V(k) - 1 /\ Ring(p)' = reg_T[k]
              \/ \E d \in 0 .. t - 1 : p = v + d /\ Ring(p)' = A(d)
  <2>1. CASE p \in 0 .. v - 1
    <3>1. PICK k \in 1 .. len : reg_T[k] # 0 /\ p = V(k) - 1
      BY <1>12, <2>1
    <3>2. Ring(V(k) - 1)' = reg_T[k]
      BY <1>11, <3>1
    <3> QED BY <3>1, <3>2
  <2>2. CASE \E d \in 0 .. t - 1 : p = v + d
    <3>1. PICK d \in 0 .. t - 1 : p = v + d
      BY <2>2
    <3>2. Ring(v + d)' = A(d)
      BY <1>10
    <3> QED BY <3>1, <3>2
  <2> QED BY <1>15, <2>1, <2>2
<1> HIDE DEF A, V, total, U, N, at
<1>19. RingDistinct'
  <2>1. ASSUME NEW p \in 0 .. (t + v) - 1, NEW q \in 0 .. (t + v) - 1, Ring(p)' = Ring(q)'
        PROVE  p = q
    <3>1. CASE /\ \E k \in 1 .. len : reg_T[k] # 0 /\ p = V(k) - 1 /\ Ring(p)' = reg_T[k]
               /\ \E k \in 1 .. len : reg_T[k] # 0 /\ q = V(k) - 1 /\ Ring(q)' = reg_T[k]
      BY <2>1, <3>1 DEF Different, len
    <3>2. CASE /\ \E d \in 0 .. t - 1 : p = v + d /\ Ring(p)' = A(d)
               /\ \E d \in 0 .. t - 1 : q = v + d /\ Ring(q)' = A(d)
      BY <1>1, <1>7, <2>1, <3>2
    <3> QED BY <1>16, <1>17, <1>18, <2>1, <3>1, <3>2
  <2> QED BY <1>13, <2>1 DEF RingDistinct
<1>20. FreeRegs' = FreeRegs \cup Registers(Told) \cup Registers(reg_T)
  <2>1. FreeRegs' = {Ring(p)' : p \in 0 .. (t + v) - 1}
    BY <1>13 DEF FreeRegs, Ring
  <2>2. FreeRegs' \subseteq FreeRegs \cup Registers(Told) \cup Registers(reg_T)
    BY <1>16, <1>17, <1>18, <2>1
  <2>3. ASSUME NEW x \in FreeRegs \cup Registers(Told) PROVE x \in FreeRegs'
    <3>1. PICK d \in 0 .. t - 1 : x = A(d)
      BY <1>1, <1>7
    <3>2. v + d \in 0 .. (t + v) - 1
      OBVIOUS
    <3>3. Ring(v + d)' = x
      BY <1>10, <3>1
    <3> QED BY <2>1, <3>2, <3>3
  <2>4. ASSUME NEW x \in Registers(reg_T) PROVE x \in FreeRegs'
    <3>1. PICK k \in 1 .. len : reg_T[k] # 0 /\ x = reg_T[k]
      BY DEF Registers
    <3>2. V(k) - 1 \in 0 .. (t + v) - 1
      BY <1>4, <1>6, <3>1
    <3>3. Ring(V(k) - 1)' = x
      BY <1>11, <3>1
    <3> QED BY <2>1, <3>2, <3>3
  <2> QED BY <2>2, <2>3, <2>4
<1> QED BY <1>14, <1>19, <1>20
=============================================================================
