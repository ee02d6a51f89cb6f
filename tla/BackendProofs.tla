---------------------------- MODULE BackendProofs ----------------------------
(***************************************************************************)
(* Proofs about the back end: reorder buffer, reservation station, issue    *)
(* queue, functional units and completion queue together, for every size,   *)
(* width and depth of the multipliers.                                      *)
(***************************************************************************)
EXTENDS Backend, InOrder, FiniteSetTheorems, SequenceTheorems, NaturalLemmas

-----------------------------------------------------------------------------
(* Selecting places in order.                                               *)

\* How many elements of S are not above x.
Rank(S, x) == Cardinality({y \in S : y <= x})

\* The ranks of the elements of S are the numbers from 1 to the size of S.
LEMMA RankIsBijection ==
    ASSUME NEW S \in SUBSET Nat, IsFiniteSet(S)
    PROVE  /\ Cardinality(S) \in Nat
           /\ \A x \in S : Rank(S, x) \in 1 .. Cardinality(S)
           /\ \A x, y \in S : x < y => Rank(S, x) < Rank(S, y)
           /\ \A x, y \in S : Rank(S, x) = Rank(S, y) => x = y
           /\ \A k \in 1 .. Cardinality(S) : \E x \in S : Rank(S, x) = k
<1> DEFINE Below(x) == {y \in S : y <= x}
<1>1. Cardinality(S) \in Nat
  BY FS_CardinalityType
<1>2. ASSUME NEW x \in S
      PROVE  /\ IsFiniteSet(Below(x)) /\ Cardinality(Below(x)) \in 1 .. Cardinality(S)
             /\ Cardinality(Below(x)) \in Nat
  <2>1. Below(x) \in SUBSET S /\ x \in Below(x)
    OBVIOUS
  <2>2. IsFiniteSet(Below(x)) /\ Cardinality(Below(x)) <= Cardinality(S)
    BY <2>1, FS_Subset
  <2>3. Cardinality(Below(x)) \in Nat /\ Cardinality(Below(x)) # 0
    BY <2>1, <2>2, FS_CardinalityType, FS_EmptySet
  <2> QED BY <1>1, <2>2, <2>3
<1>3. ASSUME NEW x \in S, NEW y \in S, x < y
      PROVE  Cardinality(Below(x)) < Cardinality(Below(y))
  <2>0. x \in Nat /\ y \in Nat
    OBVIOUS
  <2>1. Below(x) \in SUBSET Below(y) /\ y \in Below(y) /\ y \notin Below(x)
    <3>1. ASSUME NEW z \in S, z <= x PROVE z <= y
      <4>1. z \in Nat
        OBVIOUS
      <4> QED BY <1>3, <2>0, <3>1, <4>1
    <3>2. y <= y /\ ~(y <= x)
      BY <1>3, <2>0
    <3> QED BY <3>1, <3>2
  <2> HIDE DEF Below
  <2>2. /\ Cardinality(Below(x)) <= Cardinality(Below(y))
        /\ Cardinality(Below(y)) = Cardinality(Below(x)) => Below(x) = Below(y)
    BY <1>2, <2>1, FS_Subset
  <2>3. Cardinality(Below(x)) # Cardinality(Below(y))
    BY <2>1, <2>2
  <2> QED BY <1>2, <2>2, <2>3
<1> DEFINE rank == [x \in S |-> Cardinality(Below(x))]
<1> HIDE DEF Below
<1>4. \A x, y \in S : Cardinality(Below(x)) = Cardinality(Below(y)) => x = y
  <2> SUFFICES ASSUME NEW x \in S, NEW y \in S, Cardinality(Below(x)) = Cardinality(Below(y)),
                      x # y
               PROVE  FALSE
    OBVIOUS
  <2>1. x < y \/ y < x
    OBVIOUS
  <2>2. Cardinality(Below(x)) \in Nat /\ Cardinality(Below(y)) \in Nat
    BY <1>2
  <2> QED BY <1>3, <2>1, <2>2
<1>5. rank \in Injection(S, 1 .. Cardinality(S))
  BY <1>2, <1>4 DEF Injection, IsInjective
<1>6. IsFiniteSet(1 .. Cardinality(S)) /\ Cardinality(1 .. Cardinality(S)) = Cardinality(S)
  BY <1>1, FS_Interval
<1>7. rank \in Surjection(S, 1 .. Cardinality(S))
  <2> HIDE DEF rank
  <2> QED BY <1>5, <1>6, FS_Injection
<1>8. \A k \in 1 .. Cardinality(S) : \E x \in S : Cardinality(Below(x)) = k
  BY <1>7 DEF Surjection
<1>9. \A x : Rank(S, x) = Cardinality(Below(x))
  BY DEF Rank, Below
<1> QED BY <1>1, <1>2, <1>3, <1>4, <1>8, <1>9

\* The loop takes every place in S once.
LEMMA InOrderTakesAll ==
    ASSUME NEW S \in SUBSET Nat, IsFiniteSet(S)
    PROVE  /\ Cardinality(S) \in Nat
           /\ InOrder(S) \in [1 .. Cardinality(S) -> S]
           /\ \A j, k \in 1 .. Cardinality(S) : InOrder(S)[j] = InOrder(S)[k] => j = k
           /\ \A x \in S : \E k \in 1 .. Cardinality(S) : InOrder(S)[k] = x
<1> DEFINE n == Cardinality(S)
           places == [k \in 1 .. n |-> CHOOSE x \in S : Rank(S, x) = k]
           InSteps(s) == \A j, k \in DOMAIN s : j < k => s[j] < s[k]
<1>1. n \in Nat /\ \A k \in 1 .. n : \E x \in S : Rank(S, x) = k
  BY RankIsBijection
<1>2. \A k \in 1 .. n : places[k] \in S /\ Rank(S, places[k]) = k
  BY <1>1
<1>3. places \in [1 .. n -> S] /\ InSteps(places)
  <2>1. places \in [1 .. n -> S]
    BY <1>2
  <2>2. ASSUME NEW j \in 1 .. n, NEW k \in 1 .. n, j < k PROVE places[j] < places[k]
    <3> HIDE DEF places, n
    <3>1. places[j] \in S /\ places[k] \in S /\ Rank(S, places[j]) = j /\ Rank(S, places[k]) = k
      BY <1>2
    <3>2. ~(places[k] < places[j]) /\ places[k] # places[j]
      <4>1. j \in Nat /\ k \in Nat /\ j < k
        BY <1>1, <2>2
      <4>2. \A x, y \in S : x < y => Rank(S, x) < Rank(S, y)
        BY RankIsBijection
      <4>3. places[k] < places[j] => k < j
        BY <3>1, <4>2
      <4> QED BY <3>1, <4>1, <4>3
    <3>3. places[j] \in Nat /\ places[k] \in Nat
      BY <3>1
    <3> QED BY <3>2, <3>3
  <2> QED BY <2>1, <2>2
<1>4. InOrder(S) = CHOOSE s \in [1 .. n -> S] : InSteps(s)
  BY DEF InOrder
<1> HIDE DEF places, InSteps
<1>5. InOrder(S) \in [1 .. n -> S] /\ InSteps(InOrder(S))
  BY <1>3, <1>4
<1> DEFINE s == InOrder(S)
<1>6. s \in [1 .. n -> S] /\ \A j, k \in 1 .. n : j < k => s[j] < s[k]
  BY <1>5 DEF InSteps
<1> HIDE DEF s, n
<1>7. \A j, k \in 1 .. n : s[j] = s[k] => j = k
  <2> SUFFICES ASSUME NEW j \in 1 .. n, NEW k \in 1 .. n, s[j] = s[k], j # k PROVE FALSE
    OBVIOUS
  <2>1. j < k \/ k < j
    BY <1>1
  <2>2. s[j] \in Nat
    BY <1>6
  <2> QED BY <1>6, <2>1, <2>2
<1>8. s \in Injection(1 .. n, S)
  BY <1>6, <1>7 DEF Injection, IsInjective
<1>9. IsFiniteSet(1 .. n) /\ Cardinality(1 .. n) = n
  BY <1>1, FS_Interval
<1>10. s \in Surjection(1 .. n, S)
  BY <1>8, <1>9, FS_Injection DEF n
<1>11. \A x \in S : \E k \in 1 .. n : s[k] = x
  BY <1>10 DEF Surjection
<1> QED BY <1>1, <1>6, <1>7, <1>11 DEF s, n

\* The numbers from 1 to n.
LEMMA UpTo ==
    ASSUME NEW n \in Nat
    PROVE  IsFiniteSet(1 .. n) /\ Cardinality(1 .. n) = n
<1>1. IsFiniteSet(1 .. n) /\ Cardinality(1 .. n) = IF 1 > n THEN 0 ELSE n - 1 + 1
  BY FS_Interval
<1> QED BY <1>1

\* The components count, and loop over their places, in the same way.
LEMMA SameOrder ==
    /\ \A S : IQ!Cardinality(S) = Cardinality(S)
    /\ \A S : FU!Cardinality(S) = Cardinality(S)
    /\ \A S : RS!Cardinality(S) = Cardinality(S)
    /\ \A S : IQ!InOrder(S) = InOrder(S)
    /\ \A S : FU!InOrder(S) = InOrder(S)
BY DEF IQ!InOrder, FU!InOrder, InOrder, IQ!Cardinality, FU!Cardinality, RS!Cardinality,
       Cardinality, IQ!IsFiniteSet, FU!IsFiniteSet, RS!IsFiniteSet, IsFiniteSet

\* The size of a set with at most one element.
LEMMA AtMostOneElement ==
    ASSUME NEW S, \A x, y \in S : x = y
    PROVE  Cardinality(S) = IF S = {} THEN 0 ELSE 1
<1>1. CASE S = {}
  BY <1>1, FS_EmptySet
<1>2. CASE S # {}
  <2>1. PICK x \in S : S = {x}
    BY <1>2
  <2> QED BY <1>2, <2>1, FS_Singleton
<1> QED BY <1>1, <1>2

-----------------------------------------------------------------------------
(* Sequences and sets of packets.                                           *)

\* What the invariant says of a part of the back end is said of the current
\* packets it holds, and of their ROB indices.
Elements(s) == {s[k] : k \in DOMAIN s}
Has(packets, i) == \E p \in packets : p.current /\ p.rob_index = i
SameInst(p, q) == p.current /\ q.current /\ p.rob_index = q.rob_index
Distinct(s) == \A j, k \in DOMAIN s : SameInst(s[j], s[k]) => j = k

\* A sequence behind another.
LEMMA Joined ==
    ASSUME NEW s \in Seq(Packet), NEW t \in Seq(Packet)
    PROVE  /\ s \o t \in Seq(Packet) /\ Len(s \o t) = Len(s) + Len(t)
           /\ Elements(s \o t) = Elements(s) \cup Elements(t)
           /\ Distinct(s) /\ Distinct(t) /\ (\A i : ~(Has(Elements(s), i) /\ Has(Elements(t), i)))
                 => Distinct(s \o t)
<1> DEFINE r == s \o t
<1>1. /\ r \in Seq(Packet) /\ Len(r) = Len(s) + Len(t)
      /\ \A k \in 1 .. Len(s) : r[k] = s[k]
      /\ \A k \in 1 .. Len(t) : r[Len(s) + k] = t[k]
      /\ DOMAIN r = 1 .. Len(r) /\ DOMAIN s = 1 .. Len(s) /\ DOMAIN t = 1 .. Len(t)
      /\ Len(s) \in Nat /\ Len(t) \in Nat
  OBVIOUS
<1>2. \A k \in DOMAIN r :
         \/ k \in DOMAIN s /\ r[k] = s[k]
         \/ k - Len(s) \in DOMAIN t /\ r[k] = t[k - Len(s)] /\ k > Len(s)
  <2> HIDE DEF r
  <2> SUFFICES ASSUME NEW k \in DOMAIN r, ~(k \in DOMAIN s)
               PROVE  k - Len(s) \in DOMAIN t /\ r[k] = t[k - Len(s)] /\ k > Len(s)
    BY <1>1
  <2>1. k - Len(s) \in 1 .. Len(t) /\ k > Len(s) /\ Len(s) + (k - Len(s)) = k
    BY <1>1
  <2>2. r[Len(s) + (k - Len(s))] = t[k - Len(s)]
    BY <1>1, <2>1
  <2> QED BY <1>1, <2>1, <2>2
<1> HIDE DEF r
<1>3. Elements(r) = Elements(s) \cup Elements(t)
  <2>1. \A k \in DOMAIN s : k \in DOMAIN r /\ r[k] = s[k]
    BY <1>1
  <2>2. \A k \in DOMAIN t : Len(s) + k \in DOMAIN r /\ r[Len(s) + k] = t[k]
    BY <1>1
  <2>3. Elements(s) \subseteq Elements(r)
    BY <2>1 DEF Elements
  <2>4. Elements(t) \subseteq Elements(r)
    BY <2>2 DEF Elements
  <2>5. Elements(r) \subseteq Elements(s) \cup Elements(t)
    BY <1>2 DEF Elements
  <2> QED BY <2>3, <2>4, <2>5
<1>4. ASSUME Distinct(s), Distinct(t), \A i : ~(Has(Elements(s), i) /\ Has(Elements(t), i))
      PROVE  Distinct(r)
  <2> SUFFICES ASSUME NEW j \in DOMAIN r, NEW k \in DOMAIN r,
                      SameInst(r[j], r[k])
               PROVE  j = k
    BY DEF Distinct
  <2>1. j \in Nat /\ k \in Nat
    BY <1>1
  <2>2. \A m \in DOMAIN s, n \in DOMAIN t :
           ~SameInst(s[m], t[n]) /\ ~SameInst(t[n], s[m])
    BY <1>4 DEF Has, Elements, SameInst
  <2>3. CASE j \in DOMAIN s /\ r[j] = s[j] /\ k \in DOMAIN s /\ r[k] = s[k]
    BY <1>4, <2>3 DEF Distinct
  <2>4. CASE /\ k - Len(s) \in DOMAIN t /\ r[k] = t[k - Len(s)]
             /\ j - Len(s) \in DOMAIN t /\ r[j] = t[j - Len(s)]
    <3>1. j - Len(s) = k - Len(s)
      BY <1>4, <2>4 DEF Distinct
    <3> QED BY <1>1, <2>1, <3>1
  <2>5. ~(j \in DOMAIN s /\ r[j] = s[j] /\ k - Len(s) \in DOMAIN t /\ r[k] = t[k - Len(s)])
    BY <2>2
  <2>6. ~(k \in DOMAIN s /\ r[k] = s[k] /\ j - Len(s) \in DOMAIN t /\ r[j] = t[j - Len(s)])
    BY <2>2
  <2> QED BY <1>2, <2>3, <2>4, <2>5, <2>6
<1> QED BY <1>1, <1>3, <1>4 DEF r

\* The first n elements of a sequence, and the others.
LEMMA Split ==
    ASSUME NEW s \in Seq(Packet), NEW n \in 0 .. Len(s)
    PROVE  /\ SubSeq(s, 1, n) \in Seq(Packet) /\ Len(SubSeq(s, 1, n)) = n
           /\ Elements(SubSeq(s, 1, n)) = {s[k] : k \in 1 .. n}
           /\ SubSeq(s, n + 1, Len(s)) \in Seq(Packet)
           /\ Len(SubSeq(s, n + 1, Len(s))) = Len(s) - n
           /\ Elements(SubSeq(s, n + 1, Len(s))) = {s[k] : k \in n + 1 .. Len(s)}
           /\ Distinct(s) => /\ Distinct(SubSeq(s, 1, n))
                             /\ Distinct(SubSeq(s, n + 1, Len(s)))
           /\ SubSeq(s, 1, Len(s)) = s
<1>1. Len(s) \in Nat /\ n \in Nat /\ n <= Len(s) /\ DOMAIN s = 1 .. Len(s)
  OBVIOUS
<1> DEFINE a == SubSeq(s, 1, n)
           b == SubSeq(s, n + 1, Len(s))
<1>2. a \in Seq(Packet) /\ Len(a) = n /\ DOMAIN a = 1 .. n /\ \A k \in 1 .. n : a[k] = s[k]
  BY <1>1
<1>3. /\ b \in Seq(Packet) /\ Len(b) = Len(s) - n /\ DOMAIN b = 1 .. Len(s) - n
      /\ \A k \in 1 .. Len(s) - n : b[k] = s[k + n]
  <2>1. \A k \in n + 1 .. Len(s) : s[k] \in Packet
    BY <1>1
  <2>2. /\ b \in Seq(Packet)
        /\ Len(b) = IF n + 1 <= Len(s) THEN Len(s) - (n + 1) + 1 ELSE 0
        /\ \A k \in 1 .. Len(s) - (n + 1) + 1 : b[k] = s[(n + 1) + k - 1]
    BY <1>1, <2>1, SubSeqProperties
  <2> HIDE DEF b
  <2>3. Len(s) - (n + 1) + 1 = Len(s) - n /\ Len(b) = Len(s) - n
    <3>1. ASSUME NEW m \in Nat, n <= m
          PROVE  /\ m - (n + 1) + 1 = m - n
                 /\ (IF n + 1 <= m THEN m - (n + 1) + 1 ELSE 0) = m - n
      BY <1>1, <3>1
    <3> QED BY <1>1, <2>2, <3>1
  <2>4. \A k \in 1 .. Len(s) - n : (n + 1) + k - 1 = k + n
    BY <1>1
  <2>5. DOMAIN b = 1 .. Len(s) - n
    <3>1. b \in Seq(Packet)
      BY <2>2
    <3>2. DOMAIN b = 1 .. Len(b)
      BY <3>1
    <3> QED BY <2>3, <3>2
  <2> QED BY <2>2, <2>3, <2>4, <2>5
<1>4. SubSeq(s, 1, Len(s)) = s
  BY <1>1
<1> HIDE DEF a, b
<1>5. Elements(a) = {s[k] : k \in 1 .. n}
  BY <1>2 DEF Elements
<1>6. Elements(b) = {s[k] : k \in n + 1 .. Len(s)}
  <2>1. \A k \in 1 .. Len(s) - n : k + n \in n + 1 .. Len(s)
    BY <1>1
  <2>2. \A k \in n + 1 .. Len(s) : k - n \in 1 .. Len(s) - n /\ b[k - n] = s[k]
    <3> SUFFICES ASSUME NEW k \in n + 1 .. Len(s)
                 PROVE  k - n \in 1 .. Len(s) - n /\ b[k - n] = s[k]
      OBVIOUS
    <3>1. k - n \in 1 .. Len(s) - n /\ (k - n) + n = k
      BY <1>1
    <3> QED BY <1>3, <3>1
  <2>3. \A k \in 1 .. Len(s) - n : \E m \in n + 1 .. Len(s) : b[k] = s[m]
    BY <1>3, <2>1
  <2>4. \A m \in n + 1 .. Len(s) : \E k \in 1 .. Len(s) - n : b[k] = s[m]
    BY <2>2
  <2>5. Elements(b) = {b[k] : k \in 1 .. Len(s) - n}
    BY <1>3 DEF Elements
  <2>6. Elements(b) \subseteq {s[m] : m \in n + 1 .. Len(s)}
    BY <2>3, <2>5
  <2>7. {s[m] : m \in n + 1 .. Len(s)} \subseteq Elements(b)
    BY <2>4, <2>5
  <2> QED BY <2>6, <2>7
<1>7. Distinct(s) => Distinct(b)
  <2> SUFFICES ASSUME Distinct(s), NEW j \in DOMAIN b, NEW k \in DOMAIN b,
                      SameInst(b[j], b[k])
               PROVE  j = k
    BY DEF Distinct
  <2>1. j + n \in DOMAIN s /\ k + n \in DOMAIN s /\ j \in Nat /\ k \in Nat
    BY <1>1, <1>3
  <2>2. j + n = k + n
    BY <1>3, <2>1 DEF Distinct
  <2> QED BY <1>1, <2>1, <2>2
<1>8. Distinct(s) => Distinct(a)
  <2>1. \A k \in 1 .. n : k \in DOMAIN s
    BY <1>1
  <2> QED BY <1>2, <2>1 DEF Distinct
<1> QED BY <1>2, <1>3, <1>4, <1>5, <1>6, <1>7, <1>8 DEF a, b

-----------------------------------------------------------------------------
(* The issue queue.                                                         *)

\* The entries at the places in S, each once.
LEMMA EntriesTake ==
    ASSUME iq \in Seq(Packet), NEW S \in SUBSET DOMAIN iq
    PROVE  /\ Cardinality(S) \in Nat /\ Cardinality(S) <= Len(iq)
           /\ IQ!Entries(S) \in Seq(Packet) /\ Len(IQ!Entries(S)) = Cardinality(S)
           /\ Elements(IQ!Entries(S)) = {iq[k] : k \in S}
           /\ Distinct(iq) => Distinct(IQ!Entries(S))
<1>1. DOMAIN iq = 1 .. Len(iq) /\ Len(iq) \in Nat
  OBVIOUS
<1>2. IsFiniteSet(DOMAIN iq) /\ Cardinality(DOMAIN iq) = Len(iq)
  BY <1>1, UpTo
<1>3. IsFiniteSet(S) /\ S \in SUBSET Nat /\ Cardinality(S) <= Len(iq)
  BY <1>1, <1>2, FS_Subset
<1> DEFINE n == Cardinality(S)
           place == InOrder(S)
           e == IQ!Entries(S)
<1>4. /\ n \in Nat /\ place \in [1 .. n -> S]
      /\ \A j, k \in 1 .. n : place[j] = place[k] => j = k
      /\ \A x \in S : \E k \in 1 .. n : place[k] = x
  BY <1>3, InOrderTakesAll
<1>5. e = [k \in 1 .. n |-> iq[place[k]]]
  BY SameOrder DEF IQ!Entries
<1> HIDE DEF n, place, e
<1>6. \A k \in 1 .. n : place[k] \in S /\ iq[place[k]] \in Packet /\ e[k] = iq[place[k]]
  BY <1>1, <1>4, <1>5
<1>7. e \in Seq(Packet) /\ Len(e) = n /\ DOMAIN e = 1 .. n
  <2>1. e \in [1 .. n -> Packet]
    BY <1>5, <1>6
  <2> QED BY <1>4, <2>1
<1>8. Elements(e) = {iq[k] : k \in S}
  <2>1. Elements(e) = {e[k] : k \in 1 .. n}
    BY <1>7 DEF Elements
  <2>2. Elements(e) \subseteq {iq[k] : k \in S}
    BY <1>6, <2>1
  <2>3. {iq[k] : k \in S} \subseteq Elements(e)
    BY <1>4, <1>6, <2>1
  <2> QED BY <2>2, <2>3
<1>9. Distinct(iq) => Distinct(e)
  <2> SUFFICES ASSUME Distinct(iq), NEW j \in 1 .. n, NEW k \in 1 .. n,
                      SameInst(e[j], e[k])
               PROVE  j = k
    BY <1>7 DEF Distinct
  <2>1. place[j] \in DOMAIN iq /\ place[k] \in DOMAIN iq
    BY <1>6
  <2>2. place[j] = place[k]
    BY <1>6, <2>1 DEF Distinct
  <2> QED BY <1>4, <2>2
<1> QED BY <1>3, <1>4, <1>7, <1>8, <1>9 DEF n, e

\* No type gets more instructions than it has free units.
LEMMA SentHaveUnits ==
    ASSUME iq \in Seq(Packet), NEW slots, NEW type, slots[type] \in Nat
    PROVE  Cardinality({k \in IQ!Sent(slots) : iq[k].kind = type}) <= slots[type]
<1> DEFINE T == {k \in IQ!Sent(slots) : iq[k].kind = type}
           Before(k) == {j \in 1 .. k - 1 : iq[j].kind = type}
           m == slots[type]
<1>1. DOMAIN iq = 1 .. Len(iq) /\ Len(iq) \in Nat
  OBVIOUS
<1>2. \A k \in T : k \in DOMAIN iq /\ iq[k].kind = type /\ Cardinality(Before(k)) < m
  <2> SUFFICES ASSUME NEW k \in T
               PROVE  k \in DOMAIN iq /\ iq[k].kind = type /\ Cardinality(Before(k)) < m
    OBVIOUS
  <2>1. k \in IQ!Fits(slots) /\ iq[k].kind = type
    BY DEF IQ!Sent
  <2>2. /\ k \in DOMAIN iq
        /\ Cardinality({j \in 1 .. k - 1 : iq[j].kind = iq[k].kind}) < slots[iq[k].kind]
    BY <2>1, SameOrder DEF IQ!Fits
  <2> QED BY <2>1, <2>2
<1> HIDE DEF T
<1>3. ASSUME NEW k \in T
      PROVE  /\ k \in Nat /\ IsFiniteSet(Before(k))
             /\ Cardinality(Before(k)) \in 0 .. m - 1
  <2>1. k \in 1 .. Len(iq) /\ k \in Nat /\ k - 1 \in Nat
    <3>1. k \in 1 .. Len(iq)
      BY <1>1, <1>2
    <3> QED BY <1>1, <3>1
  <2>2. IsFiniteSet(1 .. k - 1) /\ Before(k) \in SUBSET (1 .. k - 1)
    BY <2>1, UpTo
  <2>3. IsFiniteSet(Before(k))
    BY <2>2, FS_Subset
  <2>4. Cardinality(Before(k)) \in Nat
    BY <2>3, FS_CardinalityType
  <2>5. Cardinality(Before(k)) < m
    BY <1>2
  <2> QED BY <2>1, <2>3, <2>4, <2>5
<1>4. ASSUME NEW j \in T, NEW k \in T, j < k
      PROVE  Cardinality(Before(j)) # Cardinality(Before(k))
  <2>1. j \in Nat /\ k \in Nat /\ iq[j].kind = type /\ j \in 1 .. Len(iq)
    BY <1>1, <1>2, <1>3
  <2>2. Before(j) \in SUBSET Before(k) /\ j \in Before(k) /\ j \notin Before(j)
    BY <1>4, <2>1
  <2> HIDE DEF Before
  <2>3. Cardinality(Before(k)) = Cardinality(Before(j)) => Before(k) = Before(j)
    BY <1>3, <2>2, FS_Subset
  <2> QED BY <2>2, <2>3
<1> HIDE DEF Before
<1> DEFINE f == [k \in T |-> Cardinality(Before(k))]
<1>5. f \in Injection(T, 0 .. m - 1)
  <2>1. f \in [T -> 0 .. m - 1]
    BY <1>3
  <2>2. ASSUME NEW j \in T, NEW k \in T, f[j] = f[k] PROVE j = k
    <3>1. ~(j < k) /\ ~(k < j)
      BY <1>4, <2>2
    <3>2. j \in Nat /\ k \in Nat
      BY <1>3
    <3> QED BY <3>1, <3>2
  <2> HIDE DEF f
  <2> QED BY <2>1, <2>2 DEF Injection, IsInjective
<1>6. m \in Nat
  OBVIOUS
<1>7. IsFiniteSet(0 .. m - 1) /\ Cardinality(0 .. m - 1) = m
  <2> HIDE DEF m
  <2>1. m - 1 \in Int /\ 0 \in Int
    BY <1>6
  <2> DEFINE b == m - 1
  <2> HIDE DEF b
  <2>2. IsFiniteSet(0 .. b) /\ Cardinality(0 .. b) = IF 0 > b THEN 0 ELSE b - 0 + 1
    BY <2>1, FS_Interval DEF b
  <2> USE DEF b
  <2> QED BY <1>6, <2>2
<1>8. Cardinality(T) <= Cardinality(0 .. m - 1)
  <2> HIDE DEF f, m
  <2> QED BY <1>5, <1>7, FS_Injection
<1> QED BY <1>7, <1>8 DEF T

\* The packets sent to the units of a type, and those that stay.
To(slots, type) == {iq[k] : k \in {j \in IQ!Sent(slots) : iq[j].kind = type}}
Stays(slots) == {iq[k] : k \in DOMAIN iq \ IQ!Sent(slots)}

\* Two sets of packets without a ROB index in common.
Disjoint(p, q) == \A i : ~(Has(p, i) /\ Has(q, i))

\* What is sent and what stays make up the queue.
LEMMA QueueParts ==
    ASSUME iq \in Seq(Packet), NEW slots
    PROVE  /\ InIssueQueue = Stays(slots) \cup UNION {To(slots, t) : t \in FU!FuType}
           /\ \A t : \A p \in To(slots, t) : p.kind = t
           /\ Distinct(iq) => \A t, u : /\ Disjoint(Stays(slots), To(slots, t))
                                        /\ t # u => Disjoint(To(slots, t), To(slots, u))
<1>1. \A k \in DOMAIN iq : iq[k] \in Packet
  OBVIOUS
<1>2. IQ!Sent(slots) \subseteq DOMAIN iq
  BY DEF IQ!Sent, IQ!Fits
<1>3. \A k \in DOMAIN iq : iq[k].kind \in FU!FuType
  BY <1>1 DEF Packet
<1>4. InIssueQueue \subseteq Stays(slots) \cup UNION {To(slots, t) : t \in FU!FuType}
  <2> SUFFICES ASSUME NEW k \in DOMAIN iq
               PROVE  iq[k] \in Stays(slots) \cup UNION {To(slots, t) : t \in FU!FuType}
    BY DEF InIssueQueue
  <2>1. CASE k \in IQ!Sent(slots)
    <3>1. iq[k] \in To(slots, iq[k].kind)
      BY <2>1 DEF To
    <3> QED BY <1>3, <3>1
  <2>2. CASE k \notin IQ!Sent(slots)
    BY <2>2 DEF Stays
  <2> QED BY <2>1, <2>2
<1>5. Stays(slots) \subseteq InIssueQueue /\ \A t : To(slots, t) \subseteq InIssueQueue
  BY <1>2 DEF Stays, To, InIssueQueue
<1>6. \A t : \A p \in To(slots, t) : p.kind = t
  BY DEF To
<1>7. ASSUME Distinct(iq), NEW t, NEW u
      PROVE  /\ Disjoint(Stays(slots), To(slots, t))
             /\ t # u => Disjoint(To(slots, t), To(slots, u))
  <2>1. \A j, k \in DOMAIN iq : SameInst(iq[j], iq[k]) => j = k
    BY <1>7 DEF Distinct
  <2>2. Disjoint(Stays(slots), To(slots, t))
    BY <1>2, <2>1 DEF Stays, To, Disjoint, Has, SameInst
  <2>3. t # u => Disjoint(To(slots, t), To(slots, u))
    BY <1>2, <2>1 DEF To, Disjoint, Has, SameInst
  <2> QED BY <2>2, <2>3
<1> QED BY <1>4, <1>5, <1>6, <1>7

\* The wires execute and the entries kept.
LEMMA Sending ==
    ASSUME iq \in Seq(Packet), NEW slots \in [FU!FuType -> Nat]
    PROVE  /\ \A t \in FU!FuType :
                 /\ IQ!execute(slots)[t] \in Seq(Packet)
                 /\ Len(IQ!execute(slots)[t]) <= slots[t]
                 /\ Elements(IQ!execute(slots)[t]) = To(slots, t)
                 /\ Distinct(iq) => Distinct(IQ!execute(slots)[t])
           /\ IQ!Kept(slots) \in Seq(Packet) /\ Len(IQ!Kept(slots)) <= Len(iq)
           /\ Elements(IQ!Kept(slots)) = Stays(slots)
           /\ Distinct(iq) => Distinct(IQ!Kept(slots))
<1>1. IQ!Sent(slots) \subseteq DOMAIN iq
  BY DEF IQ!Sent, IQ!Fits
<1>2. ASSUME NEW t \in FU!FuType
      PROVE  /\ IQ!execute(slots)[t] \in Seq(Packet)
             /\ Len(IQ!execute(slots)[t]) <= slots[t]
             /\ Elements(IQ!execute(slots)[t]) = To(slots, t)
             /\ Distinct(iq) => Distinct(IQ!execute(slots)[t])
  <2> DEFINE S == {k \in IQ!Sent(slots) : iq[k].kind = t}
  <2>1. IQ!execute(slots)[t] = IQ!Entries(S)
    BY DEF IQ!execute
  <2>2. S \in SUBSET DOMAIN iq
    BY <1>1
  <2>3. To(slots, t) = {iq[k] : k \in S}
    BY DEF To
  <2>4. Cardinality(S) <= slots[t]
    BY SentHaveUnits
  <2> HIDE DEF S
  <2> QED BY <2>1, <2>2, <2>3, <2>4, EntriesTake
<1>3. /\ IQ!Kept(slots) \in Seq(Packet) /\ Len(IQ!Kept(slots)) <= Len(iq)
      /\ Elements(IQ!Kept(slots)) = Stays(slots)
      /\ Distinct(iq) => Distinct(IQ!Kept(slots))
  <2> DEFINE S == DOMAIN iq \ IQ!Sent(slots)
  <2>1. IQ!Kept(slots) = IQ!Entries(S) /\ Stays(slots) = {iq[k] : k \in S}
    BY DEF IQ!Kept, Stays
  <2>2. S \in SUBSET DOMAIN iq
    OBVIOUS
  <2> HIDE DEF S
  <2> QED BY <2>1, <2>2, EntriesTake
<1> QED BY <1>2, <1>3

-----------------------------------------------------------------------------
(* The functional units.                                                    *)

\* A register is empty or holds a packet; the registers of the multipliers.
Register == Packet \cup {NoInst}
Multipliers == [1 .. WAY -> [0 .. NUM_STAGE -> Register]]

\* The packets in a register and in the registers of all multipliers.
One(r) == {r} \ {NoInst}
InMult(m) == {m[u][s] : u \in 1 .. WAY, s \in 0 .. NUM_STAGE} \ {NoInst}
DistinctMult(m) ==
    \A u, v \in 1 .. WAY, s, t \in 0 .. NUM_STAGE :
        m[u][s] # NoInst /\ m[v][t] # NoInst /\ SameInst(m[u][s], m[v][t])
            => u = v /\ s = t

\* The packets that leave the multipliers at the end of the cycle, and those
\* that move on.
Ready == {mult[u][NUM_STAGE] : u \in 1 .. WAY} \ {NoInst}
InPipe == {mult[u][s] : u \in 1 .. WAY, s \in 0 .. NUM_STAGE - 1} \ {NoInst}

\* What leaves the multipliers and what moves on are all there is.
LEMMA MultParts ==
    ASSUME mult \in Multipliers
    PROVE  /\ InMult(mult) = Ready \cup InPipe
           /\ InMult(mult) \subseteq Packet
           /\ DistinctMult(mult) => Disjoint(Ready, InPipe)
<1>1. NUM_STAGE \in Nat /\ WAY \in Nat /\ NUM_STAGE >= 1 /\ WAY >= 1
  BY BackendAssumption
<1>2. \A u \in 1 .. WAY, s \in 0 .. NUM_STAGE : mult[u][s] \in Register
  BY DEF Multipliers
<1>3. \A s \in 0 .. NUM_STAGE : s = NUM_STAGE \/ s \in 0 .. NUM_STAGE - 1
  BY <1>1
<1>4. 0 .. NUM_STAGE - 1 \subseteq 0 .. NUM_STAGE /\ NUM_STAGE \in 0 .. NUM_STAGE
  BY <1>1
<1>5. InMult(mult) \subseteq Ready \cup InPipe
  BY <1>3 DEF InMult, Ready, InPipe
<1>6. Ready \subseteq InMult(mult) /\ InPipe \subseteq InMult(mult)
  BY <1>4 DEF InMult, Ready, InPipe
<1>7. InMult(mult) \subseteq Packet
  BY <1>2 DEF InMult, Register
<1>8. ASSUME DistinctMult(mult) PROVE Disjoint(Ready, InPipe)
  <2> SUFFICES ASSUME NEW u \in 1 .. WAY, NEW v \in 1 .. WAY, NEW s \in 0 .. NUM_STAGE - 1,
                      mult[u][NUM_STAGE] # NoInst, mult[v][s] # NoInst,
                      SameInst(mult[u][NUM_STAGE], mult[v][s])
               PROVE  FALSE
    BY DEF Disjoint, Has, Ready, InPipe, SameInst
  <2>1. s \in 0 .. NUM_STAGE
    BY <1>4
  <2>2. NUM_STAGE = s
    BY <1>4, <1>8, <2>1 DEF DistinctMult
  <2> QED BY <1>1, <2>2
<1> QED BY <1>5, <1>6, <1>7, <1>8

\* The free multipliers and the room of the units.
LEMMA RoomOfUnits ==
    ASSUME mult \in Multipliers, NEW mem_done
    PROVE  /\ FU!FreeMultipliers \in SUBSET Nat /\ IsFiniteSet(FU!FreeMultipliers)
           /\ FU!execute_empty_slots(mem_done) \in [FU!FuType -> Nat]
           /\ FU!execute_empty_slots(mem_done)["mult"] = Cardinality(FU!FreeMultipliers)
           /\ FU!execute_empty_slots(mem_done)["branch"] = 1
           /\ FU!execute_empty_slots(mem_done)["mem"] =
                 IF mem = NoInst \/ mem_done THEN 1 ELSE 0
<1>1. WAY \in Nat
  BY BackendAssumption
<1>2. FU!FreeMultipliers \in SUBSET (1 .. WAY)
  BY DEF FU!FreeMultipliers
<1>3. IsFiniteSet(FU!FreeMultipliers) /\ FU!FreeMultipliers \in SUBSET Nat
  <2>1. IsFiniteSet(1 .. WAY)
    BY <1>1, UpTo
  <2>2. IsFiniteSet(FU!FreeMultipliers)
    BY <1>2, <2>1, FS_Subset
  <2> QED BY <1>2, <2>2
<1>4. Cardinality(FU!FreeMultipliers) \in Nat
  BY <1>3, FS_CardinalityType
<1> DEFINE slots == FU!execute_empty_slots(mem_done)
<1>5. slots = [int |-> WAY, branch |-> 1, mult |-> Cardinality(FU!FreeMultipliers),
               mem |-> IF mem = NoInst \/ mem_done THEN 1 ELSE 0]
  BY SameOrder DEF FU!execute_empty_slots
<1> HIDE DEF slots
<1>6. /\ DOMAIN slots = {"int", "branch", "mult", "mem"}
      /\ slots["int"] = WAY /\ slots["branch"] = 1
      /\ slots["mult"] = Cardinality(FU!FreeMultipliers)
      /\ slots["mem"] = IF mem = NoInst \/ mem_done THEN 1 ELSE 0
  BY <1>5
<1>7. slots["mem"] \in Nat
  BY <1>6
<1>8. slots \in [FU!FuType -> Nat]
  <2>1. slots = [t \in {"int", "branch", "mult", "mem"} |-> slots[t]]
    BY <1>5
  <2>2. \A t \in FU!FuType : slots[t] \in Nat
    BY <1>1, <1>4, <1>6, <1>7 DEF FU!FuType
  <2>3. FU!FuType = {"int", "branch", "mult", "mem"}
    BY DEF FU!FuType
  <2> QED BY <2>1, <2>2, <2>3
<1> QED BY <1>3, <1>6, <1>8 DEF slots

\* The multipliers move on and take what is sent to them, each packet once.
LEMMA MultMoves ==
    ASSUME mult \in Multipliers, NEW e, e.mult \in Seq(Packet),
           Len(e.mult) <= Cardinality(FU!FreeMultipliers)
    PROVE  /\ FU!mult_next(e) \in Multipliers
           /\ InMult(FU!mult_next(e)) = InPipe \cup Elements(e.mult)
           /\ DistinctMult(mult) /\ Distinct(e.mult) /\ Disjoint(InPipe, Elements(e.mult))
                 => DistinctMult(FU!mult_next(e))
<1> DEFINE Free == FU!FreeMultipliers
           m == FU!mult_next(e)
           q == e.mult
           rank(u) == Rank(Free, u)
           Takes(u) == u \in Free /\ rank(u) <= Len(q)
<1>1. NUM_STAGE \in Nat /\ WAY \in Nat /\ NUM_STAGE >= 1 /\ WAY >= 1
  BY BackendAssumption
<1>2. Free \in SUBSET Nat /\ IsFiniteSet(Free) /\ Free \subseteq 1 .. WAY
  BY RoomOfUnits DEF FU!FreeMultipliers
<1>3. /\ \A u \in Free : rank(u) \in 1 .. Cardinality(Free)
      /\ \A u, v \in Free : rank(u) = rank(v) => u = v
      /\ \A k \in 1 .. Cardinality(Free) : \E u \in Free : rank(u) = k
      /\ Cardinality(Free) \in Nat
  BY <1>2, RankIsBijection
<1>4. q \in Seq(Packet) /\ Len(q) \in Nat /\ DOMAIN q = 1 .. Len(q)
  OBVIOUS
<1>5. m = [u \in 1 .. WAY |-> [s \in 0 .. NUM_STAGE |->
              IF s > 0 THEN mult[u][s - 1]
              ELSE IF u \in Free /\ rank(u) <= Len(q) THEN q[rank(u)] ELSE NoInst]]
  BY SameOrder DEF FU!mult_next, Rank
<1> HIDE DEF m, q, Free, rank
<1>6. ASSUME NEW u \in 1 .. WAY
      PROVE  /\ \A s \in 1 .. NUM_STAGE : m[u][s] = mult[u][s - 1]
             /\ m[u][0] = IF Takes(u) THEN q[rank(u)] ELSE NoInst
  <2>1. 0 \in 0 .. NUM_STAGE
    BY <1>1
  <2>2. \A s \in 1 .. NUM_STAGE : s \in 0 .. NUM_STAGE /\ s > 0
    BY <1>1
  <2>3. m[u] = [s \in 0 .. NUM_STAGE |->
                  IF s > 0 THEN mult[u][s - 1]
                  ELSE IF u \in Free /\ rank(u) <= Len(q) THEN q[rank(u)] ELSE NoInst]
    BY <1>5
  <2>4. \A s \in 1 .. NUM_STAGE : m[u][s] = mult[u][s - 1]
    BY <2>2, <2>3
  <2>5. m[u][0] = IF u \in Free /\ rank(u) <= Len(q) THEN q[rank(u)] ELSE NoInst
    BY <2>1, <2>3
  <2> QED BY <2>4, <2>5
<1>7. \A u \in 1 .. WAY : Takes(u) => rank(u) \in DOMAIN q /\ q[rank(u)] \in Packet
  <2> SUFFICES ASSUME NEW u \in 1 .. WAY, Takes(u)
               PROVE  rank(u) \in DOMAIN q /\ q[rank(u)] \in Packet
    OBVIOUS
  <2>1. rank(u) \in 1 .. Len(q)
    BY <1>3, <1>4
  <2> QED BY <1>4, <2>1
<1>8. \A s \in 0 .. NUM_STAGE : s = 0 \/ (s \in 1 .. NUM_STAGE /\ s - 1 \in 0 .. NUM_STAGE - 1)
  BY <1>1
<1>9. \A s \in 0 .. NUM_STAGE - 1 :
         s \in 0 .. NUM_STAGE /\ s + 1 \in 1 .. NUM_STAGE /\ (s + 1) - 1 = s
  BY <1>1
<1>10. \A u \in 1 .. WAY, s \in 0 .. NUM_STAGE : mult[u][s] \in Register
  BY DEF Multipliers
<1>11. \A u \in 1 .. WAY, s \in 0 .. NUM_STAGE : m[u][s] \in Register
  <2> SUFFICES ASSUME NEW u \in 1 .. WAY, NEW s \in 0 .. NUM_STAGE
               PROVE  m[u][s] \in Register
    OBVIOUS
  <2>1. CASE s = 0
    BY <1>6, <1>7, <2>1 DEF Register
  <2>2. CASE s \in 1 .. NUM_STAGE /\ s - 1 \in 0 .. NUM_STAGE - 1
    BY <1>6, <1>9, <1>10, <2>2
  <2> QED BY <1>8, <2>1, <2>2
<1>12. m \in Multipliers
  <2>1. m = [u \in 1 .. WAY |-> [s \in 0 .. NUM_STAGE |-> m[u][s]]]
    BY <1>5
  <2> QED BY <1>11, <2>1 DEF Multipliers
<1>13. ASSUME NEW u \in 1 .. WAY, NEW s \in 0 .. NUM_STAGE, m[u][s] # NoInst
       PROVE  \/ /\ s \in 1 .. NUM_STAGE /\ s - 1 \in 0 .. NUM_STAGE - 1
                 /\ m[u][s] = mult[u][s - 1]
              \/ s = 0 /\ Takes(u) /\ m[u][s] = q[rank(u)]
  <2>1. CASE s = 0
    BY <1>6, <1>13, <2>1
  <2>2. CASE s \in 1 .. NUM_STAGE /\ s - 1 \in 0 .. NUM_STAGE - 1
    BY <1>6, <2>2
  <2> QED BY <1>8, <2>1, <2>2
<1>14. InMult(m) = InPipe \cup Elements(q)
  <2>1. ASSUME NEW p \in InMult(m) PROVE p \in InPipe \cup Elements(q)
    <3>1. PICK u \in 1 .. WAY, s \in 0 .. NUM_STAGE : p = m[u][s] /\ m[u][s] # NoInst
      BY DEF InMult
    <3>2. CASE s - 1 \in 0 .. NUM_STAGE - 1 /\ m[u][s] = mult[u][s - 1]
      BY <3>1, <3>2 DEF InPipe
    <3>3. CASE Takes(u) /\ m[u][s] = q[rank(u)]
      BY <1>7, <3>1, <3>3 DEF Elements
    <3> QED BY <1>13, <3>1, <3>2, <3>3
  <2>2. ASSUME NEW p \in InPipe PROVE p \in InMult(m)
    <3>1. PICK u \in 1 .. WAY, s \in 0 .. NUM_STAGE - 1 : p = mult[u][s] /\ p # NoInst
      BY DEF InPipe
    <3>2. s + 1 \in 0 .. NUM_STAGE /\ m[u][s + 1] = mult[u][s]
      BY <1>1, <1>6, <1>9
    <3> QED BY <3>1, <3>2 DEF InMult
  <2>3. ASSUME NEW p \in Elements(q) PROVE p \in InMult(m)
    <3>1. PICK k \in 1 .. Len(q) : p = q[k]
      BY <1>4 DEF Elements
    <3>2. k \in 1 .. Cardinality(Free)
      BY <1>3, <1>4 DEF q, Free
    <3>3. PICK u \in Free : rank(u) = k
      BY <1>3, <3>2
    <3>4. u \in 1 .. WAY /\ Takes(u)
      BY <1>2, <1>4, <3>1, <3>3
    <3>5. m[u][0] = p /\ 0 \in 0 .. NUM_STAGE /\ p # NoInst
      BY <1>1, <1>6, <1>7, <3>1, <3>3, <3>4, BackendAssumption
    <3> QED BY <3>4, <3>5 DEF InMult
  <2> QED BY <2>1, <2>2, <2>3
<1>15. ASSUME DistinctMult(mult), Distinct(q), Disjoint(InPipe, Elements(q))
       PROVE  DistinctMult(m)
  <2> SUFFICES ASSUME NEW u \in 1 .. WAY, NEW v \in 1 .. WAY,
                      NEW s \in 0 .. NUM_STAGE, NEW t \in 0 .. NUM_STAGE,
                      m[u][s] # NoInst, m[v][t] # NoInst,
                      SameInst(m[u][s], m[v][t])
               PROVE  u = v /\ s = t
    BY DEF DistinctMult
  <2> DEFINE Moved(w, r) == /\ r \in 1 .. NUM_STAGE /\ r - 1 \in 0 .. NUM_STAGE - 1
                            /\ m[w][r] = mult[w][r - 1]
             Taken(w, r) == r = 0 /\ Takes(w) /\ m[w][r] = q[rank(w)]
  <2>1. (Moved(u, s) \/ Taken(u, s)) /\ (Moved(v, t) \/ Taken(v, t))
    BY <1>13
  <2>2. \A w \in 1 .. WAY, r \in 0 .. NUM_STAGE :
           Moved(w, r) /\ m[w][r] # NoInst => m[w][r] \in InPipe
    BY DEF InPipe
  <2>3. \A w \in 1 .. WAY, r \in 0 .. NUM_STAGE : Taken(w, r) => m[w][r] \in Elements(q)
    BY <1>7 DEF Elements
  <2>4. ~(Moved(u, s) /\ Taken(v, t)) /\ ~(Taken(u, s) /\ Moved(v, t))
    BY <1>15, <2>2, <2>3 DEF Disjoint, Has, SameInst
  <2>5. CASE Moved(u, s) /\ Moved(v, t)
    <3>1. s - 1 \in 0 .. NUM_STAGE /\ t - 1 \in 0 .. NUM_STAGE
      BY <1>9, <2>5
    <3>2. u = v /\ s - 1 = t - 1
      BY <1>15, <2>5, <3>1 DEF DistinctMult
    <3>3. s \in Nat /\ t \in Nat
      OBVIOUS
    <3> QED BY <3>2, <3>3
  <2>6. CASE Taken(u, s) /\ Taken(v, t)
    <3>1. rank(u) = rank(v)
      BY <1>7, <1>15, <2>6 DEF Distinct
    <3>2. u = v
      BY <1>3, <2>6, <3>1
    <3> QED BY <2>6, <3>2
  <2> QED BY <2>1, <2>4, <2>5, <2>6
<1> QED BY <1>12, <1>14, <1>15 DEF m, q

\* The results of the multipliers, each once.
LEMMA ProductsTaken ==
    ASSUME mult \in Multipliers
    PROVE  /\ FU!Products \in Seq(Packet)
           /\ Elements(FU!Products) = Ready
           /\ DistinctMult(mult) => Distinct(FU!Products)
<1> DEFINE S == FU!ReadyMultipliers
           n == Cardinality(S)
           unit == InOrder(S)
           r == FU!Products
<1>1. NUM_STAGE \in 0 .. NUM_STAGE /\ WAY \in Nat
  BY BackendAssumption
<1>2. \A u : u \in S <=> u \in 1 .. WAY /\ mult[u][NUM_STAGE] # NoInst
  BY DEF FU!ReadyMultipliers
<1>3. S \in SUBSET Nat /\ IsFiniteSet(S)
  <2>1. S \in SUBSET (1 .. WAY)
    BY <1>2
  <2>2. IsFiniteSet(S)
    <3> HIDE DEF S
    <3> QED BY <1>1, <2>1, UpTo, FS_Subset
  <2> QED BY <2>1, <2>2
<1>4. r = [k \in 1 .. n |-> mult[unit[k]][NUM_STAGE]]
  BY SameOrder DEF FU!Products
<1> HIDE DEF S, r
<1>5. /\ n \in Nat /\ unit \in [1 .. n -> S]
      /\ \A j, k \in 1 .. n : unit[j] = unit[k] => j = k
      /\ \A x \in S : \E k \in 1 .. n : unit[k] = x
  BY <1>3, InOrderTakesAll
<1> HIDE DEF n, unit
<1>6. \A u \in 1 .. WAY : mult[u][NUM_STAGE] \in Register
  BY <1>1 DEF Multipliers
<1>7. \A k \in 1 .. n : /\ unit[k] \in 1 .. WAY /\ unit[k] \in S
                        /\ r[k] = mult[unit[k]][NUM_STAGE]
                        /\ r[k] \in Packet /\ r[k] # NoInst
  <2> SUFFICES ASSUME NEW k \in 1 .. n
               PROVE  /\ unit[k] \in 1 .. WAY /\ unit[k] \in S
                      /\ r[k] = mult[unit[k]][NUM_STAGE]
                      /\ r[k] \in Packet /\ r[k] # NoInst
    OBVIOUS
  <2>1. unit[k] \in S /\ r[k] = mult[unit[k]][NUM_STAGE]
    BY <1>4, <1>5
  <2>2. unit[k] \in 1 .. WAY /\ mult[unit[k]][NUM_STAGE] # NoInst
    BY <1>2, <2>1
  <2> QED BY <1>6, <2>1, <2>2 DEF Register
<1>8. r \in Seq(Packet) /\ DOMAIN r = 1 .. n
  <2>1. r \in [1 .. n -> Packet]
    BY <1>4, <1>7
  <2> QED BY <1>5, <2>1
<1>9. Elements(r) = Ready
  <2>1. Elements(r) \subseteq Ready
    BY <1>7, <1>8 DEF Elements, Ready
  <2>2. ASSUME NEW u \in 1 .. WAY, mult[u][NUM_STAGE] # NoInst
        PROVE  mult[u][NUM_STAGE] \in Elements(r)
    <3>1. PICK k \in 1 .. n : unit[k] = u
      BY <1>2, <1>5, <2>2
    <3> QED BY <1>7, <1>8, <3>1 DEF Elements
  <2> QED BY <2>1, <2>2 DEF Ready
<1>10. ASSUME DistinctMult(mult) PROVE Distinct(r)
  <2> SUFFICES ASSUME NEW j \in 1 .. n, NEW k \in 1 .. n, SameInst(r[j], r[k])
               PROVE  j = k
    BY <1>8 DEF Distinct
  <2>1. unit[j] = unit[k]
    BY <1>1, <1>7, <1>10 DEF DistinctMult
  <2> QED BY <1>5, <2>1
<1> QED BY <1>8, <1>9, <1>10 DEF r

\* A register as a sequence.
LEMMA RegisterAsSequence ==
    ASSUME NEW r \in Register
    PROVE  /\ FU!OneOrNone(r) \in Seq(Packet)
           /\ Elements(FU!OneOrNone(r)) = One(r)
           /\ Distinct(FU!OneOrNone(r))
<1>1. CASE r = NoInst
  <2>1. FU!OneOrNone(r) = <<>>
    BY <1>1 DEF FU!OneOrNone
  <2> QED BY <1>1, <2>1 DEF Elements, One, Distinct
<1>2. CASE r # NoInst
  <2>1. FU!OneOrNone(r) = <<r>> /\ r \in Packet
    BY <1>2 DEF FU!OneOrNone, Register
  <2>2. <<r>> \in Seq(Packet) /\ DOMAIN <<r>> = {1} /\ <<r>>[1] = r
    BY <2>1
  <2> QED BY <1>2, <2>1, <2>2 DEF Elements, One, Distinct
<1> QED BY <1>1, <1>2

\* The empty sequence.
LEMMA EmptyPackets ==
    <<>> \in Seq(Packet) /\ Elements(<<>>) = {} /\ Distinct(<<>>) /\ Len(<<>>) = 0
BY DEF Elements, Distinct

\* What the memory unit gives up.
Done(mem_done) == IF mem_done THEN One(mem) ELSE {}

\* No two results are of the same instruction.
ResultsApart(mem_done) ==
    /\ Distinct(fast_int) /\ DistinctMult(mult)
    /\ Disjoint(Done(mem_done), Elements(fast_int))
    /\ Disjoint(Done(mem_done) \cup Elements(fast_int), Ready)
    /\ Disjoint(Done(mem_done) \cup Elements(fast_int) \cup Ready, One(branch))

\* The packets that have a result in this cycle, each once.
LEMMA ResultsTaken ==
    ASSUME fast_int \in Seq(Packet), mult \in Multipliers, branch \in Register,
           mem \in Register, NEW mem_done \in BOOLEAN, NEW flush \in BOOLEAN
    PROVE  /\ FU!Results(mem_done, flush) \in Seq(Packet)
           /\ Elements(FU!Results(mem_done, flush))
                 \subseteq Done(mem_done) \cup Elements(fast_int) \cup Ready \cup One(branch)
           /\ ~flush =>
                 /\ Elements(FU!Results(mem_done, flush))
                       = Done(mem_done) \cup Elements(fast_int) \cup Ready \cup One(branch)
                 /\ ResultsApart(mem_done) => Distinct(FU!Results(mem_done, flush))
<1> DEFINE a == IF mem_done /\ ~flush THEN FU!OneOrNone(mem) ELSE <<>>
           b == IF flush THEN <<>> ELSE fast_int
           c == FU!Products
           d == FU!OneOrNone(branch)
           r == FU!Results(mem_done, flush)
<1>1. r = ((a \o b) \o c) \o d
  BY DEF FU!Results
<1>2. /\ a \in Seq(Packet) /\ Elements(a) \subseteq Done(mem_done) /\ Distinct(a)
      /\ ~flush => Elements(a) = Done(mem_done)
  <2>1. CASE mem_done /\ ~flush
    BY <2>1, RegisterAsSequence DEF Done
  <2>2. CASE ~(mem_done /\ ~flush)
    BY <2>2, EmptyPackets DEF Done
  <2> QED BY <2>1, <2>2
<1>3. /\ b \in Seq(Packet) /\ Elements(b) \subseteq Elements(fast_int)
      /\ ~flush => b = fast_int
  BY EmptyPackets
<1>4. c \in Seq(Packet) /\ Elements(c) = Ready /\ (DistinctMult(mult) => Distinct(c))
  BY ProductsTaken
<1>5. d \in Seq(Packet) /\ Elements(d) = One(branch) /\ Distinct(d)
  BY RegisterAsSequence
<1> HIDE DEF a, b, c, d, r
<1>6. /\ a \o b \in Seq(Packet) /\ Elements(a \o b) = Elements(a) \cup Elements(b)
      /\ Distinct(a) /\ Distinct(b) /\ Disjoint(Elements(a), Elements(b)) => Distinct(a \o b)
  BY <1>2, <1>3, Joined DEF Disjoint
<1> DEFINE ab == a \o b
<1> HIDE DEF ab
<1>7. /\ ab \o c \in Seq(Packet) /\ Elements(ab \o c) = Elements(ab) \cup Elements(c)
      /\ Distinct(ab) /\ Distinct(c) /\ Disjoint(Elements(ab), Elements(c)) => Distinct(ab \o c)
  BY <1>4, <1>6, Joined DEF Disjoint, ab
<1> DEFINE abc == ab \o c
<1> HIDE DEF abc
<1>8. /\ abc \o d \in Seq(Packet) /\ Elements(abc \o d) = Elements(abc) \cup Elements(d)
      /\ Distinct(abc) /\ Distinct(d) /\ Disjoint(Elements(abc), Elements(d))
            => Distinct(abc \o d)
  BY <1>5, <1>7, Joined DEF Disjoint, abc
<1>9. r = abc \o d
  BY <1>1 DEF ab, abc
<1>10. r \in Seq(Packet) /\ Elements(r) = Elements(a) \cup Elements(b) \cup Ready \cup One(branch)
  BY <1>4, <1>5, <1>6, <1>7, <1>8, <1>9 DEF ab, abc
<1>11. ASSUME ~flush
       PROVE  Elements(a) = Done(mem_done) /\ Elements(b) = Elements(fast_int)
  BY <1>2, <1>3, <1>11
<1>12. ASSUME ~flush, ResultsApart(mem_done)
       PROVE  Distinct(r)
  <2> USE DEF ResultsApart
  <2>1. Distinct(ab)
    BY <1>2, <1>3, <1>6, <1>11, <1>12 DEF ab
  <2>2. Elements(ab) = Done(mem_done) \cup Elements(fast_int)
    BY <1>6, <1>11, <1>12 DEF ab
  <2>3. Distinct(abc) /\ Elements(abc) = Done(mem_done) \cup Elements(fast_int) \cup Ready
    BY <1>4, <1>7, <1>12, <2>1, <2>2 DEF abc
  <2> QED BY <1>5, <1>8, <1>9, <1>12, <2>3
<1>13. Elements(r) \subseteq Done(mem_done) \cup Elements(fast_int) \cup Ready \cup One(branch)
  BY <1>2, <1>3, <1>10
<1>14. ~flush => Elements(r) = Done(mem_done) \cup Elements(fast_int) \cup Ready \cup One(branch)
  BY <1>10, <1>11
<1>15. ~flush => (ResultsApart(mem_done) => Distinct(r))
  BY <1>12
<1>16. r \in Seq(Packet)
  BY <1>10
<1> QED BY <1>13, <1>14, <1>15, <1>16 DEF r

\* A sequence of at most one packet, as its first element or an empty register.
LEMMA FirstOrNone ==
    ASSUME NEW s \in Seq(Packet), Len(s) <= 1
    PROVE  /\ s = <<>> => Elements(s) = {}
           /\ s # <<>> => /\ Head(s) \in Packet /\ Head(s) # NoInst
                          /\ Elements(s) = One(Head(s))
<1>1. Len(s) \in Nat /\ DOMAIN s = 1 .. Len(s)
  OBVIOUS
<1>2. s = <<>> => Elements(s) = {}
  BY EmptyPackets
<1>3. ASSUME s # <<>>
      PROVE  Head(s) \in Packet /\ Head(s) # NoInst /\ Elements(s) = One(Head(s))
  <2>1. Len(s) = 1
    BY <1>1, <1>3
  <2>2. DOMAIN s = {1} /\ Head(s) = s[1] /\ s[1] \in Packet
    BY <1>1, <1>3, <2>1
  <2>3. s[1] # NoInst
    BY <2>2, BackendAssumption
  <2>4. Elements(s) = {s[1]}
    BY <2>2 DEF Elements
  <2> QED BY <2>2, <2>3, <2>4 DEF One
<1> QED BY <1>2, <1>3

\* The branch unit and the memory unit take what is sent to them.
LEMMA RegistersTake ==
    ASSUME mem \in Register, NEW mem_done \in BOOLEAN, NEW flush \in BOOLEAN, NEW e,
           e.branch \in Seq(Packet), Len(e.branch) <= 1, e.mem \in Seq(Packet),
           Len(e.mem) <= IF mem = NoInst \/ mem_done THEN 1 ELSE 0
    PROVE  /\ FU!branch_next(e) \in Register
           /\ One(FU!branch_next(e)) = Elements(e.branch)
           /\ FU!mem_next(e, mem_done, flush) \in Register
           /\ flush => One(FU!mem_next(e, mem_done, flush)) = {}
           /\ ~flush => One(FU!mem_next(e, mem_done, flush))
                            = Elements(e.mem) \cup (One(mem) \ Done(mem_done))
<1>1. FU!branch_next(e) \in Register /\ One(FU!branch_next(e)) = Elements(e.branch)
  <2>1. CASE e.branch = <<>>
    BY <2>1, FirstOrNone DEF FU!branch_next, One, Register
  <2>2. CASE e.branch # <<>>
    BY <2>2, FirstOrNone DEF FU!branch_next, Register
  <2> QED BY <2>1, <2>2
<1> DEFINE r == FU!mem_next(e, mem_done, flush)
<1>2. CASE flush
  BY <1>1, <1>2 DEF FU!mem_next, One, Register
<1>3. CASE ~flush /\ e.mem # <<>>
  <2>1. mem = NoInst \/ mem_done
    <3>1. Len(e.mem) \in Nat /\ Len(e.mem) # 0
      BY <1>3
    <3> QED BY <3>1
  <2>2. Len(e.mem) <= 1
    BY <2>1
  <2>3. Head(e.mem) \in Packet /\ Elements(e.mem) = One(Head(e.mem))
    BY <1>3, <2>2, FirstOrNone
  <2>4. r = Head(e.mem)
    BY <1>3 DEF FU!mem_next
  <2>5. One(mem) \ Done(mem_done) = {}
    BY <2>1 DEF One, Done
  <2> QED BY <1>1, <1>3, <2>3, <2>4, <2>5 DEF Register
<1>4. CASE ~flush /\ e.mem = <<>>
  <2>1. Elements(e.mem) = {}
    BY <1>4, EmptyPackets
  <2>2. r = IF mem_done THEN NoInst ELSE mem
    BY <1>4 DEF FU!mem_next
  <2>3. One(r) = One(mem) \ Done(mem_done) /\ r \in Register
    BY <2>2 DEF One, Done, Register
  <2> QED BY <1>1, <1>4, <2>1, <2>3
<1> QED BY <1>2, <1>3, <1>4

-----------------------------------------------------------------------------
(* The completion queue.                                                    *)

\* The packets that complete in this cycle, and the others.
Completing == {queue[k] : k \in 1 .. CQ!NumCompleted}
Uncompleted == {queue[k] : k \in CQ!NumCompleted + 1 .. Len(queue)}

\* They make up the queue.
LEMMA CompletionParts ==
    ASSUME queue \in Seq(Packet)
    PROVE  /\ CQ!NumCompleted \in 0 .. Len(queue)
           /\ InQueue = Elements(queue)
           /\ InQueue = Completing \cup Uncompleted
           /\ Distinct(queue) => Disjoint(Completing, Uncompleted)
<1> DEFINE n == CQ!NumCompleted
<1>1. WAY \in Nat /\ Len(queue) \in Nat /\ DOMAIN queue = 1 .. Len(queue)
  BY BackendAssumption
<1>2. n \in 0 .. Len(queue)
  BY <1>1 DEF CQ!NumCompleted, CQ!LesserOf
<1> HIDE DEF n
<1>3. DOMAIN queue = (1 .. n) \cup (n + 1 .. Len(queue))
  BY <1>1, <1>2
<1>4. Elements(queue) = Completing \cup Uncompleted
  BY <1>3 DEF Elements, Completing, Uncompleted, n
<1>5. ASSUME Distinct(queue) PROVE Disjoint(Completing, Uncompleted)
  <2>1. \A j \in 1 .. n, k \in n + 1 .. Len(queue) : j # k /\ j \in DOMAIN queue /\ k \in DOMAIN queue
    BY <1>1, <1>2
  <2>2. \A j \in 1 .. n, k \in n + 1 .. Len(queue) : ~SameInst(queue[j], queue[k])
    BY <1>5, <2>1 DEF Distinct
  <2> QED BY <2>2 DEF Disjoint, Has, SameInst, Completing, Uncompleted, n
<1>6. InQueue = Elements(queue)
  BY DEF InQueue, Elements
<1> QED BY <1>2, <1>4, <1>5, <1>6 DEF n

\* What completes is what the oldest entries say, or, in a cycle with a
\* flush, any of the entries.
LEMMA CompletionsKnown ==
    ASSUME queue \in Seq(Packet), NEW flush \in BOOLEAN, NEW complete \in CQ!Completions(flush)
    PROVE  /\ RobIndexes(complete) \in SUBSET Index
           /\ ~flush => RobIndexes(complete) = {p.rob_index : p \in Completing}
<1>1. WAY \in Nat \ {0} /\ Len(queue) \in Nat /\ DOMAIN queue = 1 .. Len(queue)
  BY BackendAssumption
<1>2. \A p \in InQueue : p \in Packet /\ p.rob_index \in Index
  <2>1. \A p \in InQueue : p \in Packet
    BY DEF InQueue
  <2> QED BY <2>1 DEF Packet
<1>3. CQ!NumCompleted \in 0 .. Len(queue)
  BY CompletionParts
<1>4. RobIndexes(complete) = {p.rob_index : p \in Elements(complete)}
  BY DEF RobIndexes, Elements
<1>5. CASE ~flush
  <2> DEFINE n == CQ!NumCompleted
  <2>1. complete = SubSeq(queue, 1, n)
    BY <1>5 DEF CQ!Completions
  <2>2. Elements(complete) = Completing
    BY <1>3, <2>1, Split DEF Completing
  <2>3. Completing \subseteq InQueue
    BY CompletionParts
  <2> QED BY <1>2, <1>4, <2>2, <2>3
<1>6. CASE flush
  <2>1. Elements(complete) \subseteq InQueue
    <3>1. CASE complete = <<>>
      BY <3>1, EmptyPackets
    <3>2. CASE complete # <<>>
      <4>1. PICK k \in DOMAIN queue :
               complete = SubSeq(queue, k, CQ!LesserOf(k + WAY - 1, Len(queue)))
        BY <1>6, <3>2 DEF CQ!Completions
      <4> DEFINE b == CQ!LesserOf(k + WAY - 1, Len(queue))
      <4>2. k \in Nat /\ k >= 1 /\ b \in Nat /\ b <= Len(queue)
        BY <1>1 DEF CQ!LesserOf
      <4> HIDE DEF b
      <4>3. \A j \in k .. b : j \in DOMAIN queue /\ queue[j] \in InQueue
        BY <1>1, <4>2 DEF InQueue
      <4>4. complete = SubSeq(queue, k, b)
        BY <4>1 DEF b
      <4>5. complete \in Seq(InQueue)
        BY <4>2, <4>3, <4>4, SubSeqProperties
      <4> QED BY <4>5 DEF Elements
    <3> QED BY <3>1, <3>2
  <2> QED BY <1>2, <1>4, <1>6, <2>1
<1> QED BY <1>5, <1>6

\* A room large enough for all results.
Room(results) == Len(queue) < CQ_SIZE /\ Len(queue) + Len(results) <= CQ_SIZE

\* The queue gives up what completes and takes the results it has room for.
LEMMA QueueMoves ==
    ASSUME queue \in Seq(Packet), Len(queue) <= CQ_SIZE,
           NEW results \in Seq(Packet), NEW flush \in BOOLEAN
    PROVE  /\ CQ!queue_next(results, flush) \in Seq(Packet)
           /\ Len(CQ!queue_next(results, flush)) <= CQ_SIZE
           /\ flush => CQ!queue_next(results, flush) = <<>>
           /\ Elements(CQ!queue_next(results, flush)) \subseteq Uncompleted \cup Elements(results)
           /\ ~flush /\ Room(results) =>
                 Elements(CQ!queue_next(results, flush)) = Uncompleted \cup Elements(results)
           /\ Distinct(queue) /\ Distinct(results) /\ Disjoint(Uncompleted, Elements(results))
                 => Distinct(CQ!queue_next(results, flush))
<1> DEFINE n == CQ!NumCompleted
           rest == SubSeq(queue, n + 1, Len(queue))
           taken == CQ!Accepted(results)
           m == CQ!LesserOf(CQ_SIZE - Len(queue), Len(results))
           r == CQ!queue_next(results, flush)
<1>1. CQ_SIZE \in Nat /\ Len(queue) \in Nat /\ Len(results) \in Nat
  BY BackendAssumption
<1>2. n \in 0 .. Len(queue)
  BY CompletionParts
<1>3. /\ rest \in Seq(Packet) /\ Len(rest) = Len(queue) - n
      /\ Elements(rest) = Uncompleted
      /\ Distinct(queue) => Distinct(rest)
  <2> HIDE DEF n
  <2> QED BY <1>2, Split DEF Uncompleted, n
<1>4. m \in 0 .. Len(results) /\ m <= CQ_SIZE - Len(queue)
  BY <1>1 DEF CQ!LesserOf
<1>5. taken = SubSeq(results, 1, m)
  BY DEF CQ!Accepted
<1>6. /\ taken \in Seq(Packet) /\ Len(taken) = m /\ Elements(taken) \subseteq Elements(results)
      /\ Distinct(results) => Distinct(taken)
  <2> HIDE DEF m
  <2>1. /\ taken \in Seq(Packet) /\ Len(taken) = m /\ Elements(taken) = {results[k] : k \in 1 .. m}
        /\ Distinct(results) => Distinct(taken)
    BY <1>4, <1>5, Split
  <2>2. 1 .. m \subseteq DOMAIN results
    BY <1>1, <1>4
  <2> QED BY <2>1, <2>2 DEF Elements
<1>8. CASE flush \/ CQ!IsFull
  <2>1. r = <<>>
    BY <1>8 DEF CQ!queue_next
  <2>2. ~flush => ~Room(results)
    BY <1>1, <1>8 DEF CQ!IsFull, Room
  <2> QED BY <1>1, <2>1, <2>2, EmptyPackets
<1>9. CASE ~(flush \/ CQ!IsFull)
  <2>1. r = rest \o taken
    BY <1>9 DEF CQ!queue_next
  <2> HIDE DEF rest, taken, m, n, r
  <2>2. /\ r \in Seq(Packet) /\ Len(r) = (Len(queue) - n) + m
        /\ Elements(r) = Uncompleted \cup Elements(taken)
        /\ Distinct(rest) /\ Distinct(taken) /\ Disjoint(Elements(rest), Elements(taken))
              => Distinct(r)
    BY <1>3, <1>6, <2>1, Joined DEF Disjoint
  <2>3. Len(r) <= CQ_SIZE
    BY <1>1, <1>2, <1>4, <2>2
  <2>4. Elements(r) \subseteq Uncompleted \cup Elements(results)
    BY <1>6, <2>2
  <2>5. ASSUME Room(results)
        PROVE  Elements(r) = Uncompleted \cup Elements(results)
    <3>1. m = Len(results)
      BY <1>1, <2>5 DEF Room, m, CQ!LesserOf
    <3>2. taken = results
      BY <1>1, <1>5, <3>1, Split
    <3> QED BY <1>3, <2>2, <3>2
  <2>6. ASSUME Distinct(queue), Distinct(results), Disjoint(Uncompleted, Elements(results))
        PROVE  Distinct(r)
    <3>1. Disjoint(Elements(rest), Elements(taken))
      BY <1>3, <1>6, <2>6 DEF Disjoint, Has
    <3> QED BY <1>3, <1>6, <2>2, <2>6, <3>1
  <2>7. flush = FALSE
    BY <1>9
  <2> QED BY <2>2, <2>3, <2>4, <2>5, <2>6, <2>7 DEF r
<1> QED BY <1>8, <1>9

-----------------------------------------------------------------------------
(* The packets after the step.                                              *)

\* The packets of a part as the step leaves them.
Moved(gone, packets) == {After(gone, p) : p \in packets}

\* What a packet still needs after the step.
LeftOf(gone, p) ==
    IF p.current /\ p.rob_index \notin gone
    THEN {i \in p.needs : rob_mem'[i].valid /\ ~rob_mem'[i].complete}
    ELSE {}

\* A packet keeps its name and its type; one that leaves the ROB, and only
\* that one, is no longer current; what it needs can only become less.
LEMMA AfterPacket ==
    ASSUME NEW gone, NEW p \in Packet
    PROVE  /\ After(gone, p) \in Packet /\ After(gone, p) # NoInst
           /\ After(gone, p).rob_index = p.rob_index
           /\ After(gone, p).kind = p.kind
           /\ After(gone, p).waits = p.waits
           /\ After(gone, p).current <=> p.current /\ p.rob_index \notin gone
           /\ After(gone, p).needs = LeftOf(gone, p)
<1>1. p # NoInst /\ NoInst \notin Packet
  BY BackendAssumption
<1>2. CASE ~p.current \/ p.rob_index \in gone
  <2>1. After(gone, p) = [p EXCEPT !.needs = {}, !.current = FALSE]
    BY <1>1, <1>2 DEF After
  <2>2. LeftOf(gone, p) = {}
    BY <1>2 DEF LeftOf
  <2> QED BY <1>1, <1>2, <2>1, <2>2 DEF Packet
<1>3. CASE ~(~p.current \/ p.rob_index \in gone)
  <2> DEFINE left == {i \in p.needs : rob_mem'[i].valid /\ ~rob_mem'[i].complete}
  <2>1. After(gone, p) = [p EXCEPT !.needs = left]
    BY <1>1, <1>3 DEF After
  <2>2. left \in SUBSET Index
    BY DEF Packet
  <2> HIDE DEF left
  <2>3. /\ After(gone, p) \in Packet
        /\ After(gone, p).rob_index = p.rob_index
        /\ After(gone, p).kind = p.kind
        /\ After(gone, p).waits = p.waits
        /\ After(gone, p).current = p.current
        /\ After(gone, p).needs = left
    BY <2>1, <2>2 DEF Packet
  <2>4. left = LeftOf(gone, p)
    BY <1>3 DEF LeftOf, left
  <2> QED BY <1>1, <1>3, <2>3, <2>4
<1> QED BY <1>2, <1>3

\* Its name and its type.
LEMMA AfterName ==
    ASSUME NEW gone
    PROVE  \A p \in Packet : /\ After(gone, p) \in Packet /\ After(gone, p) # NoInst
                             /\ After(gone, p).rob_index = p.rob_index
                             /\ After(gone, p).kind = p.kind
                             /\ After(gone, p).current <=> p.current /\ p.rob_index \notin gone
<1> SUFFICES ASSUME NEW p \in Packet
             PROVE  /\ After(gone, p) \in Packet /\ After(gone, p) # NoInst
                    /\ After(gone, p).rob_index = p.rob_index
                    /\ After(gone, p).kind = p.kind
                    /\ After(gone, p).current <=> p.current /\ p.rob_index \notin gone
  OBVIOUS
<1> QED BY AfterPacket

\* So it is with the packets of a part.
LEMMA MovedPackets ==
    ASSUME NEW gone, NEW packets \in SUBSET Packet
    PROVE  /\ Moved(gone, packets) \subseteq Packet
           /\ \A i : Has(Moved(gone, packets), i) <=> Has(packets, i) /\ i \notin gone
BY AfterName DEF Moved, Has

\* A sequence after the step.
LEMMA AfterSequence ==
    ASSUME NEW gone, NEW s \in Seq(Packet)
    PROVE  /\ AllAfter(gone, s) \in Seq(Packet) /\ Len(AllAfter(gone, s)) = Len(s)
           /\ Elements(AllAfter(gone, s)) = Moved(gone, Elements(s))
           /\ Distinct(s) => Distinct(AllAfter(gone, s))
<1> DEFINE t == AllAfter(gone, s)
<1>1. Len(s) \in Nat /\ DOMAIN s = 1 .. Len(s) /\ \A k \in 1 .. Len(s) : s[k] \in Packet
  OBVIOUS
<1>2. t = [k \in 1 .. Len(s) |-> After(gone, s[k])]
  BY <1>1 DEF AllAfter
<1> HIDE DEF t
<1>3. \A k \in 1 .. Len(s) : /\ t[k] = After(gone, s[k]) /\ t[k] \in Packet
                             /\ t[k].rob_index = s[k].rob_index
                             /\ t[k].current => s[k].current
  BY <1>1, <1>2, AfterName
<1>4. t \in Seq(Packet) /\ Len(t) = Len(s) /\ DOMAIN t = 1 .. Len(s)
  <2>1. t \in [1 .. Len(s) -> Packet]
    BY <1>2, <1>3
  <2> QED BY <1>1, <2>1
<1>5. Elements(t) = Moved(gone, Elements(s))
  <2>1. Elements(t) = {t[k] : k \in 1 .. Len(s)} /\ Elements(s) = {s[k] : k \in 1 .. Len(s)}
    BY <1>1, <1>4 DEF Elements
  <2>2. Elements(t) \subseteq Moved(gone, Elements(s))
    BY <1>3, <2>1 DEF Moved
  <2>3. Moved(gone, Elements(s)) \subseteq Elements(t)
    BY <1>3, <2>1 DEF Moved
  <2> QED BY <2>2, <2>3
<1>6. Distinct(s) => Distinct(t)
  BY <1>1, <1>3, <1>4 DEF Distinct, SameInst
<1> QED BY <1>4, <1>5, <1>6 DEF t

\* A register after the step.
LEMMA AfterRegister ==
    ASSUME NEW gone, NEW r \in Register
    PROVE  /\ After(gone, r) \in Register
           /\ One(After(gone, r)) = Moved(gone, One(r))
<1>1. CASE r = NoInst
  BY <1>1 DEF After, Register, One, Moved
<1>2. CASE r # NoInst
  <2>1. r \in Packet
    BY <1>2 DEF Register
  <2>2. After(gone, r) \in Packet /\ After(gone, r) # NoInst
    BY <2>1, AfterName
  <2>3. One(r) = {r} /\ One(After(gone, r)) = {After(gone, r)}
    BY <1>2, <2>2 DEF One
  <2>4. Moved(gone, {r}) = {After(gone, r)}
    BY DEF Moved
  <2> QED BY <2>2, <2>3, <2>4 DEF Register
<1> QED BY <1>1, <1>2

\* The multipliers after the step.
AfterMult(gone, m) == [u \in 1 .. WAY |-> AllAfter(gone, m[u])]

\* So it is with all of them.
LEMMA AfterMultipliers ==
    ASSUME NEW gone, NEW m \in Multipliers
    PROVE  /\ AfterMult(gone, m) \in Multipliers
           /\ InMult(AfterMult(gone, m)) = Moved(gone, InMult(m))
           /\ DistinctMult(m) => DistinctMult(AfterMult(gone, m))
<1> DEFINE t == AfterMult(gone, m)
<1>1. \A u \in 1 .. WAY, s \in 0 .. NUM_STAGE : m[u][s] \in Register
  BY DEF Multipliers
<1>2. t = [u \in 1 .. WAY |-> [s \in 0 .. NUM_STAGE |-> After(gone, m[u][s])]]
  BY DEF AfterMult, AllAfter, Multipliers
<1> HIDE DEF t
<1>3. \A u \in 1 .. WAY, s \in 0 .. NUM_STAGE :
         /\ t[u][s] = After(gone, m[u][s]) /\ t[u][s] \in Register
         /\ m[u][s] = NoInst => t[u][s] = NoInst
         /\ m[u][s] # NoInst => /\ t[u][s] # NoInst
                                /\ t[u][s].rob_index = m[u][s].rob_index
                                /\ t[u][s].current => m[u][s].current
  <2> SUFFICES ASSUME NEW u \in 1 .. WAY, NEW s \in 0 .. NUM_STAGE
               PROVE  /\ t[u][s] = After(gone, m[u][s]) /\ t[u][s] \in Register
                      /\ m[u][s] = NoInst => t[u][s] = NoInst
                      /\ m[u][s] # NoInst => /\ t[u][s] # NoInst
                                             /\ t[u][s].rob_index = m[u][s].rob_index
                                             /\ t[u][s].current => m[u][s].current
    OBVIOUS
  <2>1. t[u][s] = After(gone, m[u][s])
    BY <1>2
  <2>2. m[u][s] \in Register
    BY <1>1
  <2>3. CASE m[u][s] = NoInst
    BY <2>1, <2>2, <2>3 DEF After
  <2>4. CASE m[u][s] # NoInst
    <3>1. m[u][s] \in Packet
      BY <2>2, <2>4 DEF Register
    <3> QED BY <2>1, <2>4, <3>1, AfterName DEF Register
  <2> QED BY <2>3, <2>4
<1>4. t \in Multipliers
  <2>1. t = [u \in 1 .. WAY |-> [s \in 0 .. NUM_STAGE |-> t[u][s]]]
    BY <1>2
  <2> QED BY <1>3, <2>1 DEF Multipliers
<1>5. InMult(t) = Moved(gone, InMult(m))
  <2>1. InMult(t) \subseteq Moved(gone, InMult(m))
    BY <1>3 DEF InMult, Moved
  <2>2. Moved(gone, InMult(m)) \subseteq InMult(t)
    BY <1>3 DEF InMult, Moved
  <2> QED BY <2>1, <2>2
<1>6. DistinctMult(m) => DistinctMult(t)
  BY <1>3 DEF DistinctMult, SameInst
<1> QED BY <1>4, <1>5, <1>6 DEF t

-----------------------------------------------------------------------------
(* The reservation station.                                                 *)

\* The instructions that are neither issued nor squashed, and one of them with
\* the results of the cycle.
Waiting(issue, rewind) == {p \in rs : p.rob_index \notin rewind /\ p \notin Elements(issue)}
Woken(complete, p) == [p EXCEPT !.waits = @ \ complete]

\* The table without what is issued or squashed.
LEMMA StationKeeps ==
    ASSUME NEW issue, NEW rewind, NEW complete
    PROVE  RS!Remaining(issue, rewind, complete) = {Woken(complete, p) : p \in Waiting(issue, rewind)}
BY DEF RS!Remaining, Waiting, Woken, Elements

\* Waking up changes nothing but what the packet waits for.
LEMMA WokenPacket ==
    ASSUME NEW complete, NEW p \in Packet
    PROVE  /\ Woken(complete, p) \in Packet
           /\ Woken(complete, p).rob_index = p.rob_index
           /\ Woken(complete, p).kind = p.kind
           /\ Woken(complete, p).waits = p.waits \ complete
           /\ Woken(complete, p).needs = p.needs
           /\ Woken(complete, p).current = p.current
<1> DEFINE w == p.waits \ complete
<1>1. Woken(complete, p) = [p EXCEPT !.waits = w]
  BY DEF Woken
<1>2. w \in SUBSET Index
  BY DEF Packet
<1> HIDE DEF w
<1>3. /\ Woken(complete, p) \in Packet
      /\ Woken(complete, p).rob_index = p.rob_index
      /\ Woken(complete, p).kind = p.kind
      /\ Woken(complete, p).waits = w
      /\ Woken(complete, p).needs = p.needs
      /\ Woken(complete, p).current = p.current
  BY <1>1, <1>2 DEF Packet
<1> QED BY <1>3 DEF w

\* What is issued was ready, and fits where it goes.
LEMMA IssueKnown ==
    ASSUME rs \subseteq Packet, IsFiniteSet(rs), NEW room \in Int, NEW issue \in RS!Issues(room)
    PROVE  /\ issue \in Seq(Packet) /\ (room >= 0 => Len(issue) <= room)
           /\ Elements(issue) \subseteq rs /\ \A p \in Elements(issue) : p.waits = {}
           /\ (\A p, q \in rs : SameInst(p, q) => p = q) => Distinct(issue)
<1> DEFINE num == RS!Lower(room, RS!Cardinality(RS!ready_source))
<1>1. RS!ready_source \subseteq rs /\ \A p \in RS!ready_source : p.waits = {}
  BY DEF RS!ready_source
<1>2. Cardinality(RS!ready_source) \in Nat
  BY <1>1, FS_Subset, FS_CardinalityType
<1>3. num \in Int /\ num <= room
  BY <1>2, SameOrder DEF RS!Lower
<1>4. /\ issue \in [1 .. num -> RS!ready_source]
      /\ \A j, k \in 1 .. num : issue[j] = issue[k] => j = k
  BY DEF RS!Issues
<1> HIDE DEF num
<1> DEFINE n == IF num >= 0 THEN num ELSE 0
<1>5. n \in Nat /\ 1 .. num = 1 .. n /\ (num >= 0 => n = num) /\ (num < 0 => n = 0)
  BY <1>3
<1> HIDE DEF n
<1>6. issue \in [1 .. n -> Packet] /\ DOMAIN issue = 1 .. n
  BY <1>1, <1>4, <1>5
<1>7. issue \in Seq(Packet) /\ Len(issue) = n
  BY <1>5, <1>6
<1>8. room >= 0 => Len(issue) <= room
  BY <1>3, <1>5, <1>7
<1>9. \A k \in 1 .. n : issue[k] \in RS!ready_source
  BY <1>4, <1>5
<1>10. Elements(issue) \subseteq rs /\ \A p \in Elements(issue) : p.waits = {}
  BY <1>1, <1>6, <1>9 DEF Elements
<1>11. ASSUME \A p, q \in rs : SameInst(p, q) => p = q
       PROVE  Distinct(issue)
  <2>1. \A k \in 1 .. n : issue[k] \in rs
    BY <1>1, <1>9
  <2> QED BY <1>4, <1>5, <1>6, <1>11, <2>1 DEF Distinct
<1> QED BY <1>7, <1>8, <1>10, <1>11

-----------------------------------------------------------------------------
(* The reorder buffer.                                                      *)

\* What is proved about the ROB by itself.
RP == INSTANCE RobProofs WITH ArchReg <- {0}, PhyReg <- {0}, Insts <- ROB!Inst

\* The ROB is instantiated as its proofs assume.
LEMMA RobHypothesis == RP!RobAssumption
<1>1. ROB_SIZE \in Nat \ {0} /\ WAY \in Nat \ {0}
  BY BackendAssumption
<1>2. ROB!Inst = RP!Inst
  BY DEF ROB!Inst, RP!Inst, ROB!Code, RP!Code, ROB!Kind, RP!Kind
<1> QED BY <1>1, <1>2 DEF RP!RobAssumption, PC

\* The ROB of the model and the one of its proofs have the same ring.
LEMMA SameRing ==
    /\ ROB!Occupied = RP!Occupied
    /\ \A d : ROB!At(d) = RP!At(d) /\ ROB!Wrap(d) = RP!Wrap(d)
    /\ \A i : ROB!Dist(i) = RP!Dist(i) /\ (ROB!Live(i) <=> RP!Live(i))
    /\ \A i : ROB!Place(i) = RP!Place(i) /\ ROB!RobIndexOf(i) = RP!RobIndexOf(i)
    /\ \A n : ROB!Left(n) = RP!Left(n) /\ ROB!HeadNext(n) = RP!HeadNext(n)
    /\ \A i, n : ROB!Retired(i, n) <=> RP!Retired(i, n)
    /\ \A i, r : ROB!Rewound(i, r) <=> RP!Rewound(i, r)
    /\ ROB!Index = RP!Index
    /\ Index = RP!Index
    /\ \A i : Dist(i) = RP!Dist(i)
BY DEF ROB!Occupied, RP!Occupied, ROB!At, RP!At, ROB!Wrap, RP!Wrap, ROB!HeadNext,
       RP!HeadNext, ROB!Dist, RP!Dist, ROB!Live, RP!Live, ROB!Place, RP!Place,
       ROB!RobIndexOf, RP!RobIndexOf, ROB!Left, RP!Left, ROB!Retired, RP!Retired,
       ROB!Rewound, RP!Rewound, ROB!Back, RP!Back, ROB!Index, RP!Index, Index, Dist

\* And the same wires.
LEMMA SameCycle ==
    /\ \A s : ROB!RetireNum(s) = RP!RetireNum(s)
    /\ \A n, s : ROB!InRewindNext(n, s) <=> RP!InRewindNext(n, s)
    /\ \A n, s : ROB!StartsRewind(n, s) <=> RP!StartsRewind(n, s)
    /\ \A n, s : ROB!RewindNum(n, s) = RP!RewindNum(n, s)
    /\ \A n, r : ROB!Mispredict(n, r) <=> RP!Mispredict(n, r)
    /\ \A n, s, r : ROB!NumCanDispatch(n, s, r) = RP!NumCanDispatch(n, s, r)
    /\ \A n : ROB!RewindDone(n) <=> RP!RewindDone(n)
    /\ ROB!Resolution = RP!Resolution /\ ROB!Inst = RP!Inst
<1>1. \A s : ROB!RetireNum(s) = RP!RetireNum(s)
  BY DEF ROB!RetireNum, RP!RetireNum, ROB!Retires, RP!Retires, ROB!Examines, RP!Examines,
         ROB!At, RP!At, ROB!Wrap, RP!Wrap, ROB!Occupied, RP!Occupied
<1>2. \A n, s : ROB!StartsRewind(n, s) <=> RP!StartsRewind(n, s)
  BY DEF ROB!StartsRewind, RP!StartsRewind, ROB!Examines, RP!Examines,
         ROB!At, RP!At, ROB!Wrap, RP!Wrap, ROB!Occupied, RP!Occupied
<1>3. \A n, s : ROB!InRewindNext(n, s) <=> RP!InRewindNext(n, s)
  BY <1>2 DEF ROB!InRewindNext, RP!InRewindNext
<1>4. \A n, s : ROB!RewindNum(n, s) = RP!RewindNum(n, s)
  BY <1>3, SameRing DEF ROB!RewindNum, RP!RewindNum, ROB!Least, RP!Least
<1>5. \A n, r : ROB!Mispredict(n, r) <=> RP!Mispredict(n, r)
  BY DEF ROB!Mispredict, RP!Mispredict, ROB!AfterRetire, RP!AfterRetire, ROB!Retired,
         RP!Retired, ROB!Cleared, RP!Cleared, ROB!Dist, RP!Dist
<1>6. \A n, s, r : ROB!NumCanDispatch(n, s, r) = RP!NumCanDispatch(n, s, r)
  BY <1>3, <1>5, SameRing DEF ROB!NumCanDispatch, RP!NumCanDispatch, ROB!Least, RP!Least
<1>7. \A n : ROB!RewindDone(n) <=> RP!RewindDone(n)
  BY SameRing DEF ROB!RewindDone, RP!RewindDone
<1>8. ROB!Resolution = RP!Resolution
  BY DEF ROB!Resolution, RP!Resolution, ROB!NoResolution, RP!NoResolution, ROB!Index, RP!Index
<1>9. ROB!Inst = RP!Inst
  BY DEF ROB!Inst, RP!Inst, ROB!Code, RP!Code, ROB!Kind, RP!Kind
<1> QED BY <1>1, <1>2, <1>3, <1>4, <1>5, <1>6, <1>7, <1>8, <1>9

\* And the same cycles.
LEMMA SameSteps ==
    /\ \A n, s, c, r, g : ROB!Run(n, s, c, r, g) <=> RP!Run(n, s, c, r, g)
    /\ \A n, s : ROB!Rewind(n, s) <=> RP!Rewind(n, s)
    /\ ROB!Init <=> RP!Init
    /\ ROB!TypeOK <=> RP!TypeOK
<1>1. \A n, s, c, r, g : ROB!Run(n, s, c, r, g) <=> RP!Run(n, s, c, r, g)
  BY DEF ROB!Run, RP!Run, ROB!InRewindNext, RP!InRewindNext, ROB!StartsRewind,
         RP!StartsRewind, ROB!Examines, RP!Examines, ROB!At, RP!At, ROB!Wrap,
         RP!Wrap, ROB!Occupied, RP!Occupied, ROB!Least, RP!Least,
         ROB!NumCanDispatch, RP!NumCanDispatch, ROB!Left, RP!Left,
         ROB!Mispredict, RP!Mispredict, ROB!AfterRetire, RP!AfterRetire,
         ROB!Retired, RP!Retired, ROB!Cleared, RP!Cleared, ROB!AfterResolve,
         RP!AfterResolve, ROB!AfterComplete, RP!AfterComplete, ROB!TakesOver,
         RP!TakesOver, ROB!Place, RP!Place, ROB!RobIndexOf, RP!RobIndexOf,
         ROB!Faulty, RP!Faulty, ROB!NewEntry, RP!NewEntry, ROB!FirstFaulty,
         RP!FirstFaulty, ROB!HeadNext, RP!HeadNext, ROB!Index, RP!Index,
         ROB!Dist, RP!Dist
<1>2. \A n, s : ROB!Rewind(n, s) <=> RP!Rewind(n, s)
  BY DEF ROB!Rewind, RP!Rewind, ROB!RewindNum, RP!RewindNum, ROB!RewindDone,
         RP!RewindDone, ROB!Rewound, RP!Rewound, ROB!Back, RP!Back,
         ROB!InRewindNext, RP!InRewindNext, ROB!StartsRewind, RP!StartsRewind,
         ROB!Examines, RP!Examines, ROB!At, RP!At, ROB!Wrap, RP!Wrap,
         ROB!Occupied, RP!Occupied, ROB!Least, RP!Least, ROB!Left, RP!Left,
         ROB!Retired, RP!Retired, ROB!Cleared, RP!Cleared,
         ROB!HeadNext, RP!HeadNext, ROB!Index, RP!Index, ROB!Dist, RP!Dist
<1>3. ROB!Init <=> RP!Init
  BY DEF ROB!Init, RP!Init, ROB!Cleared, RP!Cleared, ROB!Index, RP!Index
<1>4. ROB!TypeOK <=> RP!TypeOK
  BY DEF ROB!TypeOK, RP!TypeOK, ROB!Entry, RP!Entry, ROB!Kind, RP!Kind, ROB!Code, RP!Code,
         ROB!Index, RP!Index
<1> QED BY <1>1, <1>2, <1>3, <1>4

\* The entries that hold an instruction, by the ROB of its proofs.
LEMMA InFlightIs ==
    /\ InFlight = {i \in Index : RP!Live(i) /\ ~rob_mem[i].complete}
    /\ InFlight' = {i \in Index : RP!Live(i)' /\ ~rob_mem'[i].complete}
<1>1. /\ \A i : ROB!Live(i) <=> RP!Live(i)
      /\ \A i : ROB!Live(i)' <=> RP!Live(i)'
  BY DEF ROB!Live, RP!Live, ROB!Dist, RP!Dist, ROB!Occupied, RP!Occupied
<1>2. Index' = Index
  BY DEF Index, ROB!Index
<1> QED BY <1>1, <1>2 DEF InFlight

\* The entries that are held and do not retire, and those of the new group.
Remains(i, n) == RP!Live(i) /\ ~RP!Retired(i, n)
Placed(i, g) == RP!Place(i) <= Len(g)

\* What a cycle without a rewind does to the entry i.
EntryRuns(i, n, complete, resolve, g) ==
    /\ RP!Dist(i) \in Nat /\ RP!Dist(i)' \in Nat
    /\ RP!Place(i) \in Nat /\ RP!Place(i) >= 1
    /\ RP!Live(i)' <=> Remains(i, n) \/ Placed(i, g)
    /\ rob_mem'[i].valid <=> RP!Live(i)'
    /\ ~(Remains(i, n) /\ Placed(i, g))
    /\ RP!Retired(i, n) => rob_mem[i].complete /\ ~rob_mem[i].exception
    /\ Remains(i, n) =>
          /\ RP!Dist(i)' = RP!Dist(i) - n
          /\ RP!Dist(i)' < RP!Left(n)
          /\ rob_mem'[i].kind = rob_mem[i].kind
          /\ rob_mem'[i].complete <=> rob_mem[i].complete \/ i \in complete
          /\ rob_mem'[i].exception <=>
                rob_mem[i].exception \/ (RP!Mispredict(n, resolve) /\ i = resolve.rob_index)
    /\ Placed(i, g) =>
          /\ RP!Dist(i)' = RP!Left(n) + RP!Place(i) - 1
          /\ RP!RobIndexOf(RP!Place(i)) = i
          /\ rob_mem'[i] = RP!NewEntry(g[RP!Place(i)])

\* A cycle without a rewind, for all entries.
RunEffect(n, complete, resolve, g) ==
    /\ RP!RobInv'
    /\ ~in_rewind /\ ~in_rewind' /\ ~store_flush'
    /\ n \in Nat /\ RP!Left(n) \in Nat /\ Len(g) \in Nat
    /\ \A i \in Index : EntryRuns(i, n, complete, resolve, g)
    /\ \A k \in 1 .. Len(g) : RP!RobIndexOf(k) \in Index /\ RP!Place(RP!RobIndexOf(k)) = k
    /\ has_rewind \/ RP!Mispredict(n, resolve) => Len(g) = 0
    /\ RP!Mispredict(n, resolve) => /\ resolve.valid
                                    /\ resolve.rob_index \in Index
                                    /\ Remains(resolve.rob_index, n)

\* A cycle that does not rewind has this effect.
LEMMA RunShape ==
    ASSUME RP!RobInv, NEW n \in ROB!RetireNum(FALSE), NEW complete \in SUBSET Index,
           NEW resolve \in ROB!Resolution, NEW g \in RP!Group,
           ROB!Run(n, FALSE, complete, resolve, g)
    PROVE  RunEffect(n, complete, resolve, g)
<1>0. RP!RobAssumption
  BY RobHypothesis
<1>1. /\ RP!TypeOK /\ RP!ValidIffLive
      /\ n \in RP!RetireNum(FALSE) /\ FALSE \in BOOLEAN
      /\ complete \in SUBSET RP!Index /\ resolve \in RP!Resolution
      /\ RP!Run(n, FALSE, complete, resolve, g)
  BY SameCycle, SameRing, SameSteps DEF RP!RobInv
<1>2. n \in Nat /\ n <= RP!Occupied
  BY <1>0, <1>1, RP!RetireBound DEF RP!RobAssumption
<1>3. Len(g) <= RP!NumCanDispatch(n, FALSE, resolve)
  BY <1>1 DEF RP!Run
<1>4. /\ Len(g) \in Nat /\ Len(g) <= ROB_SIZE - RP!Left(n)
      /\ RP!InRewindNext(n, FALSE) \/ has_rewind \/ RP!Mispredict(n, resolve) => Len(g) = 0
  BY <1>0, <1>1, <1>2, <1>3, RP!GroupBound DEF RP!RobAssumption
<1>5. RP!RobInv'
  BY <1>0, <1>1, RP!RunPreserves DEF RP!RobAssumption
<1>6. /\ head' = RP!HeadNext(n) /\ tail' = RP!RobIndexOf(Len(g))
      /\ is_empty' = (RP!Left(n) = 0 /\ Len(g) = 0)
      /\ rob_mem' = [i \in RP!Index |->
             IF RP!Place(i) <= Len(g) THEN RP!NewEntry(g[RP!Place(i)])
             ELSE RP!AfterResolve(i, n, complete, resolve)]
      /\ store_flush' = FALSE /\ in_rewind' = in_rewind /\ ~RP!InRewindNext(n, FALSE)
  BY <1>1 DEF RP!Run
<1>7. \A i \in RP!Index :
         /\ RP!Live(i)' <=> (RP!Live(i) /\ ~RP!Retired(i, n)) \/ RP!Place(i) <= Len(g)
         /\ RP!Place(i) <= Len(g) => ~(RP!Live(i) /\ ~RP!Retired(i, n))
         /\ RP!Live(i) /\ ~RP!Retired(i, n) => RP!Dist(i)' = RP!Dist(i) - n
         /\ RP!Place(i) <= Len(g) => RP!Dist(i)' = RP!Left(n) + RP!Place(i) - 1
  <2> DEFINE m == Len(g)
  <2> HIDE DEF m
  <2>1. \A i \in RP!Index :
         /\ RP!Live(i)' <=> (RP!Live(i) /\ ~RP!Retired(i, n)) \/ RP!Place(i) <= m
         /\ RP!Place(i) <= m => ~(RP!Live(i) /\ ~RP!Retired(i, n))
         /\ RP!Live(i) /\ ~RP!Retired(i, n) => RP!Dist(i)' = RP!Dist(i) - n
         /\ RP!Place(i) <= m => RP!Dist(i)' = RP!Left(n) + RP!Place(i) - 1
    BY <1>0, <1>1, <1>2, <1>4, <1>6, RP!RunRing DEF RP!RobAssumption, m
  <2> QED BY <2>1 DEF m
<1>8. /\ head \in 0 .. ROB_SIZE - 1 /\ tail \in 0 .. ROB_SIZE - 1 /\ ROB_SIZE \in Nat
      /\ head' \in 0 .. ROB_SIZE - 1 /\ is_empty \in BOOLEAN
      /\ RP!Occupied \in Nat /\ RP!Left(n) = RP!Occupied - n /\ RP!Left(n) \in Nat
  <2>1. head' \in RP!Index
    BY <1>5 DEF RP!RobInv, RP!TypeOK
  <2>2. head \in 0 .. ROB_SIZE - 1 /\ tail \in 0 .. ROB_SIZE - 1 /\ is_empty \in BOOLEAN
    BY <1>1 DEF RP!TypeOK, RP!Index
  <2>3. RP!Occupied \in Nat
    BY <1>0, <2>2 DEF RP!Occupied, RP!RobAssumption
  <2> QED BY <1>0, <1>2, <2>1, <2>2, <2>3 DEF RP!Index, RP!Left, RP!RobAssumption
<1>9. \A i \in RP!Index : /\ RP!Dist(i) \in Nat /\ RP!Dist(i)' \in Nat
                          /\ RP!Place(i) \in Nat /\ RP!Place(i) >= 1
                          /\ RP!RobIndexOf(RP!Place(i)) = i
  <2> SUFFICES ASSUME NEW i \in 0 .. ROB_SIZE - 1
               PROVE  /\ RP!Dist(i) \in Nat /\ RP!Dist(i)' \in Nat
                      /\ RP!Place(i) \in Nat /\ RP!Place(i) >= 1
                      /\ RP!RobIndexOf(RP!Place(i)) = i
    BY DEF RP!Index
  <2>1. RP!Dist(i) \in Nat
    BY <1>8 DEF RP!Dist
  <2>2. RP!Dist(i)' \in Nat
    <3>1. RP!Dist(i)' = IF i >= head' THEN i - head' ELSE i + ROB_SIZE - head'
      BY DEF RP!Dist
    <3>2. head' \in 0 .. ROB_SIZE - 1 /\ ROB_SIZE \in Nat
      BY <1>8
    <3> HIDE <1>8
    <3> DEFINE h == head'
    <3> HIDE DEF h
    <3>3. RP!Dist(i)' = (IF i >= h THEN i - h ELSE i + ROB_SIZE - h) /\ h \in 0 .. ROB_SIZE - 1
      BY <3>1, <3>2 DEF h
    <3> QED BY <3>2, <3>3
  <2>3. RP!Place(i) \in Nat /\ RP!Place(i) >= 1
    BY <1>8 DEF RP!Place
  <2>4. RP!RobIndexOf(RP!Place(i)) = i
    BY <1>8 DEF RP!Place, RP!RobIndexOf, RP!Wrap
  <2> QED BY <2>1, <2>2, <2>3, <2>4
<1>10. ASSUME NEW i \in RP!Index PROVE EntryRuns(i, n, complete, resolve, g)
  <2>1. rob_mem'[i].valid <=> RP!Live(i)'
    BY <1>5, <1>10 DEF RP!RobInv, RP!ValidIffLive, RP!Index
  <2>2. RP!Retired(i, n) => rob_mem[i].complete /\ ~rob_mem[i].exception
    BY <1>0, <1>1, <1>10, RP!RetiredIsDone DEF RP!RobAssumption
  <2>3. ASSUME Placed(i, g)
        PROVE  /\ RP!Dist(i)' = RP!Left(n) + RP!Place(i) - 1
               /\ RP!RobIndexOf(RP!Place(i)) = i
               /\ rob_mem'[i] = RP!NewEntry(g[RP!Place(i)])
    BY <1>6, <1>7, <1>9, <1>10, <2>3 DEF Placed
  <2>4. ASSUME Remains(i, n)
        PROVE  /\ RP!Dist(i)' = RP!Dist(i) - n
               /\ RP!Dist(i)' < RP!Left(n)
               /\ rob_mem'[i].kind = rob_mem[i].kind
               /\ rob_mem'[i].complete <=> rob_mem[i].complete \/ i \in complete
               /\ rob_mem'[i].exception <=>
                     rob_mem[i].exception \/ (RP!Mispredict(n, resolve) /\ i = resolve.rob_index)
    <3>1. RP!Live(i) /\ ~RP!Retired(i, n) /\ ~(RP!Place(i) <= Len(g))
      BY <1>7, <1>10, <2>4 DEF Remains
    <3>2. RP!Dist(i)' = RP!Dist(i) - n /\ RP!Dist(i) < RP!Occupied
      BY <1>7, <1>10, <3>1 DEF RP!Live
    <3>3. rob_mem'[i] = RP!AfterResolve(i, n, complete, resolve)
      BY <1>6, <1>10, <3>1
    <3>4. rob_mem[i] \in RP!Entry
      BY <1>1, <1>10 DEF RP!TypeOK
    <3>5. RP!AfterComplete(i, n, complete) =
             IF i \in complete THEN [rob_mem[i] EXCEPT !.complete = TRUE] ELSE rob_mem[i]
      BY <3>1 DEF RP!AfterComplete, RP!AfterRetire
    <3>6. /\ RP!AfterComplete(i, n, complete).kind = rob_mem[i].kind
          /\ RP!AfterComplete(i, n, complete).exception = rob_mem[i].exception
          /\ RP!AfterComplete(i, n, complete).complete <=> rob_mem[i].complete \/ i \in complete
          /\ RP!AfterComplete(i, n, complete) \in RP!Entry
      BY <3>4, <3>5 DEF RP!Entry
    <3>7. /\ rob_mem'[i].kind = RP!AfterComplete(i, n, complete).kind
          /\ rob_mem'[i].complete = RP!AfterComplete(i, n, complete).complete
          /\ rob_mem'[i].exception <=>
                \/ RP!AfterComplete(i, n, complete).exception
                \/ RP!Mispredict(n, resolve) /\ i = resolve.rob_index
      <4> DEFINE a == RP!AfterComplete(i, n, complete)
      <4>1. a \in RP!Entry
        BY <3>6
      <4> HIDE DEF a
      <4>2. rob_mem'[i] = IF RP!Mispredict(n, resolve) /\ i = resolve.rob_index
                          THEN [a EXCEPT !.exception = TRUE, !.code = "NO_ERROR",
                                         !.target_pc = resolve.target_pc]
                          ELSE a
        BY <3>3 DEF RP!AfterResolve, a
      <4>3. CASE RP!Mispredict(n, resolve) /\ i = resolve.rob_index
        BY <4>1, <4>2, <4>3 DEF RP!Entry, a
      <4>4. CASE ~(RP!Mispredict(n, resolve) /\ i = resolve.rob_index)
        BY <4>1, <4>2, <4>4 DEF RP!Entry, a
      <4> QED BY <4>3, <4>4
    <3>8. RP!Dist(i)' < RP!Left(n)
      BY <1>2, <1>8, <1>9, <1>10, <3>2
    <3> QED BY <3>2, <3>6, <3>7, <3>8
  <2>5. /\ RP!Live(i)' <=> Remains(i, n) \/ Placed(i, g)
        /\ ~(Remains(i, n) /\ Placed(i, g))
    BY <1>7, <1>10 DEF Remains, Placed
  <2> QED BY <1>9, <1>10, <2>1, <2>2, <2>3, <2>4, <2>5 DEF EntryRuns
<1>11. ASSUME NEW k \in 1 .. Len(g)
       PROVE  RP!RobIndexOf(k) \in RP!Index /\ RP!Place(RP!RobIndexOf(k)) = k
  <2>1. k \in Nat /\ 1 <= k /\ k <= ROB_SIZE
    BY <1>4, <1>8
  <2> QED BY <1>8, <2>1 DEF RP!Wrap, RP!Index, RP!RobIndexOf, RP!Place
<1>12. RP!Mispredict(n, resolve) => /\ resolve.valid
                                    /\ resolve.rob_index \in RP!Index
                                    /\ Remains(resolve.rob_index, n)
  <2>1. RP!Mispredict(n, resolve) => resolve.valid
    BY DEF RP!Mispredict
  <2> QED BY <1>0, <1>1, <1>2, <2>1, RP!MispredictLive DEF RP!RobAssumption, Remains
<1>13. ~in_rewind
  BY <1>6 DEF RP!InRewindNext
<1> QED BY <1>2, <1>4, <1>5, <1>6, <1>8, <1>10, <1>11, <1>12, <1>13, SameRing DEF RunEffect

\* What a cycle with a rewind does to the entry i, h being the faulty one.
EntryRewinds(i, n, r, h) ==
    /\ RP!Dist(i) \in Nat /\ RP!Dist(i)' \in Nat
    /\ RP!Live(i)' <=> Remains(i, n) /\ ~RP!Rewound(i, r)
    /\ rob_mem'[i].valid <=> RP!Live(i)'
    /\ RP!Retired(i, n) => rob_mem[i].complete /\ ~rob_mem[i].exception
    /\ RP!Rewound(i, r) => RP!Live(i) /\ RP!Dist(h) < RP!Dist(i) /\ ~RP!Retired(i, n)
    /\ RP!Live(i) => (RP!Rewound(i, r) <=> RP!Dist(i) >= RP!Occupied - r)
    /\ RP!Live(i)' =>
          /\ RP!Dist(i)' = RP!Dist(i) - n
          /\ rob_mem'[i].kind = rob_mem[i].kind
          /\ rob_mem'[i].complete = rob_mem[i].complete
          /\ rob_mem'[i].exception => rob_mem[i].exception
          /\ store_flush' => i = h

\* A cycle with a rewind, for all entries.
RewindEffect(n, r, h) ==
    /\ RP!RobInv'
    /\ n \in Nat /\ r \in Nat /\ RP!Occupied \in Nat
    /\ h \in Index /\ RP!Live(h) /\ RP!Dist(h) = n
    /\ rob_mem[h].exception
    /\ ~in_rewind => rob_mem[h].complete
    /\ in_rewind => h = head /\ n = 0
    /\ head' = h /\ \A i \in Index : i = head' => RP!Live(i)'
    /\ in_rewind' = ~store_flush'
    /\ \A i \in Index : EntryRewinds(i, n, r, h)

\* The cycle rewinds r entries, and h is at its head then.
RewindSize(n, r, h) == r = ROB!RewindNum(n, FALSE) /\ h = ROB!HeadNext(n)

\* A cycle that rewinds has this effect.
LEMMA RewindShape ==
    ASSUME RP!RobInv, NEW n \in ROB!RetireNum(FALSE), ROB!Rewind(n, FALSE),
           NEW r, NEW h, RewindSize(n, r, h)
    PROVE  RewindEffect(n, r, h)
<1>r. r = RP!RewindNum(n, FALSE)
  BY SameCycle DEF RewindSize
<1>h. h = RP!HeadNext(n)
  BY SameRing DEF RewindSize
<1>0. RP!RobAssumption /\ ROB_SIZE \in Nat \ {0} /\ WAY \in Nat \ {0}
  BY RobHypothesis DEF RP!RobAssumption
<1>1. /\ RP!TypeOK /\ RP!ValidIffLive /\ RP!OldestException
      /\ n \in RP!RetireNum(FALSE) /\ FALSE \in BOOLEAN
      /\ RP!Rewind(n, FALSE) /\ RP!InRewindNext(n, FALSE)
  BY SameCycle, SameSteps DEF RP!RobInv, RP!Rewind
<1>2. /\ n \in Nat /\ n < RP!Occupied /\ has_rewind
      /\ oldest_exc_rob_index = h /\ h \in RP!Index /\ RP!Dist(h) = n
  BY <1>0, <1>1, <1>h, RP!RewindHead DEF RP!RobAssumption
<1>3. RP!RobInv'
  BY <1>0, <1>1, RP!RewindPreserves DEF RP!RobAssumption
<1>4. /\ head' = h /\ tail' = RP!Back(tail, r) /\ is_empty' = is_empty
      /\ rob_mem' = [i \in RP!Index |->
             IF RP!Retired(i, n) \/ RP!Rewound(i, r) THEN RP!Cleared
             ELSE IF RP!RewindDone(n) /\ i = h
             THEN [rob_mem[i] EXCEPT !.exception = FALSE] ELSE rob_mem[i]]
      /\ store_flush' = RP!RewindDone(n) /\ in_rewind' = ~RP!RewindDone(n)
  BY <1>1, <1>r, <1>h DEF RP!Rewind
<1>5. /\ head \in 0 .. ROB_SIZE - 1 /\ tail \in 0 .. ROB_SIZE - 1
      /\ head' \in 0 .. ROB_SIZE - 1 /\ is_empty = FALSE
      /\ RP!Occupied \in Nat /\ RP!Left(n) = RP!Occupied - n
  <2>1. head' \in RP!Index
    BY <1>3 DEF RP!RobInv, RP!TypeOK
  <2>2. head \in 0 .. ROB_SIZE - 1 /\ tail \in 0 .. ROB_SIZE - 1 /\ is_empty \in BOOLEAN
    BY <1>1 DEF RP!TypeOK, RP!Index
  <2>3. RP!Occupied \in Nat
    BY <1>0, <2>2 DEF RP!Occupied
  <2>4. is_empty = FALSE
    BY <1>2, <2>2 DEF RP!Occupied
  <2> QED BY <1>0, <2>1, <2>2, <2>3, <2>4 DEF RP!Index, RP!Left
<1>6. /\ r \in Nat /\ r <= RP!Left(n) - 1
      /\ RP!RewindDone(n) => r = RP!Left(n) - 1
  <2>1. r = RP!Least(WAY, RP!Left(n) - 1)
    BY <1>1, <1>r DEF RP!RewindNum
  <2> DEFINE m == RP!Left(n) - 1
  <2>2. m \in Nat
    BY <1>2, <1>5
  <2>3. r = IF WAY < m THEN WAY ELSE m
    BY <2>1 DEF RP!Least
  <2>4. RP!RewindDone(n) <=> m < WAY
    BY DEF RP!RewindDone
  <2> HIDE DEF m
  <2>5. r \in Nat
    BY <1>0, <2>2, <2>3
  <2>6. r <= m
    BY <1>0, <2>2, <2>3, <2>5
  <2>7. RP!RewindDone(n) => r = m
    BY <1>0, <2>2, <2>3, <2>4, <2>5
  <2> QED BY <2>5, <2>6, <2>7 DEF m
<1>7. /\ RP!Occupied' = RP!Left(n) - r
      /\ \A i \in RP!Index :
            /\ RP!Live(i)' <=> RP!Live(i) /\ ~RP!Retired(i, n) /\ ~RP!Rewound(i, r)
            /\ RP!Retired(i, n) => RP!Live(i)
            /\ RP!Rewound(i, r) => RP!Live(i)
            /\ RP!Live(i)' => RP!Dist(i)' = RP!Dist(i) - n
            /\ i = head' => RP!Live(i)' /\ RP!Dist(i)' = 0
  BY <1>0, <1>1, <1>2, <1>4, <1>6, <1>r, <1>h, RP!RewindRing DEF RP!RobAssumption
<1>8. RP!Live(h) /\ rob_mem[h].exception
  BY <1>1, <1>2 DEF RP!OldestException
<1>9. ~in_rewind => rob_mem[h].complete
  <2>1. ASSUME ~in_rewind PROVE rob_mem[h].complete
    <3>1. RP!Examines(n, FALSE)
      BY <1>1, <2>1 DEF RP!InRewindNext, RP!StartsRewind
    <3>2. RP!At(n).complete
      BY <3>1 DEF RP!Examines
    <3>3. RP!At(n) = rob_mem[h]
      BY <1>h DEF RP!At, RP!HeadNext
    <3> QED BY <3>2, <3>3
  <2> QED BY <2>1
<1>10. in_rewind => h = head /\ n = 0
  <2>1. in_rewind => n = 0
    BY <1>0, <1>1, RP!RetireBound DEF RP!RobAssumption
  <2>2. RP!Wrap(head) = head
    BY <1>0, <1>5 DEF RP!Wrap
  <2>3. head + 0 = head
    BY <1>5
  <2>4. n = 0 => h = RP!Wrap(head)
    BY <1>h, <2>3 DEF RP!HeadNext
  <2> QED BY <2>1, <2>2, <2>4
<1>11. ASSUME NEW i \in RP!Index PROVE EntryRewinds(i, n, r, h)
  <2>1. i \in 0 .. ROB_SIZE - 1 /\ ROB_SIZE \in Nat
    BY <1>0 DEF RP!Index
  <2>2. RP!Dist(i) \in Nat
    BY <1>5, <2>1 DEF RP!Dist
  <2>3. RP!Dist(i)' \in Nat
    <3>1. RP!Dist(i)' = IF i >= head' THEN i - head' ELSE i + ROB_SIZE - head'
      BY DEF RP!Dist
    <3> DEFINE z == head'
    <3>2. z \in 0 .. ROB_SIZE - 1
      BY <1>5
    <3>3. RP!Dist(i)' = IF i >= z THEN i - z ELSE i + ROB_SIZE - z
      BY <3>1
    <3> HIDE DEF z
    <3> QED BY <2>1, <3>2, <3>3
  <2>4. rob_mem'[i].valid <=> RP!Live(i)'
    BY <1>3, <1>11 DEF RP!RobInv, RP!ValidIffLive, RP!Index
  <2>5. RP!Retired(i, n) => rob_mem[i].complete /\ ~rob_mem[i].exception
    BY <1>0, <1>1, <1>11, RP!RetiredIsDone DEF RP!RobAssumption
  <2>6. RP!Live(i)' <=> Remains(i, n) /\ ~RP!Rewound(i, r)
    BY <1>7, <1>11 DEF Remains
  <2>7. ASSUME RP!Rewound(i, r)
        PROVE  RP!Live(i) /\ n < RP!Dist(i) /\ ~RP!Retired(i, n)
    <3>1. RP!Live(i)
      BY <1>7, <1>11, <2>7
    <3>2. RP!Back(tail, i) < r /\ RP!Dist(i) < RP!Occupied
      BY <2>7, <3>1 DEF RP!Rewound, RP!Live
    <3>3. RP!Occupied = IF tail >= head THEN tail - head + 1 ELSE tail + ROB_SIZE - head + 1
      BY <1>5 DEF RP!Occupied
    <3>4. RP!Dist(i) = RP!Occupied - 1 - RP!Back(tail, i)
      BY <1>5, <2>1, <3>2, <3>3 DEF RP!Back, RP!Dist
    <3>5. RP!Back(tail, i) \in Int
      BY <1>5, <2>1 DEF RP!Back
    <3>6. n < RP!Dist(i)
      <4> DEFINE o == RP!Occupied
                 b == RP!Back(tail, i)
                 d == RP!Dist(i)
      <4>1. n \in Nat /\ r \in Nat /\ o \in Nat /\ b \in Int
        BY <1>2, <1>5, <1>6, <3>5
      <4>2. r <= o - n - 1 /\ b < r /\ d = o - 1 - b
        BY <1>5, <1>6, <3>2, <3>4
      <4> HIDE DEF o, b, d
      <4>3. n < d
        BY <4>1, <4>2
      <4> QED BY <4>3 DEF d
    <3> QED BY <1>2, <2>2, <3>1, <3>6 DEF RP!Retired
  <2>8. ASSUME RP!Live(i)'
        PROVE  /\ RP!Dist(i)' = RP!Dist(i) - n
               /\ rob_mem'[i].kind = rob_mem[i].kind
               /\ rob_mem'[i].complete = rob_mem[i].complete
               /\ rob_mem'[i].exception => rob_mem[i].exception
               /\ store_flush' => i = h
    <3>1. RP!Dist(i)' = RP!Dist(i) - n /\ ~RP!Retired(i, n) /\ ~RP!Rewound(i, r)
      BY <1>7, <1>11, <2>8
    <3>2. rob_mem[i] \in RP!Entry
      BY <1>1, <1>11 DEF RP!TypeOK
    <3>3. rob_mem'[i] = IF RP!RewindDone(n) /\ i = h
                        THEN [rob_mem[i] EXCEPT !.exception = FALSE] ELSE rob_mem[i]
      BY <1>4, <1>11, <3>1
    <3>4. /\ rob_mem'[i].kind = rob_mem[i].kind
          /\ rob_mem'[i].complete = rob_mem[i].complete
          /\ rob_mem'[i].exception => rob_mem[i].exception
      BY <3>2, <3>3 DEF RP!Entry
    <3>5. ASSUME store_flush' PROVE i = h
      <4>1. RP!RewindDone(n)
        BY <1>4, <3>5
      <4>2. RP!Occupied' = 1
        <5> DEFINE m == RP!Left(n)
        <5>1. m \in Int /\ r = m - 1 /\ RP!Occupied' = m - r
          BY <1>2, <1>5, <1>6, <1>7, <4>1
        <5> HIDE DEF m
        <5> QED BY <5>1
      <4>3. RP!Dist(i)' < 1
        <5>1. RP!Dist(i)' < RP!Occupied'
          BY <2>8 DEF RP!Live
        <5> QED BY <4>2, <5>1
      <4>4. RP!Dist(i) = n
        BY <1>2, <2>2, <2>3, <3>1, <4>3
      <4>5. h \in 0 .. ROB_SIZE - 1
        BY <1>2 DEF RP!Index
      <4> QED BY <1>2, <1>5, <2>1, <4>4, <4>5 DEF RP!Dist
    <3> QED BY <3>1, <3>4, <3>5
  <2>9. ASSUME RP!Live(i)
        PROVE  RP!Rewound(i, r) <=> RP!Dist(i) >= RP!Occupied - r
    <3> DEFINE o == RP!Occupied
               b == RP!Back(tail, i)
               d == RP!Dist(i)
    <3>1. o = IF tail >= head THEN tail - head + 1 ELSE tail + ROB_SIZE - head + 1
      BY <1>5 DEF RP!Occupied
    <3>2. d < o
      BY <2>9 DEF RP!Live
    <3>3. d = o - 1 - b
      BY <1>5, <2>1, <3>1, <3>2 DEF RP!Back, RP!Dist
    <3>4. b \in Int /\ o \in Nat /\ d \in Nat /\ r \in Nat
      BY <1>5, <1>6, <2>1, <2>2 DEF RP!Back
    <3>5. RP!Rewound(i, r) <=> b < r
      BY DEF RP!Rewound
    <3> HIDE DEF o, b, d
    <3>6. RP!Rewound(i, r) <=> d >= o - r
      BY <3>3, <3>4, <3>5
    <3> QED BY <3>6 DEF o, d
  <2> QED BY <1>2, <2>2, <2>3, <2>4, <2>5, <2>6, <2>7, <2>8, <2>9 DEF EntryRewinds
<1>12. \A i \in RP!Index : i = head' => RP!Live(i)'
  BY <1>7
<1>13. in_rewind' = ~store_flush'
  BY <1>4
<1>14. RewindEffect(n, r, h)
  BY <1>2, <1>3, <1>4, <1>5, <1>6, <1>8, <1>9, <1>10, <1>11, <1>12, <1>13,
     SameRing DEF RewindEffect
<1> QED BY <1>14

-----------------------------------------------------------------------------
(* The dispatch group.                                                      *)

\* The k-th instruction of a group, as the program's rules have it.
Member(group, k, complete) ==
    /\ group[k].kind \in FU!FuType
    /\ group[k].waits \subseteq Index
    /\ group[k].waits \subseteq Sources(k, complete)
    /\ UnresolvedBranch(complete) => group[k].kind \in Speculated
    /\ group[k].kind \in Speculated \/ \A j \in 1 .. k - 1 : group[j].kind # "branch"

\* A group is as long as there is room, and follows the rules.
LEMMA GroupKnown ==
    ASSUME tail \in Index, NEW num \in Int, num <= WAY, NEW complete,
           NEW group \in Groups(num, complete)
    PROVE  /\ Len(group) \in Nat /\ Len(group) <= WAY /\ DOMAIN group = 1 .. Len(group)
           /\ Len(group) > 0 => Len(group) <= num
           /\ \A k \in 1 .. Len(group) : Member(group, k, complete)
<1> DEFINE kinds == IF UnresolvedBranch(complete) THEN Speculated ELSE Kinds
           waits == {w \in SUBSET Sources(WAY, complete) : Cardinality(w) <= MAX_SOURCES}
<1>0. WAY \in Nat \ {0} /\ ROB_SIZE \in Nat \ {0} /\ WAY < ROB_SIZE
  BY BackendAssumption
<1>1. /\ group \in UNION {[1 .. len -> [kind : kinds, waits : waits]] : len \in 0 .. num}
      /\ \A k \in DOMAIN group :
            /\ group[k].waits \subseteq Sources(k, complete)
            /\ group[k].kind \in Speculated \/ \A j \in 1 .. k - 1 : group[j].kind # "branch"
  BY DEF Groups
<1>2. kinds \subseteq FU!FuType /\ (UnresolvedBranch(complete) => kinds = Speculated)
  BY BackendAssumption
<1> HIDE DEF kinds, waits
<1>3. PICK len \in 0 .. num : group \in [1 .. len -> [kind : kinds, waits : waits]]
  BY <1>1
<1>4. len \in Nat /\ len <= num /\ len <= WAY
  BY <1>0, <1>3
<1>5. Len(group) = len /\ DOMAIN group = 1 .. len
  BY <1>3, <1>4
<1>6. ASSUME NEW k \in 1 .. len PROVE Member(group, k, complete)
  <2>1. group[k].kind \in kinds
    BY <1>3
  <2>2. Sources(k, complete) \subseteq Index
    <3>1. ASSUME NEW j \in 1 .. k - 1 PROVE ROB!RobIndexOf(j) \in Index
      <4>1. k \in Nat /\ k <= WAY /\ j \in Nat /\ j <= k - 1
        BY <1>0, <1>4
      <4>2. j <= WAY /\ tail \in 0 .. ROB_SIZE - 1
        BY <1>0, <4>1, SameRing DEF RP!Index
      <4> QED BY <1>0, <4>1, <4>2 DEF ROB!RobIndexOf, ROB!Wrap, Index, ROB!Index
    <3>2. InFlight \subseteq Index
      BY DEF InFlight
    <3> QED BY <3>1, <3>2 DEF Sources
  <2> QED BY <1>1, <1>2, <1>5, <2>1, <2>2 DEF Member
<1> QED BY <1>4, <1>5, <1>6

\* What the ROB is given of a group.
LEMMA GroupForRob ==
    ASSUME NEW group, Len(group) \in Nat, Len(group) <= WAY, DOMAIN group = 1 .. Len(group),
           \A k \in 1 .. Len(group) : group[k].kind \in FU!FuType
    PROVE  /\ ToRob(group) \in RP!Group /\ Len(ToRob(group)) = Len(group)
           /\ \A k \in 1 .. Len(group) :
                 /\ ToRob(group)[k].kind = RobKind(group[k].kind)
                 /\ ~RP!Faulty(ToRob(group)[k])
<1>1. ASSUME NEW k \in 1 .. Len(group)
      PROVE  /\ ToRob(group)[k] \in ROB!Inst
             /\ ToRob(group)[k].kind = RobKind(group[k].kind)
             /\ ToRob(group)[k].code = "NO_ERROR"
  <2>1. ToRob(group)[k] =
           [kind |-> RobKind(group[k].kind), arch_dest_reg |-> 0, T |-> 0, Told |-> 0,
            target_pc |-> 0, code |-> "NO_ERROR"]
    BY DEF ToRob
  <2>2. RobKind(group[k].kind) \in ROB!Kind
    BY DEF RobKind, ROB!Kind, FU!FuType
  <2>3. "NO_ERROR" \in ROB!Code \ {"INST_ADDR_MISALIGN"} /\ 0 \in PC
    BY DEF ROB!Code, PC
  <2> QED BY <2>1, <2>2, <2>3 DEF ROB!Inst
<1>2. ToRob(group) \in [1 .. Len(group) -> ROB!Inst]
  BY <1>1 DEF ToRob
<1>3. Len(ToRob(group)) = Len(group)
  BY <1>2
<1>4. WAY \in Nat /\ Len(group) \in 0 .. WAY
  BY BackendAssumption
<1>5. ToRob(group) \in RP!Group
  BY <1>2, <1>4 DEF RP!Group
<1>6. \A k \in 1 .. Len(group) : ~RP!Faulty(ToRob(group)[k])
  BY <1>1 DEF RP!Faulty
<1> QED BY <1>1, <1>3, <1>5, <1>6

\* The k-th packet of a group.
Fresh(group, k) ==
    [rob_index |-> ROB!RobIndexOf(k), kind |-> group[k].kind, waits |-> group[k].waits,
     needs |-> group[k].waits, current |-> TRUE]

\* What the reservation station is given of a group.
LEMMA GroupForRS ==
    ASSUME NEW group, Len(group) \in Nat, DOMAIN group = 1 .. Len(group), tail \in Index,
           Len(group) <= WAY,
           \A k \in 1 .. Len(group) : group[k].kind \in FU!FuType /\ group[k].waits \subseteq Index
    PROVE  /\ ToRS(group) \subseteq Packet
           /\ \A k \in 1 .. Len(group) :
                 /\ Fresh(group, k) \in ToRS(group)
                 /\ Fresh(group, k).rob_index = RP!RobIndexOf(k)
                 /\ Fresh(group, k).kind = group[k].kind
                 /\ Fresh(group, k).waits = group[k].waits
                 /\ Fresh(group, k).needs = group[k].waits
                 /\ Fresh(group, k).current
           /\ \A p \in ToRS(group) : \E k \in 1 .. Len(group) : p = Fresh(group, k)
           /\ IsFiniteSet(ToRS(group)) /\ Cardinality(ToRS(group)) \in Nat
           /\ Cardinality(ToRS(group)) <= Len(group)
<1>0. WAY \in Nat \ {0} /\ ROB_SIZE \in Nat \ {0} /\ WAY < ROB_SIZE
  BY BackendAssumption
<1>1. ToRS(group) = {Fresh(group, k) : k \in 1 .. Len(group)}
  BY DEF ToRS, Fresh
<1>2. ASSUME NEW k \in 1 .. Len(group)
      PROVE  /\ Fresh(group, k) \in Packet
             /\ Fresh(group, k).rob_index = RP!RobIndexOf(k)
             /\ Fresh(group, k).kind = group[k].kind
             /\ Fresh(group, k).waits = group[k].waits
             /\ Fresh(group, k).needs = group[k].waits
             /\ Fresh(group, k).current
  <2>1. k \in Nat /\ k <= WAY /\ tail \in 0 .. ROB_SIZE - 1
    BY <1>0, SameRing DEF RP!Index
  <2>2. ROB!RobIndexOf(k) \in Index
    BY <1>0, <2>1 DEF ROB!RobIndexOf, ROB!Wrap, Index, ROB!Index
  <2> QED BY <2>2, SameRing DEF Fresh, Packet
<1> DEFINE f == [k \in 1 .. Len(group) |-> Fresh(group, k)]
<1>3. f \in Surjection(1 .. Len(group), ToRS(group))
  BY <1>1 DEF Surjection
<1>4. IsFiniteSet(1 .. Len(group)) /\ Cardinality(1 .. Len(group)) = Len(group)
  BY UpTo
<1> HIDE DEF f
<1>5. IsFiniteSet(ToRS(group)) /\ Cardinality(ToRS(group)) <= Cardinality(1 .. Len(group))
  BY <1>3, <1>4, FS_Surjection
<1>6. Cardinality(ToRS(group)) \in Nat
  BY <1>5, FS_CardinalityType
<1> QED BY <1>1, <1>2, <1>4, <1>5, <1>6

\* What the branch unit resolves, for the ROB.
LEMMA ResolutionKnown ==
    ASSUME branch \in Register, NEW resolve \in Resolutions
    PROVE  /\ resolve \in ROB!Resolution
           /\ resolve.valid => branch # NoInst /\ branch \in Packet /\ resolve.rob_index = branch.rob_index
<1>1. CASE branch = NoInst
  <2>1. resolve = ROB!NoResolution
    BY <1>1 DEF Resolutions
  <2>2. resolve.valid = FALSE
    BY <2>1 DEF ROB!NoResolution
  <2> QED BY <2>1, <2>2 DEF ROB!Resolution
<1>2. CASE branch # NoInst
  <2>1. branch \in Packet
    BY <1>2 DEF Register
  <2>2. branch.rob_index \in ROB!Index
    BY <2>1 DEF Packet, Index
  <2>3. resolve \in [valid : {TRUE}, rob_index : {branch.rob_index}, target_pc : PC]
    BY <1>2 DEF Resolutions
  <2>4. resolve \in [valid : {TRUE}, rob_index : ROB!Index, target_pc : PC]
    BY <2>2, <2>3
  <2> QED BY <1>2, <2>1, <2>3, <2>4 DEF ROB!Resolution
<1> QED BY <1>1, <1>2

-----------------------------------------------------------------------------
(* The parts of the back end across a step.                                 *)

\* What each part holds, with its sizes.
PartTypes ==
    /\ rs \subseteq Packet /\ IsFiniteSet(rs) /\ Cardinality(rs) <= RS_SIZE
    /\ iq \in Seq(Packet) /\ Len(iq) <= IQ_SIZE
    /\ fast_int \in Seq(Packet)
    /\ mult \in Multipliers
    /\ branch \in Register /\ mem \in Register
    /\ queue \in Seq(Packet) /\ Len(queue) <= CQ_SIZE

\* No part holds two packets of the same instruction.
Once ==
    /\ \A p, q \in rs : SameInst(p, q) => p = q
    /\ Distinct(iq) /\ Distinct(fast_int) /\ DistinctMult(mult) /\ Distinct(queue)

\* At most one of seven sets holds packets of the instruction i.
ApartAt(a, b, c, d, e, f, g, i) ==
    /\ Has(a, i) => /\ ~Has(b, i) /\ ~Has(c, i) /\ ~Has(d, i)
                    /\ ~Has(e, i) /\ ~Has(f, i) /\ ~Has(g, i)
    /\ Has(b, i) => ~Has(c, i) /\ ~Has(d, i) /\ ~Has(e, i) /\ ~Has(f, i) /\ ~Has(g, i)
    /\ Has(c, i) => ~Has(d, i) /\ ~Has(e, i) /\ ~Has(f, i) /\ ~Has(g, i)
    /\ Has(d, i) => ~Has(e, i) /\ ~Has(f, i) /\ ~Has(g, i)
    /\ Has(e, i) => ~Has(f, i) /\ ~Has(g, i)
    /\ Has(f, i) => ~Has(g, i)

\* No two parts hold packets of the same instruction.
Apart ==
    \A i : ApartAt(rs, Elements(iq), Elements(fast_int), InMult(mult), One(branch), One(mem),
                   Elements(queue), i)

\* The room of the units, and what is sent to those of a type.
Slots(mem_done) == FU!execute_empty_slots(mem_done)
Sent(mem_done, type) == To(Slots(mem_done), type)

\* What a step leaves in each part, of what the parts held before.
NextRS(complete, issue, rewind) == {Woken(complete, p) : p \in Waiting(issue, rewind)}
NextIQ(mem_done, issue) ==
    IF store_flush THEN {} ELSE Stays(Slots(mem_done)) \cup Elements(issue)
NextFast(mem_done) == IF store_flush THEN {} ELSE Sent(mem_done, "int")
NextMult(mem_done) == InPipe \cup Sent(mem_done, "mult")
NextBranch(mem_done) == Sent(mem_done, "branch")
NextMem(mem_done) ==
    IF store_flush THEN {} ELSE Sent(mem_done, "mem") \cup (One(mem) \ Done(mem_done))
NextQueue(mem_done) ==
    IF store_flush THEN {}
    ELSE Uncompleted \cup (Done(mem_done) \cup Elements(fast_int) \cup Ready \cup One(branch))

\* The instructions issued are some that fit in the issue queue.
CanIssue(mem_done) == RS!Issues(IQ!issue_empty_slots(Slots(mem_done)))

\* The units have a number of free places for each type.
LEMMA SlotsKnown ==
    ASSUME PartTypes, NEW mem_done \in MemAnswers
    PROVE  /\ mem_done \in BOOLEAN
           /\ Slots(mem_done) \in [FU!FuType -> Nat]
           /\ Slots(mem_done)["mult"] = Cardinality(FU!FreeMultipliers)
           /\ Slots(mem_done)["branch"] = 1
           /\ Slots(mem_done)["mem"] = IF mem = NoInst \/ mem_done THEN 1 ELSE 0
<1>1. mem_done \in BOOLEAN
  BY DEF MemAnswers
<1> QED BY <1>1, RoomOfUnits DEF Slots, PartTypes

\* What is issued was in the reservation station and waited for nothing.
LEMMA IssueFits ==
    ASSUME PartTypes, NEW mem_done \in MemAnswers, NEW issue \in CanIssue(mem_done)
    PROVE  /\ issue \in Seq(Packet)
           /\ Elements(issue) \subseteq rs /\ \A p \in Elements(issue) : p.waits = {}
           /\ (\A p, q \in rs : SameInst(p, q) => p = q) => Distinct(issue)
           /\ Len(IQ!Kept(Slots(mem_done))) + Len(issue) <= IQ_SIZE
<1> DEFINE room == IQ!issue_empty_slots(Slots(mem_done))
           kept == Len(IQ!Kept(Slots(mem_done)))
<1>1. IQ!Kept(Slots(mem_done)) \in Seq(Packet) /\ kept <= Len(iq)
  BY SlotsKnown, Sending DEF PartTypes
<1>2. WAY \in Nat /\ IQ_SIZE \in Nat /\ kept \in Nat /\ kept <= IQ_SIZE
  <2>1. kept \in Nat /\ Len(iq) \in Nat
    BY <1>1 DEF PartTypes
  <2> QED BY <1>1, <2>1, BackendAssumption DEF PartTypes
<1>3. room = IF WAY < IQ_SIZE - kept THEN WAY ELSE IQ_SIZE - kept
  BY DEF IQ!issue_empty_slots, IQ!Smaller
<1> HIDE DEF kept
<1>4. room \in Int /\ room >= 0 /\ room <= IQ_SIZE - kept
  BY <1>2, <1>3
<1>5. issue \in RS!Issues(room)
  BY DEF CanIssue
<1> HIDE DEF room
<1>6. /\ issue \in Seq(Packet) /\ (room >= 0 => Len(issue) <= room)
      /\ Elements(issue) \subseteq rs /\ \A p \in Elements(issue) : p.waits = {}
      /\ (\A p, q \in rs : SameInst(p, q) => p = q) => Distinct(issue)
  BY <1>4, <1>5, IssueKnown DEF PartTypes
<1>7. Len(issue) \in Nat /\ Len(issue) <= room
  BY <1>4, <1>6
<1>8. kept + Len(issue) <= IQ_SIZE
  BY <1>2, <1>4, <1>7
<1> QED BY <1>6, <1>8 DEF kept

\* The step of the reservation station.
RSFlow(gone, rewind, complete, issue, group) ==
    rs' = Moved(gone, NextRS(RobIndexes(complete), issue, rewind)) \cup ToRS(group)

\* The table keeps to its size, as dispatch looks at the free entries.
LEMMA RSStep ==
    ASSUME PartTypes, NEW gone, NEW rewind, NEW complete, NEW mem_done \in MemAnswers,
           NEW issue \in CanIssue(mem_done), NEW group,
           Pipeline(gone, rewind, complete, mem_done, issue, group),
           ToRS(group) \subseteq Packet, IsFiniteSet(ToRS(group)),
           ToRS(group) # {} => Cardinality(ToRS(group)) <= RS!dispatch_empty_slots
    PROVE  /\ RSFlow(gone, rewind, complete, issue, group)
           /\ rs' \subseteq Packet /\ IsFiniteSet(rs') /\ Cardinality(rs') <= RS_SIZE
<1>1. rs' = {After(gone, p) : p \in RS!Remaining(issue, rewind, RobIndexes(complete))}
                \cup ToRS(group)
  BY DEF Pipeline
<1>2. RSFlow(gone, rewind, complete, issue, group)
  BY <1>1, StationKeeps DEF RSFlow, Moved, NextRS
<1> DEFINE W == Waiting(issue, rewind)
           C == RobIndexes(complete)
           f == [p \in W |-> After(gone, Woken(C, p))]
           M == Moved(gone, NextRS(C, issue, rewind))
<1>3. W \subseteq rs /\ W \subseteq Packet
  BY DEF Waiting, PartTypes
<1>4. M = {After(gone, Woken(C, p)) : p \in W}
  BY DEF Moved, NextRS
<1>5. M \subseteq Packet
  <2>1. NextRS(C, issue, rewind) \subseteq Packet
    BY <1>3, WokenPacket DEF NextRS
  <2> QED BY <2>1, MovedPackets
<1>6. f \in Surjection(W, M)
  BY <1>4 DEF Surjection
<1>7. IsFiniteSet(W) /\ Cardinality(W) <= Cardinality(rs)
  BY <1>3, FS_Subset DEF PartTypes
<1>8. rs' = M \cup ToRS(group)
  BY <1>2 DEF RSFlow
<1> HIDE DEF f, M, W, C
<1>9. IsFiniteSet(M) /\ Cardinality(M) <= Cardinality(W)
  BY <1>6, <1>7, FS_Surjection
<1>10. /\ IsFiniteSet(M \cup ToRS(group))
       /\ Cardinality(M \cup ToRS(group))
             = Cardinality(M) + Cardinality(ToRS(group)) - Cardinality(M \cap ToRS(group))
  BY <1>9, FS_Union
<1>11. /\ Cardinality(rs) \in Nat /\ Cardinality(M) \in Nat /\ Cardinality(W) \in Nat
       /\ Cardinality(ToRS(group)) \in Nat
       /\ Cardinality(M \cap ToRS(group)) \in Nat
  <2>1. IsFiniteSet(M \cap ToRS(group))
    BY <1>9, FS_Subset
  <2> QED BY <1>7, <1>9, <2>1, FS_CardinalityType DEF PartTypes
<1>12. /\ RS_SIZE \in Nat /\ Cardinality(rs) <= RS_SIZE
       /\ Cardinality(M) <= Cardinality(rs)
  BY <1>7, <1>9, <1>11, BackendAssumption DEF PartTypes
<1>13. Cardinality(ToRS(group)) <= RS_SIZE - Cardinality(rs)
  <2>1. CASE ToRS(group) = {}
    BY <1>11, <1>12, <2>1, FS_EmptySet
  <2>2. CASE ToRS(group) # {}
    <3> DEFINE free == RS_SIZE - Cardinality(rs)
               size == Cardinality(ToRS(group))
    <3>1. size <= IF WAY < free THEN WAY ELSE free
      BY <2>2, SameOrder DEF RS!dispatch_empty_slots, RS!Lower
    <3>2. free \in Nat /\ WAY \in Nat /\ size \in Nat
      BY <1>11, <1>12, BackendAssumption
    <3> HIDE DEF free, size
    <3>3. size <= free
      BY <3>1, <3>2
    <3> QED BY <3>3 DEF free, size
  <2> QED BY <2>1, <2>2
<1>14. Cardinality(M \cup ToRS(group)) <= RS_SIZE
  BY <1>10, <1>11, <1>12, <1>13
<1> QED BY <1>2, <1>5, <1>8, <1>10, <1>14

\* The step of the issue queue.
LEMMA IQStep ==
    ASSUME PartTypes, store_flush \in BOOLEAN, NEW gone, NEW rewind, NEW complete,
           NEW mem_done \in MemAnswers, NEW issue \in CanIssue(mem_done), NEW group,
           Pipeline(gone, rewind, complete, mem_done, issue, group)
    PROVE  /\ iq' \in Seq(Packet) /\ Len(iq') <= IQ_SIZE
           /\ Elements(iq') = Moved(gone, NextIQ(mem_done, issue))
           /\ Once /\ Apart => Distinct(iq')
<1> DEFINE kept == IQ!Kept(Slots(mem_done))
           next == IQ!iq_next(Slots(mem_done), issue, store_flush)
<1>1. iq' = AllAfter(gone, next)
  BY DEF Pipeline, Slots
<1>2. next = IF store_flush THEN <<>> ELSE kept \o issue
  BY DEF IQ!iq_next
<1>3. /\ kept \in Seq(Packet) /\ Elements(kept) = Stays(Slots(mem_done))
      /\ Distinct(iq) => Distinct(kept)
  BY SlotsKnown, Sending DEF PartTypes
<1>4. /\ issue \in Seq(Packet) /\ Elements(issue) \subseteq rs
      /\ (\A p, q \in rs : SameInst(p, q) => p = q) => Distinct(issue)
      /\ Len(kept) + Len(issue) <= IQ_SIZE
  BY IssueFits
<1>5. Once /\ Apart => \A i : ~(Has(Elements(kept), i) /\ Has(Elements(issue), i))
  <2>1. ASSUME Apart, NEW i, Has(Elements(kept), i), Has(Elements(issue), i) PROVE FALSE
    <3>1. Elements(kept) \subseteq Elements(iq)
      BY <1>3 DEF Stays, Elements
    <3>2. Has(Elements(iq), i) /\ Has(rs, i)
      BY <1>4, <2>1, <3>1 DEF Has
    <3> QED BY <2>1, <3>2 DEF Apart, ApartAt
  <2> QED BY <2>1
<1> HIDE DEF kept, next
<1>6. /\ next \in Seq(Packet) /\ Len(next) <= IQ_SIZE
      /\ Elements(next) = NextIQ(mem_done, issue)
      /\ Once /\ Apart => Distinct(next)
  <2>1. CASE store_flush
    <3>1. next = <<>> /\ NextIQ(mem_done, issue) = {}
      BY <1>2, <2>1 DEF NextIQ
    <3>2. 0 <= IQ_SIZE
      BY BackendAssumption
    <3> QED BY <3>1, <3>2, EmptyPackets
  <2>2. CASE ~store_flush
    <3>1. next = kept \o issue
      BY <1>2, <2>2
    <3>2. NextIQ(mem_done, issue) = Elements(kept) \cup Elements(issue)
      BY <1>3, <2>2 DEF NextIQ
    <3>3. /\ next \in Seq(Packet) /\ Len(next) = Len(kept) + Len(issue)
          /\ Elements(next) = Elements(kept) \cup Elements(issue)
          /\ Distinct(kept) /\ Distinct(issue)
               /\ (\A i : ~(Has(Elements(kept), i) /\ Has(Elements(issue), i)))
                => Distinct(next)
      BY <1>3, <1>4, <3>1, Joined
    <3>4. Once /\ Apart => Distinct(next)
      BY <1>3, <1>4, <1>5, <3>3 DEF Once
    <3> QED BY <1>4, <3>2, <3>3, <3>4
  <2> QED BY <2>1, <2>2
<1>7. /\ AllAfter(gone, next) \in Seq(Packet) /\ Len(AllAfter(gone, next)) = Len(next)
      /\ Elements(AllAfter(gone, next)) = Moved(gone, Elements(next))
      /\ Distinct(next) => Distinct(AllAfter(gone, next))
  BY <1>6, AfterSequence
<1> QED BY <1>1, <1>6, <1>7

\* Packets of different types, or sent and kept, are of different instructions.
LEMMA SentApart ==
    ASSUME PartTypes, Once, NEW mem_done \in MemAnswers
    PROVE  \A t, u : /\ Disjoint(Stays(Slots(mem_done)), Sent(mem_done, t))
                     /\ t # u => Disjoint(Sent(mem_done, t), Sent(mem_done, u))
  BY QueueParts DEF PartTypes, Once, Sent

\* What is sent was in the issue queue, with the type of its unit, and what
\* stays was in it too.
LEMMA SentKnown ==
    ASSUME PartTypes, NEW mem_done \in MemAnswers
    PROVE  /\ Elements(iq) = Stays(Slots(mem_done)) \cup UNION {Sent(mem_done, t) : t \in FU!FuType}
           /\ \A t : \A p \in Sent(mem_done, t) : p \in Elements(iq) /\ p.kind = t
<1>1. /\ InIssueQueue = Stays(Slots(mem_done)) \cup UNION {To(Slots(mem_done), t) : t \in FU!FuType}
      /\ \A t : \A p \in To(Slots(mem_done), t) : p.kind = t
  <2>1. iq \in Seq(Packet)
    BY DEF PartTypes
  <2> DEFINE s == Slots(mem_done)
  <2> HIDE DEF s
  <2>2. InIssueQueue = Stays(s) \cup UNION {To(s, t) : t \in FU!FuType}
    BY <2>1, QueueParts
  <2>3. \A t : \A p \in To(s, t) : p.kind = t
    BY DEF To
  <2> QED BY <2>2, <2>3 DEF s
<1>2. InIssueQueue = Elements(iq)
  BY DEF InIssueQueue, Elements
<1>3. \A t : Sent(mem_done, t) \subseteq Elements(iq)
  BY DEF Sent, To, Elements, IQ!Sent, IQ!Fits
<1> QED BY <1>1, <1>2, <1>3 DEF Sent

\* The step of the functional units.
LEMMA UnitsStep ==
    ASSUME PartTypes, store_flush \in BOOLEAN, NEW gone, NEW rewind, NEW complete,
           NEW mem_done \in MemAnswers, NEW issue, NEW group,
           Pipeline(gone, rewind, complete, mem_done, issue, group)
    PROVE  /\ fast_int' \in Seq(Packet)
           /\ Elements(fast_int') = Moved(gone, NextFast(mem_done))
           /\ mult' \in Multipliers
           /\ InMult(mult') = Moved(gone, NextMult(mem_done))
           /\ branch' \in Register
           /\ One(branch') = Moved(gone, NextBranch(mem_done))
           /\ mem' \in Register
           /\ One(mem') = Moved(gone, NextMem(mem_done))
           /\ Once /\ Apart => Distinct(fast_int') /\ DistinctMult(mult')
<1> DEFINE e == IQ!execute(Slots(mem_done))
<1>1. /\ fast_int' = AllAfter(gone, FU!fast_int_next(e, store_flush))
      /\ mult' = AfterMult(gone, FU!mult_next(e))
      /\ branch' = After(gone, FU!branch_next(e))
      /\ mem' = After(gone, FU!mem_next(e, mem_done, store_flush))
  BY DEF Pipeline, Slots, AfterMult
<1>2. \A t \in FU!FuType :
         /\ e[t] \in Seq(Packet)
         /\ Len(e[t]) <= Slots(mem_done)[t]
         /\ Elements(e[t]) = Sent(mem_done, t)
         /\ Distinct(iq) => Distinct(e[t])
  BY SlotsKnown, Sending DEF PartTypes, Sent
<1> HIDE DEF e
<1>3. {"int", "mult", "branch", "mem"} \subseteq FU!FuType
  BY DEF FU!FuType
<1>4. /\ e.int \in Seq(Packet) /\ Elements(e.int) = Sent(mem_done, "int")
      /\ Distinct(iq) => Distinct(e.int)
  BY <1>2, <1>3
<1>5. /\ e.mult \in Seq(Packet) /\ Elements(e.mult) = Sent(mem_done, "mult")
      /\ Distinct(iq) => Distinct(e.mult)
      /\ Len(e.mult) <= Cardinality(FU!FreeMultipliers)
  BY <1>2, <1>3, SlotsKnown
<1>6. /\ e.branch \in Seq(Packet) /\ Elements(e.branch) = Sent(mem_done, "branch")
      /\ Len(e.branch) <= 1
  BY <1>2, <1>3, SlotsKnown
<1>7. /\ e.mem \in Seq(Packet) /\ Elements(e.mem) = Sent(mem_done, "mem")
      /\ Len(e.mem) <= IF mem = NoInst \/ mem_done THEN 1 ELSE 0
  BY <1>2, <1>3, SlotsKnown
<1>8. mem_done \in BOOLEAN
  BY SlotsKnown
<1>9. /\ fast_int' \in Seq(Packet)
      /\ Elements(fast_int') = Moved(gone, NextFast(mem_done))
      /\ Once => Distinct(fast_int')
  <2> DEFINE next == FU!fast_int_next(e, store_flush)
  <2>1. next = IF store_flush THEN <<>> ELSE e.int
    BY DEF FU!fast_int_next
  <2>2. /\ next \in Seq(Packet) /\ Elements(next) = NextFast(mem_done)
        /\ Once => Distinct(next)
    BY <1>4, <2>1, EmptyPackets DEF NextFast, Once
  <2>3. fast_int' = AllAfter(gone, next)
    BY <1>1
  <2> HIDE DEF next
  <2> QED BY <2>2, <2>3, AfterSequence
<1>10. /\ mult' \in Multipliers
       /\ InMult(mult') = Moved(gone, NextMult(mem_done))
       /\ Once /\ Apart => DistinctMult(mult')
  <2> DEFINE next == FU!mult_next(e)
  <2>1. /\ next \in Multipliers
        /\ InMult(next) = InPipe \cup Elements(e.mult)
        /\ DistinctMult(mult) /\ Distinct(e.mult) /\ Disjoint(InPipe, Elements(e.mult))
              => DistinctMult(next)
    BY <1>5, MultMoves DEF PartTypes
  <2>2. Apart => Disjoint(InPipe, Elements(e.mult))
    <3>1. ASSUME Apart, NEW i, Has(InPipe, i), Has(Elements(e.mult), i) PROVE FALSE
      <4>1. Has(InMult(mult), i)
        BY <3>1, MultParts DEF Has, PartTypes
      <4>2. Has(Elements(iq), i)
        BY <1>5, <3>1, SentKnown DEF Has
      <4> QED BY <3>1, <4>1, <4>2 DEF Apart, ApartAt
    <3> QED BY <3>1 DEF Disjoint
  <2>3. mult' = AfterMult(gone, next)
    BY <1>1
  <2> HIDE DEF next
  <2>4. /\ AfterMult(gone, next) \in Multipliers
        /\ InMult(AfterMult(gone, next)) = Moved(gone, InMult(next))
        /\ DistinctMult(next) => DistinctMult(AfterMult(gone, next))
    BY <2>1, AfterMultipliers
  <2>5. InMult(next) = NextMult(mem_done)
    BY <1>5, <2>1 DEF NextMult
  <2> QED BY <1>5, <2>1, <2>2, <2>3, <2>4, <2>5 DEF Once
<1>11. /\ FU!branch_next(e) \in Register
       /\ One(FU!branch_next(e)) = Elements(e.branch)
       /\ FU!mem_next(e, mem_done, store_flush) \in Register
       /\ store_flush => One(FU!mem_next(e, mem_done, store_flush)) = {}
       /\ ~store_flush => One(FU!mem_next(e, mem_done, store_flush))
                            = Elements(e.mem) \cup (One(mem) \ Done(mem_done))
  BY <1>6, <1>7, <1>8, RegistersTake DEF PartTypes
<1>12. branch' \in Register /\ One(branch') = Moved(gone, NextBranch(mem_done))
  BY <1>1, <1>6, <1>11, AfterRegister DEF NextBranch
<1>13. One(FU!mem_next(e, mem_done, store_flush)) = NextMem(mem_done)
  BY <1>7, <1>11 DEF NextMem
<1>14. mem' \in Register /\ One(mem') = Moved(gone, NextMem(mem_done))
  BY <1>1, <1>11, <1>13, AfterRegister
<1> QED BY <1>9, <1>10, <1>12, <1>14

\* Done is of the packet in the memory unit.
LEMMA DoneIsMem ==
    ASSUME NEW mem_done \in MemAnswers
    PROVE  mem_done \in BOOLEAN /\ Done(mem_done) \subseteq One(mem)
  BY DEF MemAnswers, Done

\* The parts that give results have no instruction in common.
LEMMA ResultsAreApart ==
    ASSUME PartTypes, Once, Apart, NEW mem_done \in MemAnswers
    PROVE  /\ ResultsApart(mem_done)
           /\ Disjoint(Elements(queue), Done(mem_done) \cup Elements(fast_int) \cup Ready \cup One(branch))
<1>1. Done(mem_done) \subseteq One(mem) /\ Ready \subseteq InMult(mult)
  BY DoneIsMem, MultParts DEF PartTypes
<1>2. \A i : /\ Has(Done(mem_done), i) => Has(One(mem), i)
             /\ Has(Ready, i) => Has(InMult(mult), i)
  BY <1>1 DEF Has
<1>3. \A p, q, i : Has(p \cup q, i) <=> Has(p, i) \/ Has(q, i)
  BY DEF Has
<1>4. Disjoint(Done(mem_done), Elements(fast_int))
  BY <1>2 DEF Disjoint, Apart, ApartAt
<1>4a. \A i : Has(Done(mem_done) \cup Elements(fast_int), i) =>
                 Has(One(mem), i) \/ Has(Elements(fast_int), i)
  BY <1>2, <1>3
<1>5. Disjoint(Done(mem_done) \cup Elements(fast_int), Ready)
  BY <1>2, <1>4a DEF Disjoint, Apart, ApartAt
<1>5a. \A i : Has(Done(mem_done) \cup Elements(fast_int) \cup Ready, i) =>
                 Has(One(mem), i) \/ Has(Elements(fast_int), i) \/ Has(InMult(mult), i)
  BY <1>2, <1>3, <1>4a
<1>6. Disjoint(Done(mem_done) \cup Elements(fast_int) \cup Ready, One(branch))
  BY <1>5a DEF Disjoint, Apart, ApartAt
<1>7. Disjoint(Elements(queue), Done(mem_done) \cup Elements(fast_int) \cup Ready \cup One(branch))
  <2> DEFINE four == Done(mem_done) \cup Elements(fast_int) \cup Ready \cup One(branch)
  <2>1. \A i : Has(four, i) =>
          \/ Has(One(mem), i) \/ Has(Elements(fast_int), i) \/ Has(InMult(mult), i)
          \/ Has(One(branch), i)
    BY <1>3, <1>5a
  <2> HIDE DEF four
  <2>2. Disjoint(Elements(queue), four)
    BY <2>1 DEF Disjoint, Apart, ApartAt
  <2> QED BY <2>2 DEF four
<1> QED BY <1>4, <1>5, <1>6, <1>7 DEF ResultsApart, Once

\* The step of the completion queue.
LEMMA QueueStep ==
    ASSUME PartTypes, store_flush \in BOOLEAN, NEW gone, NEW rewind, NEW complete,
           NEW mem_done \in MemAnswers, NEW issue, NEW group,
           Pipeline(gone, rewind, complete, mem_done, issue, group)
    PROVE  /\ queue' \in Seq(Packet) /\ Len(queue') <= CQ_SIZE
           /\ Elements(queue') \subseteq Moved(gone, NextQueue(mem_done))
           /\ RoomForResults => Elements(queue') = Moved(gone, NextQueue(mem_done))
           /\ Once /\ Apart => Distinct(queue')
<1> DEFINE results == FU!Results(mem_done, store_flush)
           next == CQ!queue_next(results, store_flush)
           four == Done(mem_done) \cup Elements(fast_int) \cup Ready \cup One(branch)
<1>1. mem_done \in BOOLEAN
  BY DoneIsMem
<1>2. /\ results \in Seq(Packet)
      /\ ~store_flush => /\ Elements(results) = four
                         /\ ResultsApart(mem_done) => Distinct(results)
  BY <1>1, ResultsTaken DEF PartTypes
<1>3. queue' = AllAfter(gone, next)
  BY DEF Pipeline
<1>4. ~store_flush /\ RoomForResults => Room(results)
  BY DEF RoomForResults, Room
<1>5. Once /\ Apart => ResultsApart(mem_done) /\ Disjoint(Elements(queue), four)
  BY ResultsAreApart
<1>6. NextQueue(mem_done) = IF store_flush THEN {} ELSE Uncompleted \cup four
  BY DEF NextQueue
<1> HIDE DEF results, four
<1>7. /\ next \in Seq(Packet) /\ Len(next) <= CQ_SIZE
      /\ store_flush => next = <<>>
      /\ ~store_flush /\ Room(results) =>
            Elements(next) = Uncompleted \cup Elements(results)
      /\ Elements(next) \subseteq Uncompleted \cup Elements(results)
      /\ Distinct(queue) /\ Distinct(results) /\ Disjoint(Uncompleted, Elements(results))
            => Distinct(next)
  BY <1>2, QueueMoves DEF PartTypes
<1> HIDE DEF next
<1>8. Uncompleted \subseteq Elements(queue)
  BY CompletionParts DEF PartTypes
<1>9. \A p : Disjoint(Elements(queue), p) => Disjoint(Uncompleted, p)
  BY <1>8 DEF Disjoint, Has
<1>10. /\ Elements(next) \subseteq NextQueue(mem_done)
       /\ RoomForResults => Elements(next) = NextQueue(mem_done)
  BY <1>2, <1>4, <1>6, <1>7, EmptyPackets
<1>11. Once /\ Apart => Distinct(next)
  <2>1. CASE store_flush
    BY <1>7, <2>1, EmptyPackets
  <2>2. CASE ~store_flush
    BY <1>2, <1>5, <1>7, <1>9, <2>2 DEF Once
  <2> QED BY <2>1, <2>2
<1>12. /\ AllAfter(gone, next) \in Seq(Packet) /\ Len(AllAfter(gone, next)) = Len(next)
       /\ Elements(AllAfter(gone, next)) = Moved(gone, Elements(next))
       /\ Distinct(next) => Distinct(AllAfter(gone, next))
  BY <1>7, AfterSequence
<1>13. Moved(gone, Elements(next)) \subseteq Moved(gone, NextQueue(mem_done))
  BY <1>10 DEF Moved
<1> QED BY <1>3, <1>7, <1>10, <1>11, <1>12, <1>13

-----------------------------------------------------------------------------
(* Type correctness.                                                        *)

\* The part of the inductive invariant that types rest on: what each part
\* holds.
Shape == RP!RobInv /\ PartTypes

\* The ROB's part of it, as the steps use it.
LEMMA RobKnown ==
    ASSUME RP!RobInv
    PROVE  /\ RP!TypeOK /\ RP!ValidIffLive /\ RP!OldestException
           /\ tail \in Index /\ head \in Index /\ RP!Occupied \in Nat
           /\ store_flush \in BOOLEAN /\ in_rewind \in BOOLEAN /\ has_rewind \in BOOLEAN
<1>1. RP!TypeOK /\ RP!ValidIffLive /\ RP!OldestException
  BY DEF RP!RobInv
<1>2. /\ tail \in RP!Index /\ head \in RP!Index /\ is_empty \in BOOLEAN
      /\ store_flush \in BOOLEAN /\ in_rewind \in BOOLEAN /\ has_rewind \in BOOLEAN
  BY <1>1 DEF RP!TypeOK
<1>3. ROB_SIZE \in Nat \ {0}
  BY BackendAssumption
<1>4. head \in 0 .. ROB_SIZE - 1 /\ tail \in 0 .. ROB_SIZE - 1
  BY <1>2 DEF RP!Index
<1>5. RP!Occupied \in Nat
  BY <1>2, <1>3, <1>4 DEF RP!Occupied
<1> QED BY <1>1, <1>2, <1>5, SameRing

\* Dispatch takes no more than the width and the free entries of the station.
LEMMA NumKnown ==
    ASSUME Shape, NEW n \in Nat, NEW resolve
    PROVE  /\ num_can_fetch(n, resolve) \in Int
           /\ num_can_fetch(n, resolve) <= WAY
           /\ num_can_fetch(n, resolve) <= RS!dispatch_empty_slots
<1>0. WAY \in Nat /\ ROB_SIZE \in Nat /\ RS_SIZE \in Nat
  BY BackendAssumption
<1> DEFINE a == ROB!NumCanDispatch(n, FALSE, resolve)
           b == RS!dispatch_empty_slots
           left == RP!Left(n)
           size == Cardinality(rs)
<1>1. left \in Int
  BY RobKnown DEF Shape, RP!Left
<1>2. size \in Nat
  BY FS_CardinalityType DEF Shape, PartTypes
<1>3. a = 0 \/ a = RP!Least(WAY, ROB_SIZE - left)
  BY SameCycle DEF RP!NumCanDispatch
<1>4. b = IF WAY < RS_SIZE - size THEN WAY ELSE RS_SIZE - size
  BY SameOrder DEF RS!dispatch_empty_slots, RS!Lower
<1>5. num_can_fetch(n, resolve) = IF a < b THEN a ELSE b
  BY DEF num_can_fetch, ROB!Least
<1> HIDE DEF a, b, left, size
<1>6. RP!Least(WAY, ROB_SIZE - left) = IF WAY < ROB_SIZE - left THEN WAY ELSE ROB_SIZE - left
  BY DEF RP!Least
<1>7. a \in Int /\ a <= WAY
  BY <1>0, <1>1, <1>3, <1>6
<1>8. b \in Int /\ b <= WAY
  BY <1>0, <1>2, <1>4
<1>9. num_can_fetch(n, resolve) \in Int /\ num_can_fetch(n, resolve) <= WAY
  BY <1>0, <1>5, <1>7, <1>8
<1>10. num_can_fetch(n, resolve) <= b
  BY <1>5, <1>7, <1>8
<1> QED BY <1>9, <1>10 DEF b

\* The rules of a group and what the ROB and the reservation station get.
GroupFacts(group, complete) ==
    /\ Len(group) \in Nat /\ Len(group) <= WAY /\ DOMAIN group = 1 .. Len(group)
    /\ \A k \in 1 .. Len(group) : Member(group, k, complete)
    /\ ToRob(group) \in RP!Group /\ Len(ToRob(group)) = Len(group)
    /\ \A k \in 1 .. Len(group) :
          /\ ToRob(group)[k].kind = RobKind(group[k].kind)
          /\ ~RP!Faulty(ToRob(group)[k])
    /\ ToRS(group) \subseteq Packet
    /\ \A k \in 1 .. Len(group) :
          /\ Fresh(group, k) \in ToRS(group)
          /\ Fresh(group, k).rob_index = RP!RobIndexOf(k)
          /\ Fresh(group, k).kind = group[k].kind
          /\ Fresh(group, k).waits = group[k].waits
          /\ Fresh(group, k).needs = group[k].waits
          /\ Fresh(group, k).current
    /\ \A p \in ToRS(group) : \E k \in 1 .. Len(group) : p = Fresh(group, k)

\* The parts after a cycle hold what they should.
LEMMA PipelineTypes ==
    ASSUME Shape, NEW gone, NEW rewind, NEW complete, NEW mem_done \in MemAnswers,
           NEW issue \in CanIssue(mem_done), NEW group,
           Pipeline(gone, rewind, complete, mem_done, issue, group),
           ToRS(group) \subseteq Packet, IsFiniteSet(ToRS(group)),
           ToRS(group) # {} => Cardinality(ToRS(group)) <= RS!dispatch_empty_slots
    PROVE  PartTypes'
<1>1. PartTypes /\ store_flush \in BOOLEAN
  BY RobKnown DEF Shape
<1>2. rs' \subseteq Packet /\ IsFiniteSet(rs') /\ Cardinality(rs') <= RS_SIZE
  BY <1>1, RSStep
<1>3. iq' \in Seq(Packet) /\ Len(iq') <= IQ_SIZE
  BY <1>1, IQStep
<1>4. /\ fast_int' \in Seq(Packet) /\ mult' \in Multipliers
      /\ branch' \in Register /\ mem' \in Register
  BY <1>1, UnitsStep
<1>5. queue' \in Seq(Packet) /\ Len(queue') <= CQ_SIZE
  BY <1>1, QueueStep
<1> QED BY <1>2, <1>3, <1>4, <1>5 DEF PartTypes

\* A cycle without a rewind: its group, and its effect on the ROB.
LEMMA RunCycleShape ==
    ASSUME Shape, NEW n \in ROB!RetireNum(FALSE), NEW mem_done \in MemAnswers,
           NEW complete \in CQ!Completions(store_flush), NEW resolve \in Resolutions,
           NEW issue \in CanIssue(mem_done),
           NEW group \in Groups(num_can_fetch(n, resolve), RobIndexes(complete)),
           ROB!Run(n, FALSE, RobIndexes(complete), resolve, ToRob(group)),
           NEW gone, NEW rewind,
           Pipeline(gone, rewind, complete, mem_done, issue, group)
    PROVE  /\ Shape'
           /\ GroupFacts(group, RobIndexes(complete))
           /\ RunEffect(n, RobIndexes(complete), resolve, ToRob(group))
<1>1. /\ RP!RobInv /\ PartTypes /\ tail \in Index /\ store_flush \in BOOLEAN
      /\ n \in Nat /\ WAY \in Nat
  <2>1. n \in RP!RetireNum(FALSE)
    BY SameCycle
  <2> QED BY <2>1, RobKnown, BackendAssumption DEF Shape, RP!RetireNum
<1> DEFINE num == num_can_fetch(n, resolve)
<1>2. num \in Int /\ num <= WAY /\ num <= RS!dispatch_empty_slots
  BY <1>1, NumKnown
<1>3. group \in Groups(num, RobIndexes(complete))
  OBVIOUS
<1> HIDE DEF num
<1>4. /\ Len(group) \in Nat /\ Len(group) <= WAY /\ DOMAIN group = 1 .. Len(group)
      /\ Len(group) > 0 => Len(group) <= num
      /\ \A k \in 1 .. Len(group) : Member(group, k, RobIndexes(complete))
  BY <1>1, <1>2, <1>3, GroupKnown
<1>5. \A k \in 1 .. Len(group) : group[k].kind \in FU!FuType /\ group[k].waits \subseteq Index
  BY <1>4 DEF Member
<1>6. /\ ToRob(group) \in RP!Group /\ Len(ToRob(group)) = Len(group)
      /\ \A k \in 1 .. Len(group) :
                 /\ ToRob(group)[k].kind = RobKind(group[k].kind)
                 /\ ~RP!Faulty(ToRob(group)[k])
  BY <1>4, <1>5, GroupForRob
<1>7. /\ ToRS(group) \subseteq Packet
      /\ \A k \in 1 .. Len(group) :
                 /\ Fresh(group, k) \in ToRS(group)
                 /\ Fresh(group, k).rob_index = RP!RobIndexOf(k)
                 /\ Fresh(group, k).kind = group[k].kind
                 /\ Fresh(group, k).waits = group[k].waits
                 /\ Fresh(group, k).needs = group[k].waits
                 /\ Fresh(group, k).current
      /\ \A p \in ToRS(group) : \E k \in 1 .. Len(group) : p = Fresh(group, k)
      /\ IsFiniteSet(ToRS(group)) /\ Cardinality(ToRS(group)) \in Nat
      /\ Cardinality(ToRS(group)) <= Len(group)
  BY <1>1, <1>4, <1>5, GroupForRS
<1>8. GroupFacts(group, RobIndexes(complete))
  BY <1>4, <1>6, <1>7 DEF GroupFacts
<1>9. ToRS(group) # {} => Cardinality(ToRS(group)) <= RS!dispatch_empty_slots
  <2>1. ASSUME ToRS(group) # {} PROVE Len(group) > 0
    BY <1>4, <1>7, <2>1
  <2> DEFINE b == RS!dispatch_empty_slots
             c == Cardinality(ToRS(group))
             l == Len(group)
  <2>2. b \in Int
    <3>1. Cardinality(rs) \in Nat /\ RS_SIZE \in Nat
      BY <1>1, FS_CardinalityType, BackendAssumption DEF PartTypes
    <3> QED BY <1>1, <3>1, SameOrder DEF RS!dispatch_empty_slots, RS!Lower
  <2>3. num <= b /\ c \in Nat /\ c <= l /\ l \in Nat /\ num \in Int /\ (l > 0 => l <= num)
    BY <1>2, <1>4, <1>7
  <2> HIDE DEF b, c, l
  <2>4. l > 0 => c <= b
    BY <2>2, <2>3
  <2> QED BY <2>1, <2>4 DEF b, c, l
<1>10. PartTypes'
  BY <1>7, <1>9, PipelineTypes
<1>11. RobIndexes(complete) \in SUBSET Index /\ resolve \in ROB!Resolution
  BY <1>1, CompletionsKnown, ResolutionKnown DEF PartTypes
<1>12. RunEffect(n, RobIndexes(complete), resolve, ToRob(group))
  BY <1>1, <1>6, <1>11, RunShape
<1>13. RP!RobInv'
  BY <1>12 DEF RunEffect
<1> QED BY <1>8, <1>10, <1>12, <1>13 DEF Shape

\* No instruction is dispatched in a cycle with a rewind.
LEMMA NoGroup == ToRS(<<>>) = {}
<1>1. DOMAIN <<>> = {}
  OBVIOUS
<1> QED BY <1>1 DEF ToRS

\* A cycle with a rewind, and its effect on the ROB.
LEMMA RewindCycleShape ==
    ASSUME Shape, NEW n \in ROB!RetireNum(FALSE), NEW mem_done \in MemAnswers,
           NEW complete, NEW issue \in CanIssue(mem_done),
           ROB!Rewind(n, FALSE), NEW r, NEW h, RewindSize(n, r, h), NEW gone, NEW rewind,
           Pipeline(gone, rewind, complete, mem_done, issue, <<>>)
    PROVE  Shape' /\ RewindEffect(n, r, h)
<1>1. RP!RobInv /\ PartTypes
  BY DEF Shape
<1>2. RewindEffect(n, r, h)
  BY <1>1, RewindShape
<1>3. ToRS(<<>>) \subseteq Packet /\ IsFiniteSet(ToRS(<<>>))
  BY NoGroup, FS_EmptySet
<1>4. PartTypes'
  BY <1>3, NoGroup, PipelineTypes
<1> QED BY <1>2, <1>4 DEF RewindEffect, Shape

\* What the units hold.
LEMMA UnitsAre ==
    ASSUME PartTypes
    PROVE  InUnits = Elements(fast_int) \cup InMult(mult) \cup One(branch) \cup One(mem)
<1>1. Elements(fast_int) \subseteq Packet
  BY DEF PartTypes, Elements
<1>2. NoInst \notin Packet
  BY BackendAssumption
<1> QED BY <1>1, <1>2 DEF InUnits, Elements, InMult, One

\* The sets the properties are about are those of the parts.
LEMMA PartsAre ==
    ASSUME PartTypes
    PROVE  /\ InIssueQueue = Elements(iq) /\ InQueue = Elements(queue)
           /\ Issued = Elements(iq) \cup Elements(fast_int) \cup InMult(mult)
                          \cup One(branch) \cup One(mem) \cup Elements(queue)
           /\ Elements(iq) \subseteq Packet /\ Elements(fast_int) \subseteq Packet
           /\ InMult(mult) \subseteq Packet /\ One(branch) \subseteq Packet
           /\ One(mem) \subseteq Packet /\ Elements(queue) \subseteq Packet
<1>1. InIssueQueue = Elements(iq) /\ InQueue = Elements(queue)
  BY DEF InIssueQueue, InQueue, Elements
<1>2. InMult(mult) \subseteq Packet
  BY MultParts DEF PartTypes
<1>3. One(branch) \subseteq Packet /\ One(mem) \subseteq Packet
  BY DEF PartTypes, One, Register
<1>4. Elements(iq) \subseteq Packet /\ Elements(fast_int) \subseteq Packet
  BY DEF PartTypes, Elements
<1>5. Elements(queue) \subseteq Packet
  BY DEF PartTypes, Elements
<1>6. Issued = Elements(iq) \cup Elements(fast_int) \cup InMult(mult)
                          \cup One(branch) \cup One(mem) \cup Elements(queue)
  BY <1>1, UnitsAre DEF Issued
<1> QED BY <1>1, <1>2, <1>3, <1>4, <1>5, <1>6

\* What each part holds is what TypeOK asks.
LEMMA ShapeGivesTypes == Shape => TypeOK
<1> SUFFICES ASSUME Shape PROVE TypeOK
  OBVIOUS
<1>1. ROB!TypeOK
  BY RobKnown, SameSteps DEF Shape
<1>2. PartTypes
  BY DEF Shape
<1>3. /\ InIssueQueue = Elements(iq) /\ InQueue = Elements(queue)
      /\ Elements(iq) \subseteq Packet /\ Elements(queue) \subseteq Packet
  BY <1>2, PartsAre
<1>4. InUnits \subseteq Packet
  BY <1>2, PartsAre, UnitsAre
<1> QED BY <1>1, <1>2, <1>3, <1>4 DEF TypeOK, PartTypes

\* The reset state.
LEMMA ShapeInit == Init => Shape
<1> SUFFICES ASSUME Init PROVE Shape
  OBVIOUS
<1>1. RP!RobInv
  BY SameSteps, RobHypothesis, RP!InitEstablishes DEF Init, RP!RobAssumption
<1>2. rs = {} /\ iq = <<>> /\ fast_int = <<>> /\ queue = <<>> /\ branch = NoInst /\ mem = NoInst
  BY DEF Init, RS!ReservationStationInit, IQ!IssueQueueInit, FU!UnitsInit, CQ!QueueInit
<1>3. mult = [i \in 1 .. WAY |-> [s \in 0 .. NUM_STAGE |-> NoInst]]
  BY DEF Init, FU!UnitsInit
<1>4. /\ RS_SIZE \in Nat /\ IQ_SIZE \in Nat /\ CQ_SIZE \in Nat
  BY BackendAssumption
<1>5. rs \subseteq Packet /\ IsFiniteSet(rs) /\ Cardinality(rs) <= RS_SIZE
  <2>1. Cardinality({}) = 0 /\ IsFiniteSet({})
    BY FS_EmptySet
  <2> QED BY <1>2, <1>4, <2>1
<1>6. /\ iq \in Seq(Packet) /\ Len(iq) <= IQ_SIZE
      /\ fast_int \in Seq(Packet)
      /\ queue \in Seq(Packet) /\ Len(queue) <= CQ_SIZE
  BY <1>2, <1>4, EmptyPackets
<1>7. mult \in Multipliers
  BY <1>3 DEF Multipliers, Register
<1> QED BY <1>1, <1>2, <1>5, <1>6, <1>7 DEF Shape, PartTypes, Register

\* A step that changes nothing.
LEMMA ShapeStays == Shape /\ UNCHANGED vars => Shape'
<1> SUFFICES ASSUME Shape, UNCHANGED vars PROVE Shape'
  OBVIOUS
<1>1. UNCHANGED RP!robVars
  BY DEF vars, robVars, RP!robVars
<1>2. RP!RobInv'
  BY <1>1, RobHypothesis, RP!NextPreserves DEF Shape, RP!RobAssumption
<1>3. PartTypes'
  BY DEF Shape, PartTypes, vars
<1> QED BY <1>2, <1>3 DEF Shape

\* Every cycle preserves it.
LEMMA ShapePreserved ==
    ASSUME Shape, [Next]_vars
    PROVE  Shape'
<1>1. CASE UNCHANGED vars
  BY <1>1, ShapeStays
<1>2. CASE Next
  <2>1. PICK mem_done \in MemAnswers : Tick(mem_done)
    BY <1>2 DEF Next
  <2>2. PICK n \in ROB!RetireNum(FALSE), complete \in CQ!Completions(store_flush),
             resolve \in Resolutions,
             issue \in RS!Issues(IQ!issue_empty_slots(FU!execute_empty_slots(mem_done))) :
            \/ RewindCycle(n, complete, mem_done, issue)
            \/ RunCycle(n, complete, resolve, mem_done, issue)
    BY <2>1 DEF Tick
  <2>3. issue \in CanIssue(mem_done)
    BY DEF CanIssue, Slots
  <2>4. CASE RewindCycle(n, complete, mem_done, issue)
    <3>1. PICK r, h : RewindSize(n, r, h)
      BY DEF RewindSize
    <3> DEFINE squashed == {i \in Index : ROB!Rewound(i, ROB!RewindNum(n, FALSE))}
               gone == {i \in Index : Dist(i) < n} \cup squashed
    <3>2. /\ ROB!Rewind(n, FALSE)
          /\ Pipeline(gone, squashed, complete, mem_done, issue, <<>>)
      BY <2>4 DEF RewindCycle
    <3> HIDE DEF gone, squashed
    <3> QED BY <2>3, <3>1, <3>2, RewindCycleShape
  <2>5. CASE RunCycle(n, complete, resolve, mem_done, issue)
    <3>1. PICK group \in Groups(num_can_fetch(n, resolve), RobIndexes(complete)) :
             /\ ROB!Run(n, FALSE, RobIndexes(complete), resolve, ToRob(group))
             /\ Pipeline({i \in Index : Dist(i) < n}, {}, complete, mem_done, issue, group)
      BY <2>5 DEF RunCycle
    <3> QED BY <2>3, <3>1, RunCycleShape
  <2> QED BY <2>2, <2>4, <2>5
<1> QED BY <1>1, <1>2

\* Every register of the back end holds what it should, and no queue holds
\* more than its entries, for every size of the queues, also where results
\* are lost for want of room (rs.sv:71-90, issue_queue.sv:84-189,
\* fu.sv:645-669, cq.sv:51-90).
THEOREM BackendTypes == Spec => []TypeOK
<1>1. Init => Shape
  BY ShapeInit
<1>2. Shape /\ [Next]_vars => Shape'
  BY ShapePreserved
<1>3. Shape => TypeOK
  BY ShapeGivesTypes
<1> QED BY <1>1, <1>2, <1>3, PTL DEF Spec

-----------------------------------------------------------------------------
(* Where an instruction is after a step.                                    *)

\* Where the packets of the instruction i are, and where the step takes them.
PlaceFacts(mem_done, issue, rewind, i) ==
    /\ Has(Waiting(issue, rewind), i) => Has(rs, i)
    /\ Has(Elements(issue), i) => Has(rs, i)
    /\ ~(Has(Waiting(issue, rewind), i) /\ Has(Elements(issue), i))
    /\ Has(rs, i) /\ i \notin rewind => Has(Waiting(issue, rewind), i) \/ Has(Elements(issue), i)
    /\ Has(Elements(iq), i) <=>
          \/ Has(Stays(Slots(mem_done)), i)
          \/ Has(Sent(mem_done, "int"), i) \/ Has(Sent(mem_done, "mult"), i)
          \/ Has(Sent(mem_done, "branch"), i) \/ Has(Sent(mem_done, "mem"), i)
    /\ Has(Stays(Slots(mem_done)), i) =>
          /\ ~Has(Sent(mem_done, "int"), i) /\ ~Has(Sent(mem_done, "mult"), i)
          /\ ~Has(Sent(mem_done, "branch"), i) /\ ~Has(Sent(mem_done, "mem"), i)
    /\ Has(Sent(mem_done, "int"), i) =>
          /\ ~Has(Sent(mem_done, "mult"), i)
          /\ ~Has(Sent(mem_done, "branch"), i) /\ ~Has(Sent(mem_done, "mem"), i)
    /\ Has(Sent(mem_done, "mult"), i) =>
          ~Has(Sent(mem_done, "branch"), i) /\ ~Has(Sent(mem_done, "mem"), i)
    /\ Has(Sent(mem_done, "branch"), i) => ~Has(Sent(mem_done, "mem"), i)
    /\ Has(InMult(mult), i) <=> Has(Ready, i) \/ Has(InPipe, i)
    /\ ~(Has(Ready, i) /\ Has(InPipe, i))
    /\ Has(One(mem), i) <=> Has(Done(mem_done), i) \/ Has(One(mem) \ Done(mem_done), i)
    /\ ~(Has(Done(mem_done), i) /\ Has(One(mem) \ Done(mem_done), i))
    /\ Has(Elements(queue), i) <=> Has(Completing, i) \/ Has(Uncompleted, i)
    /\ ~(Has(Completing, i) /\ Has(Uncompleted, i))

\* Each instruction is in one of the places that a step treats differently.
LEMMA PlacesKnown ==
    ASSUME PartTypes, Once, NEW mem_done \in MemAnswers, NEW issue \in CanIssue(mem_done),
           NEW rewind, NEW i
    PROVE  PlaceFacts(mem_done, issue, rewind, i)
<1>0. \A p, q : Has(p \cup q, i) <=> Has(p, i) \/ Has(q, i)
  BY DEF Has
<1>1. Elements(issue) \subseteq rs
  BY IssueFits
<1>2. /\ Has(Waiting(issue, rewind), i) => Has(rs, i)
      /\ Has(Elements(issue), i) => Has(rs, i)
      /\ Has(rs, i) /\ i \notin rewind =>
            Has(Waiting(issue, rewind), i) \/ Has(Elements(issue), i)
  BY <1>1 DEF Has, Waiting
<1>3. ~(Has(Waiting(issue, rewind), i) /\ Has(Elements(issue), i))
  <2>1. \A p, q \in rs : SameInst(p, q) => p = q
    BY DEF Once
  <2> QED BY <1>1, <2>1 DEF Has, SameInst, Waiting
<1>4. Has(Elements(iq), i) <=>
          \/ Has(Stays(Slots(mem_done)), i)
          \/ Has(Sent(mem_done, "int"), i) \/ Has(Sent(mem_done, "mult"), i)
          \/ Has(Sent(mem_done, "branch"), i) \/ Has(Sent(mem_done, "mem"), i)
  <2>1. Elements(iq) = Stays(Slots(mem_done)) \cup UNION {Sent(mem_done, t) : t \in FU!FuType}
    BY SentKnown
  <2>2. UNION {Sent(mem_done, t) : t \in FU!FuType} =
           Sent(mem_done, "int") \cup Sent(mem_done, "mult")
             \cup Sent(mem_done, "branch") \cup Sent(mem_done, "mem")
    BY DEF FU!FuType
  <2> DEFINE st == Stays(Slots(mem_done))
             s1 == Sent(mem_done, "int")
             s2 == Sent(mem_done, "mult")
             s3 == Sent(mem_done, "branch")
             s4 == Sent(mem_done, "mem")
  <2>3. Elements(iq) = st \cup (((s1 \cup s2) \cup s3) \cup s4)
    BY <2>1, <2>2
  <2> HIDE DEF st, s1, s2, s3, s4
  <2>4. Has(((s1 \cup s2) \cup s3) \cup s4, i) <=>
           Has(s1, i) \/ Has(s2, i) \/ Has(s3, i) \/ Has(s4, i)
    BY <1>0
  <2>5. Has(Elements(iq), i) <=> Has(st, i) \/ Has(((s1 \cup s2) \cup s3) \cup s4, i)
    BY <1>0, <2>3
  <2> QED BY <2>4, <2>5 DEF st, s1, s2, s3, s4
<1>5. \A t, u : /\ ~(Has(Stays(Slots(mem_done)), i) /\ Has(Sent(mem_done, t), i))
                /\ t # u => ~(Has(Sent(mem_done, t), i) /\ Has(Sent(mem_done, u), i))
  BY SentApart DEF Disjoint
<1>6. /\ Has(InMult(mult), i) <=> Has(Ready, i) \/ Has(InPipe, i)
      /\ ~(Has(Ready, i) /\ Has(InPipe, i))
  <2>1. InMult(mult) = Ready \cup InPipe /\ Disjoint(Ready, InPipe)
    BY MultParts DEF PartTypes, Once
  <2> QED BY <1>0, <2>1 DEF Disjoint
<1>7. /\ Has(One(mem), i) <=> Has(Done(mem_done), i) \/ Has(One(mem) \ Done(mem_done), i)
      /\ ~(Has(Done(mem_done), i) /\ Has(One(mem) \ Done(mem_done), i))
  <2>1. Done(mem_done) = One(mem) \/ Done(mem_done) = {}
    BY DEF Done
  <2>2. ~Has({}, i)
    BY DEF Has
  <2>3. One(mem) \ One(mem) = {} /\ One(mem) \ {} = One(mem)
    OBVIOUS
  <2> QED BY <2>1, <2>2, <2>3
<1>8. /\ Has(Elements(queue), i) <=> Has(Completing, i) \/ Has(Uncompleted, i)
      /\ ~(Has(Completing, i) /\ Has(Uncompleted, i))
  <2>1. Elements(queue) = Completing \cup Uncompleted /\ Disjoint(Completing, Uncompleted)
    BY CompletionParts DEF PartTypes, Once
  <2> QED BY <1>0, <2>1 DEF Disjoint
<1>9. /\ Has(Stays(Slots(mem_done)), i) =>
          /\ ~Has(Sent(mem_done, "int"), i) /\ ~Has(Sent(mem_done, "mult"), i)
          /\ ~Has(Sent(mem_done, "branch"), i) /\ ~Has(Sent(mem_done, "mem"), i)
      /\ Has(Sent(mem_done, "int"), i) =>
          /\ ~Has(Sent(mem_done, "mult"), i)
          /\ ~Has(Sent(mem_done, "branch"), i) /\ ~Has(Sent(mem_done, "mem"), i)
      /\ Has(Sent(mem_done, "mult"), i) =>
          ~Has(Sent(mem_done, "branch"), i) /\ ~Has(Sent(mem_done, "mem"), i)
      /\ Has(Sent(mem_done, "branch"), i) => ~Has(Sent(mem_done, "mem"), i)
  <2>1. /\ "int" # "mult" /\ "int" # "branch" /\ "int" # "mem"
        /\ "mult" # "branch" /\ "mult" # "mem" /\ "branch" # "mem"
    OBVIOUS
  <2> QED BY <1>5, <2>1
<1> QED BY <1>2, <1>3, <1>4, <1>6, <1>7, <1>8, <1>9 DEF PlaceFacts

\* Where the step puts them.
NextFacts(mem_done, issue, i) ==
    /\ Has(NextIQ(mem_done, issue), i) <=>
          ~store_flush /\ (Has(Stays(Slots(mem_done)), i) \/ Has(Elements(issue), i))
    /\ Has(NextFast(mem_done), i) <=> ~store_flush /\ Has(Sent(mem_done, "int"), i)
    /\ Has(NextMult(mem_done), i) <=> Has(InPipe, i) \/ Has(Sent(mem_done, "mult"), i)
    /\ Has(NextBranch(mem_done), i) <=> Has(Sent(mem_done, "branch"), i)
    /\ Has(NextMem(mem_done), i) <=>
          ~store_flush /\ (Has(Sent(mem_done, "mem"), i) \/ Has(One(mem) \ Done(mem_done), i))
    /\ Has(NextQueue(mem_done), i) <=>
          ~store_flush /\ (\/ Has(Uncompleted, i) \/ Has(Done(mem_done), i)
                           \/ Has(Elements(fast_int), i) \/ Has(Ready, i) \/ Has(One(branch), i))

\* By the definitions of the parts after the step.
LEMMA NextKnown ==
    ASSUME store_flush \in BOOLEAN, NEW mem_done, NEW issue, NEW i
    PROVE  NextFacts(mem_done, issue, i)
<1>1. \A p, q : Has(p \cup q, i) <=> Has(p, i) \/ Has(q, i)
  BY DEF Has
<1>2. ~Has({}, i)
  BY DEF Has
<1>3. Has(NextIQ(mem_done, issue), i) <=>
          ~store_flush /\ (Has(Stays(Slots(mem_done)), i) \/ Has(Elements(issue), i))
  BY <1>1, <1>2 DEF NextIQ
<1>4. Has(NextFast(mem_done), i) <=> ~store_flush /\ Has(Sent(mem_done, "int"), i)
  BY <1>2 DEF NextFast
<1>5. /\ Has(NextMult(mem_done), i) <=> Has(InPipe, i) \/ Has(Sent(mem_done, "mult"), i)
      /\ Has(NextBranch(mem_done), i) <=> Has(Sent(mem_done, "branch"), i)
  BY <1>1 DEF NextMult, NextBranch
<1>6. Has(NextMem(mem_done), i) <=>
          ~store_flush /\ (Has(Sent(mem_done, "mem"), i) \/ Has(One(mem) \ Done(mem_done), i))
  BY <1>1, <1>2 DEF NextMem
<1>7. Has(NextQueue(mem_done), i) <=>
          ~store_flush /\ (\/ Has(Uncompleted, i) \/ Has(Done(mem_done), i)
                           \/ Has(Elements(fast_int), i) \/ Has(Ready, i) \/ Has(One(branch), i))
  <2>1. NextQueue(mem_done) =
           IF store_flush THEN {}
           ELSE Uncompleted \cup (((Done(mem_done) \cup Elements(fast_int)) \cup Ready) \cup One(branch))
    BY DEF NextQueue
  <2>2. CASE store_flush
    BY <1>2, <2>1, <2>2
  <2>3. CASE ~store_flush
    <3> DEFINE four == ((Done(mem_done) \cup Elements(fast_int)) \cup Ready) \cup One(branch)
    <3>1. Has(NextQueue(mem_done), i) <=> Has(Uncompleted, i) \/ Has(four, i)
      BY <1>1, <2>1, <2>3
    <3>2. Has(four, i) <=> \/ Has(Done(mem_done), i) \/ Has(Elements(fast_int), i)
                           \/ Has(Ready, i) \/ Has(One(branch), i)
      <4> DEFINE s1 == Done(mem_done)
                 s2 == Elements(fast_int)
                 s3 == Ready
                 s4 == One(branch)
      <4> HIDE DEF s1, s2, s3, s4
      <4>1. Has(((s1 \cup s2) \cup s3) \cup s4, i) <=>
               Has(s1, i) \/ Has(s2, i) \/ Has(s3, i) \/ Has(s4, i)
        BY <1>1
      <4> QED BY <4>1 DEF s1, s2, s3, s4
    <3> HIDE DEF four
    <3> QED BY <2>3, <3>1, <3>2
  <2> QED BY <2>2, <2>3
<1> QED BY <1>3, <1>4, <1>5, <1>6, <1>7 DEF NextFacts

\* The packets of i are in some of the parts.
Somewhere(a, b, c, d, e, f, g, i) ==
    \/ Has(a, i) \/ Has(b, i) \/ Has(c, i) \/ Has(d, i) \/ Has(e, i) \/ Has(f, i) \/ Has(g, i)

\* The same for the parts of the back end, and for what the step leaves.
Held(i) ==
    Somewhere(rs, Elements(iq), Elements(fast_int), InMult(mult), One(branch), One(mem),
              Elements(queue), i)
StaysHeld(mem_done, issue, rewind, i) ==
    Somewhere(Waiting(issue, rewind), NextIQ(mem_done, issue), NextFast(mem_done),
              NextMult(mem_done), NextBranch(mem_done), NextMem(mem_done),
              NextQueue(mem_done), i)

\* An instruction that does not complete, is not squashed and is not flushed,
\* stays in one place; one that completes leaves.
LEMMA OneMove ==
    ASSUME PartTypes, Once, Apart, store_flush \in BOOLEAN, NEW mem_done \in MemAnswers,
           NEW issue \in CanIssue(mem_done), NEW rewind, NEW i
    PROVE  /\ ApartAt(Waiting(issue, rewind), NextIQ(mem_done, issue), NextFast(mem_done),
                      NextMult(mem_done), NextBranch(mem_done), NextMem(mem_done),
                      NextQueue(mem_done), i)
           /\ ~store_flush /\ Has(Completing, i) => ~StaysHeld(mem_done, issue, rewind, i)
           /\ ~store_flush /\ Held(i) /\ i \notin rewind /\ ~Has(Completing, i)
                 => StaysHeld(mem_done, issue, rewind, i)
<1>1. PlaceFacts(mem_done, issue, rewind, i)
  BY PlacesKnown
<1>2. NextFacts(mem_done, issue, i)
  BY NextKnown
<1>3. ApartAt(rs, Elements(iq), Elements(fast_int), InMult(mult), One(branch), One(mem),
              Elements(queue), i)
  BY DEF Apart
<1>4. ApartAt(Waiting(issue, rewind), NextIQ(mem_done, issue), NextFast(mem_done),
              NextMult(mem_done), NextBranch(mem_done), NextMem(mem_done),
              NextQueue(mem_done), i)
  BY <1>1, <1>2, <1>3 DEF PlaceFacts, NextFacts, ApartAt
<1>5. ~store_flush /\ Has(Completing, i) => ~StaysHeld(mem_done, issue, rewind, i)
  BY <1>1, <1>2, <1>3 DEF PlaceFacts, NextFacts, ApartAt, StaysHeld, Somewhere
<1>6. ~store_flush /\ Held(i) /\ i \notin rewind /\ ~Has(Completing, i)
          => StaysHeld(mem_done, issue, rewind, i)
  BY <1>1, <1>2, <1>3 DEF PlaceFacts, NextFacts, ApartAt, StaysHeld, Held, Somewhere
<1> QED BY <1>4, <1>5, <1>6

-----------------------------------------------------------------------------
(* The packets of a step, and where they come from.                         *)

\* What the parts hold after the step.
Flow(gone, rewind, complete, mem_done, issue, group) ==
    /\ rs' = Moved(gone, NextRS(complete, issue, rewind)) \cup ToRS(group)
    /\ Elements(iq') = Moved(gone, NextIQ(mem_done, issue))
    /\ Elements(fast_int') = Moved(gone, NextFast(mem_done))
    /\ InMult(mult') = Moved(gone, NextMult(mem_done))
    /\ One(branch') = Moved(gone, NextBranch(mem_done))
    /\ One(mem') = Moved(gone, NextMem(mem_done))
    /\ Elements(queue') \subseteq Moved(gone, NextQueue(mem_done))
    /\ RoomForResults => Elements(queue') = Moved(gone, NextQueue(mem_done))

\* Only the completion queue can lose a packet, when it has no room for it.
LEMMA FlowKnown ==
    ASSUME Shape, NEW gone, NEW rewind, NEW complete,
           NEW mem_done \in MemAnswers, NEW issue \in CanIssue(mem_done), NEW group,
           Pipeline(gone, rewind, complete, mem_done, issue, group)
    PROVE  /\ Flow(gone, rewind, RobIndexes(complete), mem_done, issue, group)
           /\ Once /\ Apart => /\ Distinct(iq') /\ Distinct(fast_int') /\ DistinctMult(mult')
                               /\ Distinct(queue')
<1>1. PartTypes /\ store_flush \in BOOLEAN
  BY RobKnown DEF Shape
<1>2. rs' = Moved(gone, NextRS(RobIndexes(complete), issue, rewind)) \cup ToRS(group)
  BY StationKeeps DEF Pipeline, Moved, NextRS
<1>3. /\ Elements(iq') = Moved(gone, NextIQ(mem_done, issue))
      /\ Once /\ Apart => Distinct(iq')
  BY <1>1, IQStep
<1>4. /\ Elements(fast_int') = Moved(gone, NextFast(mem_done))
      /\ InMult(mult') = Moved(gone, NextMult(mem_done))
      /\ One(branch') = Moved(gone, NextBranch(mem_done))
      /\ One(mem') = Moved(gone, NextMem(mem_done))
      /\ Once /\ Apart => Distinct(fast_int') /\ DistinctMult(mult')
  BY <1>1, UnitsStep
<1>5. /\ Elements(queue') \subseteq Moved(gone, NextQueue(mem_done))
      /\ RoomForResults => Elements(queue') = Moved(gone, NextQueue(mem_done))
      /\ Once /\ Apart => Distinct(queue')
  BY <1>1, QueueStep
<1> QED BY <1>2, <1>3, <1>4, <1>5 DEF Flow

\* All packets.
Packets == rs \cup Issued

\* They are packets, with an index of the ROB.
LEMMA PacketsKnown ==
    ASSUME PartTypes
    PROVE  Packets \subseteq Packet /\ \A p \in Packets : p.rob_index \in Index
<1>1. Packets \subseteq Packet
  BY PartsAre DEF Packets, PartTypes
<1> QED BY <1>1 DEF Packet

PacketsNamed == \A p \in Packets : p.rob_index \in Index

\* So it is in the next state.
LEMMA PacketsNext == PartTypes' => \A p \in Packets' : p.rob_index \in Index
<1>1. PartTypes => PacketsNamed
  BY PacketsKnown DEF PacketsNamed
<1>2. PartTypes' => PacketsNamed'
  BY <1>1, PTL
<1> QED BY <1>2 DEF PacketsNamed

\* The packets behind the reservation station that a step leaves, and all.
NextIssued(mem_done, issue) ==
    NextIQ(mem_done, issue) \cup NextFast(mem_done) \cup NextMult(mem_done)
      \cup NextBranch(mem_done) \cup NextMem(mem_done) \cup NextQueue(mem_done)
Survivors(mem_done, issue, rewind) == Waiting(issue, rewind) \cup NextIssued(mem_done, issue)

\* They were there before, in the part in front of the one they are in now.
LEMMA SurvivorsWere ==
    ASSUME PartTypes, store_flush \in BOOLEAN, NEW mem_done \in MemAnswers,
           NEW issue \in CanIssue(mem_done), NEW rewind
    PROVE  /\ NextIssued(mem_done, issue) \subseteq Issued \cup Elements(issue)
           /\ Survivors(mem_done, issue, rewind) \subseteq Packets
<1>1. /\ Issued = Elements(iq) \cup Elements(fast_int) \cup InMult(mult)
                          \cup One(branch) \cup One(mem) \cup Elements(queue)
      /\ Elements(iq) \subseteq Packet /\ Elements(fast_int) \subseteq Packet
      /\ InMult(mult) \subseteq Packet /\ One(branch) \subseteq Packet
      /\ One(mem) \subseteq Packet /\ Elements(queue) \subseteq Packet
  BY PartsAre
<1>2. Elements(issue) \subseteq rs /\ Waiting(issue, rewind) \subseteq rs /\ rs \subseteq Packet
  BY IssueFits DEF Waiting, PartTypes
<1>3. /\ Stays(Slots(mem_done)) \subseteq Elements(iq)
      /\ \A t : Sent(mem_done, t) \subseteq Elements(iq)
  BY SentKnown
<1>4. Ready \subseteq InMult(mult) /\ InPipe \subseteq InMult(mult)
  BY MultParts DEF PartTypes
<1>5. Done(mem_done) \subseteq One(mem) /\ Uncompleted \subseteq Elements(queue)
  BY DoneIsMem, CompletionParts DEF PartTypes
<1>6. NextIQ(mem_done, issue) \subseteq Issued \cup Elements(issue)
  BY <1>1, <1>3 DEF NextIQ
<1>7. NextFast(mem_done) \subseteq Issued /\ NextMult(mem_done) \subseteq Issued
  BY <1>1, <1>3, <1>4 DEF NextFast, NextMult
<1>8. NextBranch(mem_done) \subseteq Issued /\ NextMem(mem_done) \subseteq Issued
  BY <1>1, <1>3 DEF NextBranch, NextMem
<1>9. NextQueue(mem_done) \subseteq Issued
  BY <1>1, <1>4, <1>5 DEF NextQueue
<1>10. NextIssued(mem_done, issue) \subseteq Issued \cup Elements(issue)
  BY <1>6, <1>7, <1>8, <1>9 DEF NextIssued
<1>11. Survivors(mem_done, issue, rewind) \subseteq Packets
  BY <1>1, <1>2, <1>10 DEF Survivors, Packets
<1> QED BY <1>10, <1>11

\* The packet q is what the step makes of p.
Follows(q, p, gone) ==
    /\ q.rob_index = p.rob_index /\ q.kind = p.kind
    /\ q.current <=> p.current /\ p.rob_index \notin gone
    /\ q.needs = LeftOf(gone, p)

\* What Issued is, and that it is so in the next state.
IssuedIs ==
    Issued = Elements(iq) \cup Elements(fast_int) \cup InMult(mult)
               \cup One(branch) \cup One(mem) \cup Elements(queue)
LEMMA IssuedNext ==
    PartTypes' => Issued' = Elements(iq') \cup Elements(fast_int') \cup InMult(mult')
                               \cup One(branch') \cup One(mem') \cup Elements(queue')
<1>1. PartTypes => IssuedIs
  BY PartsAre DEF IssuedIs
<1>2. PartTypes' => IssuedIs'
  BY <1>1, PTL
<1> QED BY <1>2 DEF IssuedIs

\* Every packet after the step is a new one or follows one from before.
LEMMA Origins ==
    ASSUME Shape, PartTypes', NEW gone, NEW rewind, NEW complete,
           NEW mem_done \in MemAnswers, NEW issue \in CanIssue(mem_done), NEW group,
           Flow(gone, rewind, complete, mem_done, issue, group)
    PROVE  /\ \A q \in rs' : \/ q \in ToRS(group)
                             \/ \E p \in Waiting(issue, rewind) :
                                   Follows(q, p, gone) /\ q.waits = p.waits \ complete
           /\ \A q \in Issued' : \E p \in NextIssued(mem_done, issue) : Follows(q, p, gone)
           /\ \A q \in Packets' : \/ q \in ToRS(group)
                                  \/ \E p \in Survivors(mem_done, issue, rewind) :
                                        Follows(q, p, gone)
<1>0. PartTypes /\ store_flush \in BOOLEAN
  BY RobKnown DEF Shape
<1>1. ASSUME NEW p \in Packet PROVE Follows(After(gone, p), p, gone)
  BY <1>1, AfterPacket DEF Follows
<1>2. Packets \subseteq Packet /\ Survivors(mem_done, issue, rewind) \subseteq Packets
  BY <1>0, SurvivorsWere, PacketsKnown
<1>3. ASSUME NEW q \in rs', q \notin ToRS(group)
      PROVE  \E p \in Waiting(issue, rewind) :
                Follows(q, p, gone) /\ q.waits = p.waits \ complete
  <2>1. q \in Moved(gone, NextRS(complete, issue, rewind))
    BY <1>3 DEF Flow
  <2>2. PICK w \in NextRS(complete, issue, rewind) : q = After(gone, w)
    BY <2>1 DEF Moved
  <2>3. PICK p \in Waiting(issue, rewind) : w = Woken(complete, p)
    BY <2>2 DEF NextRS
  <2>4. p \in Packet
    BY <1>0, <2>3 DEF Waiting, PartTypes
  <2>5. /\ w \in Packet /\ w.rob_index = p.rob_index /\ w.kind = p.kind
        /\ w.waits = p.waits \ complete /\ w.needs = p.needs /\ w.current = p.current
    BY <2>3, <2>4, WokenPacket
  <2>6. LeftOf(gone, w) = LeftOf(gone, p)
    BY <2>5 DEF LeftOf
  <2>7. /\ q.rob_index = w.rob_index /\ q.kind = w.kind /\ q.waits = w.waits
        /\ q.current <=> w.current /\ w.rob_index \notin gone
        /\ q.needs = LeftOf(gone, w)
    BY <2>2, <2>5, AfterPacket
  <2>8. Follows(q, p, gone) /\ q.waits = p.waits \ complete
    BY <2>5, <2>6, <2>7 DEF Follows
  <2> QED BY <2>8
<1>4. ASSUME NEW q \in Issued' PROVE \E p \in NextIssued(mem_done, issue) : Follows(q, p, gone)
  <2>1. q \in Elements(iq') \cup Elements(fast_int') \cup InMult(mult')
                          \cup One(branch') \cup One(mem') \cup Elements(queue')
    BY IssuedNext
  <2>2. q \in Moved(gone, NextIssued(mem_done, issue))
    BY <2>1 DEF Flow, Moved, NextIssued
  <2>3. PICK p \in NextIssued(mem_done, issue) : q = After(gone, p)
    BY <2>2 DEF Moved
  <2>4. p \in Packet
    BY <1>2, <2>3 DEF Survivors
  <2> QED BY <1>1, <2>3, <2>4
<1>5. ASSUME NEW q \in Packets', q \notin ToRS(group)
      PROVE  \E p \in Survivors(mem_done, issue, rewind) : Follows(q, p, gone)
  <2>1. q \in rs' \/ q \in Issued'
    BY <1>5 DEF Packets
  <2> QED BY <1>3, <1>4, <1>5, <2>1 DEF Survivors
<1> QED BY <1>3, <1>4, <1>5

\* Where the instruction i is after the step.
LEMMA FlowPlaces ==
    ASSUME Shape, NEW gone, NEW rewind, NEW complete, NEW mem_done \in MemAnswers,
           NEW issue \in CanIssue(mem_done), NEW group,
           Flow(gone, rewind, complete, mem_done, issue, group), NEW i
    PROVE  /\ Has(rs', i) <=> (Has(Waiting(issue, rewind), i) /\ i \notin gone)
                                 \/ Has(ToRS(group), i)
           /\ Has(Elements(iq'), i) <=> Has(NextIQ(mem_done, issue), i) /\ i \notin gone
           /\ Has(Elements(fast_int'), i) <=> Has(NextFast(mem_done), i) /\ i \notin gone
           /\ Has(InMult(mult'), i) <=> Has(NextMult(mem_done), i) /\ i \notin gone
           /\ Has(One(branch'), i) <=> Has(NextBranch(mem_done), i) /\ i \notin gone
           /\ Has(One(mem'), i) <=> Has(NextMem(mem_done), i) /\ i \notin gone
           /\ Has(Elements(queue'), i) => Has(NextQueue(mem_done), i) /\ i \notin gone
           /\ RoomForResults =>
                 (Has(Elements(queue'), i) <=> Has(NextQueue(mem_done), i) /\ i \notin gone)
<1>1. PartTypes /\ store_flush \in BOOLEAN
  BY RobKnown DEF Shape
<1>2. Survivors(mem_done, issue, rewind) \subseteq Packet
  BY <1>1, SurvivorsWere, PacketsKnown
<1>3. /\ NextIQ(mem_done, issue) \subseteq Packet /\ NextFast(mem_done) \subseteq Packet
      /\ NextMult(mem_done) \subseteq Packet /\ NextBranch(mem_done) \subseteq Packet
      /\ NextMem(mem_done) \subseteq Packet /\ NextQueue(mem_done) \subseteq Packet
      /\ Waiting(issue, rewind) \subseteq Packet
  BY <1>2 DEF Survivors, NextIssued
<1>4. \A packets \in SUBSET Packet :
         Has(Moved(gone, packets), i) <=> Has(packets, i) /\ i \notin gone
  BY MovedPackets
<1>5. Has(rs', i) <=> (Has(Waiting(issue, rewind), i) /\ i \notin gone) \/ Has(ToRS(group), i)
  <2> DEFINE R == NextRS(complete, issue, rewind)
             W == Waiting(issue, rewind)
  <2>1. \A p \in W : /\ Woken(complete, p) \in Packet
                     /\ Woken(complete, p).rob_index = p.rob_index
                     /\ Woken(complete, p).current = p.current
    BY <1>3, WokenPacket
  <2>2. R = {Woken(complete, p) : p \in W}
    BY DEF NextRS
  <2>3. R \in SUBSET Packet
    BY <2>1, <2>2
  <2>4. Has(R, i) <=> Has(W, i)
    BY <2>1, <2>2 DEF Has
  <2>5. rs' = Moved(gone, R) \cup ToRS(group)
    BY DEF Flow
  <2> HIDE DEF R, W
  <2>6. Has(Moved(gone, R), i) <=> Has(R, i) /\ i \notin gone
    BY <1>4, <2>3
  <2>7. Has(rs', i) <=> Has(Moved(gone, R), i) \/ Has(ToRS(group), i)
    BY <2>5 DEF Has
  <2> QED BY <2>4, <2>6, <2>7 DEF R, W
<1>6. /\ Has(Elements(iq'), i) <=> Has(NextIQ(mem_done, issue), i) /\ i \notin gone
      /\ Has(Elements(fast_int'), i) <=> Has(NextFast(mem_done), i) /\ i \notin gone
      /\ Has(InMult(mult'), i) <=> Has(NextMult(mem_done), i) /\ i \notin gone
  BY <1>3, <1>4 DEF Flow
<1>7. /\ Has(One(branch'), i) <=> Has(NextBranch(mem_done), i) /\ i \notin gone
      /\ Has(One(mem'), i) <=> Has(NextMem(mem_done), i) /\ i \notin gone
  BY <1>3, <1>4 DEF Flow
<1>8. /\ Has(Elements(queue'), i) => Has(Moved(gone, NextQueue(mem_done)), i)
      /\ RoomForResults =>
            (Has(Elements(queue'), i) <=> Has(Moved(gone, NextQueue(mem_done)), i))
  BY DEF Flow, Has
<1>9. Has(Moved(gone, NextQueue(mem_done)), i) <=> Has(NextQueue(mem_done), i) /\ i \notin gone
  BY <1>3, <1>4
<1> QED BY <1>5, <1>6, <1>7, <1>8, <1>9

\* An instruction is in one place after the step if a new one has no current
\* packet left from before.
LEMMA FlowApart ==
    ASSUME Shape, Once, Apart, NEW gone, NEW rewind, NEW complete, NEW mem_done \in MemAnswers,
           NEW issue \in CanIssue(mem_done), NEW group,
           Flow(gone, rewind, complete, mem_done, issue, group),
           \A i : Has(ToRS(group), i) => i \in gone \/ ~StaysHeld(mem_done, issue, rewind, i)
    PROVE  Apart'
<1>1. PartTypes /\ store_flush \in BOOLEAN
  BY RobKnown DEF Shape
<1>2. ASSUME NEW i
      PROVE  ApartAt(rs', Elements(iq'), Elements(fast_int'), InMult(mult'), One(branch'),
                     One(mem'), Elements(queue'), i)
  <2>1. ApartAt(Waiting(issue, rewind), NextIQ(mem_done, issue), NextFast(mem_done),
                NextMult(mem_done), NextBranch(mem_done), NextMem(mem_done),
                NextQueue(mem_done), i)
    BY <1>1, OneMove
  <2>2. Has(ToRS(group), i) => i \in gone \/ ~StaysHeld(mem_done, issue, rewind, i)
    OBVIOUS
  <2>3. /\ Has(rs', i) <=> (Has(Waiting(issue, rewind), i) /\ i \notin gone)
                              \/ Has(ToRS(group), i)
        /\ Has(Elements(iq'), i) => Has(NextIQ(mem_done, issue), i) /\ i \notin gone
        /\ Has(Elements(fast_int'), i) => Has(NextFast(mem_done), i) /\ i \notin gone
        /\ Has(InMult(mult'), i) => Has(NextMult(mem_done), i) /\ i \notin gone
        /\ Has(One(branch'), i) => Has(NextBranch(mem_done), i) /\ i \notin gone
        /\ Has(One(mem'), i) => Has(NextMem(mem_done), i) /\ i \notin gone
        /\ Has(Elements(queue'), i) => Has(NextQueue(mem_done), i) /\ i \notin gone
    BY FlowPlaces
  <2> QED BY <2>1, <2>2, <2>3 DEF ApartAt, StaysHeld, Somewhere
<1> QED BY <1>2 DEF Apart

\* No two packets that stay in the reservation station are of one instruction.
LEMMA StationOnce ==
    ASSUME PartTypes, Once, NEW gone, NEW rewind, NEW complete, NEW issue
    PROVE  \A p, q \in Moved(gone, NextRS(complete, issue, rewind)) :
              SameInst(p, q) => p = q
<1> SUFFICES ASSUME NEW p \in Moved(gone, NextRS(complete, issue, rewind)),
                    NEW q \in Moved(gone, NextRS(complete, issue, rewind)),
                    SameInst(p, q)
             PROVE  p = q
  OBVIOUS
<1>1. ASSUME NEW x \in Moved(gone, NextRS(complete, issue, rewind))
      PROVE  \E w \in rs : /\ x = After(gone, Woken(complete, w))
                           /\ x.rob_index = w.rob_index /\ (x.current => w.current)
  <2>1. PICK v \in NextRS(complete, issue, rewind) : x = After(gone, v)
    BY <1>1 DEF Moved
  <2>2. PICK w \in Waiting(issue, rewind) : v = Woken(complete, w)
    BY <2>1 DEF NextRS
  <2>3. w \in rs /\ w \in Packet
    BY <2>2 DEF Waiting, PartTypes
  <2>4. v \in Packet /\ v.rob_index = w.rob_index /\ v.current = w.current
    BY <2>2, <2>3, WokenPacket
  <2>5. x.rob_index = v.rob_index /\ (x.current => v.current)
    BY <2>1, <2>4, AfterPacket
  <2> QED BY <2>1, <2>2, <2>3, <2>4, <2>5
<1>2. PICK w \in rs : /\ p = After(gone, Woken(complete, w))
                      /\ p.rob_index = w.rob_index /\ (p.current => w.current)
  BY <1>1
<1>3. PICK v \in rs : /\ q = After(gone, Woken(complete, v))
                      /\ q.rob_index = v.rob_index /\ (q.current => v.current)
  BY <1>1
<1>4. w = v
  BY <1>2, <1>3 DEF Once, SameInst
<1> QED BY <1>2, <1>3, <1>4

-----------------------------------------------------------------------------
(* The inductive invariant.                                                 *)

\* The entries in front of i in the ROB.
Older(i) == {j \in Index : RP!Live(j) /\ RP!Dist(j) < RP!Dist(i)}

\* A current packet is of an instruction in the ROB and needs only older ones
\* that are in flight; one that is not current needs none.
Tracked(p) ==
    /\ p.current => RP!Live(p.rob_index) /\ p.needs \subseteq InFlight \cap Older(p.rob_index)
    /\ ~p.current => p.needs = {}
AllTracked == \A p \in Packets : Tracked(p)

\* So it is with what a packet in the reservation station waits for, which
\* may have completed when the ROB is in a rewind and does not notice it.
WaitsTracked ==
    \A p \in rs : /\ p.current => p.waits \subseteq Older(p.rob_index)
                  /\ ~p.current => p.waits = {}

\* When a rewind is over, nothing is in flight.
Flushing ==
    /\ store_flush => ~in_rewind /\ InFlight = {}
    /\ in_rewind => rob_mem[head].complete

\* The invariant of every program.  It says nothing of packets that are not
\* current but that they need nothing, so that a squashed multiplication may go
\* on, and it does not say that every instruction in flight has a packet, so
\* that the completion queue may lose a result.
BackendInv ==
    /\ Shape /\ Once /\ Apart
    /\ AllTracked /\ WaitsTracked /\ Flushing /\ WakesExactly

-----------------------------------------------------------------------------
(* A cycle without a rewind.                                                *)

\* The entries that retire.
Leaving(n) == {i \in Index : Dist(i) < n}

\* All that is known of the cycle.
RunStep(n, complete, resolve, mem_done, issue, group) ==
    /\ Shape'
    /\ mem_done \in MemAnswers /\ issue \in CanIssue(mem_done)
    /\ RunEffect(n, complete, resolve, ToRob(group))
    /\ GroupFacts(group, complete)
    /\ ~store_flush => complete = {p.rob_index : p \in Completing}
    /\ Flow(Leaving(n), {}, complete, mem_done, issue, group)
    /\ Distinct(iq') /\ Distinct(fast_int') /\ DistinctMult(mult') /\ Distinct(queue')

\* The entry of an instruction that does not retire.
LEMMA RunRemains ==
    ASSUME NEW n, NEW complete, NEW resolve, NEW mem_done, NEW issue, NEW group,
           RunStep(n, complete, resolve, mem_done, issue, group),
           NEW i \in Index, RP!Live(i), i \notin Leaving(n)
    PROVE  /\ Remains(i, n) /\ RP!Live(i)'
           /\ EntryRuns(i, n, complete, resolve, ToRob(group))
           /\ ~Placed(i, ToRob(group))
           /\ RP!Dist(i)' = RP!Dist(i) - n /\ RP!Dist(i)' < RP!Left(n)
<1>1. EntryRuns(i, n, complete, resolve, ToRob(group))
  BY DEF RunStep, RunEffect
<1>2. ~RP!Retired(i, n)
  BY SameRing DEF Leaving, RP!Retired
<1>3. Remains(i, n)
  BY <1>2 DEF Remains
<1> QED BY <1>1, <1>3 DEF EntryRuns

\* The entry of an instruction in flight, in a cycle that does not complete it.
LEMMA RunKeepsEntry ==
    ASSUME NEW n, NEW complete, NEW resolve, NEW mem_done, NEW issue, NEW group,
           RunStep(n, complete, resolve, mem_done, issue, group),
           NEW i \in InFlight
    PROVE  /\ i \in Index /\ RP!Live(i) /\ i \notin Leaving(n)
           /\ rob_mem'[i].valid /\ (rob_mem'[i].complete <=> i \in complete)
           /\ i \notin complete => i \in InFlight'
<1>1. i \in Index /\ RP!Live(i) /\ ~rob_mem[i].complete
  BY InFlightIs
<1>2. EntryRuns(i, n, complete, resolve, ToRob(group))
  BY <1>1 DEF RunStep, RunEffect
<1>3. i \notin Leaving(n)
  BY <1>1, <1>2, SameRing DEF EntryRuns, Leaving, RP!Retired
<1>4. Remains(i, n) /\ RP!Live(i)'
  BY <1>1, <1>3, RunRemains
<1>5. rob_mem'[i].valid /\ (rob_mem'[i].complete <=> i \in complete)
  BY <1>1, <1>2, <1>4 DEF EntryRuns
<1>6. i \notin complete => i \in InFlight'
  BY <1>1, <1>4, <1>5, InFlightIs
<1> QED BY <1>1, <1>3, <1>5, <1>6

\* What is older than an instruction that stays in the ROB, and in flight,
\* stays older.
LEMMA RunOlder ==
    ASSUME NEW n, NEW complete, NEW resolve, NEW mem_done, NEW issue, NEW group,
           RunStep(n, complete, resolve, mem_done, issue, group),
           NEW i \in Index, RP!Live(i), i \notin Leaving(n),
           NEW j \in InFlight, j \in Older(i)
    PROVE  j \in Older(i)'
<1>1. j \in Index /\ RP!Live(j) /\ j \notin Leaving(n) /\ RP!Dist(j) < RP!Dist(i)
  BY RunKeepsEntry DEF Older
<1>2. /\ RP!Live(j)' /\ RP!Dist(j)' = RP!Dist(j) - n
      /\ RP!Dist(i)' = RP!Dist(i) - n
      /\ EntryRuns(i, n, complete, resolve, ToRob(group))
      /\ EntryRuns(j, n, complete, resolve, ToRob(group))
  BY <1>1, RunRemains
<1>3. RP!Dist(j) \in Nat /\ RP!Dist(i) \in Nat /\ n \in Nat
  BY <1>2 DEF EntryRuns, RunStep, RunEffect
<1>4. RP!Dist(j)' < RP!Dist(i)'
  BY <1>1, <1>2, <1>3
<1> QED BY <1>1, <1>2, <1>4 DEF Older

\* i is the entry of the k-th instruction of the group.
EntryNumber(k, i) == i = RP!RobIndexOf(k)

\* The entry of a new instruction.
LEMMA FreshEntry ==
    ASSUME NEW n, NEW complete, NEW resolve, NEW mem_done, NEW issue, NEW group,
           RunStep(n, complete, resolve, mem_done, issue, group),
           NEW k \in 1 .. Len(group), NEW i, EntryNumber(k, i)
    PROVE  /\ i \in Index /\ i \in InFlight' /\ RP!Live(i)' /\ ~Remains(i, n)
           /\ RP!Place(i) = k /\ RP!Left(n) \in Nat
           /\ RP!Dist(i)' = RP!Left(n) + k - 1
<1> DEFINE g == ToRob(group)
<1>1. /\ RunEffect(n, complete, resolve, g) /\ GroupFacts(group, complete) /\ Len(g) = Len(group)
  BY DEF RunStep, GroupFacts
<1>2. Len(group) \in Nat /\ k \in Nat /\ k <= Len(group)
  BY <1>1 DEF GroupFacts
<1>3. i \in Index /\ RP!Place(i) = k
  BY <1>1 DEF RunEffect, EntryNumber
<1>4. EntryRuns(i, n, complete, resolve, g)
  BY <1>1, <1>3 DEF RunEffect
<1>5. Placed(i, g)
  BY <1>1, <1>2, <1>3 DEF Placed
<1>6. /\ rob_mem'[i] = RP!NewEntry(g[k])
      /\ RP!Live(i)' /\ ~Remains(i, n)
      /\ RP!Dist(i)' = RP!Left(n) + k - 1
  BY <1>3, <1>4, <1>5 DEF EntryRuns
<1>7. ~RP!Faulty(g[k])
  BY <1>1 DEF GroupFacts
<1>8. RP!NewEntry(g[k]).complete = RP!Faulty(g[k])
  BY DEF RP!NewEntry
<1>9. i \in InFlight'
  BY <1>3, <1>6, <1>7, <1>8, InFlightIs
<1> QED BY <1>1, <1>3, <1>6, <1>9 DEF RunEffect

\* What a new instruction waits for is in flight, and older.
LEMMA FreshNeeds ==
    ASSUME NEW n, NEW complete, NEW resolve, NEW mem_done, NEW issue, NEW group,
           RunStep(n, complete, resolve, mem_done, issue, group),
           NEW k \in 1 .. Len(group), NEW i, EntryNumber(k, i)
    PROVE  group[k].waits \subseteq InFlight' \cap Older(i)'
<1>1. GroupFacts(group, complete)
  BY DEF RunStep
<1>2. group[k].waits \subseteq Sources(k, complete)
  BY <1>1 DEF GroupFacts, Member
<1>3. /\ RP!Left(n) \in Nat /\ k \in Nat /\ k >= 1
      /\ RP!Dist(i)' = RP!Left(n) + k - 1
  BY FreshEntry
<1>4. ASSUME NEW j \in group[k].waits PROVE j \in InFlight' /\ j \in Older(i)'
  <2>1. j \in InFlight \ complete \/ \E m \in 1 .. k - 1 : j = ROB!RobIndexOf(m)
    BY <1>2, <1>4 DEF Sources
  <2> SUFFICES j \in Index /\ j \in InFlight' /\ RP!Live(j)' /\ RP!Dist(j)' < RP!Dist(i)'
    BY DEF Older
  <2>2. CASE j \in InFlight \ complete
    <3>1. j \in Index /\ RP!Live(j) /\ j \notin Leaving(n) /\ j \in InFlight'
      BY <2>2, RunKeepsEntry
    <3>2. RP!Live(j)' /\ RP!Dist(j)' < RP!Left(n)
      BY <3>1, RunRemains
    <3>3. EntryRuns(j, n, complete, resolve, ToRob(group))
      BY <3>1 DEF RunStep, RunEffect
    <3> DEFINE dj == RP!Dist(j)'
               di == RP!Dist(i)'
               left == RP!Left(n)
    <3>4. /\ dj < left /\ di = left + k - 1 /\ left \in Nat /\ k \in Nat /\ k >= 1
          /\ dj \in Nat
      BY <1>3, <3>2, <3>3 DEF EntryRuns
    <3> HIDE DEF dj, di, left
    <3>5. dj < di
      BY <3>4
    <3> QED BY <3>1, <3>2, <3>5 DEF dj, di
  <2>3. CASE \E m \in 1 .. k - 1 : j = ROB!RobIndexOf(m)
    <3>1. PICK m \in 1 .. k - 1 : j = ROB!RobIndexOf(m)
      BY <2>3
    <3>2. m \in 1 .. Len(group) /\ EntryNumber(m, j)
      BY <1>1, <3>1, SameRing DEF GroupFacts, EntryNumber
    <3>3. /\ j \in Index /\ j \in InFlight' /\ RP!Live(j)'
          /\ RP!Dist(j)' = RP!Left(n) + m - 1
      BY <3>2, FreshEntry
    <3> DEFINE dj == RP!Dist(j)'
               di == RP!Dist(i)'
               left == RP!Left(n)
    <3>4. dj = left + m - 1 /\ di = left + k - 1 /\ left \in Nat /\ m \in Nat /\ k \in Nat /\ m < k
      BY <1>3, <3>1, <3>3
    <3> HIDE DEF dj, di, left
    <3>5. dj < di
      BY <3>4
    <3> QED BY <3>3, <3>5 DEF dj, di
  <2> QED BY <2>1, <2>2, <2>3
<1> QED BY <1>4

\* The packets of the group.
LEMMA FreshPacket ==
    ASSUME NEW n, NEW complete, NEW resolve, NEW mem_done, NEW issue, NEW group,
           RunStep(n, complete, resolve, mem_done, issue, group),
           NEW q \in ToRS(group)
    PROVE  /\ q.current /\ q.waits = q.needs
           /\ q.needs \subseteq InFlight' \cap Older(q.rob_index)'
           /\ RP!Live(q.rob_index)' /\ q.rob_index \in Index /\ ~Remains(q.rob_index, n)
           /\ \E k \in 1 .. Len(group) : q = Fresh(group, k) /\ RP!Place(q.rob_index) = k
<1>1. GroupFacts(group, complete)
  BY DEF RunStep
<1>2. PICK k \in 1 .. Len(group) : q = Fresh(group, k)
  BY <1>1 DEF GroupFacts
<1>3. /\ EntryNumber(k, q.rob_index)
      /\ q.waits = group[k].waits /\ q.needs = group[k].waits /\ q.current
  BY <1>1, <1>2 DEF GroupFacts, EntryNumber
<1>4. PICK i : i = q.rob_index
  OBVIOUS
<1>5. EntryNumber(k, i)
  BY <1>3, <1>4
<1>6. group[k].waits \subseteq InFlight' \cap Older(i)'
  BY <1>5, FreshNeeds
<1>7. i \in Index /\ RP!Live(i)' /\ ~Remains(i, n) /\ RP!Place(i) = k
  BY <1>5, FreshEntry
<1> QED BY <1>2, <1>3, <1>4, <1>6, <1>7

\* What is made of a packet belongs to its entry, and no longer needs what
\* completes.  An instruction that retires needs nothing, as all that is older
\* has retired before it.
LEMMA RunFollows ==
    ASSUME BackendInv, NEW n, NEW complete, NEW resolve, NEW mem_done, NEW issue, NEW group,
           RunStep(n, complete, resolve, mem_done, issue, group),
           NEW p \in Packets, NEW q, Follows(q, p, Leaving(n))
    PROVE  Tracked(q)' /\ q.needs = p.needs \ complete
<1>1. Tracked(p)
  BY DEF BackendInv, AllTracked
<1>2. p.rob_index \in Index
  BY PacketsKnown DEF BackendInv, Shape
<1>3. PICK i : i = p.rob_index
  OBVIOUS
<1>4. /\ q.rob_index = i /\ i \in Index
      /\ q.current <=> p.current /\ i \notin Leaving(n)
      /\ q.needs = LeftOf(Leaving(n), p)
  BY <1>2, <1>3 DEF Follows
<1>5. p.current => RP!Live(i) /\ p.needs \subseteq InFlight /\ p.needs \subseteq Older(i)
  BY <1>1, <1>3 DEF Tracked
<1>6. ~p.current => p.needs = {}
  BY <1>1 DEF Tracked
<1>7. CASE ~p.current
  <2>1. q.needs = {} /\ ~q.current
    BY <1>4, <1>7 DEF LeftOf
  <2> QED BY <2>1, <1>6, <1>7 DEF Tracked
<1>8. CASE p.current /\ i \in Leaving(n)
  <2>1. q.needs = {} /\ ~q.current
    BY <1>3, <1>4, <1>8 DEF LeftOf
  <2>2. ASSUME NEW j \in p.needs PROVE FALSE
    <3>1. j \in InFlight /\ j \in Index /\ RP!Dist(j) < RP!Dist(i)
      BY <1>5, <1>8, <2>2 DEF Older
    <3>2. j \notin Leaving(n)
      BY <3>1, RunKeepsEntry
    <3>3. EntryRuns(i, n, complete, resolve, ToRob(group)) /\ EntryRuns(j, n, complete, resolve, ToRob(group))
      BY <1>4, <3>1 DEF RunStep, RunEffect
    <3>4. RP!Dist(j) \in Nat /\ RP!Dist(i) \in Nat /\ n \in Nat
      BY <3>3 DEF EntryRuns, RunStep, RunEffect
    <3>5. RP!Dist(i) < n /\ ~(RP!Dist(j) < n)
      BY <1>8, <3>1, <3>2, SameRing DEF Leaving
    <3> QED BY <3>1, <3>4, <3>5
  <2>3. p.needs = {}
    BY <2>2
  <2> QED BY <2>1, <2>3 DEF Tracked
<1>9. CASE p.current /\ i \notin Leaving(n)
  <2>1. q.current /\ q.needs = {j \in p.needs : rob_mem'[j].valid /\ ~rob_mem'[j].complete}
    BY <1>3, <1>4, <1>9 DEF LeftOf
  <2>2. ASSUME NEW j \in p.needs
        PROVE  /\ rob_mem'[j].valid /\ (rob_mem'[j].complete <=> j \in complete)
               /\ j \notin complete => j \in InFlight' /\ j \in Older(i)'
    <3>1. j \in InFlight /\ j \in Older(i)
      BY <1>5, <1>9, <2>2
    <3>2. j \in Older(i)'
      BY <1>4, <1>5, <1>9, <3>1, RunOlder
    <3> QED BY <3>1, <3>2, RunKeepsEntry
  <2>3. q.needs = p.needs \ complete
    BY <2>1, <2>2
  <2>4. RP!Live(i)'
    BY <1>4, <1>5, <1>9, RunRemains
  <2>5. q.needs \subseteq InFlight' \cap Older(i)'
    BY <2>2, <2>3
  <2> QED BY <1>4, <2>1, <2>3, <2>4, <2>5 DEF Tracked
<1> QED BY <1>7, <1>8, <1>9

\* Every packet belongs to its entry after the cycle, and waits for exactly
\* what it needs.
LEMMA RunTracked ==
    ASSUME BackendInv, NEW n, NEW complete, NEW resolve, NEW mem_done, NEW issue, NEW group,
           RunStep(n, complete, resolve, mem_done, issue, group)
    PROVE  AllTracked' /\ WaitsTracked' /\ WakesExactly'
<1>1. /\ Shape /\ PartTypes' /\ PartTypes /\ store_flush \in BOOLEAN
      /\ mem_done \in MemAnswers /\ issue \in CanIssue(mem_done)
      /\ Flow(Leaving(n), {}, complete, mem_done, issue, group)
      /\ ~in_rewind
  BY RobKnown DEF BackendInv, Shape, RunStep, RunEffect
<1>2. /\ \A q \in rs' : \/ q \in ToRS(group)
                        \/ \E p \in Waiting(issue, {}) :
                              Follows(q, p, Leaving(n)) /\ q.waits = p.waits \ complete
      /\ \A q \in Issued' : \E p \in NextIssued(mem_done, issue) : Follows(q, p, Leaving(n))
      /\ \A q \in Packets' : \/ q \in ToRS(group)
                             \/ \E p \in Survivors(mem_done, issue, {}) :
                                   Follows(q, p, Leaving(n))
  BY <1>1, Origins
<1>3. /\ Survivors(mem_done, issue, {}) \subseteq Packets
      /\ NextIssued(mem_done, issue) \subseteq Issued \cup Elements(issue)
      /\ NextIssued(mem_done, issue) \subseteq Packets
  BY <1>1, SurvivorsWere DEF Survivors
<1>4. ASSUME NEW q \in Packets' PROVE Tracked(q)'
  <2>1. CASE q \in ToRS(group)
    BY <2>1, FreshPacket DEF Tracked
  <2>2. CASE q \notin ToRS(group)
    <3>1. PICK p \in Packets : Follows(q, p, Leaving(n))
      BY <1>2, <1>3, <2>2
    <3> QED BY <3>1, RunFollows
  <2> QED BY <2>1, <2>2
<1>5. ASSUME NEW q \in rs' PROVE q.waits = q.needs
  <2>1. CASE q \in ToRS(group)
    BY <2>1, FreshPacket
  <2>2. CASE q \notin ToRS(group)
    <3>1. PICK p \in Waiting(issue, {}) : Follows(q, p, Leaving(n)) /\ q.waits = p.waits \ complete
      BY <1>2, <2>2
    <3>2. p \in rs /\ p \in Packets
      BY <3>1 DEF Waiting, Packets
    <3>3. p.waits = p.needs
      BY <1>1, <3>2 DEF BackendInv, WakesExactly
    <3>4. q.needs = p.needs \ complete
      BY <3>1, <3>2, RunFollows
    <3> QED BY <3>1, <3>3, <3>4
  <2> QED BY <2>1, <2>2
<1>6. ASSUME NEW q \in Issued' PROVE q.needs = {}
  <2>1. PICK p \in NextIssued(mem_done, issue) : Follows(q, p, Leaving(n))
    BY <1>2
  <2>2. q.needs = p.needs \ complete
    BY <1>3, <2>1, RunFollows
  <2>3. p \in Issued \/ (p \in rs /\ p.waits = {})
    BY <1>1, <1>3, <2>1, IssueFits
  <2>4. p.needs = {}
    BY <1>1, <2>3 DEF BackendInv, WakesExactly
  <2> QED BY <2>2, <2>4
<1>7. AllTracked'
  BY <1>4 DEF AllTracked
<1>8. WakesExactly'
  BY <1>5, <1>6 DEF WakesExactly
<1>9. ASSUME NEW q \in rs'
      PROVE  /\ q.current => q.waits \subseteq Older(q.rob_index)'
             /\ ~q.current => q.waits = {}
  <2>1. Tracked(q)' /\ q.waits = q.needs
    BY <1>4, <1>5, <1>9 DEF Packets
  <2> QED BY <2>1 DEF Tracked
<1>10. WaitsTracked'
  BY <1>9 DEF WaitsTracked
<1> QED BY <1>7, <1>8, <1>10

\* A new instruction has no current packet left from before.
LEMMA FreshIsAlone ==
    ASSUME BackendInv, NEW n, NEW complete, NEW resolve, NEW mem_done, NEW issue, NEW group,
           RunStep(n, complete, resolve, mem_done, issue, group), NEW i,
           Has(ToRS(group), i)
    PROVE  i \in Leaving(n) \/ ~StaysHeld(mem_done, issue, {}, i)
<1>1. PartTypes /\ store_flush \in BOOLEAN /\ mem_done \in MemAnswers /\ issue \in CanIssue(mem_done)
  BY RobKnown DEF BackendInv, Shape, RunStep
<1>2. PICK q \in ToRS(group) : q.rob_index = i
  BY DEF Has
<1>3. i \in Index /\ ~Remains(i, n)
  BY <1>2, FreshPacket
<1> SUFFICES ASSUME StaysHeld(mem_done, issue, {}, i), i \notin Leaving(n) PROVE FALSE
  OBVIOUS
<1>4. Has(Survivors(mem_done, issue, {}), i)
  BY DEF StaysHeld, Somewhere, Has, Survivors, NextIssued
<1>5. PICK p \in Survivors(mem_done, issue, {}) : p.current /\ p.rob_index = i
  BY <1>4 DEF Has
<1>6. p \in Packets
  BY <1>1, <1>5, SurvivorsWere
<1>7. RP!Live(i)
  BY <1>5, <1>6 DEF BackendInv, AllTracked, Tracked
<1>8. Remains(i, n)
  BY <1>3, <1>7, RunRemains
<1> QED BY <1>3, <1>8

\* Each packet is in one place after the cycle.
LEMMA RunApart ==
    ASSUME BackendInv, NEW n, NEW complete, NEW resolve, NEW mem_done, NEW issue, NEW group,
           RunStep(n, complete, resolve, mem_done, issue, group)
    PROVE  Apart' /\ Once'
<1>1. /\ Shape /\ PartTypes /\ Once /\ Apart /\ store_flush \in BOOLEAN
      /\ mem_done \in MemAnswers /\ issue \in CanIssue(mem_done)
      /\ Flow(Leaving(n), {}, complete, mem_done, issue, group)
  BY RobKnown DEF BackendInv, Shape, RunStep
<1>2. \A i : Has(ToRS(group), i) => i \in Leaving(n) \/ ~StaysHeld(mem_done, issue, {}, i)
  BY FreshIsAlone
<1>3. Apart'
  BY <1>1, <1>2, FlowApart
<1> DEFINE M == Moved(Leaving(n), NextRS(complete, issue, {}))
<1>4. rs' = M \cup ToRS(group)
  BY <1>1 DEF Flow
<1>5. ASSUME NEW p \in M, p.current
      PROVE  Has(Waiting(issue, {}), p.rob_index) /\ p.rob_index \notin Leaving(n)
  <2>1. PICK a \in rs : /\ a \in Waiting(issue, {})
                        /\ p = After(Leaving(n), Woken(complete, a))
    BY <1>5 DEF Moved, NextRS, Waiting
  <2>2. a \in Packet
    BY <1>1, <2>1 DEF PartTypes
  <2>3. /\ Woken(complete, a) \in Packet
        /\ Woken(complete, a).rob_index = a.rob_index
        /\ Woken(complete, a).current = a.current
    BY <2>2, WokenPacket
  <2>4. p.rob_index = a.rob_index /\ a.current /\ a.rob_index \notin Leaving(n)
    BY <1>5, <2>1, <2>3, AfterPacket
  <2> QED BY <2>1, <2>4 DEF Has
<1>6. ASSUME NEW p \in ToRS(group), NEW q \in M PROVE ~SameInst(p, q)
  <2>1. SUFFICES ASSUME SameInst(p, q) PROVE FALSE
    OBVIOUS
  <2>2. PICK i : i = p.rob_index
    OBVIOUS
  <2>3. Has(ToRS(group), i) /\ q.rob_index = i /\ q.current
    BY <2>1, <2>2 DEF SameInst, Has
  <2>4. Has(Waiting(issue, {}), i) /\ i \notin Leaving(n)
    BY <1>5, <2>3
  <2>5. StaysHeld(mem_done, issue, {}, i)
    BY <2>4 DEF StaysHeld, Somewhere
  <2> QED BY <1>2, <2>3, <2>4, <2>5
<1>7. ASSUME NEW p \in ToRS(group), NEW q \in ToRS(group), SameInst(p, q) PROVE p = q
  <2>1. PICK j \in 1 .. Len(group) : p = Fresh(group, j) /\ RP!Place(p.rob_index) = j
    BY FreshPacket
  <2>2. PICK k \in 1 .. Len(group) : q = Fresh(group, k) /\ RP!Place(q.rob_index) = k
    BY FreshPacket
  <2>3. j = k
    BY <1>7, <2>1, <2>2 DEF SameInst
  <2> QED BY <2>1, <2>2, <2>3
<1>8. \A p, q \in M : SameInst(p, q) => p = q
  BY <1>1, StationOnce
<1>9. \A p, q \in rs' : SameInst(p, q) => p = q
  <2> HIDE DEF M
  <2>1. \A p, q : SameInst(p, q) => SameInst(q, p)
    BY DEF SameInst
  <2> QED BY <1>4, <1>6, <1>7, <1>8, <2>1
<1>10. Once'
  BY <1>9 DEF Once, RunStep
<1> QED BY <1>3, <1>10

\* A cycle without a rewind preserves the invariant.
LEMMA RunKeepsInv ==
    ASSUME BackendInv, NEW n, NEW complete, NEW resolve, NEW mem_done, NEW issue, NEW group,
           RunStep(n, complete, resolve, mem_done, issue, group)
    PROVE  BackendInv'
<1>1. Shape' /\ ~store_flush' /\ ~in_rewind'
  BY DEF RunStep, RunEffect
<1>2. Flushing'
  BY <1>1 DEF Flushing
<1> QED BY <1>1, <1>2, RunTracked, RunApart DEF BackendInv

-----------------------------------------------------------------------------
(* A cycle with a rewind.                                                   *)

\* All that is known of the cycle.
RewindStep(n, r, h, complete, mem_done, issue, squashed) ==
    /\ Shape'
    /\ mem_done \in MemAnswers /\ issue \in CanIssue(mem_done)
    /\ RewindEffect(n, r, h)
    /\ squashed = {i \in Index : RP!Rewound(i, r)}
    /\ Flow(Leaving(n) \cup squashed, squashed, complete, mem_done, issue, <<>>)
    /\ Distinct(iq') /\ Distinct(fast_int') /\ DistinctMult(mult') /\ Distinct(queue')

\* The entry of an instruction that neither retires nor is squashed.
LEMMA RewindRemains ==
    ASSUME NEW n, NEW r, NEW h, NEW complete, NEW mem_done, NEW issue, NEW squashed,
           RewindStep(n, r, h, complete, mem_done, issue, squashed),
           NEW i \in Index, RP!Live(i), i \notin Leaving(n), i \notin squashed
    PROVE  /\ RP!Live(i)' /\ rob_mem'[i].valid
           /\ rob_mem'[i].complete = rob_mem[i].complete
           /\ RP!Dist(i)' = RP!Dist(i) - n
<1>1. EntryRewinds(i, n, r, h)
  BY DEF RewindStep, RewindEffect
<1>2. ~RP!Retired(i, n) /\ ~RP!Rewound(i, r)
  BY SameRing DEF Leaving, RP!Retired, RewindStep
<1>3. RP!Live(i)'
  BY <1>1, <1>2 DEF EntryRewinds, Remains
<1> QED BY <1>1, <1>3 DEF EntryRewinds

\* An instruction in flight does not retire.
LEMMA RewindKeepsEntry ==
    ASSUME NEW n, NEW r, NEW h, NEW complete, NEW mem_done, NEW issue, NEW squashed,
           RewindStep(n, r, h, complete, mem_done, issue, squashed),
           NEW i \in InFlight
    PROVE  i \in Index /\ RP!Live(i) /\ ~rob_mem[i].complete /\ i \notin Leaving(n)
<1>1. i \in Index /\ RP!Live(i) /\ ~rob_mem[i].complete
  BY InFlightIs
<1>2. EntryRewinds(i, n, r, h)
  BY <1>1 DEF RewindStep, RewindEffect
<1>3. ~RP!Retired(i, n)
  BY <1>1, <1>2 DEF EntryRewinds
<1> QED BY <1>1, <1>3, SameRing DEF Leaving, RP!Retired

\* What is older than an instruction that stays in the ROB is not squashed,
\* and stays older.
LEMMA RewindOlder ==
    ASSUME NEW n, NEW r, NEW h, NEW complete, NEW mem_done, NEW issue, NEW squashed,
           RewindStep(n, r, h, complete, mem_done, issue, squashed),
           NEW i \in Index, RP!Live(i), i \notin Leaving(n), i \notin squashed,
           NEW j \in Older(i), j \notin Leaving(n)
    PROVE  j \notin squashed /\ j \in Older(i)'
<1>1. j \in Index /\ RP!Live(j) /\ RP!Dist(j) < RP!Dist(i)
  BY DEF Older
<1>2. EntryRewinds(i, n, r, h) /\ EntryRewinds(j, n, r, h)
  BY <1>1 DEF RewindStep, RewindEffect
<1>3. /\ RP!Dist(i) \in Nat /\ RP!Dist(j) \in Nat /\ n \in Nat /\ r \in Nat
      /\ RP!Occupied \in Nat
  BY <1>2 DEF EntryRewinds, RewindStep, RewindEffect
<1>4. /\ RP!Rewound(i, r) <=> RP!Dist(i) >= RP!Occupied - r
      /\ RP!Rewound(j, r) <=> RP!Dist(j) >= RP!Occupied - r
  BY <1>1, <1>2 DEF EntryRewinds
<1>5. ~RP!Rewound(i, r)
  BY DEF RewindStep
<1> DEFINE di == RP!Dist(i)
           dj == RP!Dist(j)
           kept == RP!Occupied - r
<1>6. di \in Nat /\ dj \in Nat /\ kept \in Int /\ dj < di /\ ~(di >= kept)
  BY <1>1, <1>3, <1>4, <1>5
<1>7. ~(dj >= kept)
  <2> HIDE DEF di, dj, kept
  <2> QED BY <1>6
<1>8. j \notin squashed
  BY <1>4, <1>7 DEF RewindStep
<1>9. RP!Live(j)' /\ RP!Dist(j)' = RP!Dist(j) - n /\ RP!Dist(i)' = RP!Dist(i) - n
  BY <1>1, <1>8, RewindRemains
<1>10. RP!Dist(j)' < RP!Dist(i)'
  BY <1>1, <1>3, <1>9
<1> QED BY <1>1, <1>8, <1>9, <1>10 DEF Older

\* An instruction that retires needs nothing, and waits for nothing.
LEMMA RewindRetires ==
    ASSUME BackendInv, NEW n, NEW r, NEW h, NEW complete, NEW mem_done, NEW issue, NEW squashed,
           RewindStep(n, r, h, complete, mem_done, issue, squashed),
           NEW p \in Packets, p.current, p.rob_index \in Leaving(n)
    PROVE  p.needs = {} /\ (p \in rs => p.waits = {})
<1>1. PICK i : i = p.rob_index
  OBVIOUS
<1>2. i \in Index /\ i \in Leaving(n) /\ p.needs \subseteq InFlight \cap Older(i)
  BY <1>1, PacketsKnown DEF BackendInv, Shape, AllTracked, Tracked
<1>3. ASSUME NEW j \in p.needs PROVE FALSE
  <2>1. j \in InFlight /\ j \in Index /\ RP!Dist(j) < RP!Dist(i)
    BY <1>2, <1>3 DEF Older
  <2>2. j \notin Leaving(n)
    BY <2>1, RewindKeepsEntry
  <2>3. EntryRewinds(i, n, r, h) /\ EntryRewinds(j, n, r, h)
    BY <1>2, <2>1 DEF RewindStep, RewindEffect
  <2>4. RP!Dist(j) \in Nat /\ RP!Dist(i) \in Nat /\ n \in Nat
    BY <2>3 DEF EntryRewinds, RewindStep, RewindEffect
  <2>5. RP!Dist(i) < n /\ ~(RP!Dist(j) < n)
    BY <1>2, <2>1, <2>2, SameRing DEF Leaving
  <2> QED BY <2>1, <2>4, <2>5
<1>4. p.needs = {}
  BY <1>3
<1>5. ~in_rewind
  <2>1. EntryRewinds(i, n, r, h)
    BY <1>2 DEF RewindStep, RewindEffect
  <2>2. RP!Dist(i) \in Nat /\ RP!Dist(i) < n
    BY <1>2, <2>1, SameRing DEF EntryRewinds, Leaving
  <2>3. in_rewind => n = 0
    BY DEF RewindStep, RewindEffect
  <2> QED BY <2>2, <2>3
<1>6. p \in rs => p.waits = p.needs
  BY <1>5 DEF BackendInv, WakesExactly
<1> QED BY <1>4, <1>6

\* What is made of a packet belongs to its entry.
LEMMA RewindFollows ==
    ASSUME BackendInv, NEW n, NEW r, NEW h, NEW complete, NEW mem_done, NEW issue, NEW squashed,
           RewindStep(n, r, h, complete, mem_done, issue, squashed),
           NEW p \in Packets, NEW q, Follows(q, p, Leaving(n) \cup squashed)
    PROVE  Tracked(q)'
<1>1. PICK i : i = p.rob_index
  OBVIOUS
<1>2. /\ i \in Index
      /\ p.current => RP!Live(i) /\ p.needs \subseteq InFlight \cap Older(i)
      /\ ~p.current => p.needs = {}
  BY <1>1, PacketsKnown DEF BackendInv, Shape, AllTracked, Tracked
<1>3. /\ q.rob_index = i
      /\ q.current <=> p.current /\ i \notin Leaving(n) /\ i \notin squashed
      /\ q.needs = LeftOf(Leaving(n) \cup squashed, p)
  BY <1>1 DEF Follows
<1>4. CASE ~q.current
  <2>1. q.needs = {}
    BY <1>1, <1>3, <1>4 DEF LeftOf
  <2> QED BY <1>4, <2>1 DEF Tracked
<1>5. CASE q.current
  <2>1. /\ p.current /\ i \notin Leaving(n) /\ i \notin squashed
        /\ q.needs \subseteq p.needs
    BY <1>1, <1>3, <1>5 DEF LeftOf
  <2>2. RP!Live(i)'
    BY <1>2, <2>1, RewindRemains
  <2>3. ASSUME NEW j \in q.needs PROVE j \in InFlight' /\ j \in Older(i)'
    <3>1. j \in InFlight /\ j \in Older(i)
      BY <1>2, <2>1, <2>3
    <3>2. j \in Index /\ RP!Live(j) /\ ~rob_mem[j].complete /\ j \notin Leaving(n)
      BY <3>1, RewindKeepsEntry
    <3>3. j \notin squashed /\ j \in Older(i)'
      BY <1>2, <2>1, <3>1, <3>2, RewindOlder
    <3>4. RP!Live(j)' /\ rob_mem'[j].complete = rob_mem[j].complete
      BY <3>2, <3>3, RewindRemains
    <3> QED BY <3>2, <3>3, <3>4, InFlightIs
  <2>4. q.needs \subseteq InFlight' \cap Older(i)'
    BY <2>3
  <2> QED BY <1>3, <1>5, <2>2, <2>4 DEF Tracked
<1> QED BY <1>4, <1>5

\* Every packet belongs to its entry after the cycle.
LEMMA RewindTracked ==
    ASSUME BackendInv, NEW n, NEW r, NEW h, NEW complete, NEW mem_done, NEW issue, NEW squashed,
           RewindStep(n, r, h, complete, mem_done, issue, squashed)
    PROVE  AllTracked' /\ WaitsTracked'
<1> DEFINE gone == Leaving(n) \cup squashed
<1>0. /\ Shape /\ PartTypes /\ PartTypes' /\ store_flush \in BOOLEAN /\ in_rewind \in BOOLEAN
      /\ mem_done \in MemAnswers /\ issue \in CanIssue(mem_done)
      /\ Flow(gone, squashed, complete, mem_done, issue, <<>>)
  BY RobKnown DEF BackendInv, Shape, RewindStep
<1>1. \A q : q \notin ToRS(<<>>)
  BY NoGroup
<1> HIDE DEF gone
<1>2. /\ \A q \in rs' : \E p \in Waiting(issue, squashed) :
                           Follows(q, p, gone) /\ q.waits = p.waits \ complete
      /\ \A q \in Packets' : \E p \in Survivors(mem_done, issue, squashed) : Follows(q, p, gone)
  <2> DEFINE none == <<>>
  <2>1. Flow(gone, squashed, complete, mem_done, issue, none) /\ \A q : q \notin ToRS(none)
    BY <1>0, <1>1
  <2> HIDE DEF none
  <2>2. /\ \A q \in rs' : \/ q \in ToRS(none)
                          \/ \E p \in Waiting(issue, squashed) :
                                Follows(q, p, gone) /\ q.waits = p.waits \ complete
        /\ \A q \in Issued' : \E p \in NextIssued(mem_done, issue) : Follows(q, p, gone)
        /\ \A q \in Packets' : \/ q \in ToRS(none)
                               \/ \E p \in Survivors(mem_done, issue, squashed) :
                                     Follows(q, p, gone)
    BY <1>0, <2>1, Origins
  <2> QED BY <2>1, <2>2
<1>3. Survivors(mem_done, issue, squashed) \subseteq Packets
  BY <1>0, SurvivorsWere
<1>4. ASSUME NEW q \in Packets' PROVE Tracked(q)'
  <2>1. PICK p \in Packets : Follows(q, p, gone)
    BY <1>2, <1>3
  <2> QED BY <2>1, RewindFollows DEF gone
<1>5. ASSUME NEW q \in rs'
      PROVE  /\ q.current => q.waits \subseteq Older(q.rob_index)'
             /\ ~q.current => q.waits = {}
  <2>1. PICK p \in Waiting(issue, squashed) :
                Follows(q, p, gone) /\ q.waits = p.waits \ complete
    BY <1>2
  <2>2. PICK i : i = p.rob_index
    OBVIOUS
  <2>3. p \in rs /\ p \in Packets /\ i \notin squashed
    BY <2>1, <2>2 DEF Waiting, Packets
  <2>4. i \in Index
    BY <1>0, <2>2, <2>3, PacketsKnown
  <2>5. /\ q.rob_index = i
        /\ q.current <=> p.current /\ i \notin Leaving(n)
    BY <2>1, <2>2, <2>3 DEF Follows, gone
  <2>6. CASE ~q.current
    <3>1. p.waits = {}
      <4>1. CASE ~p.current
        BY <2>3, <4>1 DEF BackendInv, WaitsTracked
      <4>2. CASE p.current
        <5>1. i \in Leaving(n)
          BY <2>5, <2>6, <4>2
        <5> QED BY <2>2, <2>3, <4>2, <5>1, RewindRetires
      <4> QED BY <4>1, <4>2
    <3> QED BY <2>1, <2>6, <3>1
  <2>7. CASE q.current
    <3>1. /\ p.current /\ i \notin Leaving(n) /\ RP!Live(i)
          /\ p.waits \subseteq Older(i)
      BY <2>2, <2>3, <2>5, <2>7 DEF BackendInv, WaitsTracked, AllTracked, Tracked
    <3>2. ASSUME NEW j \in q.waits PROVE j \in Older(i)'
      <4>1. j \in p.waits /\ j \in Older(i) /\ j \in Index
        BY <2>1, <3>1, <3>2 DEF Older
      <4>2. CASE in_rewind
        <5>1. EntryRewinds(j, n, r, h) /\ n = 0
          BY <4>1, <4>2 DEF RewindStep, RewindEffect
        <5>2. RP!Dist(j) \in Nat
          BY <5>1 DEF EntryRewinds
        <5>3. j \notin Leaving(n)
          BY <5>1, <5>2, SameRing DEF Leaving
        <5> QED BY <2>3, <2>4, <3>1, <4>1, <5>3, RewindOlder
      <4>3. CASE ~in_rewind
        <5>1. j \in p.needs
          BY <2>3, <4>1, <4>3 DEF BackendInv, WakesExactly
        <5>2. j \in InFlight
          BY <2>3, <3>1, <5>1 DEF BackendInv, AllTracked, Tracked
        <5>3. j \notin Leaving(n)
          BY <5>2, RewindKeepsEntry
        <5> QED BY <2>3, <2>4, <3>1, <4>1, <5>3, RewindOlder
      <4> QED BY <1>0, <4>2, <4>3
    <3> QED BY <2>5, <2>7, <3>2
  <2> QED BY <2>6, <2>7
<1>6. AllTracked'
  BY <1>4 DEF AllTracked
<1>7. WaitsTracked'
  BY <1>5 DEF WaitsTracked
<1> QED BY <1>6, <1>7

\* When the rewind is over nothing is in flight, so that the flush cannot
\* lose anything, and nothing in the reservation station waits.
LEMMA RewindFlushing ==
    ASSUME BackendInv, NEW n, NEW r, NEW h, NEW complete, NEW mem_done, NEW issue, NEW squashed,
           RewindStep(n, r, h, complete, mem_done, issue, squashed)
    PROVE  Flushing' /\ WakesExactly'
<1>1. RewindEffect(n, r, h) /\ Flushing /\ Shape' /\ h \in Index
  BY DEF RewindStep, BackendInv, RewindEffect
<1>2. in_rewind' = ~store_flush' /\ head' = h /\ RP!Live(h)'
  BY <1>1 DEF RewindEffect
<1>3. store_flush' \in BOOLEAN
  <2>1. RP!TypeOK'
    BY <1>1 DEF Shape, RP!RobInv
  <2> QED BY <2>1 DEF RP!TypeOK
<1>4. rob_mem[h].complete
  <2>1. in_rewind \in BOOLEAN
    BY RobKnown DEF BackendInv, Shape
  <2> QED BY <1>1, <2>1 DEF RewindEffect, Flushing
<1>5. \A i \in Index : EntryRewinds(i, n, r, h)
  BY <1>1 DEF RewindEffect
<1>6. rob_mem'[h].complete
  BY <1>1, <1>2, <1>4, <1>5 DEF EntryRewinds
<1>7. ASSUME store_flush', NEW i \in Index, RP!Live(i)' PROVE i = h
  BY <1>5, <1>7 DEF EntryRewinds
<1>8. store_flush' => InFlight' = {}
  BY <1>6, <1>7, InFlightIs
<1>9. Flushing'
  BY <1>2, <1>3, <1>6, <1>8 DEF Flushing
<1>10. AllTracked' /\ WaitsTracked'
  BY RewindTracked
<1>11. ASSUME store_flush', NEW q \in Packets' PROVE q.needs = {}
  BY <1>8, <1>10, <1>11 DEF AllTracked, Tracked
<1>12. ASSUME store_flush', NEW q \in rs' PROVE q.waits = {}
  <2>1. CASE ~q.current
    BY <1>10, <2>1 DEF WaitsTracked
  <2>2. CASE q.current
    <3>1. PICK i : i = q.rob_index
      OBVIOUS
    <3>2. Tracked(q)' /\ PartTypes' /\ q \in Packets'
      BY <1>1, <1>10 DEF AllTracked, Packets, Shape
    <3>3. i \in Index
      <4>1. PartTypes' => \A p \in Packets' : p.rob_index \in Index
        BY PacketsNext
      <4> QED BY <3>1, <3>2, <4>1
    <3>4. RP!Live(i)' /\ q.waits \subseteq Older(i)'
      BY <1>10, <2>2, <3>1, <3>2 DEF WaitsTracked, Tracked
    <3>5. ASSUME NEW j \in Older(i)' PROVE FALSE
      <4>1. j \in Index /\ RP!Live(j)' /\ RP!Dist(j)' < RP!Dist(i)'
        BY DEF Older
      <4>2. j = h /\ i = h
        BY <1>7, <1>12, <3>3, <3>4, <4>1
      <4>3. PICK k : k = h
        OBVIOUS
      <4>4. RP!Dist(k)' < RP!Dist(k)' /\ k \in Index
        BY <1>1, <4>1, <4>2, <4>3
      <4>5. RP!Dist(k)' \in Nat
        BY <1>5, <4>4 DEF EntryRewinds
      <4> QED BY <4>4, <4>5
    <3> QED BY <3>4, <3>5
  <2> QED BY <2>1, <2>2
<1>13. WakesExactly'
  BY <1>2, <1>3, <1>11, <1>12 DEF WakesExactly, Packets
<1> QED BY <1>9, <1>13

\* A cycle with a rewind preserves the invariant.
LEMMA RewindKeepsInv ==
    ASSUME BackendInv, NEW n, NEW r, NEW h, NEW complete, NEW mem_done, NEW issue, NEW squashed,
           RewindStep(n, r, h, complete, mem_done, issue, squashed)
    PROVE  BackendInv'
<1> DEFINE gone == Leaving(n) \cup squashed
<1>0. /\ Shape /\ PartTypes /\ Once /\ Apart /\ Shape'
      /\ mem_done \in MemAnswers /\ issue \in CanIssue(mem_done)
      /\ Flow(gone, squashed, complete, mem_done, issue, <<>>)
      /\ ToRS(<<>>) = {}
  BY NoGroup DEF BackendInv, Shape, RewindStep
<1> HIDE DEF gone
<1>1. Apart'
  <2>1. \A i : ~Has(ToRS(<<>>), i)
    BY <1>0 DEF Has
  <2> QED BY <1>0, <2>1, FlowApart
<1>2. Once'
  <2>1. rs' = Moved(gone, NextRS(complete, issue, squashed))
    BY <1>0 DEF Flow
  <2>2. \A p, q \in rs' : SameInst(p, q) => p = q
    BY <1>0, <2>1, StationOnce
  <2>3. Distinct(iq') /\ Distinct(fast_int') /\ DistinctMult(mult') /\ Distinct(queue')
    BY DEF RewindStep
  <2> QED BY <2>2, <2>3 DEF Once
<1> QED BY <1>0, <1>1, <1>2, RewindTracked, RewindFlushing DEF BackendInv

-----------------------------------------------------------------------------
(* The invariant holds.                                                     *)

\* After reset every part is empty.
LEMMA InvInit == Init => BackendInv
<1> SUFFICES ASSUME Init PROVE BackendInv
  OBVIOUS
<1>0. Shape
  BY ShapeInit
<1>1. rs = {} /\ iq = <<>> /\ fast_int = <<>> /\ queue = <<>> /\ branch = NoInst /\ mem = NoInst
  BY DEF Init, RS!ReservationStationInit, IQ!IssueQueueInit, FU!UnitsInit, CQ!QueueInit
<1>2. mult = [i \in 1 .. WAY |-> [s \in 0 .. NUM_STAGE |-> NoInst]]
  BY DEF Init, FU!UnitsInit
<1>3. /\ rob_mem = [i \in ROB!Index |-> ROB!Cleared] /\ ~in_rewind /\ ~store_flush
  BY DEF Init, ROB!Init
<1>4. \A i \in Index : ~RP!Live(i)
  <2>1. Index = ROB!Index /\ ROB!Index = RP!Index
    BY SameRing
  <2>2. \A i \in Index : ~rob_mem[i].valid
    BY <1>3, <2>1 DEF ROB!Cleared
  <2>3. RP!ValidIffLive
    BY <1>0, RobKnown DEF Shape
  <2> QED BY <2>1, <2>2, <2>3 DEF RP!ValidIffLive
<1>5. InFlight = {}
  BY <1>4, InFlightIs
<1>6. /\ Elements(iq) = {} /\ Elements(fast_int) = {} /\ Elements(queue) = {}
      /\ Distinct(iq) /\ Distinct(fast_int) /\ Distinct(queue)
  BY <1>1, EmptyPackets
<1>7. One(branch) = {} /\ One(mem) = {}
  BY <1>1 DEF One
<1>8. \A u \in 1 .. WAY, s \in 0 .. NUM_STAGE : mult[u][s] = NoInst
  BY <1>2
<1>9. InMult(mult) = {}
  BY <1>8 DEF InMult
<1>10. DistinctMult(mult)
  BY <1>8 DEF DistinctMult
<1>11. Packets = {} /\ Issued = {}
  <2>1. PartTypes
    BY <1>0 DEF Shape
  <2>2. Issued = {}
    BY <1>6, <1>7, <1>9, <2>1, PartsAre
  <2> QED BY <1>1, <2>2 DEF Packets
<1>12. Once
  BY <1>1, <1>6, <1>10 DEF Once
<1>13. Apart
  <2>1. \A i : ~Has({}, i)
    BY DEF Has
  <2> QED BY <1>1, <1>6, <1>7, <1>9, <2>1 DEF Apart, ApartAt
<1>14. AllTracked /\ WaitsTracked /\ WakesExactly
  BY <1>1, <1>11 DEF AllTracked, WaitsTracked, WakesExactly
<1>15. Flushing
  BY <1>3, <1>5 DEF Flushing
<1> QED BY <1>0, <1>12, <1>13, <1>14, <1>15 DEF BackendInv

\* A step that changes nothing.
LEMMA InvStays == BackendInv /\ UNCHANGED vars => BackendInv'
<1> SUFFICES ASSUME BackendInv, UNCHANGED vars PROVE BackendInv'
  OBVIOUS
<1>1. Shape'
  BY ShapeStays DEF BackendInv
<1>2. /\ UNCHANGED <<rob_mem, head, tail, is_empty, in_rewind, store_flush>>
      /\ UNCHANGED <<rs, iq, fast_int, mult, branch, mem, queue>>
  BY DEF vars, robVars
<1>3. /\ InFlight' = InFlight /\ Packets' = Packets /\ Issued' = Issued
  <2>1. InUnits' = InUnits /\ InQueue' = InQueue /\ InIssueQueue' = InIssueQueue
    BY <1>2 DEF InUnits, InQueue, InIssueQueue
  <2>2. \A i : RP!Live(i)' <=> RP!Live(i)
    BY <1>2 DEF RP!Live, RP!Dist, RP!Occupied, RP!Wrap
  <2> QED BY <1>2, <2>1, <2>2, InFlightIs DEF Packets, Issued
<1>4. \A i : (RP!Live(i)' <=> RP!Live(i)) /\ RP!Dist(i)' = RP!Dist(i)
  BY <1>2 DEF RP!Live, RP!Dist, RP!Occupied, RP!Wrap
<1>5. Once' /\ Apart'
  BY <1>2 DEF BackendInv, Once, Apart
<1>6. WakesExactly'
  BY <1>2, <1>3 DEF BackendInv, WakesExactly
<1>7. AllTracked' /\ WaitsTracked'
  BY <1>2, <1>3, <1>4 DEF BackendInv, AllTracked, WaitsTracked, Tracked, Older
<1>8. Flushing'
  BY <1>2, <1>3, <1>4 DEF BackendInv, Flushing
<1> QED BY <1>1, <1>5, <1>6, <1>7, <1>8 DEF BackendInv

\* A cycle is one of the two kinds, and nothing more has to be known of it.
SomeRun ==
    \E n, complete, resolve, mem_done, issue, group :
        RunStep(n, complete, resolve, mem_done, issue, group)
SomeRewind ==
    \E n, r, h, complete, mem_done, issue, squashed :
        RewindStep(n, r, h, complete, mem_done, issue, squashed)

\* A step is one of these two or changes nothing.
LEMMA StepKnown ==
    ASSUME Shape, Once, Apart, [Next]_vars
    PROVE  UNCHANGED vars \/ SomeRun \/ SomeRewind
<1>1. CASE Next
  <2>1. PICK mem_done \in MemAnswers : Tick(mem_done)
    BY <1>1 DEF Next
  <2>2. PICK n \in ROB!RetireNum(FALSE), complete \in CQ!Completions(store_flush),
             resolve \in Resolutions,
             issue \in RS!Issues(IQ!issue_empty_slots(FU!execute_empty_slots(mem_done))) :
            \/ RewindCycle(n, complete, mem_done, issue)
            \/ RunCycle(n, complete, resolve, mem_done, issue)
    BY <2>1 DEF Tick
  <2>3. issue \in CanIssue(mem_done)
    BY DEF CanIssue, Slots
  <2>4. CASE RewindCycle(n, complete, mem_done, issue)
    <3>1. PICK r, h : RewindSize(n, r, h)
      BY DEF RewindSize
    <3> DEFINE squashed == {i \in Index : ROB!Rewound(i, ROB!RewindNum(n, FALSE))}
               gone == Leaving(n) \cup squashed
    <3>2. /\ ROB!Rewind(n, FALSE)
          /\ Pipeline(gone, squashed, complete, mem_done, issue, <<>>)
      BY <2>4 DEF RewindCycle, Leaving
    <3>3. squashed = {i \in Index : RP!Rewound(i, r)}
      BY <3>1, SameRing DEF RewindSize
    <3> HIDE DEF gone, squashed
    <3>4. Shape' /\ RewindEffect(n, r, h)
      BY <2>3, <3>1, <3>2, RewindCycleShape
    <3>5. /\ Flow(gone, squashed, RobIndexes(complete), mem_done, issue, <<>>)
          /\ Distinct(iq') /\ Distinct(fast_int') /\ DistinctMult(mult') /\ Distinct(queue')
      BY <2>3, <3>2, FlowKnown
    <3>6. RewindStep(n, r, h, RobIndexes(complete), mem_done, issue, squashed)
      BY <2>3, <3>3, <3>4, <3>5 DEF RewindStep, gone
    <3> QED BY <3>6 DEF SomeRewind
  <2>5. CASE RunCycle(n, complete, resolve, mem_done, issue)
    <3>1. PICK group \in Groups(num_can_fetch(n, resolve), RobIndexes(complete)) :
             /\ ROB!Run(n, FALSE, RobIndexes(complete), resolve, ToRob(group))
             /\ Pipeline(Leaving(n), {}, complete, mem_done, issue, group)
      BY <2>5 DEF RunCycle, Leaving
    <3>2. /\ Shape'
          /\ GroupFacts(group, RobIndexes(complete))
          /\ RunEffect(n, RobIndexes(complete), resolve, ToRob(group))
      BY <2>3, <3>1, RunCycleShape
    <3>3. /\ Flow(Leaving(n), {}, RobIndexes(complete), mem_done, issue, group)
          /\ Distinct(iq') /\ Distinct(fast_int') /\ DistinctMult(mult') /\ Distinct(queue')
      BY <2>3, <3>1, FlowKnown
    <3>4. ~store_flush => RobIndexes(complete) = {p.rob_index : p \in Completing}
      <4>1. store_flush \in BOOLEAN /\ queue \in Seq(Packet)
        BY RobKnown DEF Shape, PartTypes
      <4> QED BY <4>1, CompletionsKnown
    <3>5. RunStep(n, RobIndexes(complete), resolve, mem_done, issue, group)
      BY <2>3, <3>2, <3>3, <3>4 DEF RunStep
    <3> QED BY <3>5 DEF SomeRun
  <2> QED BY <2>2, <2>4, <2>5
<1> QED BY <1>1

\* Every cycle preserves the invariant.
LEMMA InvPreserved ==
    ASSUME BackendInv, [Next]_vars
    PROVE  BackendInv'
<1>1. UNCHANGED vars \/ SomeRun \/ SomeRewind
  BY StepKnown DEF BackendInv
<1>2. CASE UNCHANGED vars
  BY <1>2, InvStays
<1>3. CASE SomeRun
  BY <1>3, RunKeepsInv DEF SomeRun
<1>4. CASE SomeRewind
  BY <1>4, RewindKeepsInv DEF SomeRewind
<1> QED BY <1>1, <1>2, <1>3, <1>4

\* So it holds in every state.
LEMMA InvAlways == Spec => []BackendInv
<1>1. Init => BackendInv
  BY InvInit
<1>2. BackendInv /\ [Next]_vars => BackendInv'
  BY InvPreserved
<1> QED BY <1>1, <1>2, PTL DEF Spec

-----------------------------------------------------------------------------
(* What the invariant says.                                                 *)

\* The packets in a part that are current and of the instruction i.
At(p, i) == p # NoInst /\ p.current /\ p.rob_index = i
HasAt(packets, i) == \E p \in packets : At(p, i)
Number(some) == IF some THEN 1 ELSE 0

\* The size of a set with at most one element.
LEMMA AtMostOneIs ==
    ASSUME NEW S, \A x, y \in S : x = y, NEW some \in BOOLEAN, some <=> S # {}
    PROVE  Cardinality(S) = Number(some)
<1>1. Cardinality(S) = IF S = {} THEN 0 ELSE 1
  BY AtMostOneElement
<1> QED BY <1>1 DEF Number

\* An instruction is counted in a sequence at most once.
LEMMA CountInSequence ==
    ASSUME NEW s \in Seq(Packet), Distinct(s), NEW i
    PROVE  Cardinality({k \in DOMAIN s : At(s[k], i)}) = Number(HasAt(Elements(s), i))
<1> DEFINE S == {k \in DOMAIN s : At(s[k], i)}
<1>1. \A j, k \in S : j = k
  BY DEF At, Distinct, SameInst
<1>2. HasAt(Elements(s), i) <=> S # {}
  BY DEF HasAt, Elements
<1>3. HasAt(Elements(s), i) \in BOOLEAN
  BY DEF HasAt
<1> HIDE DEF S
<1>4. Cardinality(S) = Number(HasAt(Elements(s), i))
  BY <1>1, <1>2, <1>3, AtMostOneIs
<1> QED BY <1>4 DEF S

\* So the number of its places is the number of parts that hold it.
LEMMA PlacesAre ==
    ASSUME PartTypes, Once, Apart, NEW i
    PROVE  Places(i) =
              Number(HasAt(rs, i)) + Number(HasAt(Elements(iq), i))
              + Number(HasAt(Elements(fast_int), i)) + Number(HasAt(InMult(mult), i))
              + Number(HasAt(One(branch) \cup One(mem), i))
              + Number(HasAt(Elements(queue), i))
<1>1. Cardinality({p \in rs : At(p, i)}) = Number(HasAt(rs, i))
  <2> DEFINE S == {p \in rs : At(p, i)}
  <2>1. \A p, q \in S : p = q
    BY DEF At, Once, SameInst
  <2>2. (HasAt(rs, i) <=> S # {}) /\ HasAt(rs, i) \in BOOLEAN
    BY DEF HasAt
  <2> HIDE DEF S
  <2>3. Cardinality(S) = Number(HasAt(rs, i))
    BY <2>1, <2>2, AtMostOneIs
  <2> QED BY <2>3 DEF S
<1>2. /\ Cardinality({k \in DOMAIN iq : At(iq[k], i)}) = Number(HasAt(Elements(iq), i))
      /\ Cardinality({k \in DOMAIN fast_int : At(fast_int[k], i)})
            = Number(HasAt(Elements(fast_int), i))
      /\ Cardinality({k \in DOMAIN queue : At(queue[k], i)})
            = Number(HasAt(Elements(queue), i))
  BY CountInSequence DEF PartTypes, Once
<1>3. Cardinality({u \in (1 .. WAY) \X (0 .. NUM_STAGE) : At(mult[u[1]][u[2]], i)})
         = Number(HasAt(InMult(mult), i))
  <2> DEFINE U == (1 .. WAY) \X (0 .. NUM_STAGE)
             S == {u \in U : At(mult[u[1]][u[2]], i)}
  <2>1. \A u \in U : /\ u[1] \in 1 .. WAY /\ u[2] \in 0 .. NUM_STAGE
                     /\ u = <<u[1], u[2]>>
    OBVIOUS
  <2>2. \A a \in 1 .. WAY, b \in 0 .. NUM_STAGE : <<a, b>> \in U
    OBVIOUS
  <2>3. ASSUME NEW u \in S, NEW v \in S PROVE u = v
    <3>1. u \in U /\ v \in U /\ At(mult[u[1]][u[2]], i) /\ At(mult[v[1]][v[2]], i)
      OBVIOUS
    <3>2. u[1] = v[1] /\ u[2] = v[2]
      BY <2>1, <3>1 DEF At, Once, DistinctMult, SameInst
    <3> QED BY <2>1, <3>1, <3>2
  <2>4. ASSUME S # {} PROVE HasAt(InMult(mult), i)
    <3>1. PICK u \in U : At(mult[u[1]][u[2]], i)
      BY <2>4
    <3>2. mult[u[1]][u[2]] \in InMult(mult)
      BY <2>1, <3>1 DEF InMult, At
    <3> QED BY <3>1, <3>2 DEF HasAt
  <2>5. ASSUME HasAt(InMult(mult), i) PROVE S # {}
    <3>1. PICK a \in 1 .. WAY, b \in 0 .. NUM_STAGE : At(mult[a][b], i)
      BY <2>5 DEF HasAt, InMult
    <3>2. <<a, b>> \in S
      BY <2>2, <3>1
    <3> QED BY <3>2
  <2>6. HasAt(InMult(mult), i) \in BOOLEAN
    BY DEF HasAt
  <2> HIDE DEF U, S
  <2>7. Cardinality(S) = Number(HasAt(InMult(mult), i))
    BY <2>3, <2>4, <2>5, <2>6, AtMostOneIs
  <2> QED BY <2>7 DEF S, U
<1>4. Cardinality({p \in {branch, mem} : At(p, i)})
         = Number(HasAt(One(branch) \cup One(mem), i))
  <2> DEFINE S == {p \in {branch, mem} : At(p, i)}
             both == One(branch) \cup One(mem)
  <2>1. ~(Has(One(branch), i) /\ Has(One(mem), i))
    BY DEF Apart, ApartAt
  <2>2. \A p, q \in S : p = q
    BY <2>1 DEF At, Has, One
  <2>3. (HasAt(both, i) <=> S # {}) /\ HasAt(both, i) \in BOOLEAN
    BY DEF HasAt, One, At
  <2> HIDE DEF S, both
  <2>4. Cardinality(S) = Number(HasAt(both, i))
    BY <2>2, <2>3, AtMostOneIs
  <2> QED BY <2>4 DEF S, both
<1> QED BY <1>1, <1>2, <1>3, <1>4 DEF Places, At

PlacesCounted == \A i : Places(i) = Number(Held(i))

\* An instruction has one place or none.
LEMMA InvCountsPlaces == BackendInv => PlacesCounted
<1> SUFFICES ASSUME BackendInv, NEW i PROVE Places(i) = Number(Held(i))
  BY DEF PlacesCounted
<1>1. PartTypes /\ Once /\ Apart
  BY DEF BackendInv, Shape
<1> DEFINE both == One(branch) \cup One(mem)
<1>2. /\ rs \subseteq Packet /\ Elements(iq) \subseteq Packet
      /\ Elements(fast_int) \subseteq Packet /\ InMult(mult) \subseteq Packet
      /\ both \subseteq Packet /\ Elements(queue) \subseteq Packet
  BY <1>1, PartsAre DEF PartTypes
<1>3. \A packets : packets \subseteq Packet => (HasAt(packets, i) <=> Has(packets, i))
  BY BackendAssumption DEF HasAt, Has, At
<1>4. Has(both, i) <=> Has(One(branch), i) \/ Has(One(mem), i)
  BY DEF Has
<1>5. ApartAt(rs, Elements(iq), Elements(fast_int), InMult(mult), One(branch), One(mem),
              Elements(queue), i)
  BY <1>1 DEF Apart
<1>6. Places(i) = Number(HasAt(rs, i)) + Number(HasAt(Elements(iq), i))
                  + Number(HasAt(Elements(fast_int), i)) + Number(HasAt(InMult(mult), i))
                  + Number(HasAt(both, i)) + Number(HasAt(Elements(queue), i))
  BY <1>1, PlacesAre
<1> DEFINE a == Has(rs, i)
           b == Has(Elements(iq), i)
           c == Has(Elements(fast_int), i)
           d == Has(InMult(mult), i)
           e == Has(One(branch), i) \/ Has(One(mem), i)
           f == Has(Elements(queue), i)
<1>7. /\ HasAt(rs, i) <=> a
      /\ HasAt(Elements(iq), i) <=> b
      /\ HasAt(Elements(fast_int), i) <=> c
      /\ HasAt(InMult(mult), i) <=> d
      /\ HasAt(both, i) <=> e
      /\ HasAt(Elements(queue), i) <=> f
  <2> HIDE DEF both
  <2> QED BY <1>2, <1>3, <1>4
<1>8. Places(i) = (IF a THEN 1 ELSE 0) + (IF b THEN 1 ELSE 0) + (IF c THEN 1 ELSE 0)
                  + (IF d THEN 1 ELSE 0) + (IF e THEN 1 ELSE 0) + (IF f THEN 1 ELSE 0)
  <2> HIDE DEF both, a, b, c, d, e, f
  <2> QED BY <1>6, <1>7 DEF Number
<1>9. /\ a => ~b /\ ~c /\ ~d /\ ~e /\ ~f
      /\ b => ~c /\ ~d /\ ~e /\ ~f
      /\ c => ~d /\ ~e /\ ~f
      /\ d => ~e /\ ~f
      /\ e => ~f
  BY <1>5 DEF ApartAt
<1>10. Held(i) <=> a \/ b \/ c \/ d \/ e \/ f
  BY DEF Held, Somewhere
<1>11. Places(i) = IF a \/ b \/ c \/ d \/ e \/ f THEN 1 ELSE 0
  <2> HIDE DEF a, b, c, d, e, f
  <2> QED BY <1>8, <1>9
<1> QED BY <1>10, <1>11 DEF Number

\* So it is in the next state.
LEMMA CountsNext == BackendInv' => PlacesCounted'
BY InvCountsPlaces, PTL

\* An instruction that has a place is in the ROB.
LEMMA HeldIsLive ==
    ASSUME BackendInv, NEW i, Held(i)
    PROVE  RP!Live(i)
<1>1. PartTypes /\ AllTracked
  BY DEF BackendInv, Shape
<1>2. Packets = rs \cup (Elements(iq) \cup Elements(fast_int) \cup InMult(mult)
                           \cup One(branch) \cup One(mem) \cup Elements(queue))
  BY <1>1, PartsAre DEF Packets
<1>3. Has(Packets, i)
  BY <1>2 DEF Held, Somewhere, Has
<1> QED BY <1>1, <1>3 DEF Has, AllTracked, Tracked

\* No instruction is in two places, and none that has left the ROB in any.
LEMMA InvGivesNeverTwice == BackendInv => NeverTwice
<1> SUFFICES ASSUME BackendInv, NEW i \in Index
             PROVE  Places(i) <= IF ROB!Live(i) THEN 1 ELSE 0
  BY DEF NeverTwice
<1>1. Places(i) = Number(Held(i))
  BY InvCountsPlaces DEF PlacesCounted
<1>2. Held(i) => ROB!Live(i)
  BY HeldIsLive, SameRing
<1> QED BY <1>1, <1>2 DEF Number

\* An instruction in flight after a cycle without a rewind has a place, unless
\* it had none before or its result had to be dropped.
LEMMA RunLoses ==
    ASSUME BackendInv, NEW n, NEW complete, NEW resolve, NEW mem_done, NEW issue, NEW group,
           RunStep(n, complete, resolve, mem_done, issue, group),
           NEW i \in InFlight'
    PROVE  \/ Held(i)'
           \/ i \in InFlight /\ ~Held(i)
           \/ ~RoomForResults /\ Has(InUnits \cup InQueue, i)
<1>0. /\ Shape /\ PartTypes /\ Once /\ Apart /\ Flushing /\ store_flush \in BOOLEAN
      /\ mem_done \in MemAnswers /\ issue \in CanIssue(mem_done)
      /\ Flow(Leaving(n), {}, complete, mem_done, issue, group)
  BY RobKnown DEF BackendInv, Shape, RunStep
<1>1. i \in Index /\ RP!Live(i)' /\ ~rob_mem'[i].complete
  BY InFlightIs
<1>2. EntryRuns(i, n, complete, resolve, ToRob(group))
  BY <1>1 DEF RunStep, RunEffect
<1>3. CASE Placed(i, ToRob(group))
  <2>1. PICK k : k = RP!Place(i)
    OBVIOUS
  <2>2. k \in 1 .. Len(group) /\ RP!RobIndexOf(k) = i
    BY <1>2, <1>3, <2>1 DEF EntryRuns, Placed, RunStep, GroupFacts
  <2>3. Has(ToRS(group), i)
    BY <2>2 DEF RunStep, GroupFacts, Has
  <2>4. Has(rs', i)
    BY <1>0, <2>3, FlowPlaces
  <2> QED BY <2>4 DEF Held, Somewhere
<1>4. CASE ~Placed(i, ToRob(group)) /\ Held(i)
  <2>1. Remains(i, n)
    BY <1>1, <1>2, <1>4 DEF EntryRuns
  <2>2. i \notin Leaving(n) /\ ~rob_mem[i].complete /\ i \notin complete
    BY <1>1, <1>2, <2>1, SameRing DEF EntryRuns, Remains, RP!Retired, Leaving
  <2>3. i \in InFlight
    BY <1>1, <2>1, <2>2, InFlightIs DEF Remains
  <2>4. ~store_flush
    BY <1>0, <2>3 DEF Flushing
  <2>5. ~Has(Completing, i)
    BY <2>2, <2>4 DEF RunStep, Has
  <2>6. StaysHeld(mem_done, issue, {}, i)
    BY <1>0, <1>4, <2>4, <2>5, OneMove
  <2>7. /\ Has(Waiting(issue, {}), i) => Has(rs', i)
        /\ Has(NextIQ(mem_done, issue), i) => Has(Elements(iq'), i)
        /\ Has(NextFast(mem_done), i) => Has(Elements(fast_int'), i)
        /\ Has(NextMult(mem_done), i) => Has(InMult(mult'), i)
        /\ Has(NextBranch(mem_done), i) => Has(One(branch'), i)
        /\ Has(NextMem(mem_done), i) => Has(One(mem'), i)
        /\ RoomForResults /\ Has(NextQueue(mem_done), i) => Has(Elements(queue'), i)
    BY <1>0, <2>2, FlowPlaces
  <2>8. Has(NextQueue(mem_done), i) => Has(InUnits \cup InQueue, i)
    <3>1. Has(NextQueue(mem_done), i) =>
             \/ Has(Uncompleted, i) \/ Has(Done(mem_done), i)
             \/ Has(Elements(fast_int), i) \/ Has(Ready, i) \/ Has(One(branch), i)
      BY <1>0, NextKnown DEF NextFacts
    <3>2. InUnits = Elements(fast_int) \cup InMult(mult) \cup One(branch) \cup One(mem)
      BY <1>0, UnitsAre
    <3>3. /\ Uncompleted \subseteq InQueue /\ Done(mem_done) \subseteq One(mem)
          /\ Ready \subseteq InMult(mult)
      BY <1>0, CompletionParts, DoneIsMem, MultParts DEF PartTypes
    <3> QED BY <3>1, <3>2, <3>3 DEF Has
  <2> QED BY <2>6, <2>7, <2>8 DEF StaysHeld, Held, Somewhere
<1>5. CASE ~Placed(i, ToRob(group)) /\ ~Held(i)
  <2>1. Remains(i, n)
    BY <1>1, <1>2, <1>5 DEF EntryRuns
  <2>2. i \in InFlight
    BY <1>1, <1>2, <2>1, InFlightIs DEF EntryRuns, Remains
  <2> QED BY <1>5, <2>2
<1> QED BY <1>3, <1>4, <1>5

\* What LostOnlyForRoom says of a step.
LEMMA LostStep ==
    ASSUME BackendInv, BackendInv', [Next]_vars
    PROVE  [~in_rewind' =>
              \A i \in Index : i \in InFlight' =>
                 \/ Places(i)' = 1
                 \/ i \in InFlight /\ Places(i) = 0
                 \/ /\ ~RoomForResults
                    /\ \E p \in InUnits \cup InQueue : p.current /\ p.rob_index = i]_vars
<1>1. UNCHANGED vars \/ SomeRun \/ SomeRewind
  BY StepKnown DEF BackendInv
<1>2. PlacesCounted /\ PlacesCounted'
  BY InvCountsPlaces, CountsNext
<1>3. ASSUME SomeRun \/ SomeRewind, ~in_rewind', NEW i \in Index, i \in InFlight'
      PROVE  \/ Places(i)' = 1
             \/ i \in InFlight /\ Places(i) = 0
             \/ /\ ~RoomForResults
                /\ \E p \in InUnits \cup InQueue : p.current /\ p.rob_index = i
  <2>1. CASE SomeRewind
    <3>1. PICK n, r, h, complete, mem_done, issue, squashed :
             RewindStep(n, r, h, complete, mem_done, issue, squashed)
      BY <2>1 DEF SomeRewind
    <3>2. store_flush'
      BY <1>3, <3>1 DEF RewindStep, RewindEffect
    <3>3. Flushing'
      BY <3>1, RewindFlushing
    <3> QED BY <1>3, <3>2, <3>3 DEF Flushing
  <2>2. CASE SomeRun
    <3>1. PICK n, complete, resolve, mem_done, issue, group :
             RunStep(n, complete, resolve, mem_done, issue, group)
      BY <2>2 DEF SomeRun
    <3>2. \/ Held(i)'
          \/ i \in InFlight /\ ~Held(i)
          \/ ~RoomForResults /\ Has(InUnits \cup InQueue, i)
      BY <1>3, <3>1, RunLoses
    <3>3. Places(i)' = Number(Held(i)') /\ Places(i) = Number(Held(i))
      BY <1>2 DEF PlacesCounted
    <3> QED BY <3>2, <3>3 DEF Has, Number
  <2> QED BY <1>3, <2>1, <2>2
<1> QED BY <1>1, <1>3

-----------------------------------------------------------------------------
(* The theorems.                                                            *)

\* No instruction is in two places, and none that has left the ROB is in any,
\* for every program, also where results are lost and squashed multiplications
\* go on (rs.sv:141-167, issue_queue.sv:84-189, fu.sv:645-669, cq.sv:51-76):
\* nothing is issued or sent to a unit twice, and no result is counted twice.
THEOREM NeverInTwoPlaces == Spec => []NeverTwice
<1>1. BackendInv => NeverTwice
  BY InvGivesNeverTwice
<1> QED BY <1>1, InvAlways, PTL

\* An instruction in the reservation station waits for exactly its sources in
\* flight, and one that is issued for none, for every program (rs.sv:118-140;
\* dispatch_stage.sv:124-131): no completion is missed in the cycle of a
\* dispatch or of an issue, also when a result is lost or a squashed one
\* arrives under a ROB index in use.
THEOREM AlwaysWakesExactly == Spec => []WakesExactly
<1>1. BackendInv => WakesExactly
  BY DEF BackendInv
<1> QED BY <1>1, InvAlways, PTL

\* An instruction in flight keeps a place in every step without a rewind, or
\* loses it for want of room in the completion queue (cq.sv:51-76, whose output
\* stall nothing reads): no handshake of reservation station, issue queue and
\* units loses one (rs.sv:151-154, issue_queue.sv:84-181), and no flush takes
\* one that is still in flight (rob.sv:339-342, issue_queue.sv:193, cq.sv:80).
THEOREM NothingElseIsLost == Spec => LostOnlyForRoom
<1>1. BackendInv /\ BackendInv' /\ [Next]_vars
         => [~in_rewind' =>
               \A i \in Index : i \in InFlight' =>
                  \/ Places(i)' = 1
                  \/ i \in InFlight /\ Places(i) = 0
                  \/ /\ ~RoomForResults
                     /\ \E p \in InUnits \cup InQueue : p.current /\ p.rob_index = i]_vars
  BY LostStep
<1> QED BY <1>1, InvAlways, PTL DEF Spec, LostOnlyForRoom
=============================================================================
