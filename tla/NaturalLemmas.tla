--------------------------- MODULE NaturalLemmas ---------------------------
(***************************************************************************)
(* First-order forms of the induction over the natural numbers: what is to  *)
(* be shown of every turn of a loop is given as a set of numbers.           *)
(***************************************************************************)
EXTENDS Integers, TLAPS, WellFoundedInduction

\* A non-empty set of natural numbers has a least element.
LEMMA LeastElement ==
    ASSUME NEW S \in SUBSET Nat, S # {}
    PROVE  \E x \in S : \A y \in S : x <= y
<1> DEFINE R == OpToRel(<, Nat)
<1>1. IsWellFoundedOn(R, Nat)
  BY NatLessThanWellFounded
<1>2. \A x, y \in Nat : <<y, x>> \in R <=> y < x
  BY DEF OpToRel
<1> HIDE DEF R
<1>3. PICK x \in S : \A y \in S : ~(<<y, x>> \in R)
  BY <1>1, WFMin
<1>4. ASSUME NEW y \in S PROVE x <= y
  <2>1. x \in Nat /\ y \in Nat
    OBVIOUS
  <2>2. ~(y < x)
    BY <1>2, <1>3, <2>1
  <2> QED BY <2>1, <2>2
<1> QED BY <1>3, <1>4

\* A non-empty set of natural numbers with a bound has a greatest element.
LEMMA GreatestElement ==
    ASSUME NEW S \in SUBSET Nat, S # {}, NEW b \in Nat, \A x \in S : x <= b
    PROVE  \E x \in S : \A y \in S : y <= x
<1> DEFINE T == {b - x : x \in S}
<1>1. T \in SUBSET Nat /\ T # {}
  <2>1. \A x \in S : b - x \in Nat
    OBVIOUS
  <2>2. T # {}
    <3>1. PICK x \in S : TRUE
      OBVIOUS
    <3> QED BY <3>1
  <2> QED BY <2>1, <2>2
<1> HIDE DEF T
<1>2. PICK t \in T : \A u \in T : t <= u
  BY <1>1, LeastElement
<1>3. PICK x \in S : t = b - x
  BY DEF T
<1>4. ASSUME NEW y \in S PROVE y <= x
  <2>1. b - y \in T
    BY DEF T
  <2>2. t <= b - y
    BY <1>2, <2>1
  <2> QED BY <1>3, <2>2
<1> QED BY <1>4

\* Induction from a up to b.
LEMMA IntervalInduction ==
    ASSUME NEW a \in Nat, NEW b \in Nat, NEW S, a \in S,
           \A k \in a .. b - 1 : k \in S => k + 1 \in S
    PROVE  \A k \in a .. b : k \in S
<1> SUFFICES ASSUME \E k \in a .. b : k \notin S PROVE FALSE
  OBVIOUS
<1> DEFINE T == {k \in a .. b : k \notin S}
<1>1. T \in SUBSET Nat /\ T # {}
  OBVIOUS
<1>2. PICK k \in T : \A y \in T : k <= y
  BY <1>1, LeastElement
<1>3. k - 1 \in a .. b - 1 /\ k - 1 \in S
  BY <1>2
<1>4. (k - 1) + 1 \in S
  BY <1>3
<1> QED BY <1>2, <1>4
=============================================================================
