------------------------------ MODULE DataLemmas ------------------------------
(***************************************************************************)
(* Facts about numbers and finite sets that proofs about the modules rest  *)
(* on and the library does not state in a form the provers can use.        *)
(*                                                                         *)
(* Induction comes as a fact about a set of numbers, so that it needs no   *)
(* operator as a parameter.  Max and Min choose an element: what they are  *)
(* is known once the set is known to have one.                             *)
(***************************************************************************)
EXTENDS Integers, FiniteSets, FiniteSetsExt, WellFoundedInduction, FiniteSetTheorems, TLAPS

\* A set of numbers that has 0 and with each number the next one has them all.
LEMMA NatSetInduction ==
  ASSUME NEW S \in SUBSET Nat, 0 \in S, \A n \in S : n + 1 \in S
  PROVE  S = Nat
<1> DEFINE R == OpToRel(<, Nat)
           T == Nat \ S
<1>1. IsWellFoundedOn(R, Nat)
  BY NatLessThanWellFounded
<1> HIDE DEF T
<1>2. SUFFICES ASSUME T # {} PROVE FALSE
  BY DEF T
<1>3. T \subseteq Nat
  BY DEF T
<1>4. \A x, y \in Nat : x < y => <<x, y>> \in R
  BY DEF OpToRel
<1> HIDE DEF R
<1>5. PICK x \in T : \A y \in T : ~(<<y, x>> \in R)
  BY <1>1, <1>2, <1>3, WFMin
<1>6. x # 0
  BY DEF T
<1>7. x - 1 \in Nat /\ x - 1 < x /\ x \in Nat
  BY <1>3, <1>6
<1>8. x - 1 \notin T
  BY <1>4, <1>5, <1>7
<1>9. x - 1 \in S
  BY <1>7, <1>8 DEF T
<1>10. (x - 1) + 1 \in S
  BY <1>9
<1> QED
  BY <1>7, <1>10 DEF T

\* A set of numbers with a first element: Min is that element.
LEMMA MinIs ==
  ASSUME NEW S \in SUBSET Int, NEW m \in S, \A y \in S : m <= y
  PROVE  Min(S) = m
<1>1. Min(S) \in S /\ \A y \in S : Min(S) <= y
  BY DEF Min
<1>2. Min(S) <= m /\ m <= Min(S) /\ Min(S) \in Int /\ m \in Int
  BY <1>1
<1> QED
  BY <1>2

\* A set of numbers with a last element: Max is that element.
LEMMA MaxIs ==
  ASSUME NEW S \in SUBSET Int, NEW m \in S, \A y \in S : m >= y
  PROVE  Max(S) = m
<1>1. Max(S) \in S /\ \A y \in S : Max(S) >= y
  BY DEF Max
<1>2. Max(S) >= m /\ m >= Max(S) /\ Max(S) \in Int /\ m \in Int
  BY <1>1
<1> QED
  BY <1>2

\* Numbers between two bounds, if there are any, have a last one.
LEMMA MaxBetween ==
  ASSUME NEW low \in Int, NEW high \in Int, NEW S \in SUBSET (low .. high), S # {}
  PROVE  Max(S) \in S /\ \A y \in S : Max(S) >= y
<1> DEFINE Reach == {n \in Nat : (\E x \in S : high - x <= n) => \E m \in S : \A y \in S : m >= y}
<1>1. 0 \in Reach
  OBVIOUS
<1>2. ASSUME NEW n \in Reach PROVE n + 1 \in Reach
  <2> SUFFICES ASSUME NEW x \in S, high - x <= n + 1
               PROVE  \E m \in S : \A y \in S : m >= y
    BY <1>2
  <2>1. CASE \A y \in S : x >= y
    BY <2>1
  <2>2. CASE \E y \in S : ~(x >= y)
    <3>1. PICK y \in S : y > x
      BY <2>2
    <3>2. high - y <= n
      BY <3>1, <1>2
    <3> QED
      BY <3>2, <1>2
  <2> QED
    BY <2>1, <2>2
<1>3. Reach = Nat
  <2> HIDE DEF Reach
  <2>1. Reach \subseteq Nat
    BY DEF Reach
  <2> QED
    BY <1>1, <1>2, <2>1, NatSetInduction
<1>4. PICK x \in S : x \in low .. high
  OBVIOUS
<1>5. high - x \in Nat
  BY <1>4
<1>6. \E m \in S : \A y \in S : m >= y
  <2>1. high - x \in Reach
    BY <1>3, <1>5
  <2>2. high - x <= high - x
    BY <1>5
  <2> QED
    BY <2>1, <2>2
<1> QED
  BY <1>6 DEF Max

\* Numbers between two bounds, if there are any, have a first one.
LEMMA MinBetween ==
  ASSUME NEW low \in Int, NEW high \in Int, NEW S \in SUBSET (low .. high), S # {}
  PROVE  Min(S) \in S /\ \A y \in S : Min(S) <= y
<1> DEFINE Down == {0 - x : x \in S}
<1>1. Down \in SUBSET ((0 - high) .. (0 - low)) /\ Down # {}
  <2>1. \A x \in S : x \in Int /\ low <= x /\ x <= high
    OBVIOUS
  <2>2. \A x \in S : 0 - x \in (0 - high) .. (0 - low)
    BY <2>1
  <2> QED
    BY <2>2
<1>2. Max(Down) \in Down /\ \A y \in Down : Max(Down) >= y
  <2> DEFINE l == 0 - high
             h == 0 - low
  <2>1. l \in Int /\ h \in Int /\ Down \in SUBSET (l .. h) /\ Down # {}
    BY <1>1
  <2> HIDE DEF Down, l, h
  <2> QED
    BY <2>1, MaxBetween
<1>3. PICK m \in S : Max(Down) = 0 - m
  BY <1>2
<1>4. ASSUME NEW y \in S
      PROVE  m <= y
  <2>1. 0 - y \in Down
    OBVIOUS
  <2> HIDE DEF Down
  <2>2. 0 - m >= 0 - y
    BY <1>2, <1>3, <2>1
  <2> QED
    BY <2>2
<1> QED
  BY <1>4 DEF Min
===============================================================================
