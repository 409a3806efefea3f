---------------------------- MODULE MinMaxLemmas ----------------------------
(***************************************************************************)
(* Min and Max of FiniteSetsExt on sets of naturals: the CHOOSE that       *)
(* defines them finds an element.  The component proofs cite these facts   *)
(* for the next message, the last answer and the other extremes the code   *)
(* computes with a loop over a slice.                                      *)
(***************************************************************************)
EXTENDS Integers, FiniteSetsExt, WellFoundedInduction, TLAPS

Less == {ss \in Nat \X Nat : ss[1] < ss[2]}

LEMMA LessIsWellFounded == IsWellFoundedOn(Less, Nat)
  BY NatLessThanWellFounded, Zenon DEF OpToRel, Less

\* A nonempty set of naturals has a least element.
LEMMA Least ==
    ASSUME NEW S, S \subseteq Nat, S # {}
    PROVE  \E x \in S : \A y \in S : x =< y
<1>1. PICK x \in S : \A y \in S : ~(<<y, x>> \in Less)
  BY LessIsWellFounded, WFMin, Zenon
<1>2. ASSUME NEW y \in S
      PROVE  x =< y
  <2>1. <<y, x>> \in Nat \X Nat /\ <<y, x>>[1] = y /\ <<y, x>>[2] = x
    OBVIOUS
  <2>2. ~(y < x)
    BY <1>1, <2>1 DEF Less
  <2>. QED
    BY <2>2
<1>. QED
  BY <1>2

\* Min returns it.
LEMMA MinIn ==
    ASSUME NEW S, S \subseteq Nat, S # {}
    PROVE  Min(S) \in S /\ \A y \in S : Min(S) =< y
<1>1. PICK x \in S : \A y \in S : x =< y
  BY Least
<1>. QED
  BY <1>1 DEF Min

\* A nonempty bounded set of naturals has a greatest element, and Max is it.
LEMMA MaxIn ==
    ASSUME NEW n \in Nat, NEW S, S \subseteq 0..n, S # {}
    PROVE  Max(S) \in S /\ \A y \in S : Max(S) >= y
<1>. DEFINE T == {k \in Nat : n - k \in S}
<1>1. T # {}
  <2>1. PICK i \in S : TRUE
    OBVIOUS
  <2>2. n - i \in T
    BY <2>1
  <2>. QED
    BY <2>2
<1>2. T \subseteq Nat
  OBVIOUS
<1>3. Min(T) \in T /\ \A k \in T : Min(T) =< k
  <2>. HIDE DEF T
  <2>. QED
    BY <1>1, <1>2, MinIn
<1>4. \A i \in S : n - Min(T) >= i
  <2>1. TAKE i \in S
  <2>2. n - i \in T
    OBVIOUS
  <2>. QED
    BY <1>3, <2>2
<1>. QED
  BY <1>3, <1>4 DEF Max

\* The larger of two numbers, negative ones included.
LEMMA MaxOfTwo ==
    ASSUME NEW a \in Int, NEW b \in Int
    PROVE  /\ Max({a, b}) \in {a, b}
           /\ Max({a, b}) >= a /\ Max({a, b}) >= b
<1>1. \E x \in {a, b} : \A y \in {a, b} : x >= y
  <2>1. CASE a >= b
    BY <2>1
  <2>2. CASE b >= a
    BY <2>2
  <2>. QED
    BY <2>1, <2>2
<1>. QED
  BY <1>1 DEF Max
=============================================================================
