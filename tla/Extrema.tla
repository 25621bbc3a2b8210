------------------------------ MODULE Extrema ------------------------------
(***************************************************************************)
(* The facts about Min and Max of FiniteSetsExt that the proofs about the  *)
(* components cite: both are CHOOSEn, so that something must show that     *)
(* there is an element to choose.                                          *)
(***************************************************************************)
EXTENDS Integers, FiniteSetsExt, WellFoundedInduction, TLAPS

(* The order of the naturals is well-founded: every set of them has a least *)
(* element.                                                                 *)
LEMMA LeastNatural ==
    ASSUME NEW S \in SUBSET Nat, S # {}
    PROVE  \E n \in S : \A m \in S : n <= m
<1>1. PICK n \in S : \A m \in S : <<m, n>> \notin OpToRel(<, Nat)
  BY NatLessThanWellFounded, WFMin
<1>2. \A m \in S : ~(m < n)
  BY <1>1 DEF OpToRel
<1> QED
  BY <1>2

(* Min is that element. *)
LEMMA MinIsLeast ==
    ASSUME NEW S \in SUBSET Nat, S # {}
    PROVE  Min(S) \in S /\ \A n \in S : Min(S) <= n
<1>1. \E n \in S : \A m \in S : n <= m
  BY LeastNatural
<1> QED
  BY <1>1 DEF Min

(* A bounded set of naturals has a greatest element, and Max is it: the     *)
(* least distance from the bound is its own.                                *)
LEMMA MaxIsGreatest ==
    ASSUME NEW S \in SUBSET Nat, S # {}, NEW b \in Nat, \A n \in S : n <= b
    PROVE  Max(S) \in S /\ \A n \in S : n <= Max(S)
<1> DEFINE T == {b - n : n \in S}
<1>0. \A n \in S : b - n \in Nat
  OBVIOUS
<1>1. T \in SUBSET Nat /\ T # {}
  <2> HIDE DEF T
  <2>1. \A u \in T : \E n \in S : u = b - n
    BY DEF T
  <2>2. \A n \in S : b - n \in T
    BY DEF T
  <2> QED
    BY <1>0, <2>1, <2>2
<1>2. PICK t \in T : \A u \in T : t <= u
  BY <1>1, LeastNatural
<1>3. PICK n \in S : t = b - n
  BY <1>2
<1>4. \A m \in S : n >= m
  <2> TAKE m \in S
  <2>1. b - m \in T
    OBVIOUS
  <2> QED
    BY <1>2, <1>3, <2>1
<1> QED
  BY <1>3, <1>4 DEF Max

(* What clips a subtraction at 0. *)
LEMMA ClippedAtZero ==
    ASSUME NEW n \in Int
    PROVE  Max({0, n}) = IF n > 0 THEN n ELSE 0
BY DEF Max

(* The smaller of two numbers. *)
LEMMA MinOfTwo ==
    ASSUME NEW m \in Int, NEW n \in Int
    PROVE  Min({m, n}) = IF m <= n THEN m ELSE n
BY DEF Min
=============================================================================
