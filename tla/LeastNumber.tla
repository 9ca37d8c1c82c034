---------------------------- MODULE LeastNumber ----------------------------
(* Induction over the numbers of a list, in a form that needs no operator as *)
(* a parameter: a set of naturals has a least member. A proof by induction   *)
(* takes the least number at which its claim fails.                          *)
EXTENDS Integers, WellFoundedInduction, TLAPS

LEMMA Least ==
    ASSUME NEW T \in SUBSET Nat, T # {}
    PROVE  \E x \in T : \A y \in T : x <= y
  <1> DEFINE R == OpToRel(<, Nat)
  <1>1. IsWellFoundedOn(R, Nat)
    BY NatLessThanWellFounded
  <1>2. \A x, y \in Nat : x < y => <<x, y>> \in R
    BY DEF OpToRel
  <1> HIDE DEF R
  <1>3. \E x \in T : \A y \in T : ~ (<<y, x>> \in R)
    BY <1>1, WFMin
  <1>4. PICK x \in T : \A y \in T : ~ (<<y, x>> \in R)
    BY <1>3
  <1>5. ASSUME NEW y \in T PROVE x <= y
    <2>1. x \in Nat /\ y \in Nat
      OBVIOUS
    <2>2. ~(y < x)
      BY <1>4, <1>2, <2>1
    <2> QED
      BY <2>1, <2>2
  <1> QED
    BY <1>5

LEMMA Greatest ==
    ASSUME NEW n \in Nat, NEW T \in SUBSET (-1 .. n), T # {}
    PROVE  \E x \in T : \A y \in T : y <= x
  <1> DEFINE D == {k \in 0 .. n + 1 : n - k \in T}
  <1>1. D \in SUBSET Nat /\ D # {}
    <2>1. PICK t \in T : TRUE
      OBVIOUS
    <2>2. n - t \in 0 .. n + 1 /\ n - (n - t) = t
      OBVIOUS
    <2>3. n - t \in D
      BY <2>2
    <2> QED
      BY <2>3
  <1>2. PICK k \in D : \A j \in D : k <= j
    BY <1>1, Least
  <1>3. ASSUME NEW y \in T PROVE y <= n - k
    <2>1. n - y \in 0 .. n + 1 /\ n - (n - y) = y
      OBVIOUS
    <2>2. n - y \in D
      BY <2>1
    <2>3. k \in Nat
      OBVIOUS
    <2>4. k <= n - y
      <3> HIDE DEF D
      <3> QED
        BY <1>2, <2>2
    <2> QED
      BY <2>3, <2>4
  <1> QED
    BY <1>2, <1>3
=============================================================================
