------------------------------ MODULE Counting ------------------------------
(* How many: the cardinality of sets of positions in a list, when an entry   *)
(* is appended to the list, or one is removed and the later ones move up.    *)
EXTENDS Integers, FiniteSets, FiniteSetTheorems, TLAPS

LEMMA SameCount ==
    ASSUME NEW S, NEW T, IsFiniteSet(S), NEW f \in [S -> T],
           \A x, y \in S : f[x] = f[y] => x = y,
           \A t \in T : \E x \in S : f[x] = t
    PROVE  IsFiniteSet(T) /\ Cardinality(T) = Cardinality(S)
  <1>1. f \in Bijection(S, T)
    BY DEF Bijection, Injection, Surjection, IsInjective
  <1> QED
    BY <1>1, FS_Bijection DEF ExistsBijection

LEMMA PositionsFinite ==
    ASSUME NEW n \in Nat, NEW S \in SUBSET (1 .. n)
    PROVE  IsFiniteSet(S) /\ Cardinality(S) \in Nat
  <1>1. IsFiniteSet(1 .. n)
    BY FS_Interval
  <1>2. IsFiniteSet(S)
    BY <1>1, FS_Subset
  <1> QED
    BY <1>2, FS_CardinalityType

(* One more position.                                                        *)
LEMMA Extended ==
    ASSUME NEW n \in Nat, NEW S \in SUBSET (1 .. n), NEW T \in SUBSET (1 .. n + 1),
           \A j \in 1 .. n : j \in T <=> j \in S
    PROVE  Cardinality(T) = IF n + 1 \in T THEN Cardinality(S) + 1 ELSE Cardinality(S)
  <1>1. IsFiniteSet(S)
    BY PositionsFinite
  <1>2. n + 1 \notin S
    OBVIOUS
  <1>3. ASSUME NEW j \in 1 .. n + 1, j # n + 1 PROVE j \in 1 .. n
    BY <1>3
  <1>4. CASE n + 1 \in T
    <2>1. T = S \cup {n + 1}
      <3>1. ASSUME NEW j \in T PROVE j \in S \cup {n + 1}
        BY <1>3
      <3>2. ASSUME NEW j \in S PROVE j \in T
        OBVIOUS
      <3> QED
        BY <1>4, <3>1, <3>2
    <2> QED
      BY <1>1, <1>2, <1>4, <2>1, FS_AddElement
  <1>5. CASE n + 1 \notin T
    <2>1. T = S
      <3>1. ASSUME NEW j \in T PROVE j \in S
        BY <1>3, <1>5
      <3>2. ASSUME NEW j \in S PROVE j \in T
        OBVIOUS
      <3> QED
        BY <3>1, <3>2
    <2> QED
      BY <1>5, <2>1
  <1> QED
    BY <1>4, <1>5

(* One position fewer: T are the positions S of 1 .. n once `at` is removed  *)
(* and the ones after it have moved up.                                      *)
MovedUp(S, T, at, n) ==
    /\ n \in Nat /\ at \in 1 .. n
    /\ S \in SUBSET (1 .. n) /\ T \in SUBSET (1 .. n - 1)
    /\ \A j \in 1 .. n - 1 : j < at => (j \in T <=> j \in S)
    /\ \A j \in 1 .. n - 1 : at <= j => (j \in T <=> j + 1 \in S)

LEMMA Shifted ==
    ASSUME NEW S, NEW T, NEW at, NEW n, MovedUp(S, T, at, n)
    PROVE  Cardinality(S) = IF at \in S THEN Cardinality(T) + 1 ELSE Cardinality(T)
  <1> USE DEF MovedUp
  <1> DEFINE R == S \ {at}
             f == [j \in T |-> IF j < at THEN j ELSE j + 1]
  <1>1. IsFiniteSet(S) /\ Cardinality(S) \in Nat
    BY PositionsFinite
  <1>2. IsFiniteSet(T) /\ Cardinality(T) \in Nat
    <2>1. n - 1 \in Nat
      OBVIOUS
    <2> QED
      BY <2>1, PositionsFinite
  <1>3. f \in [T -> R]
    <2> SUFFICES ASSUME NEW j \in T PROVE (IF j < at THEN j ELSE j + 1) \in R
      OBVIOUS
    <2>1. j \in 1 .. n - 1 /\ (IF j < at THEN j ELSE j + 1) # at
      OBVIOUS
    <2> QED
      BY <2>1
  <1>4. \A x, y \in T : f[x] = f[y] => x = y
    OBVIOUS
  <1>5. \A s \in R : \E x \in T : f[x] = s
    <2> SUFFICES ASSUME NEW s \in R PROVE \E x \in T : f[x] = s
      OBVIOUS
    <2>1. s \in 1 .. n /\ s # at /\ s \in S
      OBVIOUS
    <2>2. CASE s < at
      <3>1. s \in 1 .. n - 1 /\ s \in T
        BY <2>1, <2>2
      <3> QED
        BY <2>2, <3>1
    <2>3. CASE s > at
      <3>1. s - 1 \in 1 .. n - 1 /\ ~(s - 1 < at) /\ (s - 1) + 1 = s
        BY <2>1, <2>3
      <3>2. s - 1 \in T
        BY <2>1, <3>1
      <3> QED
        BY <3>1, <3>2
    <2> QED
      BY <2>1, <2>2, <2>3
  <1>6. Cardinality(R) = Cardinality(T)
    <2> HIDE DEF f, R
    <2> QED
      BY <1>2, <1>3, <1>4, <1>5, SameCount
  <1>7. Cardinality(R) = IF at \in S THEN Cardinality(S) - 1 ELSE Cardinality(S)
    BY <1>1, FS_RemoveElement
  <1> QED
    BY <1>1, <1>2, <1>6, <1>7

(* Disjoint sets add up.                                                     *)
LEMMA CountOfBoth ==
    ASSUME NEW S, NEW T, IsFiniteSet(S), IsFiniteSet(T), S \cap T = {}
    PROVE  IsFiniteSet(S \cup T) /\ Cardinality(S \cup T) = Cardinality(S) + Cardinality(T)
  <1>1. Cardinality(S) \in Nat /\ Cardinality(T) \in Nat
    BY FS_CardinalityType
  <1>2. Cardinality(S \cap T) = 0
    BY FS_EmptySet
  <1>3. /\ IsFiniteSet(S \cup T)
        /\ Cardinality(S \cup T) = Cardinality(S) + Cardinality(T) - Cardinality(S \cap T)
    BY FS_Union
  <1> QED
    BY <1>1, <1>2, <1>3
=============================================================================
