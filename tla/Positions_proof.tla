---------------------------- MODULE Positions_proof ----------------------------
(***************************************************************************)
(* What a loop keeps of a list, and the least and greatest of numbers.  An  *)
(* induction over numbers is a look at the least number that is against it. *)
(***************************************************************************)
EXTENDS Positions, FiniteSetTheorems, WellFoundedInduction, TLAPS

LEMMA LeastNumber ==
    ASSUME NEW S \in SUBSET Nat, S # {}
    PROVE  \E m \in S : \A n \in S : m <= n
  <1>. DEFINE R == OpToRel(<, Nat)
  <1>1. IsWellFoundedOn(R, Nat)
    BY NatLessThanWellFounded
  <1>2. \A x, y \in Nat : x < y => <<x, y>> \in R
    BY DEF OpToRel
  <1>. HIDE DEF R
  <1>3. PICK x \in S : \A y \in S : ~ (<<y, x>> \in R)
    BY <1>1, WFMin, Zenon
  <1>4. \A y \in S : ~ (y < x)
    BY <1>2, <1>3
  <1>. QED  BY <1>4

(* Some member of a set of numbers of a list is the greatest.              *)
LEMMA GreatestIs ==
    ASSUME NEW n \in Nat, NEW S \in SUBSET (1..n), S # {}
    PROVE  Greatest(S) \in S /\ \A j \in S : j <= Greatest(S)
  <1>. DEFINE Below == {n - k : k \in S}
  <1>. \A k \in S : k \in Nat /\ 1 <= k /\ k <= n
    OBVIOUS
  <1>1. Below \in SUBSET Nat /\ Below # {}
    <2>1. \A k \in S : n - k \in Nat
      OBVIOUS
    <2>. QED  BY <2>1
  <1>2. PICK m \in Below : \A x \in Below : m <= x
    BY <1>1, LeastNumber
  <1>3. PICK k \in S : m = n - k
    OBVIOUS
  <1>4. ASSUME NEW j \in S PROVE j <= k
    <2>1. n - k <= n - j
      BY <1>2, <1>3
    <2>. QED  BY <2>1
  <1>5. \E x \in S : \A j \in S : j <= x
    BY <1>4
  <1>. QED  BY <1>5, Zenon DEF Greatest

(* ... and if it is known to be one of them, it is that one.               *)
LEMMA GreatestUnique ==
    ASSUME NEW S \in SUBSET Nat, NEW m \in S, \A j \in S : j <= m
    PROVE  Greatest(S) = m
  <1>1. \E x \in S : \A j \in S : j <= x
    OBVIOUS
  <1>2. Greatest(S) \in S /\ \A j \in S : j <= Greatest(S)
    BY <1>1, Zenon DEF Greatest
  <1>3. m <= Greatest(S) /\ Greatest(S) <= m /\ Greatest(S) \in Nat /\ m \in Nat
    BY <1>2
  <1>. QED  BY <1>3

LEMMA SetOfPositions ==
    ASSUME NEW n \in Nat, NEW S \in SUBSET (1..n)
    PROVE  /\ IsFiniteSet(S) /\ Cardinality(S) \in 0..n
           /\ \A x \in S : Cardinality(S \ {x}) = Cardinality(S) - 1 /\ Cardinality(S) >= 1
  <1>1. IsFiniteSet(1..n) /\ Cardinality(1..n) = n
    BY FS_Interval
  <1>2. IsFiniteSet(S) /\ Cardinality(S) <= n
    BY <1>1, FS_Subset
  <1>3. Cardinality(S) \in Nat
    BY <1>2, FS_CardinalityType
  <1>4. \A x \in S : Cardinality(S \ {x}) = Cardinality(S) - 1 /\ Cardinality(S) # 0
    BY <1>2, FS_RemoveElement, FS_EmptySet
  <1>. QED  BY <1>2, <1>3, <1>4

-----------------------------------------------------------------------------
(* A member further on has a higher rank.                                  *)
LEMMA RankGrows ==
    ASSUME NEW n \in Nat, NEW S \in SUBSET (1..n), NEW x \in S
    PROVE  /\ Rank(S, x) \in 1..Cardinality(S)
           /\ \A y \in S : x < y => Rank(S, x) < Rank(S, y)
  <1>. DEFINE Upto(z) == {y \in S : y <= z}
  <1>1. \A z \in S : z \in Nat
    OBVIOUS
  <1>2. IsFiniteSet(S) /\ Cardinality(S) \in Nat
    BY SetOfPositions
  <1>3. \A z \in S : /\ IsFiniteSet(Upto(z)) /\ Cardinality(Upto(z)) \in Nat
                     /\ Cardinality(Upto(z)) <= Cardinality(S)
    <2>. TAKE z \in S
    <2>1. Upto(z) \in SUBSET S
      OBVIOUS
    <2>. HIDE DEF Upto
    <2>. QED  BY <1>2, <2>1, FS_Subset, FS_CardinalityType
  <1>4. Cardinality(Upto(x)) # 0
    <2>1. x \in Upto(x)
      BY <1>1
    <2>. HIDE DEF Upto
    <2>. QED  BY <1>3, <2>1, FS_EmptySet
  <1>5. ASSUME NEW y \in S, x < y PROVE Cardinality(Upto(x)) < Cardinality(Upto(y))
    <2>1. Upto(x) \in SUBSET Upto(y)
      <3>1. ASSUME NEW z \in S, z <= x PROVE z <= y
        <4>. x \in Nat /\ y \in Nat /\ z \in Nat
          BY <1>1
        <4>. QED  BY <1>5, <3>1
      <3>. QED  BY <3>1
    <2>2. y \in Upto(y) /\ y \notin Upto(x)
      BY <1>1, <1>5
    <2>. HIDE DEF Upto
    <2>3. Cardinality(Upto(x)) <= Cardinality(Upto(y)) /\ Cardinality(Upto(x)) # Cardinality(Upto(y))
      BY <1>3, <2>1, <2>2, FS_Subset
    <2>. QED  BY <1>3, <2>3
  <1>6. \A z \in S : Rank(S, z) = Cardinality(Upto(z))
    BY DEF Rank
  <1>. HIDE DEF Upto
  <1>. QED  BY <1>2, <1>3, <1>4, <1>5, <1>6

(* With n, the greatest, there is one rank more.                           *)
LEMMA OneRankMore ==
    ASSUME NEW n \in Nat, NEW S \in SUBSET (1..n), n \in S,
           \A k \in 1..Cardinality(S \ {n}) : \E x \in S \ {n} : Rank(S \ {n}, x) = k
    PROVE  \A k \in 1..Cardinality(S) : \E x \in S : Rank(S, x) = k
  <1>1. Cardinality(S) \in Nat \ {0} /\ Cardinality(S \ {n}) = Cardinality(S) - 1
    BY SetOfPositions
  <1>2. Rank(S, n) = Cardinality(S)
    <2>1. \A y \in S : y <= n
      OBVIOUS
    <2>2. {y \in S : y <= n} = S
      BY <2>1
    <2>. QED  BY <2>2 DEF Rank
  <1>3. ASSUME NEW x \in S \ {n} PROVE Rank(S, x) = Rank(S \ {n}, x)
    <2>1. ~(n <= x)
      OBVIOUS
    <2>2. {y \in S : y <= x} = {y \in S \ {n} : y <= x}
      BY <2>1
    <2>. QED  BY <2>2 DEF Rank
  <1>4. ASSUME NEW k \in 1..Cardinality(S) PROVE \E x \in S : Rank(S, x) = k
    <2>1. CASE k = Cardinality(S)
      BY <1>2, <2>1
    <2>2. CASE k # Cardinality(S)
      <3>1. k \in 1..Cardinality(S \ {n})
        BY <1>1, <2>2
      <3>. QED  BY <1>3, <3>1
    <2>. QED  BY <2>1, <2>2
  <1>. QED  BY <1>4

LEMMA RanksExist ==
    \A n \in Nat : \A S \in SUBSET (1..n) :
        \A k \in 1..Cardinality(S) : \E x \in S : Rank(S, x) = k
  <1>. DEFINE Ranked(S) == \A k \in 1..Cardinality(S) : \E x \in S : Rank(S, x) = k
              Bad == {n \in Nat : \E S \in SUBSET (1..n) : ~Ranked(S)}
  <1>. SUFFICES ASSUME Bad # {} PROVE FALSE
    OBVIOUS
  <1>1. PICK n \in Bad : \A m \in Bad : n <= m
    <2>. Bad \in SUBSET Nat
      OBVIOUS
    <2>. HIDE DEF Bad
    <2>. QED  BY LeastNumber
  <1>2. PICK S \in SUBSET (1..n) : ~Ranked(S)
    OBVIOUS
  <1>3. S # {}
    <2>1. Cardinality({}) = 0
      BY FS_EmptySet
    <2>. QED  BY <1>2, <2>1
  <1>4. n - 1 \in Nat /\ \A T \in SUBSET (1..(n - 1)) : Ranked(T)
    <2>1. n # 0
      <3>1. ASSUME n = 0 PROVE S = {}
        BY <3>1
      <3>. QED  BY <1>3, <3>1
    <2>2. n - 1 \in Nat /\ n - 1 < n /\ n \in Nat
      BY <2>1
    <2>3. n - 1 \notin Bad
      <3>. HIDE DEF Bad
      <3>1. ~(n <= n - 1)
        BY <2>2
      <3>. QED  BY <1>1, <3>1
    <2>. HIDE DEF Ranked
    <2>. QED  BY <2>2, <2>3
  <1>5. n \in S
    <2>. HIDE DEF Ranked
    <2>1. ASSUME n \notin S PROVE S \in SUBSET (1..(n - 1))
      BY <1>4, <2>1
    <2>. QED  BY <1>2, <1>4, <2>1
  <1>6. S \ {n} \in SUBSET (1..(n - 1))
    BY <1>4
  <1>7. Ranked(S \ {n})
    <2>. HIDE DEF Ranked
    <2>. QED  BY <1>4, <1>6
  <1>. QED  BY <1>2, <1>5, <1>7, OneRankMore

(* The k-th members are all the members, in their order.                   *)
LEMMA NthIs ==
    ASSUME NEW n \in Nat, NEW S \in SUBSET (1..n)
    PROVE  /\ Cardinality(S) \in 0..n
           /\ \A k \in 1..Cardinality(S) : Nth(S, k) \in S
           /\ \A j, k \in 1..Cardinality(S) : j < k => Nth(S, j) < Nth(S, k)
           /\ \A x \in S : \E k \in 1..Cardinality(S) : Nth(S, k) = x
  <1>1. \A k \in 1..Cardinality(S) : Nth(S, k) \in S /\ Rank(S, Nth(S, k)) = k
    <2>. TAKE k \in 1..Cardinality(S)
    <2>1. \E x \in S : Rank(S, x) = k
      BY RanksExist
    <2>. QED  BY <2>1, Zenon DEF Nth
  <1>2. Cardinality(S) \in 0..n
    BY SetOfPositions
  <1>3. \A x \in S : x \in Nat
    OBVIOUS
  <1>4. \A x, y \in S : x < y => Rank(S, x) < Rank(S, y)
    BY RankGrows
  <1>5. \A x \in S : Rank(S, x) \in 1..Cardinality(S)
    BY RankGrows
  <1>6. ASSUME NEW j \in 1..Cardinality(S), NEW k \in 1..Cardinality(S), j < k
        PROVE  Nth(S, j) < Nth(S, k)
    <2>1. PICK x \in S : x = Nth(S, j) /\ Rank(S, x) = j
      BY <1>1
    <2>2. PICK y \in S : y = Nth(S, k) /\ Rank(S, y) = k
      BY <1>1
    <2>3. ~(y < x) /\ x # y
      BY <1>2, <1>4, <1>6, <2>1, <2>2
    <2>4. x \in Nat /\ y \in Nat
      BY <1>3
    <2>. QED  BY <2>1, <2>2, <2>3, <2>4
  <1>7. ASSUME NEW x \in S PROVE \E k \in 1..Cardinality(S) : Nth(S, k) = x
    <2>1. PICK y \in S : y = Nth(S, Rank(S, x)) /\ Rank(S, y) = Rank(S, x)
      BY <1>1, <1>5
    <2>2. ~(x < y) /\ ~(y < x)
      BY <1>2, <1>4, <1>5, <2>1
    <2>3. x \in Nat /\ y \in Nat
      BY <1>3
    <2>4. x = y
      BY <2>2, <2>3
    <2>. QED  BY <1>5, <2>1, <2>4
  <1>. QED  BY <1>1, <1>2, <1>6, <1>7

(* What is kept: the elements at the positions, once each, in their order. *)
LEMMA KeptIs ==
    ASSUME NEW X, NEW s \in Seq(X), NEW S \in SUBSET DOMAIN s
    PROVE  /\ Kept(s, S) \in Seq(X)
           /\ Len(Kept(s, S)) = Cardinality(S)
           /\ \A k \in 1..Cardinality(S) : Kept(s, S)[k] = s[Nth(S, k)]
  <1>1. S \in SUBSET (1..Len(s)) /\ Len(s) \in Nat
    OBVIOUS
  <1>2. Cardinality(S) \in Nat /\ \A k \in 1..Cardinality(S) : Nth(S, k) \in S
    BY <1>1, NthIs
  <1>. QED  BY <1>1, <1>2 DEF Kept
================================================================================
