----------------------------- MODULE RankLemmas -----------------------------
(***************************************************************************)
(* The elements of a finite set of naturals in their order: how many are   *)
(* below each, and that each number below its size is taken by one.  The   *)
(* timeline of EventStream and the question queue of SpecDoc are           *)
(* enumerated this way.                                                    *)
(***************************************************************************)
EXTENDS Integers, FiniteSets, FiniteSetTheorems, TLAPS

LEMMA BelowSmaller ==
  ASSUME NEW S \in SUBSET Nat, IsFiniteSet(S), NEW s \in S
  PROVE  /\ Cardinality({t \in S : t < s}) \in Nat
         /\ Cardinality({t \in S : t < s}) < Cardinality(S)
         /\ Cardinality(S) \in Nat
         /\ IsFiniteSet({t \in S : t < s})
<1> DEFINE below == {t \in S : t < s}
<1>1. below \in SUBSET S /\ s \notin below
  BY SMT
<1>2. /\ IsFiniteSet(below) /\ Cardinality(below) <= Cardinality(S)
      /\ Cardinality(S) = Cardinality(below) => S = below
  BY <1>1, FS_Subset
<1>3. Cardinality(below) \in Nat /\ Cardinality(S) \in Nat
  BY <1>2, FS_CardinalityType
<1> QED
  BY <1>1, <1>2, <1>3

\* Different elements have different ranks.
LEMMA RankUnique ==
  ASSUME NEW S \in SUBSET Nat, IsFiniteSet(S), NEW s \in S, NEW u \in S,
         Cardinality({t \in S : t < s}) = Cardinality({t \in S : t < u})
  PROVE  s = u
<1>1. ASSUME NEW a \in S, NEW b \in S, a < b,
             Cardinality({t \in S : t < a}) = Cardinality({t \in S : t < b})
      PROVE  FALSE
  <2> DEFINE A == {t \in S : t < a}
             B == {t \in S : t < b}
  <2>1. A \in SUBSET B /\ a \in B /\ a \notin A
    <3>1. \A t \in S : t < a => t < b
      BY <1>1
    <3>2. ~(a < a)
      OBVIOUS
    <3> QED
      BY <1>1, <3>1, <3>2
  <2>2. IsFiniteSet(B)
    BY BelowSmaller
  <2>3. Cardinality(B) = Cardinality(A) => B = A
    BY <2>1, <2>2, FS_Subset
  <2> QED
    BY <1>1, <2>1, <2>3
<1> QED
  BY <1>1, SMT

\* Each rank is some element's.
LEMMA RankExists ==
  ASSUME NEW S \in SUBSET Nat, IsFiniteSet(S), NEW k \in Nat, k < Cardinality(S)
  PROVE  \E s \in S : Cardinality({t \in S : t < s}) = k
<1> DEFINE n == Cardinality(S)
           rank == [s \in S |-> Cardinality({t \in S : t < s})]
<1>1. n \in Nat
  BY FS_CardinalityType
<1>2. \A s \in S : rank[s] \in 0..(n - 1)
  BY <1>1, BelowSmaller
<1>3. rank \in Injection(S, 0..(n - 1))
  <2>1. rank \in [S -> 0..(n - 1)]
    BY <1>2
  <2>2. \A s, u \in S : rank[s] = rank[u] => s = u
    BY RankUnique
  <2> HIDE DEF rank
  <2> QED
    BY <2>1, <2>2 DEF Injection, IsInjective
<1>4. IsFiniteSet(0..(n - 1)) /\ Cardinality(0..(n - 1)) = n
  <2> HIDE DEF n
  <2>1. 0 \in Int /\ n - 1 \in Int /\ (0 > n - 1 => n = 0) /\ (n - 1) - 0 + 1 = n
    BY <1>1
  <2>2. /\ IsFiniteSet(0..(n - 1))
        /\ Cardinality(0..(n - 1)) = IF 0 > n - 1 THEN 0 ELSE (n - 1) - 0 + 1
    BY <2>1, FS_Interval
  <2> QED
    BY <2>1, <2>2
<1>5. rank \in Surjection(S, 0..(n - 1))
  BY <1>3, <1>4, FS_Injection
<1>6. k \in 0..(n - 1)
  BY <1>1
<1> QED
  BY <1>5, <1>6 DEF Surjection

\* A set that is not empty has a greatest element.
LEMMA GreatestExists ==
  ASSUME NEW S \in SUBSET Nat, IsFiniteSet(S), S # {}
  PROVE  \E s \in S : \A t \in S : t <= s
<1>1. Cardinality(S) \in Nat /\ Cardinality(S) # 0
  BY FS_CardinalityType, FS_EmptySet
<1>2. PICK s \in S : Cardinality({t \in S : t < s}) = Cardinality(S) - 1
  BY <1>1, RankExists
<1> DEFINE below == {t \in S : t < s}
<1>3. below \in SUBSET (S \ {s})
  BY SMT
<1>4. IsFiniteSet(S \ {s}) /\ Cardinality(S \ {s}) = Cardinality(S) - 1
  BY FS_RemoveElement
<1>5. S \ {s} = below
  BY <1>2, <1>3, <1>4, FS_Subset
<1>6. \A t \in S : t = s \/ t < s
  BY <1>5
<1> QED
  BY <1>6

=============================================================================
