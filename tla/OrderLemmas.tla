----------------------------- MODULE OrderLemmas -----------------------------
(***************************************************************************)
(* Lemmas about numbers and finite orders that the proofs about several    *)
(* components need.  An order is a set of pairs.                           *)
(***************************************************************************)
EXTENDS Integers, FiniteSetTheorems, FunctionTheorems, NaturalsInduction, WellFoundedInduction, TLAPS

\* The least of some numbers.
LEMMA LeastNumber ==
  ASSUME NEW S \in SUBSET Nat, S # {}
  PROVE  \E m \in S : \A n \in S : m <= n
<1>1. PICK m \in S : \A n \in S : ~(<<n, m>> \in OpToRel(<, Nat))
  BY NatLessThanWellFounded, WFMin
<1>2. ASSUME NEW n \in S PROVE m <= n
  <2>1. m \in Nat /\ n \in Nat OBVIOUS
  <2>2. n < m => <<n, m>> \in OpToRel(<, Nat) BY <2>1 DEF OpToRel
  <2>3. ~(n < m) BY <1>1, <2>2, Zenon
  <2>4. QED BY <2>1, <2>3
<1>3. QED BY <1>1, <1>2

\* What a function makes of a finite set is finite.
LEMMA FiniteImage ==
  ASSUME NEW S, IsFiniteSet(S), NEW f
  PROVE  IsFiniteSet({f[x] : x \in S})
<1> DEFINE T == {f[x] : x \in S}
           g == [x \in S |-> f[x]]
<1>1. g \in Surjection(S, T) BY DEF Surjection
<1> HIDE DEF g, T
<1>2. IsFiniteSet(T) BY <1>1, FS_Surjection
<1>3. QED BY <1>2 DEF T

\* R orders S strictly and linearly.
Orders(R, S) ==
  /\ \A x, y \in S : x = y \/ <<x, y>> \in R \/ <<y, x>> \in R
  /\ \A x \in S : <<x, x>> \notin R
  /\ \A x, y, z \in S : <<x, y>> \in R /\ <<y, z>> \in R => <<x, z>> \in R

RankIn(R, S, x) == Cardinality({y \in S : <<y, x>> \in R})

(***************************************************************************)
(* The ranks of a finite set's members are 0, 1, ... up to its size, each  *)
(* taken once, and they are in its order.                                  *)
(***************************************************************************)
LEMMA Ranks ==
  ASSUME NEW S, IsFiniteSet(S), NEW R, Orders(R, S)
  PROVE  /\ \A x \in S : RankIn(R, S, x) \in 0..(Cardinality(S) - 1)
         /\ \A x, y \in S : <<x, y>> \in R <=> RankIn(R, S, x) < RankIn(R, S, y)
         /\ \A m \in 0..(Cardinality(S) - 1) : \E x \in S : RankIn(R, S, x) = m
<1> DEFINE B(x) == {y \in S : <<y, x>> \in R}
           N == Cardinality(S)
<1>1. N \in Nat BY FS_CardinalityType
<1>2. ASSUME NEW x \in S
      PROVE  RankIn(R, S, x) \in 0..(N - 1)
  <2>1. B(x) \in SUBSET S /\ B(x) # S BY DEF Orders
  <2>2. Cardinality(B(x)) \in Nat /\ Cardinality(B(x)) <= N /\ Cardinality(B(x)) # N
    BY <1>1, <2>1, FS_Subset, FS_CardinalityType
  <2>3. QED BY <1>1, <2>2 DEF RankIn
<1>3. ASSUME NEW x \in S, NEW y \in S, <<x, y>> \in R
      PROVE  RankIn(R, S, x) < RankIn(R, S, y)
  <2>1. B(x) \in SUBSET B(y) /\ x \in B(y) /\ x \notin B(x) BY <1>3 DEF Orders
  <2>2. IsFiniteSet(B(y)) /\ B(y) \in SUBSET S BY FS_Subset
  <2>3. Cardinality(B(x)) <= Cardinality(B(y)) /\ Cardinality(B(x)) # Cardinality(B(y))
    <3> HIDE DEF B
    <3>1. QED BY <2>1, <2>2, FS_Subset
  <2>4. QED BY <1>2, <2>3 DEF RankIn
<1>4. ASSUME NEW x \in S, NEW y \in S
      PROVE  <<x, y>> \in R <=> RankIn(R, S, x) < RankIn(R, S, y)
  <2>1. RankIn(R, S, x) \in Int /\ RankIn(R, S, y) \in Int BY <1>2
  <2>2. x = y \/ <<x, y>> \in R \/ <<y, x>> \in R BY DEF Orders
  <2>3. <<y, x>> \in R => RankIn(R, S, y) < RankIn(R, S, x) BY <1>3
  <2>4. <<x, y>> \in R => RankIn(R, S, x) < RankIn(R, S, y) BY <1>3
  <2>5. QED BY <2>1, <2>2, <2>3, <2>4
<1>5. ASSUME NEW m \in 0..(N - 1)
      PROVE  \E x \in S : RankIn(R, S, x) = m
  <2> DEFINE f == [x \in S |-> RankIn(R, S, x)]
  <2>1. f \in [S -> 0..(N - 1)] BY <1>2
  <2>2. ASSUME NEW x \in S, NEW y \in S, f[x] = f[y] PROVE x = y
    <3>1. RankIn(R, S, x) = RankIn(R, S, y) /\ RankIn(R, S, x) \in Int BY <1>2, <2>2
    <3>2. <<x, y>> \notin R /\ <<y, x>> \notin R BY <1>4, <3>1
    <3>3. QED BY <3>2 DEF Orders
  <2>3. IsFiniteSet(0..(N - 1)) /\ Cardinality(0..(N - 1)) = N BY <1>1, FS_Interval
  <2>4. f \in Injection(S, 0..(N - 1))
    <3> HIDE DEF f, N
    <3>1. QED BY <2>1, <2>2, Fun_IsInj
  <2>5. f \in Surjection(S, 0..(N - 1))
    <3> HIDE DEF f
    <3>1. QED BY <2>3, <2>4, FS_Injection
  <2>6. QED BY <2>5 DEF Surjection
<1>6. QED BY <1>2, <1>4, <1>5

\* So as many members as there are numbers have ranks from a on, if a later one exists.
LEMMA RankSlice ==
  ASSUME NEW S, IsFiniteSet(S), NEW R, Orders(R, S), NEW a \in Nat, NEW n \in Nat \ {0},
         NEW x \in S, RankIn(R, S, x) >= a + n
  PROVE  Cardinality({y \in S : RankIn(R, S, y) >= a /\ RankIn(R, S, y) < a + n}) = n
<1> DEFINE T == {y \in S : RankIn(R, S, y) >= a /\ RankIn(R, S, y) < a + n}
           I == a..(a + n - 1)
           f == [y \in T |-> RankIn(R, S, y)]
<1>1. /\ \A y \in S : RankIn(R, S, y) \in 0..(Cardinality(S) - 1)
      /\ \A y, z \in S : <<y, z>> \in R <=> RankIn(R, S, y) < RankIn(R, S, z)
      /\ \A m \in 0..(Cardinality(S) - 1) : \E y \in S : RankIn(R, S, y) = m
      /\ Cardinality(S) \in Nat
  BY Ranks, FS_CardinalityType
<1>2. f \in [T -> I] BY <1>1
<1>3. ASSUME NEW y \in T, NEW z \in T, f[y] = f[z] PROVE y = z
  <2>1. RankIn(R, S, y) = RankIn(R, S, z) /\ RankIn(R, S, y) \in Int BY <1>1, <1>3
  <2>2. <<y, z>> \notin R /\ <<z, y>> \notin R BY <1>1, <2>1
  <2>3. QED BY <2>2 DEF Orders
<1>4. ASSUME NEW m \in I PROVE \E y \in T : f[y] = m
  <2>1. m \in 0..(Cardinality(S) - 1) BY <1>1
  <2>2. PICK y \in S : RankIn(R, S, y) = m BY <1>1, <2>1
  <2>3. QED BY <2>2
<1>5. IsFiniteSet(I) /\ Cardinality(I) = n
  <2>1. PICK b \in Int : b = a + n - 1 OBVIOUS
  <2>2. IsFiniteSet(a..b) /\ Cardinality(a..b) = b - a + 1 BY <2>1, FS_Interval
  <2>3. QED BY <2>1, <2>2
<1>6. f \in Bijection(T, I)
  <2> HIDE DEF f, I
  <2>1. f \in Injection(T, I) BY <1>2, <1>3, Fun_IsInj
  <2>2. f \in Surjection(T, I) BY <1>2, <1>4, Fun_IsSurj
  <2>3. QED BY <2>1, <2>2, Fun_IsBij
<1>7. IsFiniteSet(T) BY FS_Subset
<1>8. Cardinality(T) = Cardinality(I)
  <2> HIDE DEF f, T, I
  <2>1. ExistsBijection(T, I) BY <1>6 DEF ExistsBijection
  <2>2. QED BY <1>7, <2>1, FS_Bijection
<1>9. QED BY <1>5, <1>8

\* Natural numbers are ordered.
LessThan == {p \in Nat \X Nat : p[1] < p[2]}

LEMMA NumbersOrdered ==
  ASSUME NEW S \in SUBSET Nat
  PROVE  Orders(LessThan, S)
  BY DEF Orders, LessThan
=============================================================================
