---------------------------- MODULE NumberLemmas ----------------------------
(***************************************************************************)
(* Facts about natural numbers and finite sets that the proofs about the   *)
(* chain share.  LeastNat is how they reason by induction: the least       *)
(* counterexample has a predecessor that is none.                          *)
(***************************************************************************)
EXTENDS Integers, FiniteSetsExt, FiniteSetTheorems, WellFoundedInduction, TLAPS

\* A set of natural numbers has a least element.
LEMMA LeastNat ==
  ASSUME NEW T \in SUBSET Nat, T # {}
  PROVE  \E m \in T : \A n \in T : m <= n
<1> DEFINE R == {ss \in Nat \X Nat : ss[1] < ss[2]}
<1>1. IsWellFoundedOn(R, Nat)
  BY NatLessThanWellFounded, Zenon DEF OpToRel
<1> HIDE DEF R
<1>2. PICK m \in T : \A n \in T : ~(<<n, m>> \in R)
  BY <1>1, WFMin, Zenon
<1>3. \A n \in T : ~(n < m)
  BY <1>2 DEF R
<1> QED BY <1>3

\* Integer division rounds down.
LEMMA DivBounds ==
  ASSUME NEW x \in Nat, NEW d \in Nat \ {0}
  PROVE  x \div d \in Nat /\ (x \div d) * d <= x /\ x < (x \div d) * d + d
<1>1. x = d * (x \div d) + (x % d) /\ 0 <= x % d /\ x % d < d
  OBVIOUS
<1> QED BY <1>1

\* Min and Max of two integers.
LEMMA MinMaxOfTwo ==
  ASSUME NEW a \in Int, NEW b \in Int
  PROVE  /\ Min({a, b}) \in {a, b} /\ Min({a, b}) <= a /\ Min({a, b}) <= b
         /\ Max({a, b}) \in {a, b} /\ Max({a, b}) >= a /\ Max({a, b}) >= b
<1>1. \E x \in {a, b} : \A y \in {a, b} : x <= y
  <2>1. CASE a <= b BY <2>1
  <2>2. CASE b <= a BY <2>2
  <2> QED BY <2>1, <2>2
<1>2. \E x \in {a, b} : \A y \in {a, b} : x >= y
  <2>1. CASE a <= b BY <2>1
  <2>2. CASE b <= a BY <2>2
  <2> QED BY <2>1, <2>2
<1> QED BY <1>1, <1>2 DEF Min, Max

\* A larger finite set has at least as many elements.
LEMMA CardinalityMonotone ==
  ASSUME NEW T, IsFiniteSet(T), NEW S \in SUBSET T
  PROVE  IsFiniteSet(S) /\ Cardinality(S) \in Nat /\ Cardinality(T) \in Nat /\ Cardinality(S) <= Cardinality(T)
BY FS_Subset, FS_CardinalityType

\* n is what the values of f on A, in order, have at offset k.
IsNth(A, f, k, n) ==
  /\ n \in {f[w] : w \in A}
  /\ Cardinality({w \in A : f[w] < n}) <= k
  /\ Cardinality({w \in A : f[w] <= n}) > k

\* In a non-empty finite set, sorted by the values of f, there is an element
\* at every offset (what nth_element relies on).
LEMMA NthElement ==
  ASSUME NEW A, IsFiniteSet(A), NEW f, \A w \in A : f[w] \in Nat,
         NEW k \in Nat, k < Cardinality(A), NEW top \in Nat, \A w \in A : f[w] <= top
  PROVE  \E n : IsNth(A, f, k, n)
<1> DEFINE Upto(n) == {w \in A : f[w] <= n}
           M == {n \in Nat : Cardinality(Upto(n)) > k}
<1>1. \A n : IsFiniteSet(Upto(n)) /\ Cardinality(Upto(n)) \in Nat
  BY FS_Subset, FS_CardinalityType
<1>2. Upto(top) = A
  OBVIOUS
<1>3. M # {}
  BY <1>2
<1>4. PICK n \in M : \A m \in M : n <= m
  BY <1>3, LeastNat
<1>5. {w \in A : f[w] < n} = IF n = 0 THEN {} ELSE Upto(n - 1)
  BY <1>4
<1>6. Cardinality({w \in A : f[w] < n}) <= k
  <2>1. CASE n = 0
    BY <1>5, <2>1, FS_EmptySet
  <2>2. CASE n # 0
    <3>1. n - 1 \in Nat /\ n - 1 \notin M
      BY <1>4, <2>2
    <3> QED BY <1>1, <1>5, <2>2, <3>1
  <2> QED BY <2>1, <2>2
<1>7. \E w \in A : f[w] = n
  <2> SUFFICES ASSUME \A w \in A : f[w] # n PROVE FALSE
    OBVIOUS
  <2>1. Upto(n) = {w \in A : f[w] < n}
    BY <1>4
  <2> QED BY <1>1, <1>4, <1>6, <2>1
<1> QED BY <1>4, <1>6, <1>7 DEF IsNth

\* A set of natural numbers with an upper bound has a greatest element.
LEMMA MaxOfBounded ==
  ASSUME NEW T \in SUBSET Nat, T # {}, NEW top \in Nat, \A n \in T : n <= top
  PROVE  Max(T) \in T /\ \A n \in T : n <= Max(T)
<1> DEFINE U == {m \in Nat : \A n \in T : n <= m}
<1>1. PICK m \in U : \A k \in U : m <= k
  <2>1. top \in U
    OBVIOUS
  <2> HIDE DEF U
  <2>2. U \in SUBSET Nat
    BY DEF U
  <2> QED BY <2>1, <2>2, LeastNat
<1>2. m \in T
  <2> SUFFICES ASSUME m \notin T PROVE FALSE
    OBVIOUS
  <2>1. PICK x \in T : TRUE
    OBVIOUS
  <2>2. m \in Nat /\ x \in Nat /\ x <= m /\ x # m /\ \A n \in T : n \in Nat /\ n <= m /\ n # m
    OBVIOUS
  <2>3. m - 1 \in Nat /\ \A n \in T : n <= m - 1
    BY <2>2
  <2>4. m - 1 \in U
    BY <2>3
  <2> QED BY <1>1, <2>2, <2>4
<1> QED BY <1>2 DEF Max

\* Induction up to a bound.
LEMMA IntervalInduction ==
  ASSUME NEW n \in Nat, NEW T, 0 \in T, \A i \in 1..n : i - 1 \in T => i \in T
  PROVE  n \in T
<1> DEFINE U == {i \in 0..n : i \notin T}
<1> SUFFICES ASSUME U # {} PROVE FALSE
  OBVIOUS
<1>1. U \in SUBSET Nat
  OBVIOUS
<1>2. PICK m \in U : \A i \in U : m <= i
  <2> HIDE DEF U
  <2> QED BY <1>1, LeastNat
<1>3. m \in 1..n /\ m - 1 \in 0..n /\ m - 1 \notin U
  BY <1>2
<1> QED BY <1>3
=============================================================================
