------------------------------- MODULE Induction -------------------------------
(***************************************************************************)
(* Induction over numbers for sets, and what follows from it: least        *)
(* elements, and functions that are defined by recursion on a number.  The *)
(* induction theorems of the library have an operator as a parameter;      *)
(* these have sets and functions, and are used by naming them.             *)
(***************************************************************************)
EXTENDS Integers, FiniteSetsExt, FiniteSetTheorems, TLAPS

\* A set that has zero, and with a number the next, has every number: if it lacked n, the
\* numbers up to n that it lacks could be shifted into those without n, one less.
LEMMA SetInduction ==
    ASSUME NEW S, 0 \in S, \A n \in Nat : n \in S => n + 1 \in S
    PROVE  Nat \subseteq S
<1> SUFFICES ASSUME NEW n \in Nat, n \notin S
             PROVE  FALSE
  OBVIOUS
<1> DEFINE A == {k \in 1 .. n : k \notin S}
<1> DEFINE f == [k \in A |-> k - 1]
<1>1. n \in A
  OBVIOUS
<1>2. IsFiniteSet(1 .. n)
  BY FS_Interval
<1>3. IsFiniteSet(A)
  BY <1>2, FS_Subset
<1>4. IsFiniteSet(A \ {n}) /\ Cardinality(A \ {n}) = Cardinality(A) - 1 /\ Cardinality(A) \in Nat
  BY <1>1, <1>3, FS_RemoveElement, FS_CardinalityType
<1>5. f \in [A -> A \ {n}]
  <2> SUFFICES ASSUME NEW k \in A PROVE k - 1 \in A \ {n}
    OBVIOUS
  <2>1. k - 1 \in Nat /\ k \in Nat
    OBVIOUS
  <2>2. k - 1 \notin S
    BY <2>1
  <2>3. k - 1 # 0
    BY <2>2
  <2> QED
    BY <2>1, <2>2, <2>3
<1>6. PICK x \in A, y \in A : x # y /\ f[x] = f[y]
  <2> HIDE DEF A, f
  <2> QED
    BY <1>3, <1>4, <1>5, FS_PigeonHole
<1> QED
  BY <1>6

\* A set of numbers that is not empty has a least one.
LEMMA Least ==
    ASSUME NEW S \in SUBSET Nat, S # {}
    PROVE  \E n \in S : \A m \in S : n <= m
<1> SUFFICES ASSUME \A n \in S : \E m \in S : m < n
             PROVE  FALSE
  OBVIOUS
<1> DEFINE Below == {n \in Nat : \A m \in 0 .. n : m \notin S}
<1>1. 0 \in Below
  OBVIOUS
<1>2. ASSUME NEW n \in Nat, n \in Below
      PROVE  n + 1 \in Below
  <2>1. n + 1 \notin S
    BY <1>2
  <2>2. QED
    BY <1>2, <2>1
<1>3. Nat \subseteq Below
  <2> HIDE DEF Below
  <2> QED
    BY <1>1, <1>2, SetInduction
<1>4. PICK n \in S : TRUE
  OBVIOUS
<1>5. n \in Below
  BY <1>3
<1> QED
  BY <1>5

\* Min and Max are the least and the greatest element, where there is one.
LEMMA Minimum ==
    ASSUME NEW S \in SUBSET Int, NEW m \in S, \A k \in S : m <= k
    PROVE  Min(S) = m
<1>1. \A x \in S : (\A y \in S : x <= y) => x = m
  BY Z3
<1> QED
  BY <1>1 DEF Min

LEMMA Maximum ==
    ASSUME NEW S \in SUBSET Int, NEW m \in S, \A k \in S : k <= m
    PROVE  Max(S) = m
<1>1. \A x \in S : (\A y \in S : x >= y) => x = m
  BY Z3
<1> QED
  BY <1>1 DEF Max

\* A set of numbers between two has a least and a greatest one.
LEMMA MinOf ==
    ASSUME NEW S \in SUBSET Nat, S # {}
    PROVE  Min(S) \in S /\ \A k \in S : Min(S) <= k
<1>1. PICK m \in S : \A k \in S : m <= k
  BY Least
<1>2. Min(S) = m
  BY <1>1, Minimum
<1> QED
  BY <1>1, <1>2

LEMMA MaxOf ==
    ASSUME NEW n \in Nat, NEW S \in SUBSET (0 .. n), S # {}
    PROVE  Max(S) \in S /\ \A k \in S : k <= Max(S)
<1> DEFINE T == {k \in 0 .. n : n - k \in S}
<1>1. T \in SUBSET Nat /\ T # {}
  <2>1. PICK k \in S : TRUE
    OBVIOUS
  <2>2. n - k \in 0 .. n /\ n - (n - k) = k
    OBVIOUS
  <2>3. n - k \in T
    BY <2>2
  <2>4. T \subseteq Nat
    OBVIOUS
  <2> HIDE DEF T
  <2> QED
    BY <2>3, <2>4
<1>2. PICK m \in T : \A k \in T : m <= k
  <2> HIDE DEF T
  <2> QED
    BY <1>1, Least
<1>3. n - m \in S
  OBVIOUS
<1>4. ASSUME NEW k \in S PROVE k <= n - m
  <2>1. n - k \in 0 .. n /\ n - (n - k) = k
    OBVIOUS
  <2>2. n - k \in T
    BY <2>1
  <2>3. m <= n - k
    BY <1>2, <2>2
  <2> QED
    BY <2>3
<1>5. Max(S) = n - m
  BY <1>3, <1>4, Maximum
<1> QED
  BY <1>3, <1>4, <1>5

\* g begins with a, and F makes its n-th value of the one before.
Recursive_(g, T, a, F, N) ==
    g \in [0 .. N -> T] /\ g[0] = a /\ \A n \in 1 .. N : g[n] = F[<<n, g[n - 1]>>]

\* A value, and a way to the next, make a sequence of any length.
LEMMA Recursion ==
    ASSUME NEW T, NEW a \in T, NEW F \in [Nat \X T -> T], NEW N \in Nat
    PROVE  \E g : Recursive_(g, T, a, F, N)
<1> DEFINE Good(k, g) == g[0] = a /\ \A n \in 1 .. k : g[n] = F[<<n, g[n - 1]>>]
<1> DEFINE S == {k \in Nat : \E g \in [0 .. k -> T] : Good(k, g)}
<1>1. 0 \in S
  <2>1. [n \in 0 .. 0 |-> a] \in [0 .. 0 -> T] /\ Good(0, [n \in 0 .. 0 |-> a])
    OBVIOUS
  <2>2. QED
    BY <2>1
<1>2. ASSUME NEW k \in Nat, k \in S
      PROVE  k + 1 \in S
  <2>1. PICK g \in [0 .. k -> T] : Good(k, g)
    BY <1>2
  <2> DEFINE h == [n \in 0 .. k + 1 |-> IF n = k + 1 THEN F[<<n, g[k]>>] ELSE g[n]]
  <2>2. g[k] \in T /\ F[<<k + 1, g[k]>>] \in T
    OBVIOUS
  <2>3. h \in [0 .. k + 1 -> T]
    BY <2>2
  <2>4. h[0] = a
    BY <2>1
  <2>5. ASSUME NEW n \in 1 .. k + 1
        PROVE  h[n] = F[<<n, h[n - 1]>>]
    <3>1. h[n - 1] = g[n - 1] /\ n - 1 \in 0 .. k
      OBVIOUS
    <3>2. CASE n = k + 1
      BY <3>1, <3>2
    <3>3. CASE n # k + 1
      <4>1. n \in 1 .. k /\ h[n] = g[n]
        BY <3>3
      <4>2. QED
        BY <4>1, <3>1, <2>1
    <3>4. QED
      BY <3>2, <3>3
  <2>6. QED
    <3> HIDE DEF h
    <3> QED
      BY <2>3, <2>4, <2>5
<1>3. Nat \subseteq S
  <2> HIDE DEF S
  <2> QED
    BY <1>1, <1>2, SetInduction
<1>4. PICK g \in [0 .. N -> T] : Good(N, g)
  BY <1>3
<1> QED
  BY <1>4 DEF Recursive_
================================================================================
