---------------------------- MODULE BoundedNumbers -----------------------------
(* Facts about numbers up to a bound: the least and the greatest element of  *)
(* a set, which the definitions of Min and Max choose, induction over a set  *)
(* and functions defined by recursion.                                       *)
EXTENDS FiniteSetsExt, FiniteSetTheorems, WellFoundedInduction, TLAPS

\* A set of positive numbers up to a bound has a least element: the initial
\* segments that its elements end are ordered by inclusion, which is well-founded.
LEMMA LeastExists ==
  ASSUME NEW n \in Nat, NEW S \in SUBSET (1 .. n), S # {}
  PROVE  \E i \in S : \A j \in S : i <= j
PROOF
<1> DEFINE R == StrictSubsetOrdering(1 .. n)
           F == FiniteSubsetsOf(1 .. n)
           T == {1 .. k : k \in S}
<1>1. IsWellFoundedOn(R, F)
  BY FS_StrictSubsetOrderingWellFounded
<1>2. T \subseteq F /\ T # {}
  <2>1. \A k \in S : IsFiniteSet(1 .. k) /\ 1 .. k \subseteq 1 .. n
    BY FS_Interval
  <2> QED BY <2>1 DEF FiniteSubsetsOf
<1>3. \E x \in T : \A y \in T : ~ (<<y, x>> \in R)
  <2> HIDE DEF R, F, T
  <2> QED BY <1>1, <1>2, WFMin
<1>4. PICK i \in S : \A j \in S : ~ (<<1 .. j, 1 .. i>> \in R)
  BY <1>3
<1>5. ASSUME NEW j \in S, j < i PROVE FALSE
  <2>1. i \in 1 .. i /\ i \notin 1 .. j BY <1>5
  <2>2. 1 .. j \subseteq 1 .. i /\ 1 .. j # 1 .. i /\ 1 .. i \subseteq 1 .. n
    BY <1>5, <2>1
  <2> QED BY <1>4, <2>2 DEF StrictSubsetOrdering
<1> QED BY <1>5

\* Min chooses the least element.
LEMMA MinIsLeast ==
  ASSUME NEW n \in Nat, NEW S \in SUBSET (1 .. n), S # {}
  PROVE  Min(S) \in S /\ \A j \in S : Min(S) <= j
PROOF BY LeastExists DEF Min

\* A set of numbers between 0 and a bound has a greatest element, which is the
\* least as seen from the bound; Max chooses it.
LEMMA MaxIsGreatest ==
  ASSUME NEW n \in Nat, NEW S \in SUBSET (0 .. n), S # {}
  PROVE  Max(S) \in S /\ \A j \in S : Max(S) >= j
PROOF
<1> DEFINE T == {n + 1 - k : k \in S}
<1>1. T \in SUBSET (1 .. n + 1) /\ T # {} /\ n + 1 \in Nat
  <2>1. \A k \in S : n + 1 - k \in 1 .. n + 1 OBVIOUS
  <2>2. T # {} OBVIOUS
  <2> QED BY <2>1, <2>2
<1>2. \E i \in T : \A j \in T : i <= j
  <2> HIDE DEF T
  <2> QED BY <1>1, LeastExists
<1>3. PICK k \in S : \A j \in S : n + 1 - k <= n + 1 - j
  BY <1>2
<1>4. \A j \in S : k >= j
  BY <1>3
<1> QED BY <1>4 DEF Max

\* Induction up to a bound, over a set of numbers.
LEMMA SetInduction ==
  ASSUME NEW n \in Nat, NEW S, 0 \in S, \A k \in 0 .. n - 1 : k \in S => k + 1 \in S
  PROVE  \A k \in 0 .. n : k \in S
<1> DEFINE Missing == {k \in 1 .. n : k \notin S}
<1>1. CASE Missing = {}
  BY <1>1
<1>2. CASE Missing # {}
  <2>1. PICK k \in Missing : \A j \in Missing : k <= j
    <3> Missing \in SUBSET (1 .. n)
      OBVIOUS
    <3> HIDE DEF Missing
    <3> QED BY <1>2, LeastExists
  <2>2. k \in 1 .. n /\ k \notin S /\ k - 1 \in 0 .. n - 1
    BY <2>1
  <2>3. k - 1 \in S
    <3>1. CASE k = 1 BY <3>1
    <3>2. CASE k # 1
      <4>1. k - 1 \in 1 .. n /\ ~ (k <= k - 1) BY <2>2, <3>2
      <4> QED BY <2>1, <4>1
    <3> QED BY <3>1, <3>2
  <2>4. k - 1 + 1 = k BY <2>2
  <2> QED BY <2>2, <2>3, <2>4
<1> QED BY <1>1, <1>2

\* The function f on 0 .. n that starts with a and takes the step g[p] at p.
Stepwise(n, A, a, g) == n \in Nat /\ a \in A /\ g \in [1 .. n -> [A -> A]]
Iteration(f, n, A, a, g) ==
  f \in [0 .. n -> A] /\ f[0] = a /\ \A p \in 1 .. n : f[p] = g[p][f[p - 1]]

\* Such a function exists.
LEMMA IterationExists ==
  ASSUME NEW n, NEW A, NEW a, NEW g, Stepwise(n, A, a, g)
  PROVE  \E f : Iteration(f, n, A, a, g)
<1> USE DEF Stepwise
<1> DEFINE Begun(k, f) == f[0] = a /\ \A p \in 1 .. k : f[p] = g[p][f[p - 1]]
           S == {k \in 0 .. n : \E f \in [0 .. k -> A] : Begun(k, f)}
<1>1. 0 \in S
  <2>1. [i \in 0 .. 0 |-> a] \in [0 .. 0 -> A] /\ Begun(0, [i \in 0 .. 0 |-> a])
    OBVIOUS
  <2> HIDE DEF Begun
  <2> QED BY <2>1
<1>2. ASSUME NEW k \in 0 .. n - 1, k \in S PROVE k + 1 \in S
  <2>1. PICK f \in [0 .. k -> A] : Begun(k, f)
    <3> HIDE DEF Begun
    <3> QED BY <1>2
  <2>2. k + 1 \in 1 .. n /\ k \in 0 .. k /\ k + 1 \in 0 .. n
    OBVIOUS
  <2>3. g[k + 1][f[k]] \in A
    BY <2>1, <2>2
  <2>4. PICK h : h = [i \in 0 .. k + 1 |-> IF i = k + 1 THEN g[k + 1][f[k]] ELSE f[i]]
    OBVIOUS
  <2>5. h \in [0 .. k + 1 -> A]
    <3>1. \A i \in 0 .. k + 1 : i # k + 1 => i \in 0 .. k
      OBVIOUS
    <3> QED BY <2>1, <2>3, <2>4, <3>1
  <2>6. \A i \in 0 .. k : h[i] = f[i]
    BY <2>4
  <2>7. h[k + 1] = g[k + 1][h[k]]
    BY <2>2, <2>4, <2>6
  <2>8. \A p \in 1 .. k + 1 : h[p] = g[p][h[p - 1]]
    <3> TAKE p \in 1 .. k + 1
    <3>1. CASE p = k + 1
      <4>1. p - 1 = k BY <3>1
      <4> QED BY <2>7, <3>1, <4>1
    <3>2. CASE p # k + 1
      <4>1. p \in 1 .. k /\ p \in 0 .. k /\ p - 1 \in 0 .. k BY <3>2
      <4> QED BY <2>1, <2>6, <4>1
    <3> QED BY <3>1, <3>2
  <2>9. h[0] = a
    <3>1. 0 \in 0 .. k OBVIOUS
    <3> QED BY <2>1, <2>6, <3>1
  <2>10. Begun(k + 1, h)
    BY <2>8, <2>9
  <2> HIDE DEF Begun
  <2> QED BY <2>2, <2>5, <2>10
<1>3. n \in S
  <2> HIDE DEF S
  <2>1. \A k \in 0 .. n : k \in S BY <1>1, <1>2, SetInduction
  <2> QED BY <2>1
<1> QED BY <1>3 DEF Iteration
================================================================================
