----------------------------- MODULE ContainerProofs -----------------------------
(***************************************************************************)
(* What the functions of the containers of tdd return and keep: lists that *)
(* stay linked both ways, hash tables that stay maps while they grow, and  *)
(* the sequences they stand for; for lists and tables of any length.       *)
(***************************************************************************)
EXTENDS LinkedList, HashTable, Selection, Functions, BoundedNumbers

-----------------------------------------------------------------------------
(* Sequences: what they hold, and what a loop keeps of them.               *)

Distinct(s) == \A i, j \in DOMAIN s : s[i] = s[j] => i = j

LEMMA EmptySeq == \A D : <<>> \in Seq(D) /\ Range(<<>>) = {} /\ Distinct(<<>>)
  BY DEF Range, Distinct

LEMMA SeqFacts ==
  ASSUME NEW D, NEW s \in Seq(D)
  PROVE  /\ Len(s) \in Nat /\ DOMAIN s = 1 .. Len(s) /\ s \in [1 .. Len(s) -> D]
         /\ Range(s) \subseteq D
         /\ s = <<>> <=> Len(s) = 0
<1>1. Len(s) \in Nat /\ DOMAIN s = 1 .. Len(s) /\ s \in [1 .. Len(s) -> D]
  OBVIOUS
<1>2. s = <<>> <=> Len(s) = 0
  OBVIOUS
<1> QED BY <1>1, <1>2 DEF Range

LEMMA AppendFacts ==
  ASSUME NEW D, NEW s \in Seq(D), NEW x \in D
  PROVE  /\ Append(s, x) \in Seq(D)
         /\ Range(Append(s, x)) = Range(s) \cup {x}
         /\ Distinct(s) /\ x \notin Range(s) => Distinct(Append(s, x))
<1>1. PICK n \in Nat : n = Len(s) /\ DOMAIN s = 1 .. n
  BY SeqFacts
<1>2. PICK t : t = Append(s, x)
  OBVIOUS
<1>3. /\ t \in Seq(D) /\ DOMAIN t = 1 .. n + 1
      /\ t[n + 1] = x /\ n + 1 \in 1 .. n + 1
      /\ \A i \in 1 .. n : t[i] = s[i] /\ i \in 1 .. n + 1
  BY <1>1, <1>2
<1>4. \A i \in 1 .. n + 1 : i = n + 1 \/ i \in 1 .. n
  OBVIOUS
<1>5. Range(t) = Range(s) \cup {x}
  BY <1>1, <1>3, <1>4 DEF Range
<1>6. ASSUME Distinct(s), x \notin Range(s) PROVE Distinct(t)
  <2>1. \A i \in 1 .. n : s[i] # x
    BY <1>1, <1>6 DEF Range
  <2>2. \A i, j \in 1 .. n : s[i] = s[j] => i = j
    BY <1>1, <1>6 DEF Distinct
  <2> QED BY <1>3, <1>4, <2>1, <2>2 DEF Distinct
<1> QED BY <1>2, <1>3, <1>5, <1>6

LEMMA TailFacts ==
  ASSUME NEW D, NEW s \in Seq(D), s # <<>>
  PROVE  /\ Tail(s) \in Seq(D) /\ Head(s) \in D
         /\ Head(s) = s[1] /\ 1 \in DOMAIN s
         /\ \A i \in DOMAIN Tail(s) : i + 1 \in DOMAIN s /\ Tail(s)[i] = s[i + 1]
         /\ \A i \in DOMAIN s : i = 1 \/ (i - 1 \in DOMAIN Tail(s) /\ Tail(s)[i - 1] = s[i])
         /\ Range(s) = Range(Tail(s)) \cup {Head(s)}
         /\ Distinct(s) => Distinct(Tail(s)) /\ Head(s) \notin Range(Tail(s))
<1>1. PICK n \in Nat : n + 1 = Len(s) /\ DOMAIN s = 1 .. n + 1
  <2>1. Len(s) \in Nat /\ Len(s) # 0 BY SeqFacts
  <2>2. Len(s) - 1 \in Nat /\ Len(s) - 1 + 1 = Len(s) BY <2>1
  <2> QED BY <2>2, SeqFacts
<1>2. PICK t : t = Tail(s)
  OBVIOUS
<1>3. t \in Seq(D) /\ DOMAIN t = 1 .. n /\ \A i \in 1 .. n : t[i] = s[i + 1]
  BY <1>1, <1>2
<1>4. Head(s) = s[1] /\ 1 \in 1 .. n + 1 /\ Head(s) \in D
  BY <1>1, SeqFacts
<1>5. \A i \in 1 .. n : i + 1 \in 1 .. n + 1 /\ i + 1 # 1
  OBVIOUS
<1>6. ASSUME NEW i \in 1 .. n + 1, i # 1 PROVE i - 1 \in 1 .. n /\ t[i - 1] = s[i]
  <2>1. PICK j \in 1 .. n : j = i - 1 /\ j + 1 = i BY <1>6
  <2> QED BY <1>3, <2>1
<1>7. Range(s) = Range(t) \cup {Head(s)}
  <2>1. \A x : x \in Range(s) <=> \E i \in 1 .. n + 1 : s[i] = x
    BY <1>1 DEF Range
  <2>2. \A x : x \in Range(t) <=> \E i \in 1 .. n : t[i] = x
    BY <1>3 DEF Range
  <2>3. \A x \in Range(t) : x \in Range(s)
    BY <1>3, <1>5, <2>1, <2>2
  <2>4. \A x \in Range(s) : x = Head(s) \/ x \in Range(t)
    BY <1>4, <1>6, <2>1, <2>2
  <2> QED BY <1>4, <2>1, <2>3, <2>4
<1>8. ASSUME Distinct(s) PROVE Distinct(t) /\ Head(s) \notin Range(t)
  <2>1. \A i, j \in 1 .. n + 1 : s[i] = s[j] => i = j
    BY <1>1, <1>8 DEF Distinct
  <2>2. ASSUME NEW i \in 1 .. n, NEW j \in 1 .. n, t[i] = t[j] PROVE i = j
    <3>1. i + 1 = j + 1 BY <1>3, <1>5, <2>1, <2>2
    <3> QED BY <3>1
  <2>3. \A i \in 1 .. n : t[i] # s[1]
    BY <1>3, <1>4, <1>5, <2>1
  <2> QED BY <1>3, <1>4, <2>2, <2>3 DEF Distinct, Range
<1> QED BY <1>1, <1>2, <1>3, <1>4, <1>5, <1>6, <1>7, <1>8

\* The loop goes through the sequence from its first element to its last.
KeptLoop(f, D, s, S) ==
  /\ f \in [0 .. Len(s) -> Seq(D)]
  /\ f[0] = <<>>
  /\ \A p \in 1 .. Len(s) : f[p] = IF s[p] \in S THEN Append(f[p - 1], s[p]) ELSE f[p - 1]
  /\ Kept(s, S) = f[Len(s)]

LEMMA KeptInTurn ==
  ASSUME NEW D, NEW s \in Seq(D), NEW S
  PROVE  \E f : KeptLoop(f, D, s, S)
<1>1. PICK n \in Nat : n = Len(s)
  BY SeqFacts
<1>2. PICK A : A = Seq(D)
  OBVIOUS
<1>3. PICK g : g = [p \in 1 .. n |-> [b \in A |-> IF s[p] \in S THEN Append(b, s[p]) ELSE b]]
  OBVIOUS
<1>4. Stepwise(n, A, <<>>, g)
  <2>1. \A p \in 1 .. n, b \in A : (IF s[p] \in S THEN Append(b, s[p]) ELSE b) \in A
    BY <1>1, <1>2, SeqFacts, AppendFacts
  <2>2. g \in [1 .. n -> [A -> A]]
    BY <1>3, <2>1
  <2>3. <<>> \in A BY <1>2
  <2> QED BY <2>2, <2>3 DEF Stepwise
<1>5. PICK f : Iteration(f, n, A, <<>>, g)
  BY <1>4, IterationExists
<1>6. f \in [0 .. n -> A] /\ f[0] = <<>>
  BY <1>5 DEF Iteration
<1>7. \A p \in 1 .. n : f[p] = IF s[p] \in S THEN Append(f[p - 1], s[p]) ELSE f[p - 1]
  <2> TAKE p \in 1 .. n
  <2>1. p - 1 \in 0 .. n OBVIOUS
  <2>2. f[p] = g[p][f[p - 1]] /\ f[p - 1] \in A
    BY <1>5, <1>6, <2>1 DEF Iteration
  <2> QED BY <1>3, <2>2
<1> DEFINE F(h) == [i \in 0 .. n |-> IF i = 0 THEN <<>>
                      ELSE IF s[i] \in S THEN Append(h[i - 1], s[i]) ELSE h[i - 1]]
<1>8. f = F(f)
  <2>1. \A i \in 0 .. n : f[i] = IF i = 0 THEN <<>>
                      ELSE IF s[i] \in S THEN Append(f[i - 1], s[i]) ELSE f[i - 1]
    <3> TAKE i \in 0 .. n
    <3>1. CASE i = 0 BY <1>6, <3>1
    <3>2. CASE i # 0
      <4>1. i \in 1 .. n BY <3>2
      <4> QED BY <1>7, <3>2, <4>1
    <3> QED BY <3>1, <3>2
  <2>2. f = [i \in 0 .. n |-> f[i]]
    BY <1>6
  <2> QED BY <2>1, <2>2
<1>9. Kept(s, S) = (CHOOSE h : h = F(h))[n]
  BY <1>1 DEF Kept
<1>10. PICK h : h = F(h) /\ Kept(s, S) = h[n]
  <2> HIDE DEF F
  <2> QED BY <1>8, <1>9
<1>11. \A p \in 0 .. n : h[p] = f[p]
  <2> DEFINE T == {p \in 0 .. n : h[p] = f[p]}
  <2>1. 0 \in T
    <3>1. 0 \in 0 .. n /\ h[0] = <<>> BY <1>10
    <3> QED BY <1>6, <3>1
  <2>2. ASSUME NEW k \in 0 .. n - 1, k \in T PROVE k + 1 \in T
    <3>1. PICK p \in 1 .. n : p = k + 1 /\ p - 1 = k /\ p \in 0 .. n /\ p # 0
      OBVIOUS
    <3>2. h[p] = IF s[p] \in S THEN Append(h[k], s[p]) ELSE h[k]
      BY <1>10, <3>1
    <3>3. f[p] = IF s[p] \in S THEN Append(f[k], s[p]) ELSE f[k]
      BY <1>7, <3>1
    <3> QED BY <2>2, <3>1, <3>2, <3>3
  <2> HIDE DEF T
  <2>3. \A p \in 0 .. n : p \in T
    BY <2>1, <2>2, SetInduction
  <2> QED BY <2>3 DEF T
<1>12. n \in 0 .. n
  OBVIOUS
<1>13. Kept(s, S) = f[n]
  BY <1>10, <1>11, <1>12
<1>14. KeptLoop(f, D, s, S)
  BY <1>1, <1>2, <1>6, <1>7, <1>13 DEF KeptLoop
<1> QED BY <1>14

\* The elements that are in the set, and each as often as before.
LEMMA KeptFacts ==
  ASSUME NEW D, NEW s \in Seq(D), NEW S
  PROVE  /\ Kept(s, S) \in Seq(D)
         /\ Range(Kept(s, S)) = Range(s) \cap S
         /\ Distinct(s) => Distinct(Kept(s, S))
<1>1. PICK n \in Nat : n = Len(s) /\ DOMAIN s = 1 .. n /\ s \in [1 .. n -> D]
  BY SeqFacts
<1>2. PICK f : KeptLoop(f, D, s, S)
  BY KeptInTurn
<1>3. /\ f \in [0 .. n -> Seq(D)]
      /\ f[0] = <<>>
      /\ \A p \in 1 .. n : f[p] = IF s[p] \in S THEN Append(f[p - 1], s[p]) ELSE f[p - 1]
      /\ Kept(s, S) = f[n]
  BY <1>1, <1>2 DEF KeptLoop
<1> DEFINE Good(i) == /\ Range(f[i]) = {s[j] : j \in 1 .. i} \cap S
                      /\ Distinct(s) => Distinct(f[i])
           T == {i \in 0 .. n : Good(i)}
<1>4. 0 \in T
  <2>1. {s[j] : j \in 1 .. 0} = {}
    OBVIOUS
  <2> QED BY <1>3, <2>1, EmptySeq
<1>5. ASSUME NEW k \in 0 .. n - 1, k \in T PROVE k + 1 \in T
  <2>1. PICK p \in 1 .. n : p = k + 1 /\ p - 1 = k /\ p \in 0 .. n
    OBVIOUS
  <2>2. {s[j] : j \in 1 .. p} = {s[j] : j \in 1 .. k} \cup {s[p]}
    <3>1. 1 .. p = (1 .. k) \cup {p} BY <2>1
    <3> QED BY <3>1
  <2>3. f[k] \in Seq(D) /\ s[p] \in D /\ Good(k)
    <3>1. k \in 0 .. n /\ Good(k)
      BY <1>5
    <3>2. f[k] \in Seq(D)
      BY <1>3, <3>1
    <3>3. s[p] \in D
      BY <1>1
    <3> QED BY <3>1, <3>2, <3>3
  <2>4. CASE s[p] \in S
    <3>1. f[p] = Append(f[k], s[p])
      BY <1>3, <2>1, <2>4
    <3>2. /\ Range(f[p]) = Range(f[k]) \cup {s[p]}
          /\ Distinct(f[k]) /\ s[p] \notin Range(f[k]) => Distinct(f[p])
      <4>1. f[k] \in Seq(D) /\ s[p] \in D
        BY <2>3
      <4> QED BY <3>1, <4>1, AppendFacts
    <3>3. Distinct(s) => s[p] \notin Range(f[k])
      <4>1. ASSUME Distinct(s), NEW j \in 1 .. k PROVE s[j] # s[p]
        <5>1. j \in 1 .. n /\ p \in 1 .. n /\ j # p BY <2>1
        <5> QED BY <1>1, <4>1, <5>1 DEF Distinct
      <4> QED BY <2>3, <4>1
    <3>4. Distinct(s) => Distinct(f[p])
      BY <2>3, <3>2, <3>3
    <3>5. Good(p)
      BY <2>2, <2>3, <2>4, <3>2, <3>4
    <3> QED BY <2>1, <3>5
  <2>5. CASE s[p] \notin S
    <3>1. f[p] = f[k]
      BY <1>3, <2>1, <2>5
    <3>2. Good(p)
      BY <2>2, <2>3, <2>5, <3>1
    <3> QED BY <2>1, <3>2
  <2> QED BY <2>4, <2>5
<1>6. \A i \in 0 .. n : i \in T
  <2> HIDE DEF T
  <2> QED BY <1>4, <1>5, SetInduction
<1>7. n \in 0 .. n /\ Good(n) /\ f[n] \in Seq(D)
  BY <1>3, <1>6
<1>8. Range(s) = {s[j] : j \in 1 .. n}
  BY <1>1 DEF Range
<1> QED BY <1>3, <1>7, <1>8

\* A sequence one element longer.
LEMMA PrefixGrows ==
  ASSUME NEW n \in Nat, NEW S, NEW f \in [1 .. n -> S], NEW i \in 0 .. n - 1
  PROVE  /\ Append([j \in 1 .. i |-> f[j]], f[i + 1]) = [j \in 1 .. i + 1 |-> f[j]]
         /\ [j \in 1 .. i |-> f[j]] \in Seq(S)
<1>1. PICK s : s = [j \in 1 .. i |-> f[j]]
  OBVIOUS
<1>2. \A j \in 1 .. i : f[j] \in S
  OBVIOUS
<1>3. s \in [1 .. i -> S] /\ i \in Nat
  BY <1>1, <1>2
<1>4. s \in Seq(S) /\ Len(s) = i
  BY <1>3
<1>5. f[i + 1] \in S
  OBVIOUS
<1>6. PICK t : t = Append(s, f[i + 1])
  OBVIOUS
<1>7. t \in Seq(S) /\ Len(t) = i + 1 /\ (\A j \in 1 .. i : t[j] = s[j]) /\ t[i + 1] = f[i + 1]
  BY <1>4, <1>5, <1>6
<1>8. t = [j \in 1 .. i + 1 |-> t[j]]
  BY <1>7
<1>9. \A j \in 1 .. i + 1 : t[j] = f[j]
  <2>1. \A j \in 1 .. i + 1 : j \in 1 .. i \/ j = i + 1
    BY <1>3
  <2> QED BY <1>1, <1>7, <2>1
<1>10. t = [j \in 1 .. i + 1 |-> f[j]]
  BY <1>8, <1>9
<1> QED BY <1>1, <1>4, <1>6, <1>10

LEMMA SeqOfHeld ==
  ASSUME NEW D, NEW s \in Seq(D), NEW E, Range(s) \subseteq E
  PROVE  s \in Seq(E)
<1>1. Len(s) \in Nat /\ s \in [1 .. Len(s) -> D] /\ DOMAIN s = 1 .. Len(s)
  BY SeqFacts
<1>2. \A i \in 1 .. Len(s) : s[i] \in E
  BY <1>1 DEF Range
<1>3. s \in [1 .. Len(s) -> E]
  BY <1>1, <1>2
<1> QED BY <1>1, <1>3

LEMMA SeqGrows ==
  ASSUME NEW A, NEW B, A \subseteq B, NEW s \in Seq(A)
  PROVE  s \in Seq(B)
<1>1. Range(s) \subseteq B
  BY SeqFacts
<1> QED BY <1>1, SeqOfHeld

LEMMA ConcatFacts ==
  ASSUME NEW D, NEW a \in Seq(D), NEW b \in Seq(D)
  PROVE  /\ a \o b \in Seq(D) /\ Len(a \o b) = Len(a) + Len(b)
         /\ \A i \in 1 .. Len(a) + Len(b) :
              (a \o b)[i] = IF i <= Len(a) THEN a[i] ELSE b[i - Len(a)]
  OBVIOUS

LEMMA SameSeq ==
  ASSUME NEW D, NEW s \in Seq(D), NEW E, NEW t \in Seq(E), Len(s) = Len(t),
         \A i \in 1 .. Len(s) : s[i] = t[i]
  PROVE  s = t
<1>1. PICK n \in Nat : n = Len(s) /\ n = Len(t)
  BY SeqFacts
<1>2. s \in [1 .. n -> D] /\ t \in [1 .. n -> E]
  BY <1>1, SeqFacts
<1>3. \A i \in 1 .. n : s[i] = t[i]
  BY <1>1
<1> QED BY <1>2, <1>3

\* Everything is kept.
LEMMA KeepsAll ==
  ASSUME NEW D, NEW s \in Seq(D), NEW S, Range(s) \subseteq S
  PROVE  Kept(s, S) = s
<1>1. PICK n \in Nat : n = Len(s) /\ DOMAIN s = 1 .. n /\ s \in [1 .. n -> D]
  BY SeqFacts
<1>2. PICK f : KeptLoop(f, D, s, S)
  BY KeptInTurn
<1>3. /\ f[0] = <<>> /\ Kept(s, S) = f[n]
      /\ \A p \in 1 .. n : f[p] = IF s[p] \in S THEN Append(f[p - 1], s[p]) ELSE f[p - 1]
  BY <1>1, <1>2 DEF KeptLoop
<1>4. \A p \in 1 .. n : s[p] \in S
  BY <1>1 DEF Range
<1> DEFINE T == {p \in 0 .. n : f[p] = [j \in 1 .. p |-> s[j]]}
<1>5. 0 \in T
  <2>1. [j \in 1 .. 0 |-> s[j]] = <<>>
    OBVIOUS
  <2> QED BY <1>3, <2>1
<1>6. ASSUME NEW k \in 0 .. n - 1, k \in T PROVE k + 1 \in T
  <2>1. PICK p \in 1 .. n : p = k + 1 /\ p - 1 = k /\ p \in 0 .. n
    OBVIOUS
  <2>2. f[p] = Append(f[k], s[p])
    BY <1>3, <1>4, <2>1
  <2>3. Append([j \in 1 .. k |-> s[j]], s[k + 1]) = [j \in 1 .. k + 1 |-> s[j]]
    BY <1>1, PrefixGrows
  <2> QED BY <1>6, <2>1, <2>2, <2>3
<1>7. n \in T
  <2> HIDE DEF T
  <2>1. \A p \in 0 .. n : p \in T
    BY <1>5, <1>6, SetInduction
  <2>2. n \in 0 .. n
    OBVIOUS
  <2> QED BY <2>1, <2>2
<1>8. [j \in 1 .. n |-> s[j]] = s
  BY <1>1
<1> QED BY <1>3, <1>7, <1>8

\* One element is left out.
LEMMA KeepsOthers ==
  ASSUME NEW D, NEW s \in Seq(D), NEW S, NEW k \in 1 .. Len(s),
         \A i \in 1 .. Len(s) : s[i] \in S <=> i # k
  PROVE  Kept(s, S) = [i \in 1 .. Len(s) - 1 |-> IF i < k THEN s[i] ELSE s[i + 1]]
<1>1. PICK n \in Nat : n = Len(s) /\ DOMAIN s = 1 .. n /\ s \in [1 .. n -> D]
  BY SeqFacts
<1>2. PICK f : KeptLoop(f, D, s, S)
  BY KeptInTurn
<1>3. /\ f[0] = <<>> /\ Kept(s, S) = f[n]
      /\ \A p \in 1 .. n : f[p] = IF s[p] \in S THEN Append(f[p - 1], s[p]) ELSE f[p - 1]
  BY <1>1, <1>2 DEF KeptLoop
<1>4. PICK r : r = [i \in 1 .. n - 1 |-> IF i < k THEN s[i] ELSE s[i + 1]]
  OBVIOUS
<1>5. n - 1 \in Nat /\ k \in 1 .. n /\ r \in [1 .. n - 1 -> D]
  <2>1. \A i \in 1 .. n - 1 : (IF i < k THEN s[i] ELSE s[i + 1]) \in D
    BY <1>1
  <2> QED BY <1>1, <1>4, <2>1
<1> DEFINE Part(p) == IF p < k THEN [j \in 1 .. p |-> s[j]] ELSE [j \in 1 .. p - 1 |-> r[j]]
           T == {p \in 0 .. n : f[p] = Part(p)}
<1>6. 0 \in T
  <2>1. [j \in 1 .. 0 |-> s[j]] = <<>>
    OBVIOUS
  <2>2. 0 < k /\ 0 \in 0 .. n
    BY <1>1, <1>5
  <2> QED BY <1>3, <2>1, <2>2
<1>7. ASSUME NEW q \in 0 .. n - 1, q \in T PROVE q + 1 \in T
  <2>1. PICK p \in 1 .. n : p = q + 1 /\ p - 1 = q /\ p \in 0 .. n
    OBVIOUS
  <2>2. f[q] = Part(q)
    BY <1>7
  <2>3. f[p] = IF p # k THEN Append(f[q], s[p]) ELSE f[q]
    BY <1>1, <1>3, <2>1
  <2>4. CASE p < k
    <3>1. Part(q) = [j \in 1 .. q |-> s[j]] /\ Part(p) = [j \in 1 .. p |-> s[j]]
      BY <1>5, <2>1, <2>4
    <3>2. Append([j \in 1 .. q |-> s[j]], s[q + 1]) = [j \in 1 .. q + 1 |-> s[j]]
      BY <1>1, PrefixGrows
    <3>3. p # k
      BY <1>5, <2>4
    <3> HIDE DEF Part
    <3>4. f[p] = Part(p)
      BY <2>1, <2>2, <2>3, <3>1, <3>2, <3>3
    <3> QED BY <2>1, <3>4
  <2>5. CASE p = k
    <3>1. \A j \in 1 .. q : r[j] = s[j]
      BY <1>4, <1>5, <2>1, <2>5
    <3>2. Part(q) = [j \in 1 .. q |-> s[j]] /\ Part(p) = [j \in 1 .. q |-> r[j]]
      BY <1>5, <2>1, <2>5
    <3>3. [j \in 1 .. q |-> s[j]] = [j \in 1 .. q |-> r[j]]
      BY <3>1
    <3> HIDE DEF Part
    <3>4. f[p] = Part(p)
      BY <2>2, <2>3, <2>5, <3>2, <3>3
    <3> QED BY <2>1, <3>4
  <2>6. CASE p > k
    <3>1. PICK c \in 0 .. (n - 1) - 1 : c = q - 1 /\ c + 1 = q
      BY <1>5, <2>1, <2>6
    <3>2. Part(q) = [j \in 1 .. c |-> r[j]] /\ Part(p) = [j \in 1 .. c + 1 |-> r[j]]
      BY <1>5, <2>1, <2>6, <3>1
    <3>3. Append([j \in 1 .. c |-> r[j]], r[c + 1]) = [j \in 1 .. c + 1 |-> r[j]]
      BY <1>5, <3>1, PrefixGrows
    <3>4. r[q] = s[p] /\ p # k
      BY <1>4, <1>5, <2>1, <2>6, <3>1
    <3> HIDE DEF Part
    <3>5. f[p] = Part(p)
      BY <2>2, <2>3, <3>1, <3>2, <3>3, <3>4
    <3> QED BY <2>1, <3>5
  <2> HIDE DEF T
  <2> QED BY <1>5, <2>1, <2>4, <2>5, <2>6
<1>8. n \in T
  <2> HIDE DEF T
  <2>1. \A p \in 0 .. n : p \in T
    BY <1>6, <1>7, SetInduction
  <2>2. n \in 0 .. n
    OBVIOUS
  <2> QED BY <2>1, <2>2
<1>9. Part(n) = r
  <2>1. ~ (n < k) /\ r = [j \in 1 .. n - 1 |-> r[j]]
    BY <1>5
  <2> QED BY <2>1
<1> HIDE DEF Part
<1> QED BY <1>1, <1>3, <1>4, <1>8, <1>9

-----------------------------------------------------------------------------
(* Lists.  The nodes of a list in their order, from the head to the tail:  *)
(* each is linked to the one before and to the one after it.               *)

Addresses == Nat \ {NULL}

Node == [data : Nat, prev : Nat, next : Nat]

Lists ==
  [head : Nat, tail : Nat, count : Nat, nodes : UNION {[D -> Node] : D \in SUBSET Addresses}]

Ordered(l, o) ==
  LET n == l.count
  IN /\ o \in [1 .. n -> DOMAIN l.nodes]
     /\ \A a \in DOMAIN l.nodes : \E i \in 1 .. n : o[i] = a
     /\ \A i, j \in 1 .. n : o[i] = o[j] => i = j
     /\ l.head = IF n = 0 THEN NULL ELSE o[1]
     /\ l.tail = IF n = 0 THEN NULL ELSE o[n]
     /\ \A i \in 1 .. n :
          /\ l.nodes[o[i]].prev = IF i = 1 THEN NULL ELSE o[i - 1]
          /\ l.nodes[o[i]].next = IF i = n THEN NULL ELSE o[i + 1]

Linked == {l \in Lists : \E o \in [1 .. l.count -> Addresses] : Ordered(l, o)}

LEMMA ListFacts ==
  ASSUME NEW l \in Lists
  PROVE  /\ l.count \in Nat /\ l.head \in Nat /\ l.tail \in Nat
         /\ DOMAIN l.nodes \subseteq Addresses
         /\ l.nodes \in [DOMAIN l.nodes -> Node]
         /\ l = [head |-> l.head, tail |-> l.tail, count |-> l.count, nodes |-> l.nodes]
  BY DEF Lists

LEMMA ListsAre ==
  ASSUME NEW h \in Nat, NEW t \in Nat, NEW n \in Nat, NEW D \in SUBSET Addresses,
         NEW f \in [D -> Node]
  PROVE  /\ [head |-> h, tail |-> t, count |-> n, nodes |-> f] \in Lists
  BY DEF Lists

\* As many nodes as the list counts.
LEMMA NodesCounted ==
  ASSUME NEW l \in Lists, NEW o, Ordered(l, o)
  PROVE  /\ IsFiniteSet(DOMAIN l.nodes) /\ Cardinality(DOMAIN l.nodes) = l.count
<1>1. IsFiniteSet(1 .. l.count) /\ Cardinality(1 .. l.count) = l.count
  <2>1. PICK n \in Nat : n = l.count
    BY ListFacts
  <2>2. IsFiniteSet(1 .. n) /\ Cardinality(1 .. n) = n
    BY FS_Interval
  <2> QED BY <2>1, <2>2
<1>2. o \in Bijection(1 .. l.count, DOMAIN l.nodes)
  BY DEF Ordered, Bijection, Injection, Surjection, IsInjective
<1>3. ExistsBijection(1 .. l.count, DOMAIN l.nodes)
  BY <1>2 DEF ExistsBijection
<1> QED BY <1>1, <1>3, FS_Bijection

\* malloc returns an address.
LEMMA NewAddressIsFree ==
  ASSUME NEW l \in Lists, NEW o, Ordered(l, o)
  PROVE  NewAddress(l) \in Addresses /\ NewAddress(l) \notin DOMAIN l.nodes
<1> DEFINE D == DOMAIN l.nodes
           n == Cardinality(D)
<1>1. IsFiniteSet(D) /\ n = l.count /\ n \in Nat
  BY NodesCounted, ListFacts
<1>2. \E a \in 1 .. n + 1 : a \notin D
  <2> SUFFICES ASSUME 1 .. n + 1 \subseteq D PROVE FALSE
    OBVIOUS
  <2> HIDE DEF D, n
  <2>1. Cardinality(1 .. n + 1) = n + 1
    <3>1. 1 \in Int /\ n + 1 \in Int /\ ~ (1 > n + 1) /\ n + 1 - 1 + 1 = n + 1 BY <1>1
    <3> QED BY <3>1, FS_Interval
  <2>2. Cardinality(1 .. n + 1) <= Cardinality(D)
    BY <1>1, FS_Subset
  <2> QED BY <1>1, <2>1, <2>2 DEF n
<1>3. NewAddress(l) \in 1 .. n + 1 /\ NewAddress(l) \notin D
  BY <1>2 DEF NewAddress
<1> QED BY <1>1, <1>3 DEF Addresses, NULL

\* The order of a list to which a node was pushed.
Longer(o, n, a) == [i \in 1 .. n + 1 |-> IF i = n + 1 THEN a ELSE o[i]]

\* list_push_back links the new node behind the last one.
LEMMA PushBackOrdered ==
  ASSUME NEW l \in Lists, NEW o, Ordered(l, o), NEW d \in Nat
  PROVE  /\ PushBack(l, d) \in Lists
         /\ PushBack(l, d).count = l.count + 1
         /\ DOMAIN PushBack(l, d).nodes = DOMAIN l.nodes \cup {NewAddress(l)}
         /\ \A b \in DOMAIN l.nodes : PushBack(l, d).nodes[b].data = l.nodes[b].data
         /\ PushBack(l, d).nodes[NewAddress(l)].data = d
         /\ Ordered(PushBack(l, d), Longer(o, l.count, NewAddress(l)))
<1>1. PICK a \in Addresses : a = NewAddress(l) /\ a \notin DOMAIN l.nodes
  BY NewAddressIsFree
<1>2. PICK n \in Nat : n = l.count
  BY ListFacts
<1>3. PICK D \in SUBSET Addresses : D = DOMAIN l.nodes /\ l.nodes \in [D -> Node]
  BY ListFacts
<1>4. /\ o \in [1 .. n -> D] /\ (\A b \in D : \E i \in 1 .. n : o[i] = b)
      /\ (\A i, j \in 1 .. n : o[i] = o[j] => i = j)
      /\ l.head = IF n = 0 THEN NULL ELSE o[1]
      /\ l.tail = IF n = 0 THEN NULL ELSE o[n]
      /\ \A i \in 1 .. n :
          /\ l.nodes[o[i]].prev = IF i = 1 THEN NULL ELSE o[i - 1]
          /\ l.nodes[o[i]].next = IF i = n THEN NULL ELSE o[i + 1]
  BY <1>2, <1>3 DEF Ordered
<1>5. PICK f : f = PushBack(l, d).nodes
  OBVIOUS
<1>6. /\ f \in [D \cup {a} -> Node]
      /\ PushBack(l, d) = [head |-> IF n = 0 THEN a ELSE o[1], tail |-> a, count |-> n + 1,
                           nodes |-> f]
      /\ f[a] = [data |-> d, prev |-> IF n = 0 THEN NULL ELSE o[n], next |-> NULL]
      /\ \A b \in D : f[b] = [data |-> l.nodes[b].data, prev |-> l.nodes[b].prev,
                              next |-> IF b = l.tail THEN a ELSE l.nodes[b].next]
  <2>1. PICK new : new = [data |-> d, prev |-> l.tail, next |-> NULL]
    OBVIOUS
  <2>0. new \in Node
    BY <2>1, ListFacts DEF Node, NULL
  <2>2. CASE n = 0
    <3>1. D = {}
      BY <1>4, <2>2
    <3>2. new = [data |-> d, prev |-> NULL, next |-> NULL]
      BY <1>4, <2>1, <2>2
    <3>3. PushBack(l, d) = [head |-> a, tail |-> a, count |-> 1, nodes |-> Store(l.nodes, a, new)]
      BY <1>1, <1>2, <2>2, <3>2 DEF PushBack
    <3>4. f = Store(l.nodes, a, new)
      BY <1>5, <3>3
    <3>5. f = [b \in {a} |-> new]
      BY <1>3, <3>1, <3>4 DEF Store
    <3>6. n + 1 = 1 BY <2>2
    <3> QED
      BY <2>0, <2>2, <3>1, <3>2, <3>3, <3>4, <3>5, <3>6
  <2>3. CASE n # 0
    <3>1. n \in 1 .. n /\ l.tail = o[n] /\ o[n] \in D /\ l.tail # a
      BY <1>1, <1>3, <1>4, <2>3
    <3>2. PICK heap : heap = Store(l.nodes, a, new)
      OBVIOUS
    <3>3. heap = [b \in D \cup {a} |-> IF b = a THEN new ELSE l.nodes[b]]
      BY <1>3, <3>2 DEF Store
    <3>4. PushBack(l, d) = [l EXCEPT !.tail = a, !.count = @ + 1,
                                     !.nodes = [heap EXCEPT ![l.tail].next = a]]
      BY <1>1, <1>2, <2>1, <2>3, <3>2 DEF PushBack
    <3>5. f = [heap EXCEPT ![l.tail].next = a]
      BY <1>5, <3>4, ListFacts
    <3>6. PushBack(l, d) = [head |-> l.head, tail |-> a, count |-> n + 1, nodes |-> f]
      BY <1>2, <3>4, <3>5 DEF Lists
    <3>7. heap \in [D \cup {a} -> Node]
      BY <1>3, <2>0, <3>3
    <3>8. f = [b \in D \cup {a} |-> IF b = l.tail THEN [heap[b] EXCEPT !.next = a] ELSE heap[b]]
      BY <3>1, <3>5, <3>7
    <3>9. \A b \in D \cup {a} : [heap[b] EXCEPT !.next = a]
                = [data |-> heap[b].data, prev |-> heap[b].prev, next |-> a]
      BY <3>7 DEF Node
    <3>10. f \in [D \cup {a} -> Node]
      BY <1>1, <3>7, <3>8, <3>9 DEF Node, Addresses
    <3>11. f[a] = new
      BY <3>1, <3>3, <3>8
    <3>12. ASSUME NEW b \in D
           PROVE  f[b] = [data |-> l.nodes[b].data, prev |-> l.nodes[b].prev,
                              next |-> IF b = l.tail THEN a ELSE l.nodes[b].next]
      <4>1. heap[b] = l.nodes[b] /\ l.nodes[b] \in Node
        BY <1>1, <1>3, <3>3
      <4> QED BY <3>8, <3>9, <4>1 DEF Node
    <3> QED
      BY <1>4, <2>1, <2>3, <3>1, <3>6, <3>10, <3>11, <3>12
  <2> QED BY <2>2, <2>3
<1>7. PICK p : p = Longer(o, n, a)
  OBVIOUS
<1>8. /\ \A i \in 1 .. n : p[i] = o[i] /\ p[i] \in D /\ i \in 1 .. n + 1 /\ i # n + 1
      /\ p[n + 1] = a /\ n + 1 \in 1 .. n + 1
      /\ p \in [1 .. n + 1 -> D \cup {a}]
  BY <1>4, <1>7 DEF Longer
<1>9. \A i \in 1 .. n + 1 : i = n + 1 \/ i \in 1 .. n
  OBVIOUS
<1>10. Ordered(PushBack(l, d), p)
  <2> DEFINE m == PushBack(l, d)
  <2>1. m.count = n + 1 /\ m.nodes = f /\ m.tail = a /\ m.head = IF n = 0 THEN a ELSE o[1]
    BY <1>6
  <2>2. DOMAIN f = D \cup {a}
    BY <1>6
  <2>3. \A b \in D \cup {a} : \E i \in 1 .. n + 1 : p[i] = b
    BY <1>4, <1>8
  <2>4. \A i, j \in 1 .. n + 1 : p[i] = p[j] => i = j
    BY <1>1, <1>3, <1>4, <1>8, <1>9
  <2>5. m.head = p[1] /\ n + 1 # 0
    <3>1. CASE n = 0 BY <1>8, <2>1, <3>1
    <3>2. CASE n # 0
      <4>1. 1 \in 1 .. n BY <3>2
      <4> QED BY <1>8, <2>1, <3>2, <4>1
    <3> QED BY <3>1, <3>2
  <2>6. ASSUME NEW i \in 1 .. n
        PROVE  /\ f[p[i]].prev = IF i = 1 THEN NULL ELSE p[i - 1]
               /\ f[p[i]].next = IF i = n + 1 THEN NULL ELSE p[i + 1]
    <3>1. /\ f[p[i]].prev = l.nodes[o[i]].prev
          /\ f[p[i]].next = IF o[i] = l.tail THEN a ELSE l.nodes[o[i]].next
      BY <1>6, <1>8
    <3>2. i # 1 => i - 1 \in 1 .. n
      OBVIOUS
    <3>3. i # n => i + 1 \in 1 .. n
      OBVIOUS
    <3>4. n \in 1 .. n /\ l.tail = o[n]
      BY <1>4
    <3>5. CASE i = n
      BY <1>4, <1>8, <3>1, <3>2, <3>4, <3>5
    <3>6. CASE i # n
      <4>1. o[i] # l.tail
        BY <1>4, <3>4, <3>6
      <4> QED BY <1>4, <1>8, <3>1, <3>2, <3>3, <3>6, <4>1
    <3> QED BY <3>5, <3>6
  <2>7. /\ f[p[n + 1]].prev = IF n + 1 = 1 THEN NULL ELSE p[n + 1 - 1]
        /\ f[p[n + 1]].next = NULL
    <3>1. f[p[n + 1]].prev = IF n = 0 THEN NULL ELSE o[n]
      BY <1>6, <1>8
    <3>2. n # 0 => n \in 1 .. n
      OBVIOUS
    <3>3. n + 1 - 1 = n /\ (n + 1 = 1 <=> n = 0)
      OBVIOUS
    <3> QED BY <1>6, <1>8, <3>1, <3>2, <3>3
  <2>8. \A i \in 1 .. n + 1 :
          /\ f[p[i]].prev = IF i = 1 THEN NULL ELSE p[i - 1]
          /\ f[p[i]].next = IF i = n + 1 THEN NULL ELSE p[i + 1]
    BY <1>9, <2>6, <2>7
  <2> HIDE DEF m
  <2>9. m.head = (IF m.count = 0 THEN NULL ELSE p[1]) /\ m.tail = (IF m.count = 0 THEN NULL ELSE p[m.count])
    BY <1>8, <2>1, <2>5
  <2>10. p \in [1 .. m.count -> DOMAIN m.nodes]
    BY <1>8, <2>1, <2>2
  <2>11. Ordered(m, p)
    BY <2>1, <2>2, <2>3, <2>4, <2>8, <2>9, <2>10 DEF Ordered
  <2> QED BY <2>11 DEF m
<1>11. PushBack(l, d) \in Lists
  <2>1. D \cup {a} \in SUBSET Addresses /\ a \in Nat /\ n + 1 \in Nat
    BY <1>1, <1>2, <1>3 DEF Addresses
  <2>2. (IF n = 0 THEN a ELSE o[1]) \in Nat
    <3>1. n # 0 => 1 \in 1 .. n OBVIOUS
    <3> QED BY <1>3, <1>4, <2>1, <3>1 DEF Addresses
  <2>3. f \in [D \cup {a} -> Node]
    BY <1>6
  <2>4. [head |-> IF n = 0 THEN a ELSE o[1], tail |-> a, count |-> n + 1, nodes |-> f] \in Lists
    BY <2>1, <2>2, <2>3, ListsAre
  <2> QED BY <1>6, <2>4
<1>12. PushBack(l, d).count = n + 1
  BY <1>6
<1>13. /\ DOMAIN f = D \cup {a}
       /\ \A b \in D : f[b].data = l.nodes[b].data
       /\ f[a].data = d
  BY <1>6
<1> QED
  BY <1>1, <1>2, <1>3, <1>5, <1>7, <1>10, <1>11, <1>12, <1>13

\* The order of a list that lost its k-th node.
Shorter(o, n, k) == [i \in 1 .. n - 1 |-> IF i < k THEN o[i] ELSE o[i + 1]]

\* remove_node_from_list links the nodes around the one it frees, be it the head, the
\* tail or a node between.
LEMMA RemoveNodeUnlinks ==
  ASSUME NEW l \in Lists, NEW o, Ordered(l, o), NEW k \in 1 .. l.count, NEW m, NEW a,
         m = RemoveNode(l, a), a = o[k]
  PROVE  /\ m = [head |-> IF k = 1 THEN l.nodes[a].next ELSE l.head,
                 tail |-> IF k = l.count THEN l.nodes[a].prev ELSE l.tail,
                 count |-> l.count - 1, nodes |-> m.nodes]
         /\ m.nodes \in [DOMAIN l.nodes \ {a} -> Node]
         /\ \A b \in DOMAIN l.nodes \ {a} :
              m.nodes[b] =
                [data |-> l.nodes[b].data,
                 prev |-> IF b = l.nodes[a].next THEN l.nodes[a].prev ELSE l.nodes[b].prev,
                 next |-> IF b = l.nodes[a].prev THEN l.nodes[a].next ELSE l.nodes[b].next]
<1>1. PICK n \in Nat : n = l.count
  BY ListFacts
<1>2. PICK D \in SUBSET Addresses : D = DOMAIN l.nodes /\ l.nodes \in [D -> Node]
  BY ListFacts
<1>3. /\ k \in 1 .. n /\ o[k] = a /\ a \in D
      /\ l.nodes[a].prev = IF k = 1 THEN NULL ELSE o[k - 1]
      /\ l.nodes[a].next = IF k = n THEN NULL ELSE o[k + 1]
      /\ l.head = o[1] /\ l.tail = o[n]
      /\ (k = 1 <=> a = l.head) /\ (k = n <=> a = l.tail)
  <2>1. n # 0 /\ 1 \in 1 .. n /\ n \in 1 .. n BY <1>1
  <2> QED BY <1>1, <1>2, <2>1 DEF Ordered
<1>4. PICK p, q : p = l.nodes[a].prev /\ q = l.nodes[a].next
  OBVIOUS
<1>5. /\ k = 1 => p = NULL
      /\ k # 1 => p \in D /\ p # a /\ p # NULL
      /\ k = n => q = NULL
      /\ k # n => q \in D /\ q # a /\ q # NULL
      /\ k # 1 /\ k # n => p # q
  <2>1. k # 1 => k - 1 \in 1 .. n /\ k - 1 # k BY <1>3
  <2>2. k # n => k + 1 \in 1 .. n /\ k + 1 # k BY <1>1, <1>3
  <2>3. k + 1 # k - 1 BY <1>3
  <2>4. \A i \in 1 .. n : o[i] \in D /\ o[i] # NULL
    BY <1>1, <1>2 DEF Ordered, Addresses
  <2>5. \A i, j \in 1 .. n : o[i] = o[j] => i = j
    BY <1>1 DEF Ordered
  <2> QED BY <1>3, <1>4, <2>1, <2>2, <2>3, <2>4, <2>5
<1>6. PICK f : f = m.nodes
  OBVIOUS
<1>7. PICK g : g = [b \in D \ {a} |->
                  [data |-> l.nodes[b].data,
                   prev |-> IF b = q THEN p ELSE l.nodes[b].prev,
                   next |-> IF b = p THEN q ELSE l.nodes[b].next]]
  OBVIOUS
<1>8. \A b \in D : l.nodes[b] = [data |-> l.nodes[b].data, prev |-> l.nodes[b].prev,
                                 next |-> l.nodes[b].next]
  BY <1>2 DEF Node
<1>9. /\ m = [head |-> IF k = 1 THEN q ELSE l.head, tail |-> IF k = n THEN p ELSE l.tail,
              count |-> n - 1, nodes |-> g]
  <2>1. CASE k = 1 /\ k = n
    <3>1. m = [[l EXCEPT !.head = NULL, !.tail = NULL] EXCEPT !.count = @ - 1, !.nodes = Without(@, a)]
      BY <1>3, <1>4, <1>5, <2>1 DEF RemoveNode
    <3>2. m = [head |-> NULL, tail |-> NULL, count |-> n - 1, nodes |-> Without(l.nodes, a)]
      BY <1>1, <3>1 DEF Lists
    <3>3. Without(l.nodes, a) = [b \in D \ {a} |-> l.nodes[b]]
      BY <1>2 DEF Without
    <3>4. \A b \in D : b # p /\ b # q
      BY <1>2, <1>5, <2>1 DEF Addresses
    <3>5. Without(l.nodes, a) = g
      BY <1>7, <1>8, <3>3, <3>4
    <3> QED BY <1>5, <2>1, <3>2, <3>5
  <2>2. CASE k = 1 /\ k # n
    <3>1. PICK h : h = [l.nodes EXCEPT ![q].prev = NULL]
      OBVIOUS
    <3>2. m = [[l EXCEPT !.head = q, !.nodes = h] EXCEPT !.count = @ - 1, !.nodes = Without(@, a)]
      <4>1. [l EXCEPT !.head = q, !.nodes[q].prev = NULL] = [l EXCEPT !.head = q, !.nodes = h]
        BY <3>1 DEF Lists
      <4> QED BY <1>3, <1>4, <1>5, <2>2, <4>1 DEF RemoveNode
    <3>3. m = [head |-> q, tail |-> l.tail, count |-> n - 1, nodes |-> Without(h, a)]
      BY <1>1, <3>2 DEF Lists
    <3>4. h = [b \in D |-> IF b = q THEN [l.nodes[b] EXCEPT !.prev = NULL] ELSE l.nodes[b]]
      BY <1>2, <1>5, <2>2, <3>1
    <3>5. Without(h, a) = [b \in D \ {a} |-> h[b]]
      BY <3>4 DEF Without
    <3>6. \A b \in D : b # p
      BY <1>2, <1>5, <2>2 DEF Addresses
    <3>7. \A b \in D : [l.nodes[b] EXCEPT !.prev = NULL]
             = [data |-> l.nodes[b].data, prev |-> NULL, next |-> l.nodes[b].next]
      BY <1>2 DEF Node
    <3>8. ASSUME NEW b \in D \ {a} PROVE h[b] = g[b]
      BY <1>5, <1>7, <1>8, <2>2, <3>4, <3>6, <3>7
    <3>9. Without(h, a) = g
      BY <1>7, <3>5, <3>8
    <3> QED BY <2>2, <3>3, <3>9
  <2>3. CASE k # 1 /\ k = n
    <3>1. PICK h : h = [l.nodes EXCEPT ![p].next = NULL]
      OBVIOUS
    <3>2. m = [[l EXCEPT !.tail = p, !.nodes = h] EXCEPT !.count = @ - 1, !.nodes = Without(@, a)]
      <4>1. [l EXCEPT !.tail = p, !.nodes[p].next = NULL] = [l EXCEPT !.tail = p, !.nodes = h]
        BY <3>1 DEF Lists
      <4> QED BY <1>3, <1>4, <1>5, <2>3, <4>1 DEF RemoveNode
    <3>3. m = [head |-> l.head, tail |-> p, count |-> n - 1, nodes |-> Without(h, a)]
      BY <1>1, <3>2 DEF Lists
    <3>4. h = [b \in D |-> IF b = p THEN [l.nodes[b] EXCEPT !.next = NULL] ELSE l.nodes[b]]
      BY <1>2, <1>5, <2>3, <3>1
    <3>5. Without(h, a) = [b \in D \ {a} |-> h[b]]
      BY <3>4 DEF Without
    <3>6. \A b \in D : b # q
      BY <1>2, <1>5, <2>3 DEF Addresses
    <3>7. \A b \in D : [l.nodes[b] EXCEPT !.next = NULL]
             = [data |-> l.nodes[b].data, prev |-> l.nodes[b].prev, next |-> NULL]
      BY <1>2 DEF Node
    <3>8. ASSUME NEW b \in D \ {a} PROVE h[b] = g[b]
      BY <1>5, <1>7, <1>8, <2>3, <3>4, <3>6, <3>7
    <3>9. Without(h, a) = g
      BY <1>7, <3>5, <3>8
    <3> QED BY <2>3, <3>3, <3>9
  <2>4. CASE k # 1 /\ k # n
    <3>1. PICK h0 : h0 = [l.nodes EXCEPT ![p].next = q]
      OBVIOUS
    <3>10. PICK h : h = [h0 EXCEPT ![q].prev = p]
      OBVIOUS
    <3>2. m = [[l EXCEPT !.nodes = h] EXCEPT !.count = @ - 1, !.nodes = Without(@, a)]
      <4>1. [l EXCEPT !.nodes[p].next = q, !.nodes[q].prev = p] = [l EXCEPT !.nodes = h]
        BY <3>1, <3>10 DEF Lists
      <4> QED BY <1>3, <1>4, <1>5, <2>4, <4>1 DEF RemoveNode
    <3>3. m = [head |-> l.head, tail |-> l.tail, count |-> n - 1, nodes |-> Without(h, a)]
      BY <1>1, <3>2 DEF Lists
    <3>4. h0 = [b \in D |-> IF b = p THEN [l.nodes[b] EXCEPT !.next = q] ELSE l.nodes[b]]
      BY <1>2, <1>5, <2>4, <3>1
    <3>11. h = [b \in D |-> IF b = q THEN [h0[b] EXCEPT !.prev = p] ELSE h0[b]]
      BY <1>2, <1>5, <2>4, <3>4, <3>10
    <3>5. Without(h, a) = [b \in D \ {a} |-> h[b]]
      BY <3>11 DEF Without
    <3>7. \A b \in D : /\ [l.nodes[b] EXCEPT !.next = q]
                           = [data |-> l.nodes[b].data, prev |-> l.nodes[b].prev, next |-> q]
                       /\ [l.nodes[b] EXCEPT !.prev = p]
                           = [data |-> l.nodes[b].data, prev |-> p, next |-> l.nodes[b].next]
      BY <1>2 DEF Node
    <3>8. ASSUME NEW b \in D \ {a} PROVE h[b] = g[b]
      <4>1. CASE b = q
        <5>1. h0[b] = l.nodes[b]
          BY <1>5, <2>4, <3>4, <4>1
        <5>2. h[b] = [data |-> l.nodes[b].data, prev |-> p, next |-> l.nodes[b].next]
          BY <3>7, <3>11, <4>1, <5>1
        <5>3. b # p BY <1>5, <2>4, <4>1
        <5> QED BY <1>7, <4>1, <5>2, <5>3
      <4>2. CASE b # q
        <5>1. h[b] = h0[b]
          BY <3>11, <4>2
        <5>2. b = p => h0[b] = [data |-> l.nodes[b].data, prev |-> l.nodes[b].prev, next |-> q]
          BY <3>4, <3>7
        <5>3. b # p => h0[b] = l.nodes[b]
          BY <3>4
        <5> QED BY <1>7, <1>8, <4>2, <5>1, <5>2, <5>3
      <4> QED BY <4>1, <4>2
    <3>9. Without(h, a) = g
      BY <1>7, <3>5, <3>8
    <3> QED BY <2>4, <3>3, <3>9
  <2> QED BY <2>1, <2>2, <2>3, <2>4
<1>10. f = g
  BY <1>6, <1>9
<1>11. g \in [D \ {a} -> Node]
  <2>1. p \in Nat /\ q \in Nat
    BY <1>2, <1>3, <1>4 DEF Node
  <2>2. \A b \in D : l.nodes[b].data \in Nat /\ l.nodes[b].prev \in Nat /\ l.nodes[b].next \in Nat
    BY <1>2 DEF Node
  <2> QED BY <1>7, <2>1, <2>2 DEF Node
<1>12. \A b \in D \ {a} : g[b] = [data |-> l.nodes[b].data,
                   prev |-> IF b = q THEN p ELSE l.nodes[b].prev,
                   next |-> IF b = p THEN q ELSE l.nodes[b].next]
  BY <1>7
<1>13. f = m.nodes
  BY <1>6
<1> QED
  BY <1>1, <1>2, <1>4, <1>9, <1>10, <1>11, <1>12, <1>13

LEMMA RemoveNodeOrdered ==
  ASSUME NEW l \in Lists, NEW o, Ordered(l, o), NEW k \in 1 .. l.count
  PROVE  /\ RemoveNode(l, o[k]) \in Lists
         /\ RemoveNode(l, o[k]).count = l.count - 1
         /\ DOMAIN RemoveNode(l, o[k]).nodes = DOMAIN l.nodes \ {o[k]}
         /\ \A b \in DOMAIN l.nodes \ {o[k]} :
              RemoveNode(l, o[k]).nodes[b].data = l.nodes[b].data
         /\ Ordered(RemoveNode(l, o[k]), Shorter(o, l.count, k))
<1>1. PICK n \in Nat : n = l.count
  BY ListFacts
<1>2. PICK D \in SUBSET Addresses : D = DOMAIN l.nodes /\ l.nodes \in [D -> Node]
  BY ListFacts
<1>3. PICK a, m : a = o[k] /\ m = RemoveNode(l, a)
  OBVIOUS
<1>4. /\ o \in [1 .. n -> D] /\ (\A b \in D : \E i \in 1 .. n : o[i] = b)
      /\ (\A i, j \in 1 .. n : o[i] = o[j] => i = j)
      /\ k \in 1 .. n /\ a \in D
      /\ l.head = o[1] /\ l.tail = o[n]
      /\ \A i \in 1 .. n :
          /\ l.nodes[o[i]].prev = IF i = 1 THEN NULL ELSE o[i - 1]
          /\ l.nodes[o[i]].next = IF i = n THEN NULL ELSE o[i + 1]
  BY <1>1, <1>2, <1>3 DEF Ordered
<1>5. PICK p, q : p = l.nodes[a].prev /\ q = l.nodes[a].next
  OBVIOUS
<1>6. /\ m = [head |-> IF k = 1 THEN q ELSE l.head, tail |-> IF k = n THEN p ELSE l.tail,
              count |-> n - 1, nodes |-> m.nodes]
      /\ m.nodes \in [D \ {a} -> Node]
      /\ \A b \in D \ {a} :
           m.nodes[b] = [data |-> l.nodes[b].data,
                         prev |-> IF b = q THEN p ELSE l.nodes[b].prev,
                         next |-> IF b = p THEN q ELSE l.nodes[b].next]
  <2>1. /\ m = [head |-> IF k = 1 THEN l.nodes[a].next ELSE l.head,
                 tail |-> IF k = l.count THEN l.nodes[a].prev ELSE l.tail,
                 count |-> l.count - 1, nodes |-> m.nodes]
        /\ m.nodes \in [DOMAIN l.nodes \ {a} -> Node]
        /\ \A b \in DOMAIN l.nodes \ {a} :
             m.nodes[b] =
               [data |-> l.nodes[b].data,
                prev |-> IF b = l.nodes[a].next THEN l.nodes[a].prev ELSE l.nodes[b].prev,
                next |-> IF b = l.nodes[a].prev THEN l.nodes[a].next ELSE l.nodes[b].next]
    BY <1>3, RemoveNodeUnlinks
  <2> QED BY <1>1, <1>2, <1>5, <2>1
<1>7. /\ p = IF k = 1 THEN NULL ELSE o[k - 1]
      /\ q = IF k = n THEN NULL ELSE o[k + 1]
  BY <1>3, <1>4, <1>5
<1>8. PICK f : f = m.nodes
  OBVIOUS
<1>9. m.head = (IF k = 1 THEN q ELSE l.head) /\ m.tail = (IF k = n THEN p ELSE l.tail)
      /\ m.count = n - 1 /\ DOMAIN f = D \ {a}
  BY <1>6, <1>8
<1>10. m \in Lists
  <2>1. p \in Nat /\ q \in Nat
    BY <1>2, <1>4, <1>5 DEF Node
  <2>2. l.head \in Nat /\ l.tail \in Nat
    BY ListFacts
  <2>3. n - 1 \in Nat /\ D \ {a} \in SUBSET Addresses
    BY <1>2, <1>4
  <2>4. (IF k = 1 THEN q ELSE l.head) \in Nat /\ (IF k = n THEN p ELSE l.tail) \in Nat
    BY <2>1, <2>2
  <2>5. [head |-> IF k = 1 THEN q ELSE l.head, tail |-> IF k = n THEN p ELSE l.tail,
              count |-> n - 1, nodes |-> m.nodes] \in Lists
    BY <1>6, <2>3, <2>4, ListsAre
  <2> QED BY <1>6, <2>5
<1>11. PICK s : s = Shorter(o, n, k)
  OBVIOUS
<1>12. \A i \in 1 .. n - 1 : s[i] = IF i < k THEN o[i] ELSE o[i + 1]
  BY <1>11 DEF Shorter
<1>13. DOMAIN s = 1 .. n - 1 /\ s = [i \in 1 .. n - 1 |-> s[i]]
  BY <1>11 DEF Shorter
<1>19. \A b \in D \ {a} :
         /\ f[b].data = l.nodes[b].data
         /\ f[b].prev = IF b = q THEN p ELSE l.nodes[b].prev
         /\ f[b].next = IF b = p THEN q ELSE l.nodes[b].next
  <2> TAKE b \in D \ {a}
  <2>1. f[b] = [data |-> l.nodes[b].data,
                         prev |-> IF b = q THEN p ELSE l.nodes[b].prev,
                         next |-> IF b = p THEN q ELSE l.nodes[b].next]
    BY <1>6, <1>8
  <2> QED BY <2>1
\* The i-th node was the at[i]-th.
<1>14. PICK at : at = [i \in 1 .. n - 1 |-> IF i < k THEN i ELSE i + 1]
  OBVIOUS
<1>15. \A i \in 1 .. n - 1 : /\ at[i] \in 1 .. n /\ at[i] # k /\ s[i] = o[at[i]]
                             /\ at[i] = IF i < k THEN i ELSE i + 1
  <2> TAKE i \in 1 .. n - 1
  <2>1. at[i] = IF i < k THEN i ELSE i + 1 BY <1>14
  <2>2. CASE i < k
    <3>1. at[i] = i /\ i \in 1 .. n /\ i # k BY <1>4, <2>1, <2>2
    <3> QED BY <1>12, <2>1, <2>2, <3>1
  <2>3. CASE ~ (i < k)
    <3>1. at[i] = i + 1 /\ i + 1 \in 1 .. n /\ i + 1 # k BY <1>4, <2>1, <2>3
    <3> QED BY <1>12, <2>1, <2>3, <3>1
  <2> QED BY <2>2, <2>3
<1>16. \A i \in 1 .. n - 1 : s[i] \in D \ {a}
  <2> TAKE i \in 1 .. n - 1
  <2>1. at[i] \in 1 .. n /\ at[i] # k /\ s[i] = o[at[i]]
    BY <1>15
  <2>2. o[at[i]] # o[k]
    BY <1>4, <2>1
  <2> QED BY <1>3, <1>4, <2>1, <2>2
<1>17. Ordered(m, s)
  <2>1. s \in [1 .. n - 1 -> D \ {a}]
    BY <1>13, <1>16
  <2>2. ASSUME NEW b \in D \ {a} PROVE \E i \in 1 .. n - 1 : s[i] = b
    <3>1. PICK j \in 1 .. n : o[j] = b
      BY <1>4
    <3>2. j # k
      BY <1>3, <3>1
    <3>3. CASE j < k
      <4>1. j \in 1 .. n - 1 BY <1>4, <3>3
      <4> QED BY <1>12, <3>1, <3>3, <4>1
    <3>4. CASE ~ (j < k)
      <4>1. j - 1 \in 1 .. n - 1 /\ ~ (j - 1 < k) /\ j - 1 + 1 = j BY <1>4, <3>2, <3>4
      <4> QED BY <1>12, <3>1, <4>1
    <3> QED BY <3>3, <3>4
  <2>3. ASSUME NEW i \in 1 .. n - 1, NEW j \in 1 .. n - 1, s[i] = s[j] PROVE i = j
    <3>1. at[i] = at[j] BY <1>4, <1>15, <2>3
    <3>2. at[i] = (IF i < k THEN i ELSE i + 1) /\ at[j] = (IF j < k THEN j ELSE j + 1) BY <1>15
    <3>3. k \in Nat BY <1>4
    <3>4. (IF i < k THEN i ELSE i + 1) = (IF j < k THEN j ELSE j + 1) BY <3>1, <3>2
    <3> QED BY <3>3, <3>4
  <2>4. m.head = IF n - 1 = 0 THEN NULL ELSE s[1]
    <3>1. CASE n - 1 = 0
      <4>1. k = 1 /\ k = n BY <1>4, <3>1
      <4> QED BY <1>7, <1>9, <3>1, <4>1
    <3>2. CASE n - 1 # 0
      <4>1. 1 \in 1 .. n - 1 BY <1>4, <3>2
      <4>2. at[1] = IF k = 1 THEN 2 ELSE 1 BY <1>4, <1>15, <4>1
      <4>3. k = 1 => k # n /\ k + 1 = 2 BY <3>2
      <4> QED BY <1>4, <1>7, <1>9, <1>15, <3>2, <4>1, <4>2, <4>3
    <3> QED BY <3>1, <3>2
  <2>5. m.tail = IF n - 1 = 0 THEN NULL ELSE s[n - 1]
    <3>1. CASE n - 1 = 0
      <4>1. k = 1 /\ k = n BY <1>4, <3>1
      <4> QED BY <1>7, <1>9, <3>1, <4>1
    <3>2. CASE n - 1 # 0
      <4>1. n - 1 \in 1 .. n - 1 BY <1>4, <3>2
      <4>2. at[n - 1] = IF k = n THEN n - 1 ELSE n BY <1>4, <1>15, <4>1
      <4>3. k = n => k # 1 /\ k - 1 = n - 1 BY <3>2
      <4> QED BY <1>4, <1>7, <1>9, <1>15, <3>2, <4>1, <4>2, <4>3
    <3> QED BY <3>1, <3>2
  <2>6. ASSUME NEW i \in 1 .. n - 1
        PROVE  f[s[i]].prev = IF i = 1 THEN NULL ELSE s[i - 1]
    <3>1. f[s[i]].prev = IF s[i] = q THEN p ELSE l.nodes[s[i]].prev
      BY <1>16, <1>19
    <3>2. /\ at[i] \in 1 .. n /\ at[i] # k /\ s[i] = o[at[i]]
          /\ at[i] = IF i < k THEN i ELSE i + 1
      BY <1>15
    <3>3. CASE at[i] = k + 1
      <4>1. i = k /\ k # n BY <1>4, <3>2, <3>3
      <4>2. f[s[i]].prev = p
        BY <1>7, <3>1, <3>2, <3>3, <4>1
      <4>3. CASE i = 1 BY <1>7, <4>1, <4>2, <4>3
      <4>4. CASE i # 1
        <5>1. i - 1 \in 1 .. n - 1 /\ i - 1 < k BY <4>1, <4>4
        <5> QED BY <1>7, <1>12, <4>1, <4>2, <4>4, <5>1
      <4> QED BY <4>3, <4>4
    <3>4. CASE at[i] # k + 1
      <4>1. s[i] # q
        <5>1. CASE k = n
          <6>1. q = NULL /\ s[i] \in Addresses BY <1>2, <1>7, <1>16, <5>1
          <6> QED BY <6>1 DEF Addresses
        <5>2. CASE k # n
          <6>1. k + 1 \in 1 .. n BY <1>4, <5>2
          <6> QED BY <1>4, <1>7, <3>2, <3>4, <5>2, <6>1
        <5> QED BY <5>1, <5>2
      <4>2. f[s[i]].prev = IF at[i] = 1 THEN NULL ELSE o[at[i] - 1]
        BY <1>4, <3>1, <3>2, <4>1
      <4>3. CASE i < k
        <5>1. at[i] = i BY <3>2, <4>3
        <5>2. i # 1 => i - 1 \in 1 .. n - 1 /\ i - 1 < k BY <1>4, <4>3
        <5> QED BY <1>12, <4>2, <5>1, <5>2
      <4>4. CASE ~ (i < k)
        <5>1. at[i] = i + 1 /\ i + 1 # 1 /\ i # k /\ i + 1 - 1 = i BY <3>2, <3>4, <4>4
        <5>2. i # 1 /\ i - 1 \in 1 .. n - 1 /\ ~ (i - 1 < k) /\ i - 1 + 1 = i BY <1>4, <4>4, <5>1
        <5>3. f[s[i]].prev = o[i]
          BY <4>2, <5>1
        <5> QED BY <1>12, <5>2, <5>3
      <4> QED BY <4>3, <4>4
    <3> QED BY <3>3, <3>4
  <2>7. ASSUME NEW i \in 1 .. n - 1
        PROVE  f[s[i]].next = IF i = n - 1 THEN NULL ELSE s[i + 1]
    <3>1. f[s[i]].next = IF s[i] = p THEN q ELSE l.nodes[s[i]].next
      BY <1>16, <1>19
    <3>2. /\ at[i] \in 1 .. n /\ at[i] # k /\ s[i] = o[at[i]]
          /\ at[i] = IF i < k THEN i ELSE i + 1
      BY <1>15
    <3>3. CASE at[i] = k - 1
      <4>1. i = k - 1 /\ k # 1 BY <1>4, <3>2, <3>3
      <4>2. f[s[i]].next = q
        BY <1>7, <3>1, <3>2, <3>3, <4>1
      <4>3. CASE i = n - 1
        <5>1. k = n BY <1>4, <4>1, <4>3
        <5> QED BY <1>7, <4>2, <4>3, <5>1
      <4>4. CASE i # n - 1
        <5>1. i + 1 \in 1 .. n - 1 /\ ~ (i + 1 < k) /\ i + 1 + 1 = k + 1 /\ k # n BY <1>4, <4>1, <4>4
        <5> QED BY <1>7, <1>12, <4>2, <4>4, <5>1
      <4> QED BY <4>3, <4>4
    <3>4. CASE at[i] # k - 1
      <4>1. s[i] # p
        <5>1. CASE k = 1
          <6>1. p = NULL /\ s[i] \in Addresses BY <1>2, <1>7, <1>16, <5>1
          <6> QED BY <6>1 DEF Addresses
        <5>2. CASE k # 1
          <6>1. k - 1 \in 1 .. n BY <1>4, <5>2
          <6> QED BY <1>4, <1>7, <3>2, <3>4, <5>2, <6>1
        <5> QED BY <5>1, <5>2
      <4>2. f[s[i]].next = IF at[i] = n THEN NULL ELSE o[at[i] + 1]
        BY <1>4, <3>1, <3>2, <4>1
      <4>3. CASE i < k
        <5>1. at[i] = i BY <3>2, <4>3
        <5>2. i # n /\ i # n - 1 /\ i + 1 \in 1 .. n - 1 /\ i + 1 < k BY <1>4, <3>4, <4>3, <5>1
        <5> QED BY <1>12, <4>2, <5>1, <5>2
      <4>4. CASE ~ (i < k)
        <5>1. at[i] = i + 1 /\ (i + 1 = n <=> i = n - 1) BY <3>2, <4>4
        <5>2. i # n - 1 => i + 1 \in 1 .. n - 1 /\ ~ (i + 1 < k) BY <1>4, <4>4
        <5>3. f[s[i]].next = IF i + 1 = n THEN NULL ELSE o[i + 1 + 1]
          BY <4>2, <5>1
        <5> QED BY <1>12, <5>1, <5>2, <5>3
      <4> QED BY <4>3, <4>4
    <3> QED BY <3>3, <3>4
  <2>8. m.nodes = f /\ m.count = n - 1
    BY <1>8, <1>9
  <2>9. s \in [1 .. m.count -> DOMAIN m.nodes]
    BY <1>9, <2>1, <2>8
  <2> QED
    BY <1>9, <2>2, <2>3, <2>4, <2>5, <2>6, <2>7, <2>8, <2>9 DEF Ordered
<1>18. \A b \in D \ {a} : f[b].data = l.nodes[b].data
  BY <1>19
<1> QED
  BY <1>1, <1>2, <1>3, <1>8, <1>9, <1>10, <1>11, <1>17, <1>18

\* The walk along next meets the nodes in their order (list_iter) and then stops.
LEMMA WalkForth ==
  ASSUME NEW l \in Lists, NEW o, Ordered(l, o)
  PROVE  NodeAt(l) = [i \in 0 .. l.count |-> IF i = l.count THEN NULL ELSE o[i + 1]]
<1>1. PICK n \in Nat : n = l.count /\ Cardinality(DOMAIN l.nodes) = n
  BY ListFacts, NodesCounted
<1>2. /\ \A i \in 1 .. n : o[i] \in DOMAIN l.nodes /\ o[i] # NULL
      /\ l.head = IF n = 0 THEN NULL ELSE o[1]
      /\ \A i \in 1 .. n : l.nodes[o[i]].next = IF i = n THEN NULL ELSE o[i + 1]
  BY <1>1, ListFacts DEF Ordered, Addresses
<1> DEFINE F(h) == [i \in 0 .. n |-> IF i = 0 THEN l.head
                      ELSE LET a == h[i - 1] IN IF a = NULL THEN NULL ELSE l.nodes[a].next]
<1>3. PICK e : e = [i \in 0 .. n |-> IF i = n THEN NULL ELSE o[i + 1]]
  OBVIOUS
<1>4. ASSUME NEW h, NEW i \in 0 .. n, h = F(h), i # 0, h[i - 1] = e[i - 1] PROVE h[i] = e[i]
  <2>1. i \in 1 .. n /\ i - 1 \in 0 .. n /\ i - 1 # n /\ i - 1 + 1 = i
    BY <1>4
  <2>2. e[i - 1] = o[i] /\ o[i] # NULL /\ l.nodes[o[i]].next = IF i = n THEN NULL ELSE o[i + 1]
    BY <1>2, <1>3, <2>1
  <2>3. h[i] = LET a == h[i - 1] IN IF a = NULL THEN NULL ELSE l.nodes[a].next
    BY <1>4
  <2> QED BY <1>3, <1>4, <2>1, <2>2, <2>3
<1>5. e = F(e)
  <2>1. ASSUME NEW i \in 0 .. n
        PROVE  e[i] = IF i = 0 THEN l.head
                      ELSE LET a == e[i - 1] IN IF a = NULL THEN NULL ELSE l.nodes[a].next
    <3>1. CASE i = 0
      BY <1>2, <1>3, <3>1
    <3>2. CASE i # 0
      <4>1. i \in 1 .. n /\ i - 1 \in 0 .. n /\ i - 1 # n /\ i - 1 + 1 = i
        BY <3>2
      <4>2. e[i - 1] = o[i] /\ o[i] # NULL /\ l.nodes[o[i]].next = IF i = n THEN NULL ELSE o[i + 1]
        BY <1>2, <1>3, <4>1
      <4> QED BY <1>3, <3>2, <4>1, <4>2
    <3> QED BY <3>1, <3>2
  <2> QED BY <1>3, <2>1
<1>6. PICK h : h = NodeAt(l) /\ h = F(h)
  <2>1. NodeAt(l) = CHOOSE h : h = F(h)
    BY <1>1 DEF NodeAt
  <2> HIDE DEF F
  <2> QED BY <1>5, <2>1
<1>7. \A i \in 0 .. n : h[i] = e[i]
  <2> DEFINE S == {i \in 0 .. n : h[i] = e[i]}
  <2>1. 0 \in S
    BY <1>2, <1>3, <1>6
  <2>2. ASSUME NEW k \in 0 .. n - 1, k \in S PROVE k + 1 \in S
    <3>1. PICK i \in 0 .. n : i = k + 1 /\ i # 0 /\ i - 1 = k
      OBVIOUS
    <3>2. h[i - 1] = e[i - 1]
      BY <2>2, <3>1
    <3> HIDE DEF F
    <3>3. h[i] = e[i]
      BY <1>4, <1>6, <3>1, <3>2
    <3> QED BY <3>1, <3>3
  <2> HIDE DEF S
  <2>3. \A k \in 0 .. n : k \in S
    BY <2>1, <2>2, SetInduction
  <2> QED BY <2>3 DEF S
<1>8. h = [i \in 0 .. n |-> h[i]] /\ e = [i \in 0 .. n |-> e[i]]
  BY <1>3, <1>6
<1> QED BY <1>1, <1>3, <1>6, <1>7, <1>8

\* The walk along prev meets them backwards.
LEMMA WalkBack ==
  ASSUME NEW l \in Lists, NEW o, Ordered(l, o)
  PROVE  NodeFromEnd(l) = [i \in 0 .. l.count |-> IF i = l.count THEN NULL ELSE o[l.count - i]]
<1>1. PICK n \in Nat : n = l.count /\ Cardinality(DOMAIN l.nodes) = n
  BY ListFacts, NodesCounted
<1>2. /\ \A i \in 1 .. n : o[i] \in DOMAIN l.nodes /\ o[i] # NULL
      /\ l.tail = IF n = 0 THEN NULL ELSE o[n]
      /\ \A i \in 1 .. n : l.nodes[o[i]].prev = IF i = 1 THEN NULL ELSE o[i - 1]
  BY <1>1, ListFacts DEF Ordered, Addresses
<1> DEFINE F(h) == [i \in 0 .. n |-> IF i = 0 THEN l.tail
                      ELSE LET a == h[i - 1] IN IF a = NULL THEN NULL ELSE l.nodes[a].prev]
<1>3. PICK e : e = [i \in 0 .. n |-> IF i = n THEN NULL ELSE o[n - i]]
  OBVIOUS
<1>9. ASSUME NEW i \in 0 .. n, i # 0
      PROVE  /\ e[i - 1] = o[n - i + 1] /\ o[n - i + 1] # NULL
             /\ l.nodes[o[n - i + 1]].prev = e[i]
  <2>1. PICK j \in 1 .. n : j = n - i + 1 /\ (j = 1 <=> i = n) /\ j - 1 = n - i /\ n - (i - 1) = j
    BY <1>9
  <2>2. i - 1 \in 0 .. n /\ i - 1 # n
    BY <1>9
  <2>3. e[i - 1] = o[j]
    BY <1>3, <2>1, <2>2
  <2>4. o[j] # NULL /\ l.nodes[o[j]].prev = IF j = 1 THEN NULL ELSE o[j - 1]
    BY <1>2
  <2>5. e[i] = IF i = n THEN NULL ELSE o[n - i]
    BY <1>3
  <2> QED BY <2>1, <2>3, <2>4, <2>5
<1>4. ASSUME NEW h, NEW i \in 0 .. n, h = F(h), i # 0, h[i - 1] = e[i - 1] PROVE h[i] = e[i]
  <2>3. h[i] = LET a == h[i - 1] IN IF a = NULL THEN NULL ELSE l.nodes[a].prev
    BY <1>4
  <2> QED BY <1>4, <1>9, <2>3
<1>5. e = F(e)
  <2>1. ASSUME NEW i \in 0 .. n
        PROVE  e[i] = IF i = 0 THEN l.tail
                      ELSE LET a == e[i - 1] IN IF a = NULL THEN NULL ELSE l.nodes[a].prev
    <3>1. CASE i = 0
      <4>1. n - 0 = n OBVIOUS
      <4> QED BY <1>2, <1>3, <3>1, <4>1
    <3>2. CASE i # 0
      BY <1>9, <3>2
    <3> QED BY <3>1, <3>2
  <2> QED BY <1>3, <2>1
<1>6. PICK h : h = NodeFromEnd(l) /\ h = F(h)
  <2>1. NodeFromEnd(l) = CHOOSE h : h = F(h)
    BY <1>1 DEF NodeFromEnd
  <2> HIDE DEF F
  <2> QED BY <1>5, <2>1
<1>7. \A i \in 0 .. n : h[i] = e[i]
  <2> DEFINE S == {i \in 0 .. n : h[i] = e[i]}
  <2>1. 0 \in S
    <3>1. 0 \in 0 .. n /\ h[0] = l.tail BY <1>6
    <3>2. e[0] = l.tail BY <1>5, <3>1
    <3> QED BY <3>1, <3>2
  <2>2. ASSUME NEW k \in 0 .. n - 1, k \in S PROVE k + 1 \in S
    <3>1. PICK i \in 0 .. n : i = k + 1 /\ i # 0 /\ i - 1 = k
      OBVIOUS
    <3>2. h[i - 1] = e[i - 1]
      BY <2>2, <3>1
    <3> HIDE DEF F
    <3>3. h[i] = e[i]
      BY <1>4, <1>6, <3>1, <3>2
    <3> QED BY <3>1, <3>3
  <2> HIDE DEF S
  <2>3. \A k \in 0 .. n : k \in S
    BY <2>1, <2>2, SetInduction
  <2> QED BY <2>3 DEF S
<1>8. h = [i \in 0 .. n |-> h[i]] /\ e = [i \in 0 .. n |-> e[i]]
  BY <1>3, <1>6
<1> QED BY <1>1, <1>3, <1>6, <1>7, <1>8

\* A list whose nodes have an order is well linked: the two walks agree.
LEMMA OrderedIsWellLinked ==
  ASSUME NEW l \in Lists, NEW o, Ordered(l, o)
  PROVE  WellLinked(l)
<1>1. PICK n \in Nat : n = l.count /\ Cardinality(DOMAIN l.nodes) = n
  BY ListFacts, NodesCounted
<1>2. PICK forth, back : forth = NodeAt(l) /\ back = NodeFromEnd(l)
  OBVIOUS
<1>3. /\ \A i \in 0 .. n : forth[i] = IF i = n THEN NULL ELSE o[i + 1]
      /\ \A i \in 0 .. n : back[i] = IF i = n THEN NULL ELSE o[n - i]
  BY <1>1, <1>2, WalkForth, WalkBack
<1>4. /\ o \in [1 .. n -> DOMAIN l.nodes]
      /\ \A a \in DOMAIN l.nodes : \E i \in 1 .. n : o[i] = a
      /\ l.head = IF n = 0 THEN NULL ELSE o[1]
      /\ l.tail = IF n = 0 THEN NULL ELSE o[n]
      /\ \A i \in 1 .. n :
          /\ l.nodes[o[i]].prev = IF i = 1 THEN NULL ELSE o[i - 1]
          /\ l.nodes[o[i]].next = IF i = n THEN NULL ELSE o[i + 1]
  BY <1>1 DEF Ordered
<1>5. {l.head, l.tail} \subseteq DOMAIN l.nodes \cup {NULL}
  <2>1. n # 0 => 1 \in 1 .. n /\ n \in 1 .. n OBVIOUS
  <2> QED BY <1>4, <2>1
<1>6. ASSUME NEW a \in DOMAIN l.nodes
      PROVE  {l.nodes[a].prev, l.nodes[a].next} \subseteq DOMAIN l.nodes \cup {NULL}
  <2>1. PICK i \in 1 .. n : o[i] = a
    BY <1>4
  <2>2. (i # 1 => i - 1 \in 1 .. n) /\ (i # n => i + 1 \in 1 .. n)
    OBVIOUS
  <2>3. l.nodes[a].prev = IF i = 1 THEN NULL ELSE o[i - 1]
    BY <1>4, <2>1
  <2>4. l.nodes[a].next = IF i = n THEN NULL ELSE o[i + 1]
    BY <1>4, <2>1
  <2>5. \A j \in 1 .. n : o[j] \in DOMAIN l.nodes
    BY <1>4
  <2> QED BY <2>2, <2>3, <2>4, <2>5
<1>7. forth[n] = NULL /\ back[n] = NULL
  BY <1>3
<1>8. {forth[i] : i \in 0 .. n - 1} = DOMAIN l.nodes
  <2>1. ASSUME NEW i \in 0 .. n - 1 PROVE forth[i] \in DOMAIN l.nodes
    <3>1. i \in 0 .. n /\ i # n /\ i + 1 \in 1 .. n OBVIOUS
    <3> QED BY <1>3, <1>4, <3>1
  <2>2. ASSUME NEW a \in DOMAIN l.nodes PROVE \E i \in 0 .. n - 1 : forth[i] = a
    <3>1. PICK j \in 1 .. n : o[j] = a
      BY <1>4
    <3>2. j - 1 \in 0 .. n - 1 /\ j - 1 \in 0 .. n /\ j - 1 # n /\ j - 1 + 1 = j OBVIOUS
    <3> QED BY <1>3, <3>1, <3>2
  <2> QED BY <2>1, <2>2
<1>9. ASSUME NEW i \in 0 .. n - 1 PROVE back[i] = forth[n - 1 - i]
  <2>1. i \in 0 .. n /\ i # n /\ n - 1 - i \in 0 .. n /\ n - 1 - i # n /\ n - 1 - i + 1 = n - i
    OBVIOUS
  <2> QED BY <1>3, <2>1
<1> QED BY <1>1, <1>2, <1>5, <1>6, <1>7, <1>8, <1>9 DEF WellLinked

\* The items are met in the order of the nodes.
DataOf(l, o) == [i \in 1 .. l.count |-> l.nodes[o[i]].data]

LEMMA ItemsInOrder ==
  ASSUME NEW l \in Lists, NEW o, Ordered(l, o)
  PROVE  Items(l) = DataOf(l, o) /\ DataOf(l, o) \in [1 .. l.count -> Nat]
<1>1. PICK n \in Nat : n = l.count /\ Cardinality(DOMAIN l.nodes) = n
  BY ListFacts, NodesCounted
<1>2. /\ \A i \in 1 .. n : o[i] \in DOMAIN l.nodes /\ o[i] # NULL /\ l.nodes[o[i]].data \in Nat
      /\ l.head = IF n = 0 THEN NULL ELSE o[1]
      /\ \A i \in 1 .. n : l.nodes[o[i]].next = IF i = n THEN NULL ELSE o[i + 1]
  <2>1. /\ o \in [1 .. n -> DOMAIN l.nodes]
        /\ l.head = IF n = 0 THEN NULL ELSE o[1]
        /\ \A i \in 1 .. n : l.nodes[o[i]].next = IF i = n THEN NULL ELSE o[i + 1]
    BY <1>1 DEF Ordered
  <2>2. \A a \in DOMAIN l.nodes : a # NULL /\ l.nodes[a].data \in Nat
    BY ListFacts DEF Addresses, Node
  <2> QED BY <2>1, <2>2
<1>3. PICK d : d = DataOf(l, o)
  OBVIOUS
<1>4. d \in [1 .. n -> Nat] /\ \A i \in 1 .. n : d[i] = l.nodes[o[i]].data
  BY <1>1, <1>2, <1>3 DEF DataOf
<1>5. PICK r : r = [i \in 0 .. n |-> [j \in 1 .. i |-> d[j]]]
  OBVIOUS
<1>6. \A i \in 0 .. n - 1 : Append(r[i], d[i + 1]) = r[i + 1]
  <2> TAKE i \in 0 .. n - 1
  <2>1. Append([j \in 1 .. i |-> d[j]], d[i + 1]) = [j \in 1 .. i + 1 |-> d[j]]
    BY <1>4, PrefixGrows
  <2>2. i \in 0 .. n /\ i + 1 \in 0 .. n
    OBVIOUS
  <2> QED BY <1>5, <2>1, <2>2
<1>7. r[0] = <<>> /\ r[n] = d
  BY <1>4, <1>5
<1> DEFINE Step(w) == IF w.at = NULL THEN w
                ELSE [at |-> l.nodes[w.at].next, items |-> Append(w.items, l.nodes[w.at].data)]
           F(h) == [i \in 0 .. n |-> IF i = 0 THEN [at |-> l.head, items |-> <<>>]
                                     ELSE Step(h[i - 1])]
<1>8. PICK e : e = [i \in 0 .. n |-> [at |-> IF i = n THEN NULL ELSE o[i + 1], items |-> r[i]]]
  OBVIOUS
<1>9. ASSUME NEW i \in 0 .. n, i # 0 PROVE Step(e[i - 1]) = e[i]
  <2>1. PICK k \in 0 .. n - 1 : k = i - 1 /\ k \in 0 .. n /\ k # n /\ k + 1 = i /\ i \in 1 .. n
    BY <1>9
  <2>2. e[k] = [at |-> o[i], items |-> r[k]]
    BY <1>8, <2>1
  <2>3. e[i] = [at |-> IF i = n THEN NULL ELSE o[i + 1], items |-> r[i]]
    BY <1>8
  <2>4. Append(r[k], l.nodes[o[i]].data) = r[i]
    BY <1>4, <1>6, <2>1
  <2>5. Step(e[k]) = [at |-> l.nodes[o[i]].next, items |-> Append(r[k], l.nodes[o[i]].data)]
    <3>1. PICK w : w = e[k]
      OBVIOUS
    <3>2. w.at = o[i] /\ w.items = r[k]
      BY <2>2, <3>1
    <3>3. o[i] # NULL
      BY <1>2, <2>1
    <3>4. Step(w) = [at |-> l.nodes[w.at].next, items |-> Append(w.items, l.nodes[w.at].data)]
      BY <3>2, <3>3
    <3> QED BY <3>1, <3>2, <3>4
  <2>6. l.nodes[o[i]].next = IF i = n THEN NULL ELSE o[i + 1]
    BY <1>2, <2>1
  <2> HIDE DEF Step
  <2> QED BY <2>1, <2>3, <2>4, <2>5, <2>6
<1>10. e[0] = [at |-> l.head, items |-> <<>>]
  BY <1>2, <1>7, <1>8
<1> HIDE DEF Step
<1>11. e = F(e)
  BY <1>8, <1>9, <1>10
<1>12. PICK h : h = F(h) /\ Items(l) = h[n].items
  <2>1. Items(l) = (CHOOSE h : h = F(h))[n].items
    BY <1>1 DEF Items, Step
  <2> HIDE DEF F
  <2> QED BY <1>11, <2>1
<1>13. \A i \in 0 .. n : h[i] = e[i]
  <2> DEFINE S == {i \in 0 .. n : h[i] = e[i]}
  <2>1. 0 \in S
    <3>1. 0 \in 0 .. n /\ h[0] = [at |-> l.head, items |-> <<>>] BY <1>12
    <3> QED BY <1>10, <3>1
  <2>2. ASSUME NEW k \in 0 .. n - 1, k \in S PROVE k + 1 \in S
    <3>1. PICK i \in 0 .. n : i = k + 1 /\ i # 0 /\ i - 1 = k
      OBVIOUS
    <3>2. h[i] = Step(h[k])
      BY <1>12, <3>1
    <3>3. h[i] = e[i]
      BY <1>9, <2>2, <3>1, <3>2
    <3> QED BY <3>1, <3>3
  <2> HIDE DEF S
  <2>3. \A k \in 0 .. n : k \in S
    BY <2>1, <2>2, SetInduction
  <2> QED BY <2>3 DEF S
<1>14. e[n].items = r[n]
  BY <1>8
<1>15. n \in 0 .. n /\ h[n] = e[n]
  BY <1>13
<1>16. Items(l) = d
  BY <1>7, <1>12, <1>14, <1>15
<1> QED BY <1>1, <1>3, <1>4, <1>16

\* list_remove takes the first node that holds the item.
LEMMA RemoveIsRemoveNode ==
  ASSUME NEW l \in Lists, NEW o, Ordered(l, o), NEW d, Exists(l, d)
  PROVE  \E k \in 1 .. l.count :
           /\ Remove(l, d) = RemoveNode(l, o[k])
           /\ l.nodes[o[k]].data = d
           /\ \A j \in 1 .. k - 1 : l.nodes[o[j]].data # d
<1>1. PICK n \in Nat : n = l.count
  BY ListFacts
<1>2. /\ \A i \in 1 .. n : o[i] \in DOMAIN l.nodes /\ o[i] # NULL
      /\ \A a \in DOMAIN l.nodes : \E i \in 1 .. n : o[i] = a
  BY <1>1, ListFacts DEF Ordered, Addresses
<1>3. PICK at : at = NodeAt(l)
  OBVIOUS
<1>4. at = [i \in 0 .. n |-> IF i = n THEN NULL ELSE o[i + 1]]
  BY <1>1, <1>3, WalkForth
<1> DEFINE Found(i) == /\ at[i] # NULL /\ l.nodes[at[i]].data = d
                       /\ \A j \in 0 .. i - 1 : l.nodes[at[j]].data # d
           S == {i \in 1 .. n : l.nodes[o[i]].data = d}
<1>5. PICK k \in S : \A j \in S : k <= j
  <2>1. S # {}
    <3>1. PICK a \in DOMAIN l.nodes : l.nodes[a].data = d
      BY DEF Exists
    <3> QED BY <1>2, <3>1
  <2>2. S \in SUBSET (1 .. n)
    OBVIOUS
  <2> HIDE DEF S
  <2> QED BY <2>1, <2>2, LeastExists
<1>6. k - 1 \in DOMAIN at /\ Found(k - 1)
  <2>1. k \in 1 .. n /\ l.nodes[o[k]].data = d
    BY <1>5
  <2>2. k - 1 \in 0 .. n /\ k - 1 # n /\ k - 1 + 1 = k
    BY <2>1
  <2>3. at[k - 1] = o[k]
    BY <1>4, <2>2
  <2>4. ASSUME NEW j \in 0 .. k - 1 - 1 PROVE l.nodes[at[j]].data # d
    <3>1. j \in 0 .. n /\ j # n /\ j + 1 \in 1 .. n /\ ~ (k <= j + 1)
      BY <2>1
    <3>2. at[j] = o[j + 1]
      BY <1>4, <3>1
    <3>3. j + 1 \notin S
      BY <1>5, <3>1
    <3> QED BY <3>1, <3>2, <3>3
  <2> QED BY <1>2, <1>4, <2>1, <2>2, <2>3, <2>4
<1>7. PICK i : i = CHOOSE x \in DOMAIN at : Found(x)
  OBVIOUS
<1>8. i \in DOMAIN at /\ Found(i)
  <2> HIDE DEF Found
  <2> QED BY <1>6, <1>7
<1>9. Remove(l, d) = RemoveNode(l, at[i])
  BY <1>3, <1>7 DEF Remove
<1>10. i \in 0 .. n /\ i # n
  BY <1>4, <1>8
<1>11. at[i] = o[i + 1] /\ i + 1 \in 1 .. n
  BY <1>4, <1>10
<1>12. PICK m \in 1 .. l.count : m = i + 1
  BY <1>1, <1>11
<1>13. ASSUME NEW j \in 1 .. m - 1 PROVE l.nodes[o[j]].data # d
  <2>1. j - 1 \in 0 .. i - 1 /\ j - 1 \in 0 .. n /\ j - 1 # n /\ j - 1 + 1 = j
    BY <1>10, <1>12
  <2>2. at[j - 1] = o[j]
    BY <1>4, <2>1
  <2> QED BY <1>8, <2>1, <2>2
<1>14. /\ Remove(l, d) = RemoveNode(l, o[m])
       /\ l.nodes[o[m]].data = d
       /\ \A j \in 1 .. m - 1 : l.nodes[o[j]].data # d
  <2>1. at[i] = o[m] /\ at[i] # NULL /\ l.nodes[at[i]].data = d
    BY <1>8, <1>11, <1>12
  <2> HIDE DEF Found, S
  <2> QED BY <1>9, <1>13, <2>1
<1> QED BY <1>14

\* What a list function returns is a linked list.
LEMMA EmptyListLinked == EmptyList \in Linked /\ Items(EmptyList) = <<>>
<1>1. <<>> \in [{} -> Node] /\ DOMAIN <<>> = {}
  OBVIOUS
<1>2. EmptyList \in Lists
  <2>1. {} \in SUBSET Addresses /\ NULL \in Nat
    BY DEF NULL
  <2> QED BY <1>1, <2>1, ListsAre DEF EmptyList
<1>3. PICK o : o = [i \in 1 .. 0 |-> NULL]
  OBVIOUS
<1>4. Ordered(EmptyList, o) /\ o \in [1 .. EmptyList.count -> Addresses]
  BY <1>1, <1>3 DEF Ordered, EmptyList
<1>5. Items(EmptyList) = DataOf(EmptyList, o)
  BY <1>2, <1>4, ItemsInOrder
<1>6. DataOf(EmptyList, o) = [i \in 1 .. 0 |-> EmptyList.nodes[o[i]].data]
  BY DEF DataOf, EmptyList
<1>7. DataOf(EmptyList, o) = <<>>
  BY <1>6
<1>8. EmptyList \in Linked
  BY <1>2, <1>4 DEF Linked
<1> QED BY <1>5, <1>7, <1>8

LEMMA LinkedHasOrder ==
  ASSUME NEW l \in Linked
  PROVE  l \in Lists /\ \E o \in [1 .. l.count -> Addresses] : Ordered(l, o)
  BY DEF Linked

LEMMA OrderedIsLinked ==
  ASSUME NEW l \in Lists, NEW o, Ordered(l, o)
  PROVE  l \in Linked
<1>1. o \in [1 .. l.count -> Addresses]
  BY ListFacts DEF Ordered
<1> QED BY <1>1 DEF Linked

LEMMA PushBackLinked ==
  ASSUME NEW l \in Linked, NEW d \in Nat
  PROVE  PushBack(l, d) \in Linked
<1>1. PICK o : l \in Lists /\ Ordered(l, o)
  BY LinkedHasOrder
<1>2. PushBack(l, d) \in Lists /\ Ordered(PushBack(l, d), Longer(o, l.count, NewAddress(l)))
  BY <1>1, PushBackOrdered
<1> QED BY <1>2, OrderedIsLinked

LEMMA RemoveLinked ==
  ASSUME NEW l \in Linked, NEW d
  PROVE  Remove(l, d) \in Linked
<1>1. PICK o : l \in Lists /\ Ordered(l, o)
  BY LinkedHasOrder
<1>2. CASE ~ Exists(l, d)
  BY <1>2 DEF Remove
<1>3. CASE Exists(l, d)
  <2>1. PICK k \in 1 .. l.count : Remove(l, d) = RemoveNode(l, o[k])
    BY <1>1, <1>3, RemoveIsRemoveNode
  <2>2. RemoveNode(l, o[k]) \in Lists /\ Ordered(RemoveNode(l, o[k]), Shorter(o, l.count, k))
    BY <1>1, RemoveNodeOrdered
  <2> QED BY <2>1, <2>2, OrderedIsLinked
<1> QED BY <1>2, <1>3

LEMMA RemoveFirstLinked ==
  ASSUME NEW l \in Linked, l.count > 0
  PROVE  RemoveFirst(l) \in Linked
<1>1. PICK o : l \in Lists /\ Ordered(l, o)
  BY LinkedHasOrder
<1>2. 1 \in 1 .. l.count /\ l.head = o[1]
  BY <1>1, ListFacts DEF Ordered
<1>3. RemoveNode(l, o[1]) \in Lists /\ Ordered(RemoveNode(l, o[1]), Shorter(o, l.count, 1))
  BY <1>1, <1>2, RemoveNodeOrdered
<1> QED BY <1>2, <1>3, OrderedIsLinked DEF RemoveFirst

LEMMA LinkedIsWellLinked ==
  ASSUME NEW l \in Linked
  PROVE  WellLinked(l)
  BY LinkedHasOrder, OrderedIsWellLinked

-----------------------------------------------------------------------------
(* What a list holds, and in which order.                                  *)

Held(l) == {l.nodes[a].data : a \in DOMAIN l.nodes}

HeldOnce(l) == \A a, b \in DOMAIN l.nodes : l.nodes[a].data = l.nodes[b].data => a = b

LEMMA ItemsHeld ==
  ASSUME NEW l \in Linked
  PROVE  /\ Items(l) \in Seq(Nat) /\ Len(Items(l)) = l.count
         /\ Range(Items(l)) = Held(l)
         /\ HeldOnce(l) => Distinct(Items(l)) /\ l.count = Cardinality(Held(l))
<1>1. PICK o : l \in Lists /\ Ordered(l, o)
  BY LinkedHasOrder
<1>2. PICK n \in Nat : n = l.count
  BY <1>1, ListFacts
<1>3. /\ o \in [1 .. n -> DOMAIN l.nodes]
      /\ \A a \in DOMAIN l.nodes : \E i \in 1 .. n : o[i] = a
      /\ \A i, j \in 1 .. n : o[i] = o[j] => i = j
  BY <1>1, <1>2 DEF Ordered
<1>4. PICK d : d = Items(l)
  OBVIOUS
<1>5. d \in [1 .. n -> Nat] /\ \A i \in 1 .. n : d[i] = l.nodes[o[i]].data
  BY <1>1, <1>2, <1>4, ItemsInOrder DEF DataOf
<1>6. d \in Seq(Nat) /\ Len(d) = n /\ DOMAIN d = 1 .. n
  BY <1>5
<1>7. Range(d) = Held(l)
  BY <1>3, <1>5, <1>6 DEF Range, Held
<1>8. ASSUME HeldOnce(l) PROVE Distinct(d) /\ l.count = Cardinality(Held(l))
  <2>1. Distinct(d)
    BY <1>3, <1>5, <1>6, <1>8 DEF Distinct, HeldOnce
  <2>2. d \in Bijection(1 .. n, Held(l))
    <3>1. \A i \in 1 .. n : d[i] \in Held(l)
      BY <1>6, <1>7 DEF Range
    <3>2. \A x \in Held(l) : \E i \in 1 .. n : d[i] = x
      BY <1>6, <1>7 DEF Range
    <3>3. \A i, j \in 1 .. n : d[i] = d[j] => i = j
      BY <1>6, <2>1 DEF Distinct
    <3>4. d \in [1 .. n -> Held(l)]
      BY <1>5, <3>1
    <3> QED BY <3>2, <3>3, <3>4 DEF Bijection, Injection, Surjection, IsInjective
  <2>3. ExistsBijection(1 .. n, Held(l))
    BY <2>2 DEF ExistsBijection
  <2>4. IsFiniteSet(1 .. n) /\ Cardinality(1 .. n) = n
    BY FS_Interval
  <2>5. Cardinality(Held(l)) = n
    BY <2>3, <2>4, FS_Bijection
  <2> QED BY <1>2, <2>1, <2>5
<1> QED BY <1>2, <1>4, <1>6, <1>7, <1>8

LEMMA PushBackHolds ==
  ASSUME NEW l \in Linked, NEW d \in Nat
  PROVE  /\ Held(PushBack(l, d)) = Held(l) \cup {d}
         /\ HeldOnce(l) /\ d \notin Held(l) => HeldOnce(PushBack(l, d))
<1>1. PICK o : l \in Lists /\ Ordered(l, o)
  BY LinkedHasOrder
<1>2. PICK m, a : m = PushBack(l, d) /\ a = NewAddress(l)
  OBVIOUS
<1>3. /\ DOMAIN m.nodes = DOMAIN l.nodes \cup {a}
      /\ \A b \in DOMAIN l.nodes : m.nodes[b].data = l.nodes[b].data
      /\ m.nodes[a].data = d
  BY <1>1, <1>2, PushBackOrdered
<1>4. Held(m) = Held(l) \cup {d}
  BY <1>3 DEF Held
<1>5. ASSUME HeldOnce(l), d \notin Held(l) PROVE HeldOnce(m)
  <2>1. \A b \in DOMAIN l.nodes : l.nodes[b].data # d
    BY <1>5 DEF Held
  <2> QED BY <1>3, <1>5, <2>1 DEF HeldOnce
<1> QED BY <1>2, <1>4, <1>5

LEMMA RemoveHolds ==
  ASSUME NEW l \in Linked, NEW d
  PROVE  /\ HeldOnce(l) => Held(Remove(l, d)) = Held(l) \ {d} /\ HeldOnce(Remove(l, d))
         /\ Held(Remove(l, d)) \subseteq Held(l)
         /\ \A b \in DOMAIN l.nodes : l.nodes[b].data # d =>
              b \in DOMAIN Remove(l, d).nodes /\ Remove(l, d).nodes[b].data = l.nodes[b].data
<1>1. PICK o : l \in Lists /\ Ordered(l, o)
  BY LinkedHasOrder
<1>2. CASE ~ Exists(l, d)
  <2>1. d \notin Held(l)
    BY <1>2 DEF Exists, Held
  <2>2. Remove(l, d) = l
    BY <1>2 DEF Remove
  <2>3. DOMAIN l.nodes = DOMAIN l.nodes
    OBVIOUS
  <2> QED BY <2>1, <2>2
<1>3. CASE Exists(l, d)
  <2>1. PICK k \in 1 .. l.count : Remove(l, d) = RemoveNode(l, o[k]) /\ l.nodes[o[k]].data = d
    BY <1>1, <1>3, RemoveIsRemoveNode
  <2>2. PICK m, a : m = Remove(l, d) /\ a = o[k]
    OBVIOUS
  <2>3. /\ DOMAIN m.nodes = DOMAIN l.nodes \ {a}
        /\ \A b \in DOMAIN l.nodes \ {a} : m.nodes[b].data = l.nodes[b].data
    BY <1>1, <2>1, <2>2, RemoveNodeOrdered
  <2>4. a \in DOMAIN l.nodes /\ l.nodes[a].data = d
    BY <1>1, <2>1, <2>2 DEF Ordered
  <2>5. ASSUME HeldOnce(l) PROVE Held(m) = Held(l) \ {d} /\ HeldOnce(m)
    <3>1. \A b \in DOMAIN l.nodes : l.nodes[b].data = d => b = a
      BY <2>4, <2>5 DEF HeldOnce
    <3>2. HeldOnce(m)
      BY <2>3, <2>5 DEF HeldOnce
    <3>3. Held(m) = Held(l) \ {d}
      BY <2>3, <2>4, <3>1 DEF Held
    <3> QED BY <3>2, <3>3
  <2>6. Held(m) \subseteq Held(l)
    BY <2>3 DEF Held
  <2>7. \A b \in DOMAIN l.nodes : l.nodes[b].data # d =>
          b \in DOMAIN m.nodes /\ m.nodes[b].data = l.nodes[b].data
    BY <2>3, <2>4
  <2> QED BY <2>2, <2>5, <2>6, <2>7
<1> QED BY <1>2, <1>3

\* list_push_back appends.
LEMMA PushBackAppends ==
  ASSUME NEW l \in Linked, NEW d \in Nat
  PROVE  Items(PushBack(l, d)) = Append(Items(l), d)
<1>1. PICK o : l \in Lists /\ Ordered(l, o)
  BY LinkedHasOrder
<1>2a. PICK n \in Nat : n = l.count
  BY <1>1, ListFacts
<1>2b. PICK a, m : a = NewAddress(l) /\ m = PushBack(l, d)
  OBVIOUS
<1>2c. PICK q : q = Longer(o, n, a)
  OBVIOUS
<1>2. n = l.count /\ a = NewAddress(l) /\ m = PushBack(l, d) /\ q = Longer(o, n, a)
  BY <1>2a, <1>2b, <1>2c
<1>3. /\ m \in Lists /\ m.count = n + 1 /\ Ordered(m, q) /\ m.nodes[a].data = d
      /\ \A b \in DOMAIN l.nodes : m.nodes[b].data = l.nodes[b].data
  BY <1>1, <1>2, PushBackOrdered
<1>4. PICK s : s = Items(l) /\ s = DataOf(l, o) /\ s \in [1 .. n -> Nat]
  BY <1>1, <1>2, ItemsInOrder
<1>5. PICK t : t = Items(m) /\ t = DataOf(m, q) /\ t \in [1 .. n + 1 -> Nat]
  BY <1>3, ItemsInOrder
<1>6. s \in Seq(Nat) /\ Len(s) = n /\ t \in Seq(Nat) /\ Len(t) = n + 1
  BY <1>4, <1>5
<1>7. \A i \in 1 .. n : t[i] = s[i]
  <2> TAKE i \in 1 .. n
  <2>1. q[i] = o[i] /\ i \in 1 .. n + 1
    BY <1>2 DEF Longer
  <2>2. o[i] \in DOMAIN l.nodes
    BY <1>1, <1>2 DEF Ordered
  <2>3. t[i] = m.nodes[q[i]].data /\ s[i] = l.nodes[o[i]].data
    BY <1>2, <1>3, <1>4, <1>5, <2>1 DEF DataOf
  <2> QED BY <1>3, <2>1, <2>2, <2>3
<1>8. t[n + 1] = d
  <2>1. n + 1 \in 1 .. n + 1
    OBVIOUS
  <2>2. q[n + 1] = a
    BY <1>2, <2>1 DEF Longer
  <2> QED BY <1>3, <1>5, <2>1, <2>2 DEF DataOf
<1>9. PICK u : u = Append(s, d)
  OBVIOUS
<1>10. u \in Seq(Nat) /\ Len(u) = n + 1 /\ (\A i \in 1 .. n : u[i] = s[i]) /\ u[n + 1] = d
  BY <1>6, <1>9
<1>11. \A i \in 1 .. Len(t) : t[i] = u[i]
  <2>1. \A i \in 1 .. n + 1 : i \in 1 .. n \/ i = n + 1
    OBVIOUS
  <2> QED BY <1>6, <1>7, <1>8, <1>10, <2>1
<1>12. t = u
  BY <1>6, <1>10, <1>11, SameSeq
<1> QED BY <1>2, <1>4, <1>5, <1>9, <1>12

\* A node that goes leaves the items before it and those after it.
LEMMA RemoveNodeItems ==
  ASSUME NEW l \in Lists, NEW o, Ordered(l, o), NEW k \in 1 .. l.count
  PROVE  Items(RemoveNode(l, o[k])) =
           [i \in 1 .. l.count - 1 |-> IF i < k THEN Items(l)[i] ELSE Items(l)[i + 1]]
<1>1a. PICK n \in Nat : n = l.count
  BY ListFacts
<1>1b. PICK m, q : m = RemoveNode(l, o[k]) /\ q = Shorter(o, n, k)
  OBVIOUS
<1>1. n = l.count /\ m = RemoveNode(l, o[k]) /\ q = Shorter(o, n, k)
  BY <1>1a, <1>1b
<1>2. /\ m \in Lists /\ m.count = n - 1 /\ Ordered(m, q)
      /\ \A b \in DOMAIN l.nodes \ {o[k]} : m.nodes[b].data = l.nodes[b].data
  BY <1>1, RemoveNodeOrdered
<1>3. PICK s : s = Items(l) /\ s = DataOf(l, o)
  BY ItemsInOrder
<1>4. PICK t : t = Items(m) /\ t = DataOf(m, q)
  BY <1>2, ItemsInOrder
<1>5. \A i \in 1 .. n - 1 : t[i] = IF i < k THEN s[i] ELSE s[i + 1]
  <2> TAKE i \in 1 .. n - 1
  <2>1. PICK j \in 1 .. n : j = (IF i < k THEN i ELSE i + 1) /\ j # k
    BY <1>1
  <2>2. q[i] = o[j]
    BY <1>1, <2>1 DEF Shorter
  <2>3. o[j] \in DOMAIN l.nodes \ {o[k]}
    BY <1>1, <2>1 DEF Ordered
  <2>4. t[i] = m.nodes[q[i]].data
    BY <1>2, <1>4 DEF DataOf
  <2>5. s[j] = l.nodes[o[j]].data
    BY <1>1, <1>3 DEF DataOf
  <2>6. t[i] = s[j]
    BY <1>2, <2>2, <2>3, <2>4, <2>5
  <2> QED BY <2>1, <2>6
<1>6. t = [i \in 1 .. n - 1 |-> t[i]]
  BY <1>2, <1>4 DEF DataOf
<1>7. t = [i \in 1 .. n - 1 |-> IF i < k THEN s[i] ELSE s[i + 1]]
  BY <1>5, <1>6
<1> QED BY <1>1, <1>3, <1>4, <1>7

\* list_remove drops an item that is there once.
LEMMA RemoveDrops ==
  ASSUME NEW l \in Linked, NEW d, HeldOnce(l)
  PROVE  Items(Remove(l, d)) = Kept(Items(l), Range(Items(l)) \ {d})
<1>1. PICK o : l \in Lists /\ Ordered(l, o)
  BY LinkedHasOrder
<1>2. PICK n \in Nat : n = l.count
  BY <1>1, ListFacts
<1>3. PICK s : s = Items(l) /\ s = DataOf(l, o) /\ s \in [1 .. n -> Nat]
  BY <1>1, <1>2, ItemsInOrder
<1>4. s \in Seq(Nat) /\ Len(s) = n /\ Range(s) = Held(l)
  <2>1. Items(l) \in Seq(Nat) /\ Len(Items(l)) = l.count /\ Range(Items(l)) = Held(l)
    BY ItemsHeld
  <2> QED BY <1>2, <1>3, <2>1
<1>5. PICK S : S = Range(s) \ {d}
  OBVIOUS
<1>6. CASE ~ Exists(l, d)
  <2>1. Remove(l, d) = l
    BY <1>6 DEF Remove
  <2>2. d \notin Held(l)
    BY <1>6 DEF Exists, Held
  <2>3. Kept(s, S) = s
    BY <1>4, <1>5, <2>2, KeepsAll
  <2> QED BY <1>3, <1>5, <2>1, <2>3
<1>7. CASE Exists(l, d)
  <2>1. PICK k \in 1 .. l.count : Remove(l, d) = RemoveNode(l, o[k]) /\ l.nodes[o[k]].data = d
    BY <1>1, <1>7, RemoveIsRemoveNode
  <2>2. Items(Remove(l, d)) = [i \in 1 .. n - 1 |-> IF i < k THEN s[i] ELSE s[i + 1]]
    <3>1. Items(RemoveNode(l, o[k])) =
           [i \in 1 .. l.count - 1 |-> IF i < k THEN Items(l)[i] ELSE Items(l)[i + 1]]
      BY <1>1, RemoveNodeItems
    <3>2. Items(l) = s /\ l.count = n
      BY <1>2, <1>3
    <3> QED BY <2>1, <3>1, <3>2
  <2>3. \A i \in 1 .. n : s[i] \in S <=> i # k
    <3> TAKE i \in 1 .. n
    <3>1. s[i] = l.nodes[o[i]].data /\ o[i] \in DOMAIN l.nodes /\ o[k] \in DOMAIN l.nodes
      BY <1>1, <1>2, <1>3, <2>1 DEF DataOf, Ordered
    <3>2. s[i] = d <=> o[i] = o[k]
      BY <2>1, <3>1 DEF HeldOnce
    <3>3. o[i] = o[k] <=> i = k
      BY <1>1, <1>2, <2>1 DEF Ordered
    <3>4. s[i] \in Range(s)
      BY <1>3 DEF Range
    <3> QED BY <1>5, <3>2, <3>3, <3>4
  <2>4. k \in 1 .. Len(s) /\ \A i \in 1 .. Len(s) : s[i] \in S <=> i # k
    BY <1>2, <1>4, <2>3
  <2>5. Kept(s, S) = [i \in 1 .. Len(s) - 1 |-> IF i < k THEN s[i] ELSE s[i + 1]]
    BY <1>4, <2>4, KeepsOthers
  <2> QED BY <1>3, <1>4, <1>5, <2>2, <2>5
<1> QED BY <1>6, <1>7

\* list_remove_at(list, 0)
LEMMA RemoveFirstTail ==
  ASSUME NEW l \in Linked, l.count > 0
  PROVE  Items(l) # <<>> /\ Items(RemoveFirst(l)) = Tail(Items(l))
<1>1. PICK o : l \in Lists /\ Ordered(l, o)
  BY LinkedHasOrder
<1>2. PICK n \in Nat : n = l.count /\ n > 0
  BY <1>1, ListFacts
<1>3. PICK s : s = Items(l) /\ s \in [1 .. n -> Nat]
  BY <1>1, <1>2, ItemsInOrder
<1>4. 1 \in 1 .. l.count /\ l.head = o[1]
  BY <1>1, <1>2 DEF Ordered
<1>5. Items(RemoveFirst(l)) = [i \in 1 .. n - 1 |-> IF i < 1 THEN s[i] ELSE s[i + 1]]
  BY <1>1, <1>2, <1>3, <1>4, RemoveNodeItems DEF RemoveFirst
<1>6. [i \in 1 .. n - 1 |-> IF i < 1 THEN s[i] ELSE s[i + 1]] = [i \in 1 .. n - 1 |-> s[i + 1]]
  BY <1>2
<1>7. s \in Seq(Nat) /\ Len(s) = n /\ s # <<>>
  BY <1>2, <1>3
<1>8. PICK t : t = Tail(s) /\ t \in Seq(Nat) /\ Len(t) = n - 1 /\ \A i \in 1 .. n - 1 : t[i] = s[i + 1]
  <2>1. PICK t : t = Tail(s)
    OBVIOUS
  <2>2. t \in Seq(Nat) /\ Len(t) = n - 1
    BY <1>2, <1>7, <2>1
  <2>3. \A i \in 1 .. n - 1 : t[i] = s[i + 1]
    BY <1>2, <1>7, <2>1
  <2> QED BY <2>1, <2>2, <2>3
<1>9. t = [i \in 1 .. n - 1 |-> s[i + 1]]
  <2>1. t \in [1 .. n - 1 -> Nat]
    BY <1>8, SeqFacts
  <2> QED BY <1>8, <2>1
<1> QED BY <1>3, <1>5, <1>6, <1>7, <1>8, <1>9

-----------------------------------------------------------------------------
(* Hash tables.                                                            *)

EntriesOf(I) == {NoEntry} \cup [key : Keys, item : I]

TablesOf(I) ==
  {t \in [slots : UNION {[0 .. c - 1 -> EntriesOf(I)] : c \in Nat},
          capacity : Nat \ {0}, count : Int] :
    t.slots \in [0 .. t.capacity - 1 -> EntriesOf(I)]}

LEMMA TableFacts ==
  ASSUME NEW I, NEW t \in TablesOf(I)
  PROVE  /\ t.capacity \in Nat \ {0} /\ t.count \in Int
         /\ t.slots \in [0 .. t.capacity - 1 -> EntriesOf(I)]
         /\ t = [slots |-> t.slots, capacity |-> t.capacity, count |-> t.count]
  BY DEF TablesOf

LEMMA TablesAre ==
  ASSUME NEW I, NEW c \in Nat \ {0}, NEW n \in Int, NEW s \in [0 .. c - 1 -> EntriesOf(I)]
  PROVE  [slots |-> s, capacity |-> c, count |-> n] \in TablesOf(I)
<1>1. s \in UNION {[0 .. d - 1 -> EntriesOf(I)] : d \in Nat}
  OBVIOUS
<1> QED BY <1>1 DEF TablesOf

\* A record without an item is no entry.
LEMMA EntriesAre ==
  ASSUME NEW I, NEW e \in EntriesOf(I), e # NoEntry
  PROVE  e \in [key : Keys, item : I]
  BY DEF EntriesOf

Vacant(c) == [slots |-> [s \in 0 .. c - 1 |-> NoEntry], capacity |-> c, count |-> 0]

LEMMA VacantIsTable ==
  ASSUME NEW I, NEW c \in Nat \ {0}
  PROVE  Vacant(c) \in TablesOf(I)
<1>1. [s \in 0 .. c - 1 |-> NoEntry] \in [0 .. c - 1 -> EntriesOf(I)]
  BY DEF EntriesOf
<1>2. 0 \in Int
  OBVIOUS
<1> QED BY <1>1, <1>2, TablesAre DEF Vacant

\* What insert_entry does to the array.
LEMMA InsertKeepsTables ==
  ASSUME NEW I, NEW t \in TablesOf(I), NEW e \in [key : Keys, item : I]
  PROVE  /\ InsertEntry(t, e) \in TablesOf(I)
         /\ InsertEntry(t, e).capacity = t.capacity
         /\ InsertEntry(t, e).slots = [t.slots EXCEPT ![FreeSlot(t, e.key)] = e]
<1>1. PICK s : s = FreeSlot(t, e.key)
  OBVIOUS
<1>2. PICK f : f = [t.slots EXCEPT ![s] = e]
  OBVIOUS
<1>3. PICK n : n = IF t.slots[s] = NoEntry THEN t.count + 1 ELSE t.count
  OBVIOUS
<1>4. n \in Int
  BY <1>3, TableFacts
<1>5. InsertEntry(t, e) = [slots |-> f, capacity |-> t.capacity, count |-> n]
  <2>1. InsertEntry(t, e) = [t EXCEPT !.slots[s] = e, !.count = IF t.slots[s] = NoEntry THEN @ + 1 ELSE @]
    BY <1>1 DEF InsertEntry
  <2> QED BY <1>2, <1>3, <2>1 DEF TablesOf
<1>6. f \in [0 .. t.capacity - 1 -> EntriesOf(I)]
  <2>1. e \in EntriesOf(I)
    BY DEF EntriesOf
  <2> QED BY <1>2, <2>1, TableFacts
<1>7. [slots |-> f, capacity |-> t.capacity, count |-> n] \in TablesOf(I)
  BY <1>4, <1>6, TableFacts, TablesAre
<1> QED BY <1>1, <1>2, <1>5, <1>7

\* grow inserts the entries one after the other into a table of twice the capacity.
Rehash(t, b, p) == IF t.slots[p - 1] = NoEntry THEN b ELSE InsertEntry(b, t.slots[p - 1])

LEMMA GrowRehashes ==
  ASSUME NEW I, NEW t \in TablesOf(I)
  PROVE  \E f \in [0 .. t.capacity -> TablesOf(I)] :
           /\ f[0] = Vacant(2 * t.capacity)
           /\ \A p \in 1 .. t.capacity : f[p] = Rehash(t, f[p - 1], p)
           /\ Grow(t) = f[t.capacity]
<1>1. PICK n \in Nat \ {0} : n = t.capacity
  BY TableFacts
<1>2. PICK A, a : A = TablesOf(I) /\ a = Vacant(2 * n)
  OBVIOUS
<1>3. a \in A
  <2>1. 2 * n \in Nat \ {0} OBVIOUS
  <2> QED BY <1>2, <2>1, VacantIsTable
<1>4. \A p \in 1 .. n, b \in A : Rehash(t, b, p) \in A
  <2> SUFFICES ASSUME NEW p \in 1 .. n, NEW b \in A PROVE Rehash(t, b, p) \in A
    OBVIOUS
  <2>1. CASE t.slots[p - 1] = NoEntry
    BY <2>1 DEF Rehash
  <2>2. CASE t.slots[p - 1] # NoEntry
    <3>1. t.slots[p - 1] \in EntriesOf(I)
      <4>1. p - 1 \in 0 .. n - 1 OBVIOUS
      <4> QED BY <1>1, <4>1, TableFacts
    <3>2. t.slots[p - 1] \in [key : Keys, item : I]
      BY <2>2, <3>1, EntriesAre
    <3>3. InsertEntry(b, t.slots[p - 1]) \in A
      BY <1>2, <3>2, InsertKeepsTables
    <3> QED BY <2>2, <3>3 DEF Rehash
  <2> QED BY <2>1, <2>2
<1>5. PICK g : g = [p \in 1 .. n |-> [b \in A |-> Rehash(t, b, p)]]
  OBVIOUS
<1>6. Stepwise(n, A, a, g)
  BY <1>3, <1>4, <1>5 DEF Stepwise
<1>7. PICK f : Iteration(f, n, A, a, g)
  BY <1>6, IterationExists
<1>8. \A p \in 1 .. n : f[p] = Rehash(t, f[p - 1], p)
  <2> TAKE p \in 1 .. n
  <2>1. p - 1 \in 0 .. n OBVIOUS
  <2>2. f[p] = g[p][f[p - 1]] /\ f[p - 1] \in A
    BY <1>7, <2>1 DEF Iteration
  <2> QED BY <1>5, <2>2
<1> DEFINE F(h) == [p \in 0 .. n |-> IF p = 0 THEN a ELSE Rehash(t, h[p - 1], p)]
<1>9. f = F(f)
  <2>1. \A p \in 0 .. n : f[p] = IF p = 0 THEN a ELSE Rehash(t, f[p - 1], p)
    <3> TAKE p \in 0 .. n
    <3>1. CASE p = 0 BY <1>7, <3>1 DEF Iteration
    <3>2. CASE p # 0
      <4>1. p \in 1 .. n BY <3>2
      <4> QED BY <1>8, <3>2, <4>1
    <3> QED BY <3>1, <3>2
  <2>2. f = [p \in 0 .. n |-> f[p]]
    BY <1>7 DEF Iteration
  <2> QED BY <2>1, <2>2
<1>10. Grow(t) = (CHOOSE h : h = F(h))[n]
  BY <1>1, <1>2 DEF Grow, Rehash, Vacant
<1>11. PICK h : h = F(h) /\ Grow(t) = h[n]
  <2> HIDE DEF F
  <2> QED BY <1>9, <1>10
<1>12. \A p \in 0 .. n : h[p] = f[p]
  <2> DEFINE S == {p \in 0 .. n : h[p] = f[p]}
  <2>1. 0 \in S
    BY <1>7, <1>11 DEF Iteration
  <2>2. ASSUME NEW k \in 0 .. n - 1, k \in S PROVE k + 1 \in S
    <3>1. PICK p \in 1 .. n : p = k + 1 /\ p - 1 = k /\ p \in 0 .. n /\ p # 0
      OBVIOUS
    <3>2. h[p] = Rehash(t, h[k], p) /\ f[p] = Rehash(t, f[k], p)
      BY <1>8, <1>11, <3>1
    <3> QED BY <2>2, <3>1, <3>2
  <2> HIDE DEF S
  <2>3. \A p \in 0 .. n : p \in S
    BY <2>1, <2>2, SetInduction
  <2> QED BY <2>3 DEF S
<1>13. f \in [0 .. n -> A] /\ f[0] = a
  BY <1>7 DEF Iteration
<1>14. n \in 0 .. n
  OBVIOUS
<1> QED BY <1>1, <1>2, <1>8, <1>11, <1>12, <1>13, <1>14

LEMMA AddKeepsTables ==
  ASSUME NEW I, NEW t \in TablesOf(I), NEW k \in Keys, NEW item \in I
  PROVE  Add(t, k, item) \in TablesOf(I)
<1>1. PICK added : added = InsertEntry(t, [key |-> k, item |-> item])
  OBVIOUS
<1>2. added \in TablesOf(I)
  BY <1>1, InsertKeepsTables
<1>3. Grow(added) \in TablesOf(I)
  <2>1. PICK f \in [0 .. added.capacity -> TablesOf(I)] : Grow(added) = f[added.capacity]
    BY <1>2, GrowRehashes
  <2>2. added.capacity \in 0 .. added.capacity
    BY <1>2, TableFacts
  <2> QED BY <2>1, <2>2
<1>4. Add(t, k, item) = added \/ Add(t, k, item) = Grow(added)
  BY <1>1 DEF Add
<1> QED BY <1>2, <1>3, <1>4

\* htable_get returns the item of a slot, or nothing.
LEMMA TurnIsSlot ==
  ASSUME NEW I, NEW t \in TablesOf(I), NEW k \in Keys, NEW i \in Turns(t)
  PROVE  Probe(t, k, i) \in 0 .. t.capacity - 1
<1>1. t.capacity \in Nat \ {0} /\ Hash[k] \in Nat
  BY TableFacts, HashTableAssumption
<1>2. i \in Nat
  BY <1>1 DEF Turns
<1>3. i * i \in Nat
  BY <1>2
<1>4. Hash[k] + i * i \in Nat
  BY <1>1, <1>3
<1> QED BY <1>1, <1>4 DEF Probe

LEMMA FoundAtSlot ==
  ASSUME NEW I, NEW t \in TablesOf(I), NEW k \in Keys, Turn(t, k) # {}
  PROVE  /\ FoundAt(t, k) \in 0 .. t.capacity - 1
         /\ t.slots[FoundAt(t, k)] \in [key : Keys, item : I]
         /\ t.slots[FoundAt(t, k)].key = k
         /\ \A m : Get(t, k, m) = t.slots[FoundAt(t, k)].item
<1> DEFINE T == Turn(t, k)
<1>1. PICK c \in Nat \ {0} : c = t.capacity
  BY TableFacts
<1>2. PICK least \in T : \A j \in T : least <= j
  <2>1. T \in SUBSET (0 .. c - 1) /\ c - 1 \in Nat
    BY <1>1 DEF Turn, Turns
  <2> HIDE DEF T
  <2> DEFINE U == {j + 1 : j \in T}
  <2>2. U \in SUBSET (1 .. c) /\ U # {}
    BY <2>1 DEF T
  <2>3. PICK u \in U : \A v \in U : u <= v
    <3> HIDE DEF U
    <3> QED BY <2>2, LeastExists
  <2>4. PICK i \in T : u = i + 1
    BY <2>3
  <2>5. \A j \in T : i + 1 <= j + 1
    BY <2>3, <2>4
  <2>6. i \in Nat /\ \A j \in T : j \in Nat
    BY <2>1
  <2> QED BY <2>4, <2>5, <2>6
<1>3. PICK x : x = CHOOSE i \in T : \A j \in T : i <= j
  OBVIOUS
<1>4. x \in T
  <2> HIDE DEF T
  <2> QED BY <1>2, <1>3
<1>5. FoundAt(t, k) = Probe(t, k, x) /\ \A m : Get(t, k, m) = t.slots[Probe(t, k, x)].item
  BY <1>3, <1>4 DEF FoundAt, Get
<1>6. x \in Turns(t) /\ t.slots[Probe(t, k, x)] # NoEntry /\ t.slots[Probe(t, k, x)].key = k
  BY <1>4 DEF Turn
<1>7. Probe(t, k, x) \in 0 .. t.capacity - 1
  BY <1>6, TurnIsSlot
<1>8. t.slots[Probe(t, k, x)] \in EntriesOf(I)
  BY <1>7, TableFacts
<1> QED BY <1>5, <1>6, <1>7, <1>8, EntriesAre

LEMMA DeleteKeepsTables ==
  ASSUME NEW I, NEW t \in TablesOf(I), NEW k \in Keys
  PROVE  /\ Delete(t, k) \in TablesOf(I)
         /\ Delete(t, k).capacity = t.capacity
         /\ Turn(t, k) # {} =>
              Delete(t, k).slots = [t.slots EXCEPT ![FoundAt(t, k)] = NoEntry]
<1>1. CASE Turn(t, k) = {}
  BY <1>1 DEF Delete
<1>2. CASE Turn(t, k) # {}
  <2>1. PICK f : f = [t.slots EXCEPT ![FoundAt(t, k)] = NoEntry]
    OBVIOUS
  <2>2. Delete(t, k) = [slots |-> f, capacity |-> t.capacity, count |-> t.count - 1]
    <3>1. Delete(t, k) = [t EXCEPT !.slots[FoundAt(t, k)] = NoEntry, !.count = @ - 1]
      BY <1>2 DEF Delete
    <3> QED BY <2>1, <3>1 DEF TablesOf
  <2>3. f \in [0 .. t.capacity - 1 -> EntriesOf(I)]
    <3>1. NoEntry \in EntriesOf(I) BY DEF EntriesOf
    <3> QED BY <2>1, <3>1, TableFacts
  <2>4. t.count - 1 \in Int
    BY TableFacts
  <2>5. [slots |-> f, capacity |-> t.capacity, count |-> t.count - 1] \in TablesOf(I)
    BY <2>3, <2>4, TableFacts, TablesAre
  <2> QED BY <2>1, <2>2, <2>5
<1> QED BY <1>1, <1>2

-----------------------------------------------------------------------------
(* Probe sequences.                                                        *)

\* Division of a number that can be negative.
LEMMA Division ==
  ASSUME NEW c \in Nat \ {0}, NEW x \in Nat
  PROVE  /\ x \div c \in Nat /\ x % c \in Nat /\ x % c < c
         /\ x = c * (x \div c) + (x % c)
<1>1. /\ x \div c \in Int /\ x % c \in Int /\ 0 <= x % c /\ x % c < c
      /\ x = c * (x \div c) + (x % c)
  OBVIOUS
<1>2. PICK q, r \in Int : q = x \div c /\ r = x % c
  BY <1>1
<1>3. q <= -1 => c * q <= 0 - c
  OBVIOUS
<1>4. q >= 0
  BY <1>1, <1>2, <1>3
<1> QED BY <1>1, <1>2, <1>4

\* A slot of a table that has grown is, modulo the old capacity, the old slot.
LEMMA ProbesRepeat ==
  ASSUME NEW c \in Nat \ {0}, NEW m \in Nat \ {0}, NEW x \in Nat
  PROVE  (x % (m * c)) % c = x % c
<1>1. PICK n \in Nat \ {0} : n = m * c
  OBVIOUS
<1>2. PICK q, r \in Nat : q = x \div n /\ r = x % n /\ x = n * q + r
  BY Division
<1>3. PICK u, s \in Nat : u = r \div c /\ s = r % c /\ r = c * u + s /\ s < c
  BY Division
<1>4. PICK v, w \in Nat : v = x \div c /\ w = x % c /\ x = c * v + w /\ w < c
  BY Division
<1>5. PICK k \in Int : k = m * q + u - v
  OBVIOUS
<1>6. w - s = c * k
  <2>1. n * q = c * (m * q)
    BY <1>1
  <2>2. c * (m * q) + c * u + s = c * v + w
    <3>1. x = n * q + (c * u + s)
      BY <1>2, <1>3
    <3>2. n * q + (c * u + s) = c * v + w
      BY <3>1, <1>4
    <3>3. PICK a, b, d \in Nat : a = n * q /\ b = c * u /\ d = c * v
      OBVIOUS
    <3>4. a + (b + s) = a + b + s
      OBVIOUS
    <3> QED BY <2>1, <3>2, <3>3, <3>4
  <2>3. c * (m * q + u - v) = c * (m * q) + c * u - c * v
    OBVIOUS
  <2> QED BY <1>5, <2>2, <2>3
<1>7. k = 0
  <2>1. k >= 1 => c * k >= c
    OBVIOUS
  <2>2. k <= -1 => c * k <= 0 - c
    OBVIOUS
  <2> QED BY <1>3, <1>4, <1>6, <2>1, <2>2
<1>8. w = s
  BY <1>6, <1>7
<1>9. (x % n) % c = s /\ x % c = w
  BY <1>2, <1>3, <1>4
<1> QED BY <1>1, <1>8, <1>9

-----------------------------------------------------------------------------
(* Tables as maps: each key at most once, on its probe sequence.           *)

Slots(t) == 0 .. t.capacity - 1

Maps(K, I) ==
  {t \in TablesOf(I) :
     /\ \E m \in Nat \ {0} : t.capacity = m * Capacity
     /\ \A a \in Slots(t) : t.slots[a] # NoEntry =>
          /\ t.slots[a].key \in K
          /\ \E i \in Turns(t) : Probe(t, t.slots[a].key, i) = a
     /\ \A a, b \in Slots(t) :
          t.slots[a] # NoEntry /\ t.slots[b] # NoEntry /\ t.slots[a].key = t.slots[b].key => a = b}

Entries(t) == {t.slots[a] : a \in Slots(t)} \ {NoEntry}

LEMMA MapFacts ==
  ASSUME NEW K, NEW I, NEW t \in Maps(K, I)
  PROVE  /\ t \in TablesOf(I) /\ t.capacity \in Nat \ {0}
         /\ \A x \in Entries(t) : x \in [key : K, item : I]
         /\ \A x, y \in Entries(t) : x.key = y.key => x = y
<1>1. t \in TablesOf(I) /\ t.capacity \in Nat \ {0} /\ t.slots \in [Slots(t) -> EntriesOf(I)]
  BY TableFacts DEF Maps, Slots
<1>2. ASSUME NEW x \in Entries(t) PROVE x \in [key : K, item : I]
  <2>1. PICK a \in Slots(t) : x = t.slots[a] /\ x # NoEntry
    BY DEF Entries
  <2>2. x \in [key : Keys, item : I]
    BY <1>1, <2>1, EntriesAre
  <2>3. x.key \in K
    BY <2>1 DEF Maps
  <2> QED BY <2>2, <2>3
<1>3. ASSUME NEW x \in Entries(t), NEW y \in Entries(t), x.key = y.key PROVE x = y
  <2>1. PICK a \in Slots(t) : x = t.slots[a] /\ x # NoEntry
    BY DEF Entries
  <2>2. PICK b \in Slots(t) : y = t.slots[b] /\ y # NoEntry
    BY DEF Entries
  <2>3. a = b
    BY <1>3, <2>1, <2>2 DEF Maps
  <2> QED BY <2>1, <2>2, <2>3
<1> QED BY <1>1, <1>2, <1>3

\* htable_get finds a key that is stored, in its slot; it finds no other.
LEMMA KeyFound ==
  ASSUME NEW K, NEW I, K \subseteq Keys, NEW t \in Maps(K, I), NEW x \in Entries(t)
  PROVE  /\ Turn(t, x.key) # {} /\ \A m : Get(t, x.key, m) = x.item
         /\ FoundAt(t, x.key) \in Slots(t) /\ t.slots[FoundAt(t, x.key)] = x
<1>1. PICK a \in Slots(t) : x = t.slots[a] /\ x # NoEntry
  BY DEF Entries
<1>2. PICK k \in Keys : k = x.key
  BY MapFacts
<1>3. PICK i \in Turns(t) : Probe(t, k, i) = a
  BY <1>1, <1>2 DEF Maps
<1>4. Turn(t, k) # {}
  BY <1>1, <1>2, <1>3 DEF Turn
<1>5. PICK b : b = FoundAt(t, k)
  OBVIOUS
<1>6. /\ b \in Slots(t) /\ t.slots[b] \in [key : Keys, item : I] /\ t.slots[b].key = k
      /\ \A m : Get(t, k, m) = t.slots[b].item
  BY <1>4, <1>5, FoundAtSlot, MapFacts DEF Slots
<1>7. t.slots[b] # NoEntry
  <2>1. ASSUME NEW e \in [key : Keys, item : I] PROVE e # NoEntry
    BY DEF NoEntry
  <2> QED BY <1>6, <2>1
<1>8. b = a
  BY <1>1, <1>2, <1>6, <1>7 DEF Maps
<1> QED BY <1>1, <1>2, <1>4, <1>5, <1>6, <1>8

LEMMA KeyMissing ==
  ASSUME NEW K, NEW I, NEW t \in Maps(K, I), NEW k \in Keys, \A x \in Entries(t) : x.key # k
  PROVE  Turn(t, k) = {} /\ \A m : Get(t, k, m) = m
<1>1. ASSUME NEW i \in Turn(t, k) PROVE FALSE
  <2>1. PICK a \in Slots(t) : a = Probe(t, k, i)
    BY TurnIsSlot, MapFacts DEF Turn, Slots
  <2>2. t.slots[a] # NoEntry /\ t.slots[a].key = k
    BY <2>1 DEF Turn
  <2> QED BY <2>2 DEF Entries
<1> QED BY <1>1 DEF Get

\* A key that is not stored has a free slot on its probe sequence: the other keys
\* do not fill it.
LEMMA FreeTurn ==
  ASSUME NEW K, NEW I, K \subseteq Keys, IsFiniteSet(K), ProbesFor(K),
         NEW t \in Maps(K, I), NEW k \in K, \A x \in Entries(t) : x.key # k
  PROVE  \E i \in Turns(t) : t.slots[Probe(t, k, i)] = NoEntry
<1> SUFFICES ASSUME \A i \in Turns(t) : t.slots[Probe(t, k, i)] # NoEntry PROVE FALSE
  OBVIOUS
<1>1. PICK m \in Nat \ {0} : t.capacity = m * Capacity
  BY DEF Maps
<1>2. Capacity \in Nat \ {0} /\ Hash[k] \in Nat
  BY HashTableAssumption
<1>3. PICK P : P = {(Hash[k] + i * i) % Capacity : i \in 0 .. Capacity - 1}
  OBVIOUS
<1>4. PICK turn : turn = [p \in P |-> CHOOSE i \in 0 .. Capacity - 1 :
                                       p = (Hash[k] + i * i) % Capacity]
  OBVIOUS
<1>5. \A p \in P : turn[p] \in 0 .. Capacity - 1 /\ p = (Hash[k] + turn[p] * turn[p]) % Capacity
  BY <1>3, <1>4
<1>6. \A p \in P : turn[p] \in Turns(t)
  <2>1. Capacity <= m * Capacity
    BY <1>2
  <2>2. \A i \in 0 .. Capacity - 1 : i \in 0 .. t.capacity - 1
    BY <1>1, <1>2, <2>1
  <2> QED BY <1>5, <2>2 DEF Turns
<1>7. PICK place : place = [p \in P |-> Probe(t, k, turn[p])]
  OBVIOUS
<1>8. \A p \in P : place[p] \in Slots(t) /\ place[p] % Capacity = p
  <2> TAKE p \in P
  <2>1. place[p] = (Hash[k] + turn[p] * turn[p]) % (m * Capacity)
    BY <1>1, <1>7 DEF Probe
  <2>2. PICK x \in Nat : x = Hash[k] + turn[p] * turn[p]
    BY <1>2, <1>5
  <2>3. (x % (m * Capacity)) % Capacity = x % Capacity
    BY <1>2, ProbesRepeat
  <2>4. place[p] \in Slots(t)
    BY <1>6, <1>7, TurnIsSlot, MapFacts DEF Slots
  <2> QED BY <1>5, <2>1, <2>2, <2>3, <2>4
<1>9. PICK owner : owner = [p \in P |-> t.slots[place[p]].key]
  OBVIOUS
<1>10. \A p \in P : t.slots[place[p]] # NoEntry
  BY <1>6, <1>7
<1>11. \A p \in P : t.slots[place[p]] \in Entries(t)
  BY <1>8, <1>10 DEF Entries
<1>12. owner \in [P -> K \ {k}]
  <2>1. \A p \in P : t.slots[place[p]].key \in K \ {k}
    BY <1>11, MapFacts
  <2> QED BY <1>9, <2>1
<1>13. ASSUME NEW p \in P, NEW q \in P, owner[p] = owner[q] PROVE p = q
  <2>1. place[p] = place[q]
    BY <1>8, <1>9, <1>10, <1>13 DEF Maps
  <2> QED BY <1>8, <2>1
<1>14. owner \in Injection(P, K \ {k})
  BY <1>12, <1>13 DEF Injection, IsInjective
<1>15. IsFiniteSet(K \ {k}) /\ Cardinality(K \ {k}) = Cardinality(K) - 1
  BY FS_RemoveElement
<1>16. Cardinality(P) <= Cardinality(K \ {k}) /\ IsFiniteSet(P)
  BY <1>14, <1>15, FS_Injection
<1>17. Cardinality(K) <= Cardinality(P)
  BY <1>3 DEF ProbesFor
<1>18. Cardinality(K) \in Nat /\ Cardinality(P) \in Nat
  BY <1>16, FS_CardinalityType
<1> QED BY <1>15, <1>16, <1>17, <1>18

LEMMA FreeSlotIsFree ==
  ASSUME NEW K, NEW I, K \subseteq Keys, IsFiniteSet(K), ProbesFor(K),
         NEW t \in Maps(K, I), NEW k \in K, \A x \in Entries(t) : x.key # k
  PROVE  /\ \E i \in Turns(t) : FreeSlot(t, k) = Probe(t, k, i)
         /\ FreeSlot(t, k) \in Slots(t) /\ t.slots[FreeSlot(t, k)] = NoEntry
<1>1. PICK n \in Nat : n = t.capacity
  BY MapFacts
<1>2. \A i \in Turns(t) : Probe(t, k, i) \in Slots(t)
  BY TurnIsSlot, MapFacts DEF Slots
<1>3. \A i \in Turns(t) : Stops(t, k, i) <=> t.slots[Probe(t, k, i)] = NoEntry
  <2> TAKE i \in Turns(t)
  <2>1. t.slots[Probe(t, k, i)] # NoEntry => t.slots[Probe(t, k, i)].key # k
    BY <1>2 DEF Entries
  <2> QED BY <2>1 DEF Stops
<1> DEFINE T == {i \in Turns(t) : Stops(t, k, i)}
<1>4. \E i \in T : \A j \in T : i <= j
  <2>1. PICK i0 \in Turns(t) : t.slots[Probe(t, k, i0)] = NoEntry
    BY FreeTurn
  <2>2. i0 \in T
    BY <1>3, <2>1
  <2>3. T \subseteq 0 .. n - 1
    BY <1>1 DEF Turns
  <2> DEFINE U == {j + 1 : j \in T}
  <2>4. U \in SUBSET (1 .. n) /\ U # {}
    <3> HIDE DEF T
    <3> QED BY <2>2, <2>3
  <2>5. PICK u \in U : \A v \in U : u <= v
    <3> HIDE DEF U
    <3> QED BY <2>4, LeastExists
  <2> HIDE DEF T
  <2>6. PICK i \in T : u = i + 1
    BY <2>5
  <2>7. \A j \in T : i + 1 <= j + 1
    BY <2>5, <2>6
  <2>8. \A j \in T : j \in Nat
    BY <2>3
  <2> QED BY <2>6, <2>7, <2>8
<1>5. \E i \in Turns(t) : Stops(t, k, i) /\ \A j \in 0 .. i - 1 : ~ Stops(t, k, j)
  <2>1. PICK i \in T : \A j \in T : i <= j
    BY <1>4
  <2>2. i \in 0 .. n - 1
    BY <1>1 DEF Turns
  <2>3. \A j \in 0 .. i - 1 : j \in Turns(t) /\ ~ (i <= j)
    BY <1>1, <2>2 DEF Turns
  <2> QED BY <2>1, <2>3
<1>6. PICK i : i = CHOOSE c \in Turns(t) : Stops(t, k, c) /\ \A j \in 0 .. c - 1 : ~ Stops(t, k, j)
  OBVIOUS
<1>7. i \in Turns(t) /\ Stops(t, k, i)
  BY <1>5, <1>6
<1>8. FreeSlot(t, k) = Probe(t, k, i)
  BY <1>6 DEF FreeSlot
<1> QED BY <1>2, <1>3, <1>7, <1>8

LEMMA InsertMaps ==
  ASSUME NEW K, NEW I, K \subseteq Keys, IsFiniteSet(K), ProbesFor(K),
         NEW t \in Maps(K, I), NEW e \in [key : K, item : I], \A x \in Entries(t) : x.key # e.key
  PROVE  /\ InsertEntry(t, e) \in Maps(K, I)
         /\ Entries(InsertEntry(t, e)) = Entries(t) \cup {e}
<1>1. PICK k \in K : k = e.key
  OBVIOUS
<1>2. PICK s : s = FreeSlot(t, k)
  OBVIOUS
<1>3. PICK i \in Turns(t) : s = Probe(t, k, i)
  BY <1>1, <1>2, FreeSlotIsFree
<1>4. s \in Slots(t) /\ t.slots[s] = NoEntry
  BY <1>1, <1>2, FreeSlotIsFree
<1>5. PICK u : u = InsertEntry(t, e)
  OBVIOUS
<1>6. u \in TablesOf(I) /\ u.capacity = t.capacity /\ u.slots = [t.slots EXCEPT ![s] = e]
  <2>1. e \in [key : Keys, item : I]
    OBVIOUS
  <2> QED BY <1>1, <1>2, <1>5, <2>1, InsertKeepsTables, MapFacts
<1>7. t.slots \in [Slots(t) -> EntriesOf(I)]
  BY TableFacts, MapFacts DEF Slots
<1>8. Slots(u) = Slots(t) /\ \A a \in Slots(t) : u.slots[a] = IF a = s THEN e ELSE t.slots[a]
  BY <1>4, <1>6, <1>7 DEF Slots
<1>9. e # NoEntry
  BY DEF NoEntry
<1>10. Turns(u) = Turns(t) /\ \A c, j : Probe(u, c, j) = Probe(t, c, j)
  BY <1>6 DEF Turns, Probe
<1>11. \E m \in Nat \ {0} : u.capacity = m * Capacity
  BY <1>6 DEF Maps
<1>12. ASSUME NEW a \in Slots(u), u.slots[a] # NoEntry
       PROVE  /\ u.slots[a].key \in K
              /\ \E j \in Turns(u) : Probe(u, u.slots[a].key, j) = a
  <2>1. CASE a = s
    BY <1>1, <1>3, <1>8, <1>10, <2>1, <1>4
  <2>2. CASE a # s
    BY <1>8, <1>10, <1>12, <2>2 DEF Maps
  <2> QED BY <2>1, <2>2
<1>13. ASSUME NEW a \in Slots(u), NEW b \in Slots(u), u.slots[a] # NoEntry, u.slots[b] # NoEntry,
              u.slots[a].key = u.slots[b].key
       PROVE  a = b
  <2>1. \A c \in Slots(t) : c # s /\ u.slots[c] # NoEntry => u.slots[c] = t.slots[c] /\ u.slots[c].key # k
    BY <1>1, <1>8 DEF Entries
  <2>2. u.slots[s].key = k
    BY <1>1, <1>4, <1>8
  <2>3. CASE a # s /\ b # s
    BY <1>8, <1>13, <2>1, <2>3 DEF Maps
  <2>4. CASE a = s \/ b = s
    BY <1>8, <1>13, <2>1, <2>2, <2>4
  <2> QED BY <2>3, <2>4
<1>14. u \in Maps(K, I)
  BY <1>6, <1>11, <1>12, <1>13 DEF Maps
<1>15. Entries(u) = Entries(t) \cup {e}
  <2>1. \A x \in Entries(u) : x \in Entries(t) \cup {e}
    BY <1>8 DEF Entries
  <2>2. e \in Entries(u)
    BY <1>4, <1>8, <1>9 DEF Entries
  <2>3. \A x \in Entries(t) : x \in Entries(u)
    <3> TAKE x \in Entries(t)
    <3>1. PICK a \in Slots(t) : x = t.slots[a] /\ x # NoEntry
      BY DEF Entries
    <3>2. a # s
      BY <1>4, <3>1
    <3> QED BY <1>8, <3>1, <3>2 DEF Entries
  <2> QED BY <2>1, <2>2, <2>3
<1> QED BY <1>5, <1>14, <1>15

LEMMA VacantIsMap ==
  ASSUME NEW K, NEW I, NEW m \in Nat \ {0}
  PROVE  Vacant(m * Capacity) \in Maps(K, I) /\ Entries(Vacant(m * Capacity)) = {}
<1>1. PICK c \in Nat \ {0} : c = m * Capacity
  BY HashTableAssumption
<1>2. Vacant(c) \in TablesOf(I)
  BY VacantIsTable
<1>3. PICK t : t = Vacant(c)
  OBVIOUS
<1>4. t.capacity = c /\ \A a \in Slots(t) : t.slots[a] = NoEntry
  BY <1>3 DEF Vacant, Slots
<1>5. t \in Maps(K, I) /\ Entries(t) = {}
  BY <1>1, <1>2, <1>3, <1>4 DEF Maps, Entries
<1> QED BY <1>1, <1>3, <1>5

LEMMA EmptyTableIsMap ==
  ASSUME NEW K, NEW I
  PROVE  EmptyTable \in Maps(K, I) /\ Entries(EmptyTable) = {}
<1>1. 1 \in Nat \ {0} /\ 1 * Capacity = Capacity
  BY HashTableAssumption
<1>2. EmptyTable = Vacant(1 * Capacity)
  BY <1>1 DEF EmptyTable, Vacant
<1> QED BY <1>1, <1>2, VacantIsMap

\* grow loses no entry and duplicates none.
LEMMA GrowMaps ==
  ASSUME NEW K, NEW I, K \subseteq Keys, IsFiniteSet(K), ProbesFor(K), NEW t \in Maps(K, I)
  PROVE  Grow(t) \in Maps(K, I) /\ Entries(Grow(t)) = Entries(t)
<1>1. PICK n \in Nat \ {0} : n = t.capacity
  BY MapFacts
<1>2. PICK f \in [0 .. n -> TablesOf(I)] :
        /\ f[0] = Vacant(2 * n)
        /\ \A p \in 1 .. n : f[p] = Rehash(t, f[p - 1], p)
        /\ Grow(t) = f[n]
  BY <1>1, GrowRehashes, MapFacts
<1> DEFINE Before(p) == {t.slots[a] : a \in 0 .. p - 1} \ {NoEntry}
           S == {p \in 0 .. n : f[p] \in Maps(K, I) /\ Entries(f[p]) = Before(p)}
<1>3. 0 \in S
  <2>1. PICK m \in Nat \ {0} : t.capacity = m * Capacity
    BY DEF Maps
  <2>2. 2 * n = (2 * m) * Capacity /\ 2 * m \in Nat \ {0}
    BY <1>1, <2>1, HashTableAssumption
  <2>3. f[0] \in Maps(K, I) /\ Entries(f[0]) = {}
    BY <1>2, <2>2, VacantIsMap
  <2>4. Before(0) = {} /\ 0 \in 0 .. n
    OBVIOUS
  <2> HIDE DEF Before
  <2> QED BY <2>3, <2>4
<1>4. ASSUME NEW k \in 0 .. n - 1, k \in S PROVE k + 1 \in S
  <2>1. PICK p \in 1 .. n : p = k + 1 /\ p - 1 = k /\ p \in 0 .. n
    OBVIOUS
  <2>2. PICK b : b = f[k] /\ b \in Maps(K, I) /\ Entries(b) = Before(k)
    BY <1>4
  <2>3. k \in Slots(t)
    BY <1>1 DEF Slots
  <2>4. Before(p) = Before(k) \cup ({t.slots[k]} \ {NoEntry})
    <3>1. \A a \in 0 .. p - 1 : a = k \/ a \in 0 .. k - 1
      BY <2>1
    <3>2. k \in 0 .. p - 1 /\ \A a \in 0 .. k - 1 : a \in 0 .. p - 1
      BY <2>1
    <3>3. {t.slots[a] : a \in 0 .. p - 1} = {t.slots[a] : a \in 0 .. k - 1} \cup {t.slots[k]}
      BY <3>1, <3>2
    <3> QED BY <3>3
  <2>5. f[p] = Rehash(t, b, p)
    BY <1>2, <2>1, <2>2
  <2>6. CASE t.slots[k] = NoEntry
    <3>1. f[p] = b
      BY <2>1, <2>5, <2>6 DEF Rehash
    <3>2. Before(p) = Before(k)
      BY <2>4, <2>6
    <3> HIDE DEF Before
    <3> QED BY <2>1, <2>2, <3>1, <3>2
  <2>7. CASE t.slots[k] # NoEntry
    <3>1. PICK e : e = t.slots[k]
      OBVIOUS
    <3>2. e \in [key : K, item : I]
      BY <2>3, <2>7, <3>1, MapFacts DEF Entries
    <3>3. \A x \in Entries(b) : x.key # e.key
      <4> TAKE x \in Entries(b)
      <4>1. PICK a \in 0 .. k - 1 : x = t.slots[a] /\ x # NoEntry
        BY <2>2
      <4>2. a \in Slots(t) /\ a # k
        BY <1>1, <4>1 DEF Slots
      <4> QED BY <2>3, <2>7, <3>1, <4>1, <4>2 DEF Maps
    <3>4. f[p] = InsertEntry(b, e)
      BY <2>1, <2>5, <2>7, <3>1 DEF Rehash
    <3>5. f[p] \in Maps(K, I) /\ Entries(f[p]) = Entries(b) \cup {e}
      BY <2>2, <3>2, <3>3, <3>4, InsertMaps
    <3>6. Before(p) = Before(k) \cup {e}
      BY <2>4, <2>7, <3>1
    <3> HIDE DEF Before
    <3> QED BY <2>1, <2>2, <3>5, <3>6
  <2> QED BY <2>6, <2>7
<1>5. n \in S
  <2> HIDE DEF S
  <2>1. \A k \in 0 .. n : k \in S
    BY <1>3, <1>4, SetInduction
  <2>2. n \in 0 .. n
    OBVIOUS
  <2> QED BY <2>1, <2>2
<1>6. Before(n) = Entries(t)
  BY <1>1 DEF Entries, Slots
<1> QED BY <1>2, <1>5, <1>6

\* htable_add of a new key, with or without growth.
LEMMA AddMaps ==
  ASSUME NEW K, NEW I, K \subseteq Keys, IsFiniteSet(K), ProbesFor(K),
         NEW t \in Maps(K, I), NEW k \in K, NEW item \in I, \A x \in Entries(t) : x.key # k
  PROVE  /\ Add(t, k, item) \in Maps(K, I)
         /\ Entries(Add(t, k, item)) = Entries(t) \cup {[key |-> k, item |-> item]}
<1>1. PICK e : e = [key |-> k, item |-> item]
  OBVIOUS
<1>2. PICK u : u = InsertEntry(t, e)
  OBVIOUS
<1>3. u \in Maps(K, I) /\ Entries(u) = Entries(t) \cup {e}
  BY <1>1, <1>2, InsertMaps
<1>4. Grow(u) \in Maps(K, I) /\ Entries(Grow(u)) = Entries(u)
  BY <1>3, GrowMaps
<1>5. Add(t, k, item) = u \/ Add(t, k, item) = Grow(u)
  BY <1>1, <1>2 DEF Add
<1> QED BY <1>1, <1>3, <1>4, <1>5

\* htable_remove leaves a hole, which hides no other key.
LEMMA DeleteMaps ==
  ASSUME NEW K, NEW I, K \subseteq Keys, NEW t \in Maps(K, I), NEW k \in K
  PROVE  /\ Delete(t, k) \in Maps(K, I)
         /\ Entries(Delete(t, k)) = {x \in Entries(t) : x.key # k}
<1>1. CASE \A x \in Entries(t) : x.key # k
  <2>1. Turn(t, k) = {}
    BY <1>1, KeyMissing
  <2>2. Delete(t, k) = t
    BY <2>1 DEF Delete
  <2> QED BY <1>1, <2>2
<1>2. CASE \E x \in Entries(t) : x.key = k
  <2>1. PICK x \in Entries(t) : x.key = k
    BY <1>2
  <2>2. PICK s \in Slots(t) : s = FoundAt(t, k) /\ t.slots[s] = x /\ Turn(t, k) # {}
    BY <2>1, KeyFound
  <2>3. PICK u : u = Delete(t, k)
    OBVIOUS
  <2>4. u \in TablesOf(I) /\ u.capacity = t.capacity /\ u.slots = [t.slots EXCEPT ![s] = NoEntry]
    BY <2>2, <2>3, DeleteKeepsTables, MapFacts
  <2>5. t.slots \in [Slots(t) -> EntriesOf(I)]
    BY TableFacts, MapFacts DEF Slots
  <2>6. Slots(u) = Slots(t) /\ \A a \in Slots(t) : u.slots[a] = IF a = s THEN NoEntry ELSE t.slots[a]
    BY <2>4, <2>5 DEF Slots
  <2>7. Turns(u) = Turns(t) /\ \A c, j : Probe(u, c, j) = Probe(t, c, j)
    BY <2>4 DEF Turns, Probe
  <2>8. u \in Maps(K, I)
    <3>1. \E m \in Nat \ {0} : u.capacity = m * Capacity
      BY <2>4 DEF Maps
    <3>2. \A a \in Slots(u) : u.slots[a] # NoEntry =>
            u.slots[a].key \in K /\ \E i \in Turns(u) : Probe(u, u.slots[a].key, i) = a
      BY <2>6, <2>7 DEF Maps
    <3>3. \A a, b \in Slots(u) :
            u.slots[a] # NoEntry /\ u.slots[b] # NoEntry /\ u.slots[a].key = u.slots[b].key => a = b
      BY <2>6 DEF Maps
    <3> QED BY <2>4, <3>1, <3>2, <3>3 DEF Maps
  <2>9. ASSUME NEW y PROVE y \in Entries(u) <=> y \in Entries(t) /\ y.key # k
    <3>1. ASSUME y \in Entries(u) PROVE y \in Entries(t) /\ y.key # k
      <4>1. PICK a \in Slots(t) : y = u.slots[a] /\ y # NoEntry
        BY <2>6, <3>1 DEF Entries
      <4>2. a # s /\ y = t.slots[a]
        BY <2>6, <4>1
      <4>3. y.key # k
        BY <2>1, <2>2, <4>1, <4>2 DEF Maps, Entries
      <4> QED BY <4>1, <4>2, <4>3 DEF Entries
    <3>2. ASSUME y \in Entries(t), y.key # k PROVE y \in Entries(u)
      <4>1. PICK a \in Slots(t) : y = t.slots[a] /\ y # NoEntry
        BY <3>2 DEF Entries
      <4>2. a # s
        BY <2>1, <2>2, <3>2, <4>1
      <4> QED BY <2>6, <4>1, <4>2 DEF Entries
    <3> QED BY <3>1, <3>2
  <2> QED BY <2>3, <2>8, <2>9
<1> QED BY <1>1, <1>2

\* What htable_get returns afterwards.
LEMMA SameGet ==
  ASSUME NEW K, NEW I, K \subseteq Keys, NEW t \in Maps(K, I), NEW u \in Maps(K, I), NEW h \in K,
         \A x \in Entries(t) : x.key = h => x \in Entries(u),
         \A x \in Entries(u) : x.key = h => x \in Entries(t)
  PROVE  \A m : Get(u, h, m) = Get(t, h, m)
<1>1. CASE \A x \in Entries(t) : x.key # h
  <2>1. \A x \in Entries(u) : x.key # h
    BY <1>1
  <2>2. \A m : Get(t, h, m) = m
    BY <1>1, KeyMissing
  <2>3. \A m : Get(u, h, m) = m
    BY <2>1, KeyMissing
  <2> QED BY <2>2, <2>3
<1>2. CASE \E x \in Entries(t) : x.key = h
  <2>1. PICK x \in Entries(t) : x.key = h /\ x \in Entries(u)
    BY <1>2
  <2>2. \A m : Get(t, x.key, m) = x.item
    BY KeyFound
  <2>3. \A m : Get(u, x.key, m) = x.item
    BY <2>1, KeyFound
  <2> QED BY <2>1, <2>2, <2>3
<1> QED BY <1>1, <1>2

LEMMA AddGets ==
  ASSUME NEW K, NEW I, K \subseteq Keys, IsFiniteSet(K), ProbesFor(K),
         NEW t \in Maps(K, I), NEW k \in K, NEW item \in I, \A x \in Entries(t) : x.key # k
  PROVE  /\ Add(t, k, item) \in Maps(K, I)
         /\ \A h \in K : \A m : Get(Add(t, k, item), h, m) = IF h = k THEN item ELSE Get(t, h, m)
<1>1. PICK u : u = Add(t, k, item)
  OBVIOUS
<1>2. PICK e : e = [key |-> k, item |-> item]
  OBVIOUS
<1>3. u \in Maps(K, I) /\ Entries(u) = Entries(t) \cup {e}
  BY <1>1, <1>2, AddMaps
<1>4. \A m : Get(u, k, m) = item
  <2>1. e \in Entries(u) /\ e.key = k /\ e.item = item
    BY <1>2, <1>3
  <2>2. \A m : Get(u, e.key, m) = e.item
    BY <1>3, <2>1, KeyFound
  <2> QED BY <2>1, <2>2
<1>5. ASSUME NEW h \in K, h # k PROVE \A m : Get(u, h, m) = Get(t, h, m)
  <2>1. e.key # h
    BY <1>2, <1>5
  <2> QED BY <1>3, <2>1, SameGet
<1> QED BY <1>1, <1>3, <1>4, <1>5

LEMMA DeleteGets ==
  ASSUME NEW K, NEW I, K \subseteq Keys, NEW t \in Maps(K, I), NEW k \in K
  PROVE  /\ Delete(t, k) \in Maps(K, I)
         /\ \A h \in K : \A m : Get(Delete(t, k), h, m) = IF h = k THEN m ELSE Get(t, h, m)
<1>1. PICK u : u = Delete(t, k)
  OBVIOUS
<1>2. u \in Maps(K, I) /\ Entries(u) = {x \in Entries(t) : x.key # k}
  BY <1>1, DeleteMaps
<1>3. \A m : Get(u, k, m) = m
  <2>1. \A x \in Entries(u) : x.key # k
    BY <1>2
  <2> QED BY <1>2, <2>1, KeyMissing
<1>4. ASSUME NEW h \in K, h # k PROVE \A m : Get(u, h, m) = Get(t, h, m)
  <2>1. \A x \in Entries(t) : x.key = h => x \in Entries(u)
    BY <1>2, <1>4
  <2>2. \A x \in Entries(u) : x.key = h => x \in Entries(t)
    BY <1>2
  <2> QED BY <1>2, <2>1, <2>2, SameGet
<1> QED BY <1>1, <1>2, <1>3, <1>4

\* The item of a key that is stored is changed in its slot.
LEMMA ReplaceGets ==
  ASSUME NEW K, NEW I, K \subseteq Keys, NEW t \in Maps(K, I), NEW k \in K, Turn(t, k) # {},
         NEW y \in I
  PROVE  LET u == [t EXCEPT !.slots[FoundAt(t, k)].item = y]
         IN /\ u \in Maps(K, I)
            /\ \A h \in K : \A m : Get(u, h, m) = IF h = k THEN y ELSE Get(t, h, m)
<1>1. PICK x \in Entries(t) : x.key = k
  BY KeyMissing
<1>2. PICK s \in Slots(t) : s = FoundAt(t, k) /\ t.slots[s] = x
  BY <1>1, KeyFound
<1>3. PICK u : u = [t EXCEPT !.slots[s].item = y]
  OBVIOUS
<1>4. PICK z : z = [x EXCEPT !.item = y]
  OBVIOUS
<1>5. x \in [key : K, item : I] /\ x # NoEntry
  BY MapFacts DEF Entries
<1>6. z = [key |-> k, item |-> y] /\ z \in [key : K, item : I] /\ z # NoEntry
  BY <1>1, <1>4, <1>5 DEF NoEntry
<1>7. t.slots \in [Slots(t) -> EntriesOf(I)] /\ t \in TablesOf(I)
      /\ t.capacity \in Nat \ {0} /\ t.count \in Int
  BY TableFacts, MapFacts DEF Slots
<1>8. PICK f : f = [t.slots EXCEPT ![s] = z]
  OBVIOUS
<1>9. u = [slots |-> f, capacity |-> t.capacity, count |-> t.count]
  <2>1. [t.slots EXCEPT ![s].item = y] = f
    BY <1>2, <1>4, <1>8
  <2> QED BY <1>3, <1>7, <2>1 DEF TablesOf
<1>10. f \in [Slots(t) -> EntriesOf(I)]
  <2>1. z \in EntriesOf(I)
    BY <1>6 DEF EntriesOf
  <2> QED BY <1>7, <1>8, <2>1
<1>11. u \in TablesOf(I)
  BY <1>7, <1>9, <1>10, TablesAre DEF Slots
<1>12. Slots(u) = Slots(t) /\ \A a \in Slots(t) : u.slots[a] = IF a = s THEN z ELSE t.slots[a]
  BY <1>7, <1>8, <1>9 DEF Slots
<1>13. Turns(u) = Turns(t) /\ \A c, j : Probe(u, c, j) = Probe(t, c, j)
  BY <1>9 DEF Turns, Probe
<1>14. \A a \in Slots(t) : (u.slots[a] # NoEntry <=> t.slots[a] # NoEntry)
                           /\ (u.slots[a] # NoEntry => u.slots[a].key = t.slots[a].key)
  BY <1>1, <1>2, <1>5, <1>6, <1>12
<1>15. u \in Maps(K, I)
  <2>1. \E m \in Nat \ {0} : u.capacity = m * Capacity
    BY <1>9 DEF Maps
  <2>2. \A a \in Slots(u) : u.slots[a] # NoEntry =>
          u.slots[a].key \in K /\ \E i \in Turns(u) : Probe(u, u.slots[a].key, i) = a
    BY <1>12, <1>13, <1>14 DEF Maps
  <2>3. \A a, b \in Slots(u) :
          u.slots[a] # NoEntry /\ u.slots[b] # NoEntry /\ u.slots[a].key = u.slots[b].key => a = b
    BY <1>12, <1>14 DEF Maps
  <2> QED BY <1>11, <2>1, <2>2, <2>3 DEF Maps
<1>16. \A m : Get(u, k, m) = y
  <2>1. z \in Entries(u) /\ z.key = k /\ z.item = y
    BY <1>2, <1>6, <1>12 DEF Entries
  <2>2. \A m : Get(u, z.key, m) = z.item
    BY <1>15, <2>1, KeyFound
  <2> QED BY <2>1, <2>2
<1>17. ASSUME NEW h \in K, h # k PROVE \A m : Get(u, h, m) = Get(t, h, m)
  <2>1. \A v \in Entries(t) : v.key = h => v \in Entries(u)
    BY <1>1, <1>2, <1>12, <1>17 DEF Entries
  <2>2. \A v \in Entries(u) : v.key = h => v \in Entries(t)
    BY <1>6, <1>12, <1>17 DEF Entries
  <2> QED BY <1>15, <2>1, <2>2, SameGet
<1> QED BY <1>2, <1>3, <1>15, <1>16, <1>17
==================================================================================
