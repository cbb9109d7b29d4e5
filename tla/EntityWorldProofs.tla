--------------------------- MODULE EntityWorldProofs ---------------------------
(***************************************************************************)
(* A world refers only to entities in memory, calls the hooks of contacts  *)
(* in pairs and implements the plain store, for any number of entities,    *)
(* systems, events, tags and groups.                                       *)
(***************************************************************************)
EXTENDS EntityWorld, ContainerProofs

-----------------------------------------------------------------------------
(* Operations for a set of keys, one after the other.                      *)

\* Every key of the set has its place in the order, and only one.
OrderOf(ks) ==
  CHOOSE o \in [1 .. Cardinality(ks) -> ks] : \A k \in ks : \E i \in 1 .. Cardinality(ks) : o[i] = k

LEMMA KeysInOrder ==
  ASSUME NEW ks, IsFiniteSet(ks)
  PROVE  /\ Cardinality(ks) \in Nat
         /\ OrderOf(ks) \in [1 .. Cardinality(ks) -> ks]
         /\ \A k \in ks : \E i \in 1 .. Cardinality(ks) : OrderOf(ks)[i] = k
         /\ \A i, j \in 1 .. Cardinality(ks) : OrderOf(ks)[i] = OrderOf(ks)[j] => i = j
<1>1. PICK n \in Nat : n = Cardinality(ks) /\ ExistsBijection(1 .. n, ks)
  BY FS_CardinalityType
<1>2. \E o \in [1 .. n -> ks] : \A k \in ks : \E i \in 1 .. n : o[i] = k
  BY <1>1 DEF ExistsBijection, Bijection, Injection, Surjection
<1>3. PICK o : o = OrderOf(ks)
  OBVIOUS
<1>4. o \in [1 .. n -> ks] /\ \A k \in ks : \E i \in 1 .. n : o[i] = k
  <2>1. o = CHOOSE q \in [1 .. n -> ks] : \A k \in ks : \E i \in 1 .. n : q[i] = k
    BY <1>1, <1>3 DEF OrderOf
  <2> QED BY <1>2, <2>1
<1>5. IsFiniteSet(1 .. n) /\ Cardinality(1 .. n) = n
  BY <1>1, FS_Interval
<1>6. o \in Surjection(1 .. n, ks)
  BY <1>4 DEF Surjection
<1>7. o \in Injection(1 .. n, ks)
  BY <1>1, <1>5, <1>6, FS_SurjSameCardinalityImpliesInj
<1>8. \A i, j \in 1 .. n : o[i] = o[j] => i = j
  BY <1>7 DEF Injection, IsInjective
<1> QED BY <1>1, <1>3, <1>4, <1>8

\* The keys are taken one after the other.
EditsStay(op, A, ks, e) == \A b \in A, k \in ks : Edit(op, b, k, e) \in A

EditsLoop(f, op, A, t, ks, e) ==
  /\ f \in [0 .. Cardinality(ks) -> A]
  /\ f[0] = t
  /\ \A p \in 1 .. Cardinality(ks) : f[p] = Edit(op, f[p - 1], OrderOf(ks)[p], e)
  /\ EditAll(op, t, ks, e) = f[Cardinality(ks)]

LEMMA EditsInTurn ==
  ASSUME NEW ks, IsFiniteSet(ks), NEW A, NEW t \in A, NEW op, NEW e, EditsStay(op, A, ks, e)
  PROVE  \E f : EditsLoop(f, op, A, t, ks, e)
<1>1. PICK n \in Nat : n = Cardinality(ks)
  BY KeysInOrder
<1>2. PICK o \in [1 .. n -> ks] : o = OrderOf(ks)
  BY <1>1, KeysInOrder
<1>3. PICK g : g = [p \in 1 .. n |-> [b \in A |-> Edit(op, b, o[p], e)]]
  OBVIOUS
<1>4. Stepwise(n, A, t, g)
  <2>1. \A p \in 1 .. n, b \in A : Edit(op, b, o[p], e) \in A
    BY <1>2 DEF EditsStay
  <2> QED BY <1>3, <2>1 DEF Stepwise
<1>5. PICK f : Iteration(f, n, A, t, g)
  BY <1>4, IterationExists
<1>6. f \in [0 .. n -> A] /\ f[0] = t
  BY <1>5 DEF Iteration
<1>7. \A p \in 1 .. n : f[p] = Edit(op, f[p - 1], o[p], e)
  <2> TAKE p \in 1 .. n
  <2>1. p - 1 \in 0 .. n OBVIOUS
  <2>2. f[p] = g[p][f[p - 1]] /\ f[p - 1] \in A
    BY <1>5, <1>6, <2>1 DEF Iteration
  <2> QED BY <1>3, <2>2
<1> DEFINE F(h) == [p \in 0 .. n |-> IF p = 0 THEN t ELSE Edit(op, h[p - 1], o[p], e)]
<1>8. f = F(f)
  <2>1. \A p \in 0 .. n : f[p] = IF p = 0 THEN t ELSE Edit(op, f[p - 1], o[p], e)
    <3> TAKE p \in 0 .. n
    <3>1. CASE p = 0 BY <1>6, <3>1
    <3>2. CASE p # 0
      <4>1. p \in 1 .. n BY <3>2
      <4> QED BY <1>7, <3>2, <4>1
    <3> QED BY <3>1, <3>2
  <2>2. f = [p \in 0 .. n |-> f[p]]
    BY <1>6
  <2> QED BY <2>1, <2>2
<1>9. EditAll(op, t, ks, e) = (CHOOSE h : h = F(h))[n]
  BY <1>1, <1>2 DEF EditAll, OrderOf
<1>10. PICK h : h = F(h) /\ EditAll(op, t, ks, e) = h[n]
  <2> HIDE DEF F
  <2> QED BY <1>8, <1>9
<1>11. \A p \in 0 .. n : h[p] = f[p]
  <2> DEFINE S == {p \in 0 .. n : h[p] = f[p]}
  <2>1. 0 \in S
    <3>1. 0 \in 0 .. n /\ h[0] = t BY <1>10
    <3> QED BY <1>6, <3>1
  <2>2. ASSUME NEW k \in 0 .. n - 1, k \in S PROVE k + 1 \in S
    <3>1. PICK p \in 1 .. n : p = k + 1 /\ p - 1 = k /\ p \in 0 .. n /\ p # 0
      OBVIOUS
    <3>2. h[p] = Edit(op, h[k], o[p], e) /\ f[p] = Edit(op, f[k], o[p], e)
      BY <1>7, <1>10, <3>1
    <3> QED BY <2>2, <3>1, <3>2
  <2> HIDE DEF S
  <2>3. \A p \in 0 .. n : p \in S
    BY <2>1, <2>2, SetInduction
  <2> QED BY <2>3 DEF S
<1>12. n \in 0 .. n
  OBVIOUS
<1>13. EditAll(op, t, ks, e) = f[n]
  BY <1>10, <1>11, <1>12
<1>14. EditsLoop(f, op, A, t, ks, e)
  BY <1>1, <1>2, <1>6, <1>7, <1>13 DEF EditsLoop
<1> QED BY <1>14

-----------------------------------------------------------------------------
(* The event bus.                                                          *)

Buses == [capacity : Nat, cursor : Nat, count : Nat, items : [EventTypes -> Linked]]

\* bag_append with room left.
LEMMA AppendFits ==
  ASSUME NEW n \in Nat, NEW i \in 0 .. n - 1, NEW w, NEW item
  PROVE  BagAppend([capacity |-> n, cursor |-> i, count |-> i, items |-> w], item)
           = [capacity |-> n, cursor |-> i + 1, count |-> i + 1, items |-> [w EXCEPT ![i] = item]]
<1>1. PICK b : b = [capacity |-> n, cursor |-> i, count |-> i, items |-> w]
  OBVIOUS
<1>2. ~ (b.count >= b.capacity) /\ b.cursor = i /\ b.count = i /\ b.capacity = n /\ b.items = w
  BY <1>1
<1>3. BagAppend(b, item) =
        [b EXCEPT !.items[b.cursor] = item, !.cursor = @ + 1, !.count = @ + 1]
  BY <1>2 DEF BagAppend
<1>4. PICK v : v = [w EXCEPT ![i] = item]
  OBVIOUS
<1>5. [b EXCEPT !.items[b.cursor] = item, !.cursor = @ + 1, !.count = @ + 1]
        = [b EXCEPT !.items = v, !.cursor = i + 1, !.count = i + 1]
  BY <1>1, <1>2, <1>4
<1>6. [b EXCEPT !.items = v, !.cursor = i + 1, !.count = i + 1]
        = [capacity |-> n, cursor |-> i + 1, count |-> i + 1, items |-> v]
  <2>1. PICK c : c = [b EXCEPT !.items = v]
    OBVIOUS
  <2>2. c = [capacity |-> n, cursor |-> i, count |-> i, items |-> v]
    BY <1>1, <2>1
  <2>3. PICK d : d = [c EXCEPT !.cursor = i + 1]
    OBVIOUS
  <2>4. d = [capacity |-> n, cursor |-> i + 1, count |-> i, items |-> v]
    BY <2>2, <2>3
  <2>5. [d EXCEPT !.count = i + 1]
          = [capacity |-> n, cursor |-> i + 1, count |-> i + 1, items |-> v]
    BY <2>4
  <2> QED BY <2>1, <2>3, <2>5
<1> QED BY <1>1, <1>3, <1>4, <1>5, <1>6

LEMMA NewBusIsBus ==
  NewBus \in Buses /\ \A t \in EventTypes : NewBus.items[t] = EmptyList
<1>1. PICK m \in EventTypes : m \in Nat /\ EventTypes = 0 .. m
  BY WorldAssumption
<1>2. PICK top : top = CHOOSE t \in EventTypes : \A u \in EventTypes : u <= t
  OBVIOUS
<1>3. top = m
  <2>1. m \in EventTypes /\ \A u \in EventTypes : u <= m
    BY <1>1
  <2>2. top \in EventTypes /\ \A u \in EventTypes : u <= top
    BY <1>2, <2>1
  <2> QED BY <1>1, <2>1, <2>2
<1>4. PICK n \in Nat : n = 1 + m /\ n = 1 + top
  BY <1>1, <1>3
<1> DEFINE Filled(i) ==
             [capacity |-> n, cursor |-> i, count |-> i,
              items |-> [j \in 0 .. n - 1 |-> IF j < i THEN EmptyList ELSE NoItem]]
           F(h) == [i \in 0 .. n |-> IF i = 0 THEN EmptyBag(n) ELSE BagAppend(h[i - 1], EmptyList)]
<1>5. PICK e : e = [i \in 0 .. n |-> Filled(i)]
  OBVIOUS
<1>6. EmptyBag(n) = Filled(0)
  <2>1. [j \in 0 .. n - 1 |-> NoItem] = [j \in 0 .. n - 1 |-> IF j < 0 THEN EmptyList ELSE NoItem]
    OBVIOUS
  <2> QED BY <2>1 DEF EmptyBag
<1>7. ASSUME NEW i \in 0 .. n - 1 PROVE BagAppend(Filled(i), EmptyList) = Filled(i + 1)
  <2>1. PICK b : b = Filled(i)
    OBVIOUS
  <2>2. PICK w : w = b.items
    OBVIOUS
  <2>3. b = [capacity |-> n, cursor |-> i, count |-> i, items |-> w]
    BY <2>1, <2>2
  <2>4. BagAppend(b, EmptyList) =
          [capacity |-> n, cursor |-> i + 1, count |-> i + 1, items |-> [w EXCEPT ![i] = EmptyList]]
    BY <2>3, AppendFits
  <2>5. [b.items EXCEPT ![i] = EmptyList]
          = [j \in 0 .. n - 1 |-> IF j < i + 1 THEN EmptyList ELSE NoItem]
    <3>1. b.items = [j \in 0 .. n - 1 |-> IF j < i THEN EmptyList ELSE NoItem]
      BY <2>1
    <3>2. \A j \in 0 .. n - 1 : j < i + 1 <=> (j < i \/ j = i)
      OBVIOUS
    <3> QED BY <3>1, <3>2
  <2> QED BY <2>1, <2>2, <2>4, <2>5
<1>8. e = F(e)
  <2>1. ASSUME NEW i \in 0 .. n
        PROVE  e[i] = IF i = 0 THEN EmptyBag(n) ELSE BagAppend(e[i - 1], EmptyList)
    <3>1. CASE i = 0
      BY <1>5, <1>6, <3>1
    <3>2. CASE i # 0
      <4>1. PICK j \in 0 .. n - 1 : j = i - 1 /\ j + 1 = i /\ j \in 0 .. n
        BY <3>2
      <4>2. e[j] = Filled(j) /\ e[i] = Filled(i)
        BY <1>5, <4>1
      <4>3. BagAppend(Filled(j), EmptyList) = Filled(j + 1)
        BY <1>7
      <4> HIDE DEF Filled
      <4> QED BY <3>2, <4>1, <4>2, <4>3
    <3> QED BY <3>1, <3>2
  <2>2. e = [i \in 0 .. n |-> e[i]]
    BY <1>5
  <2> QED BY <2>1, <2>2
<1>9. NewBus = (CHOOSE h : h = F(h))[n]
  BY <1>2, <1>4 DEF NewBus
<1>10. PICK h : h = F(h) /\ NewBus = h[n]
  <2> HIDE DEF F
  <2> QED BY <1>8, <1>9
<1>11. \A i \in 0 .. n : h[i] = e[i]
  <2> DEFINE S == {i \in 0 .. n : h[i] = e[i]}
  <2>1. 0 \in S
    <3>1. 0 \in 0 .. n OBVIOUS
    <3>2. h[0] = EmptyBag(n) BY <1>10, <3>1
    <3>3. e[0] = EmptyBag(n) BY <1>8, <3>1
    <3> QED BY <3>1, <3>2, <3>3
  <2>2. ASSUME NEW k \in 0 .. n - 1, k \in S PROVE k + 1 \in S
    <3>1. PICK i \in 0 .. n : i = k + 1 /\ i # 0 /\ i - 1 = k
      OBVIOUS
    <3>2. h[i] = BagAppend(h[k], EmptyList)
      BY <1>10, <3>1
    <3>3. e[i] = BagAppend(e[k], EmptyList)
      BY <1>8, <3>1
    <3> QED BY <2>2, <3>1, <3>2, <3>3
  <2> HIDE DEF S
  <2>3. \A i \in 0 .. n : i \in S
    BY <2>1, <2>2, SetInduction
  <2> QED BY <2>3 DEF S
<1>12. NewBus = Filled(n)
  <2>1. n \in 0 .. n OBVIOUS
  <2> QED BY <1>5, <1>10, <1>11, <2>1
<1>13. [j \in 0 .. n - 1 |-> IF j < n THEN EmptyList ELSE NoItem] \in [EventTypes -> Linked]
  <2>1. EventTypes = 0 .. n - 1 /\ \A j \in 0 .. n - 1 : j < n
    BY <1>1, <1>4
  <2> QED BY <2>1, EmptyListLinked
<1>14. NewBus \in Buses
  BY <1>12, <1>13 DEF Buses
<1>15. \A t \in EventTypes : NewBus.items[t] = EmptyList
  <2>1. \A t \in EventTypes : t \in 0 .. n - 1 /\ t < n
    BY <1>1, <1>4
  <2> QED BY <1>12, <2>1
<1> QED BY <1>14, <1>15

LEMMA BusFacts ==
  ASSUME NEW b \in Buses, NEW t \in EventTypes, NEW l \in Linked
  PROVE  [b EXCEPT !.items[t] = l] \in Buses
  BY DEF Buses

-----------------------------------------------------------------------------
(* Entities.                                                               *)

Bags ==
  [capacity : {MaxComponents}, cursor : Nat, count : Int,
   items : [0 .. MaxComponents - 1 -> {NoItem} \cup [component : Nat]]]

\* An entity whose mask names the components it has.
Bodies ==
  {r \in [id : Nat, mask : SUBSET (0 .. MaxComponents - 1), marked : BOOLEAN,
          kinetic : {k.kinetic : k \in Kinds}, components : Bags] :
    \A c \in 0 .. MaxComponents - 1 : r.components.items[c] # NoItem <=> c \in r.mask}

\* bag_set_at an index within the bag.
LEMMA SetAtFacts ==
  ASSUME NEW b \in Bags, NEW c \in 0 .. MaxComponents - 1, NEW x \in [component : Nat]
  PROVE  BagSetAt(b, c, x) \in Bags /\ BagSetAt(b, c, x).items = [b.items EXCEPT ![c] = x]
<1>1. MaxComponents \in Nat
  BY WorldAssumption
<1>2. b.capacity = MaxComponents /\ ~ (c > b.capacity) /\ c \in Nat
  BY <1>1 DEF Bags
<1>3. PICK v : v = [b.items EXCEPT ![c] = x]
  OBVIOUS
<1>4. PICK cursor : cursor = IF c > b.cursor THEN c + 1 ELSE b.cursor
  OBVIOUS
<1>5. PICK n : n = IF b.items[c] = NoItem THEN b.count + 1 ELSE b.count
  OBVIOUS
<1>6. BagSetAt(b, c, x) =
        [b EXCEPT !.cursor = IF c > @ THEN c + 1 ELSE @,
                  !.items[c] = x,
                  !.count = IF b.items[c] = NoItem THEN @ + 1 ELSE @]
  BY <1>2 DEF BagSetAt
<1>7. BagSetAt(b, c, x) = [capacity |-> b.capacity, cursor |-> cursor, count |-> n, items |-> v]
  BY <1>3, <1>4, <1>5, <1>6 DEF Bags
<1>8. cursor \in Nat /\ n \in Int
  BY <1>2, <1>4, <1>5 DEF Bags
<1>9. v \in [0 .. MaxComponents - 1 -> {NoItem} \cup [component : Nat]]
  BY <1>3 DEF Bags
<1> QED BY <1>2, <1>3, <1>7, <1>8, <1>9 DEF Bags

LEMMA RemoveAtFacts ==
  ASSUME NEW b \in Bags, NEW c \in 0 .. MaxComponents - 1
  PROVE  BagRemoveAt(b, c) \in Bags /\ BagRemoveAt(b, c).items = [b.items EXCEPT ![c] = NoItem]
<1>1. PICK w \in [0 .. MaxComponents - 1 -> {NoItem} \cup [component : Nat]] : w = b.items
  BY DEF Bags
<1>2. CASE b.items[c] = NoItem
  <2>1. [w EXCEPT ![c] = NoItem] = w
    BY <1>1, <1>2
  <2> QED BY <1>1, <1>2, <2>1 DEF BagRemoveAt
<1>3. CASE b.items[c] # NoItem
  <2>1. PICK v : v = [w EXCEPT ![c] = NoItem]
    OBVIOUS
  <2>2. PICK cursor : cursor = IF c = b.cursor - 1 THEN b.cursor - 1 ELSE b.cursor
    OBVIOUS
  <2>3. BagRemoveAt(b, c) =
          [b EXCEPT !.items[c] = NoItem, !.count = @ - 1,
                    !.cursor = IF c = @ - 1 THEN @ - 1 ELSE @]
    BY <1>3 DEF BagRemoveAt
  <2>4. BagRemoveAt(b, c)
          = [capacity |-> b.capacity, cursor |-> cursor, count |-> b.count - 1, items |-> v]
    BY <1>1, <2>1, <2>2, <2>3 DEF Bags
  <2>5. cursor \in Nat /\ b.count - 1 \in Int
    <3>1. c \in Nat /\ b.cursor \in Nat BY DEF Bags
    <3> QED BY <2>2, <3>1 DEF Bags
  <2>6. v \in [0 .. MaxComponents - 1 -> {NoItem} \cup [component : Nat]]
    BY <1>1, <2>1
  <2> QED BY <1>1, <2>1, <2>4, <2>5, <2>6 DEF Bags
<1> QED BY <1>2, <1>3

LEMMA AddComponentFacts ==
  ASSUME NEW r \in Bodies, NEW c \in 0 .. MaxComponents - 1
  PROVE  /\ AddComponent(r, c) \in Bodies
         /\ AddComponent(r, c).mask = r.mask \cup {c}
         /\ AddComponent(r, c).id = r.id /\ AddComponent(r, c).marked = r.marked
         /\ AddComponent(r, c).kinetic = r.kinetic
<1>1. PICK x : x = [component |-> c]
  OBVIOUS
<1>2. x \in [component : Nat] /\ x # NoItem
  <2>1. c \in Nat BY WorldAssumption
  <2> QED BY <1>1, <2>1 DEF NoItem
<1>3. PICK b \in Bags : b = BagSetAt(r.components, c, x)
                        /\ b.items = [r.components.items EXCEPT ![c] = x]
  BY <1>2, SetAtFacts DEF Bodies
<1>4. AddComponent(r, c) = [r EXCEPT !.mask = @ \cup {c}, !.components = b]
  BY <1>1, <1>3 DEF AddComponent
<1>5. PICK q : q = AddComponent(r, c)
  OBVIOUS
<1>6. q = [id |-> r.id, mask |-> r.mask \cup {c}, marked |-> r.marked, kinetic |-> r.kinetic,
           components |-> b]
  BY <1>4, <1>5 DEF Bodies
<1>7. ASSUME NEW d \in 0 .. MaxComponents - 1
      PROVE  b.items[d] # NoItem <=> d \in r.mask \cup {c}
  BY <1>2, <1>3 DEF Bodies, Bags
<1>8. q \in Bodies
  BY <1>6, <1>7 DEF Bodies
<1> QED BY <1>5, <1>6, <1>8

LEMMA RemoveComponentFacts ==
  ASSUME NEW r \in Bodies, NEW c \in 0 .. MaxComponents - 1
  PROVE  /\ RemoveComponent(r, c) \in Bodies
         /\ RemoveComponent(r, c).mask = r.mask \ {c}
         /\ RemoveComponent(r, c).id = r.id /\ RemoveComponent(r, c).marked = r.marked
         /\ RemoveComponent(r, c).kinetic = r.kinetic
<1>3. PICK b \in Bags : b = BagRemoveAt(r.components, c)
                        /\ b.items = [r.components.items EXCEPT ![c] = NoItem]
  BY RemoveAtFacts DEF Bodies
<1>4. RemoveComponent(r, c) = [r EXCEPT !.mask = @ \ {c}, !.components = b]
  BY <1>3 DEF RemoveComponent
<1>5. PICK q : q = RemoveComponent(r, c)
  OBVIOUS
<1>6. q = [id |-> r.id, mask |-> r.mask \ {c}, marked |-> r.marked, kinetic |-> r.kinetic,
           components |-> b]
  BY <1>4, <1>5 DEF Bodies
<1>7. ASSUME NEW d \in 0 .. MaxComponents - 1
      PROVE  b.items[d] # NoItem <=> d \in r.mask \ {c}
  BY <1>3 DEF Bodies, Bags
<1>8. q \in Bodies
  BY <1>6, <1>7 DEF Bodies
<1> QED BY <1>5, <1>6, <1>8

\* A factory gives the new entity the components of its kind, one by one.
LEMMA NewEntityFacts ==
  ASSUME NEW k \in Kinds, nextId \in Nat
  PROVE  /\ NewEntity(k) \in Bodies
         /\ NewEntity(k).mask = k.components
         /\ NewEntity(k).id = nextId /\ NewEntity(k).marked = FALSE
         /\ NewEntity(k).kinetic = k.kinetic
<1>1. PICK n \in Nat : n = MaxComponents
  BY WorldAssumption
<1>2. PICK ks : ks = k.components /\ ks \subseteq 0 .. n - 1
  BY <1>1, WorldAssumption
<1>3. PICK a : a = [id |-> nextId, mask |-> {}, marked |-> FALSE, kinetic |-> k.kinetic,
                    components |-> EmptyBag(MaxComponents)]
  OBVIOUS
<1>4. a \in Bodies
  <2>1. EmptyBag(MaxComponents) \in Bags
    <3>1. [i \in 0 .. MaxComponents - 1 |-> NoItem] \in
            [0 .. MaxComponents - 1 -> {NoItem} \cup [component : Nat]]
      OBVIOUS
    <3> QED BY <3>1 DEF EmptyBag, Bags
  <2>2. \A c \in 0 .. MaxComponents - 1 : EmptyBag(MaxComponents).items[c] = NoItem
    BY DEF EmptyBag
  <2> QED BY <1>3, <2>1, <2>2 DEF Bodies
<1>5. PICK A : A = {r \in Bodies : r.id = nextId /\ r.marked = FALSE /\ r.kinetic = k.kinetic}
  OBVIOUS
<1>6. PICK g : g = [p \in 1 .. n |-> [r \in A |-> IF p - 1 \in ks THEN AddComponent(r, p - 1) ELSE r]]
  OBVIOUS
<1>7. Stepwise(n, A, a, g)
  <2>1. ASSUME NEW p \in 1 .. n, NEW r \in A
        PROVE  (IF p - 1 \in ks THEN AddComponent(r, p - 1) ELSE r) \in A
    <3>1. p - 1 \in 0 .. MaxComponents - 1 BY <1>1
    <3> QED BY <1>5, <3>1, AddComponentFacts
  <2>2. g \in [1 .. n -> [A -> A]]
    BY <1>6, <2>1
  <2>3. a \in A
    BY <1>3, <1>4, <1>5
  <2> QED BY <2>2, <2>3 DEF Stepwise
<1>8. PICK f : Iteration(f, n, A, a, g)
  BY <1>7, IterationExists
<1>9. f \in [0 .. n -> A] /\ f[0] = a
  BY <1>8 DEF Iteration
<1>10. \A p \in 1 .. n : f[p] = IF p - 1 \in ks THEN AddComponent(f[p - 1], p - 1) ELSE f[p - 1]
  <2> TAKE p \in 1 .. n
  <2>1. p - 1 \in 0 .. n OBVIOUS
  <2>2. f[p] = g[p][f[p - 1]] /\ f[p - 1] \in A
    BY <1>8, <1>9, <2>1 DEF Iteration
  <2> QED BY <1>6, <2>2
<1> DEFINE F(h) == [c \in 0 .. n |-> IF c = 0 THEN a
                      ELSE IF c - 1 \in ks THEN AddComponent(h[c - 1], c - 1) ELSE h[c - 1]]
<1>11. f = F(f)
  <2>1. \A c \in 0 .. n : f[c] = IF c = 0 THEN a
                      ELSE IF c - 1 \in ks THEN AddComponent(f[c - 1], c - 1) ELSE f[c - 1]
    <3> TAKE c \in 0 .. n
    <3>1. CASE c = 0 BY <1>9, <3>1
    <3>2. CASE c # 0
      <4>1. c \in 1 .. n BY <3>2
      <4> QED BY <1>10, <3>2, <4>1
    <3> QED BY <3>1, <3>2
  <2>2. f = [c \in 0 .. n |-> f[c]]
    BY <1>9
  <2> QED BY <2>1, <2>2
<1>12. NewEntity(k) = (CHOOSE h : h = F(h))[n]
  BY <1>1, <1>2, <1>3 DEF NewEntity
<1>13. PICK h : h = F(h) /\ NewEntity(k) = h[n]
  <2> HIDE DEF F
  <2> QED BY <1>11, <1>12
<1> DEFINE T == {c \in 0 .. n : h[c] = f[c] /\ f[c].mask = {d \in ks : d < c}}
<1>14. 0 \in T
  <2>1. 0 \in 0 .. n /\ h[0] = a BY <1>13
  <2>2. {d \in ks : d < 0} = {} BY <1>2
  <2>3. a.mask = {} BY <1>3
  <2>4. h[0] = f[0] /\ f[0].mask = {d \in ks : d < 0} BY <1>9, <2>1, <2>2, <2>3
  <2> HIDE DEF F
  <2> QED BY <2>1, <2>4
<1>15. ASSUME NEW j \in 0 .. n - 1, j \in T PROVE j + 1 \in T
  <2>1. PICK p \in 1 .. n : p = j + 1 /\ p - 1 = j /\ p \in 0 .. n /\ p # 0
    OBVIOUS
  <2>2. h[p] = IF j \in ks THEN AddComponent(h[j], j) ELSE h[j]
    BY <1>13, <2>1
  <2>3. f[p] = IF j \in ks THEN AddComponent(f[j], j) ELSE f[j]
    BY <1>10, <2>1
  <2>4. f[j] \in Bodies /\ j \in 0 .. MaxComponents - 1
    BY <1>1, <1>5, <1>9
  <2>5. f[p].mask = {d \in ks : d < p}
    <3>1. {d \in ks : d < p} = IF j \in ks THEN {d \in ks : d < j} \cup {j} ELSE {d \in ks : d < j}
      <4>1. \A d \in ks : d < p <=> (d < j \/ d = j)
        BY <1>2, <2>1
      <4> QED BY <2>1, <4>1
    <3>2. f[j].mask = {d \in ks : d < j}
      BY <1>15
    <3>3. AddComponent(f[j], j).mask = f[j].mask \cup {j}
      BY <2>4, AddComponentFacts
    <3> QED BY <2>3, <3>1, <3>2, <3>3
  <2> QED BY <1>15, <2>1, <2>2, <2>3, <2>5
<1>16. \A c \in 0 .. n : c \in T
  <2> HIDE DEF T
  <2> QED BY <1>14, <1>15, SetInduction
<1>17. h[n] = f[n] /\ f[n].mask = {d \in ks : d < n} /\ f[n] \in A
  <2>1. n \in 0 .. n OBVIOUS
  <2> QED BY <1>9, <1>16, <2>1
<1>18. {d \in ks : d < n} = ks
  BY <1>2
<1> QED BY <1>2, <1>5, <1>13, <1>17, <1>18

-----------------------------------------------------------------------------
(* The inductive invariant: the lists, the entities in memory, the walks and*)
(* the contacts.                                                           *)

\* The lists and the bus are such as their functions leave them.
ListInv ==
  /\ made \in Nat /\ pushed \in Nat
  /\ entities \in Linked /\ systems \in Linked
  /\ stage # "none" => bus \in Buses

\* The entities the collision system is responsible for.
Collides(s) == s.type = "entity" /\ s.collides

Colliders ==
  {e \in DOMAIN entity : \E i \in DOMAIN Systems :
     Collides(Systems[i]) /\ PartOf(Systems[i].family, e)}

Contacts == Colliders \X Colliders

InUpdate == {"systems", "visit", "handle", "collide", "hooks", "hook"}

Stages == {"none", "setup", "idle", "sweep"} \cup InUpdate

\* Ids and addresses are given once; the list names every entity once.
EntityInv ==
  /\ entity \in [DOMAIN entity -> Bodies] /\ DOMAIN entity \subseteq 1 .. made
  /\ nextId \in Nat /\ \A e \in DOMAIN entity : entity[e].id < nextId
  /\ \A e, f \in DOMAIN entity : entity[e].id = entity[f].id => e = f
  /\ Held(entities) = DOMAIN entity /\ HeldOnce(entities)
  /\ stage = "none" => DOMAIN entity = {}

\* A walk is at a node of its list.
WalkInv ==
  /\ stage \in Stages
  /\ Held(systems) \subseteq DOMAIN Systems
  /\ stage = "setup" => systems.count < Len(Systems)
  /\ stage \in InUpdate => node \in DOMAIN systems.nodes \cup {NULL}
  /\ stage \in InUpdate \ {"systems"} => node # NULL
  /\ stage = "sweep" => node \in DOMAIN entities.nodes \cup {NULL}

\* What a system has still to visit is in memory, once, and what comes after the
\* entity it visits has its components.
VisitInv ==
  /\ todo \in Seq(DOMAIN entity) /\ Distinct(todo)
  /\ todo # <<>> => stage \in {"visit", "collide"}
  /\ stage = "collide" => Range(todo) \subseteq Colliders
  /\ stage = "visit" /\ todo # <<>> =>
       \A e \in Range(Tail(todo)) : Current.family.all \subseteq entity[e].mask
  /\ present \in Seq(Colliders)
  /\ present # <<>> => stage \in {"collide", "hooks", "hook"}

\* An entity that is tested adds one contact at most; the contacts of the last
\* update and the hooks due are of colliders in memory; a contact whose enter hooks
\* were called is one of the last update or its exit is due.
ContactInv ==
  /\ contacts \in Seq(Contacts)
  /\ contacts # <<>> => stage = "collide"
  /\ \A i, j \in DOMAIN contacts : contacts[i][1] = contacts[j][1] => i = j
  /\ \A i \in DOMAIN contacts : contacts[i][1] \notin Range(todo)
  /\ previous # NoContacts => previous \in Seq(Contacts)
  /\ previous = NoContacts => told = {} /\ hooks = <<>>

HookInv ==
  /\ hooks \in Seq([hook : {"enter", "exit"}, contact : Contacts])
  /\ hooks # <<>> => stage \in {"hooks", "hook"}
  /\ \A i \in DOMAIN hooks : hooks[i].hook = "enter" =>
       /\ hooks[i].contact \in Range(previous) \ told
       /\ \A j \in DOMAIN hooks : hooks[j] = hooks[i] => j = i
  /\ \A c \in told : \/ c \in Range(previous)
                     \/ \E i \in DOMAIN hooks : hooks[i] = [hook |-> "exit", contact |-> c]

MemoryInv == ListInv /\ EntityInv /\ WalkInv /\ VisitInv /\ ContactInv /\ HookInv

-----------------------------------------------------------------------------
(* The lists of a world stay linked.                                       *)

LEMMA WorldInitLists == WorldInit => ListInv
<1> SUFFICES ASSUME WorldInit PROVE ListInv
  OBVIOUS
<1> QED BY EmptyListLinked DEF WorldInit, ListInv

\* The entities in memory are numbers: they were made.
LEMMA GameCodeLists ==
  ASSUME ListInv, DOMAIN entity \subseteq Nat, GameCode
  PROVE  ListInv'
<1> USE DEF ListInv, listVars, entityVars, eventVars, collisionVars
<1>1. ASSUME NEW k \in Kinds, Create(k) PROVE ListInv'
  <2>1. made + 1 \in Nat
    OBVIOUS
  <2>2. entities' = PushBack(entities, made + 1) /\ made' = made + 1
    BY <1>1 DEF Create
  <2>3. entities' \in Linked
    BY <2>1, <2>2, PushBackLinked
  <2>4. stage' = stage /\ systems' = systems /\ bus' = bus /\ pushed' = pushed
    BY <1>1 DEF Create
  <2> QED BY <2>1, <2>2, <2>3, <2>4
<1>2. ASSUME NEW e \in DOMAIN entity, NEW stays \in BOOLEAN, Retire(e, stays) PROVE ListInv'
  BY <1>2 DEF Retire
<1>3. ASSUME NEW e \in DOMAIN entity, Mark(e) \/ Equip(e) PROVE ListInv'
  BY <1>3 DEF Mark, Equip
<1>4. CASE Unequip
  BY <1>4 DEF Unequip
<1>5. ASSUME NEW t \in EventTypes, PushEvent(t) PROVE ListInv'
  <2>1. stage # "none" /\ stage' = stage /\ pushed' \in Nat /\ pushed + 1 \in Nat
    BY <1>5 DEF PushEvent, Pushing
  <2>2. bus \in Buses
    BY <2>1
  <2>3. PICK l : l = PushBack(bus.items[t], pushed + 1)
    OBVIOUS
  <2>4. bus.items[t] \in Linked
    BY <2>2 DEF Buses
  <2>5. l \in Linked
    BY <2>1, <2>3, <2>4, PushBackLinked
  <2>6. bus' = [bus EXCEPT !.items[t] = l]
    BY <1>5, <2>3 DEF PushEvent
  <2>7. bus' \in Buses
    BY <2>2, <2>5, <2>6, BusFacts
  <2> QED BY <1>5, <2>1, <2>7 DEF PushEvent
<1> QED BY <1>1, <1>2, <1>3, <1>4, <1>5 DEF GameCode

LEMMA UpdateLists ==
  ASSUME ListInv, Update
  PROVE  ListInv'
<1> USE DEF ListInv, listVars, entityVars, eventVars, collisionVars
<1>1. CASE HandleEvent
  <2>1. stage # "none" /\ bus \in Buses
    BY <1>1 DEF HandleEvent, AtSystem
  <2>2. PICK c : c = Current.consumes
    OBVIOUS
  <2>3. bus.items[c].count > 0 /\ bus' = [bus EXCEPT !.items[c] = RemoveFirst(@)]
    BY <1>1, <2>2 DEF HandleEvent, Channel, BagGetAt
  <2>4. bus' \in Buses
    <3>1. CASE c \in EventTypes
      <4>1. bus.items[c] \in Linked
        BY <2>1, <3>1 DEF Buses
      <4>2. PICK l \in Linked : l = RemoveFirst(bus.items[c])
        BY <2>3, <4>1, RemoveFirstLinked
      <4>3. bus' = [bus EXCEPT !.items[c] = l]
        BY <2>3, <4>2
      <4> QED BY <2>1, <3>1, <4>3, BusFacts
    <3>2. CASE c \notin EventTypes
      <4>1. PICK f : f = [bus.items EXCEPT ![c] = RemoveFirst(@)]
        OBVIOUS
      <4>2. bus' = [bus EXCEPT !.items = f]
        BY <2>1, <2>3, <4>1 DEF Buses
      <4>3. f = bus.items
        BY <2>1, <3>2, <4>1 DEF Buses
      <4> QED BY <2>1, <4>2, <4>3 DEF Buses
    <3> QED BY <3>1, <3>2
  <2> QED BY <1>1, <2>4 DEF HandleEvent
<1>2. CASE SweepStep
  <2>1. PICK e : \/ entities' = Remove(entities, e)
                 \/ entities' = entities
    BY <1>2 DEF SweepStep, DestroyEntity
  <2>2. entities' \in Linked
    BY <2>1, RemoveLinked
  <2> QED BY <1>2, <2>2 DEF SweepStep
<1>3. CASE BeginUpdate
  BY <1>3 DEF BeginUpdate
<1>4. CASE LeaveSystem
  BY <1>4 DEF LeaveSystem
<1>5. CASE EndHandler
  BY <1>5 DEF EndHandler
<1>6. CASE BeginEntitySystem
  BY <1>6 DEF BeginEntitySystem, AtSystem
<1>7. CASE EndVisit \/ EndEntitySystem
  BY <1>7 DEF EndVisit, EndEntitySystem
<1>8. CASE TestEntity \/ EndCollisions
  BY <1>8 DEF TestEntity, EndCollisions
<1>9. CASE CallHook
  BY <1>9 DEF CallHook
<1>10. CASE EndHook \/ EndHooks
  BY <1>10 DEF EndHook, EndHooks
<1>11. CASE BeginSweep \/ EndSweep
  BY <1>11 DEF BeginSweep, EndSweep
<1> QED
  BY <1>1, <1>2, <1>3, <1>4, <1>5, <1>6, <1>7, <1>8, <1>9, <1>10, <1>11 DEF Update

LEMMA WorldLists ==
  ASSUME ListInv, DOMAIN entity \subseteq Nat, [WorldNext]_worldVars
  PROVE  ListInv'
<1> USE DEF ListInv, listVars, entityVars, eventVars, collisionVars
<1>1. CASE CreateWorld
  BY <1>1, EmptyListLinked, NewBusIsBus DEF CreateWorld
<1>2. CASE RegisterSystem
  <2>1. systems.count + 1 \in Nat
    BY LinkedHasOrder, ListFacts
  <2>2. systems' \in Linked
    BY <1>2, <2>1, PushBackLinked DEF RegisterSystem
  <2> QED BY <1>2, <2>2 DEF RegisterSystem
<1>3. CASE DestroyWorld
  BY <1>3, EmptyListLinked DEF DestroyWorld
<1>4. CASE GameCode
  BY <1>4, GameCodeLists
<1>5. CASE Update
  BY <1>5, UpdateLists
<1>6. CASE UNCHANGED worldVars
  BY <1>6 DEF worldVars
<1> QED BY <1>1, <1>2, <1>3, <1>4, <1>5, <1>6 DEF WorldNext

-----------------------------------------------------------------------------
(* What the invariants rest on.                                            *)

LEMMA SystemsAre ==
  /\ Len(Systems) \in Nat \ {0} /\ DOMAIN Systems = 1 .. Len(Systems)
  /\ \A i \in DOMAIN Systems : Collides(Systems[i]) =>
       /\ {Lifetime, Blink} \cap Systems[i].family.all = {}
       /\ {Lifetime, Blink} \cap Systems[i].family.any = {}
       /\ {Lifetime, Blink} \cap Systems[i].family.not = {}
<1>1. PICK D : Systems \in Seq(D) /\ Systems # <<>>
  BY WorldAssumption
<1>2. Len(Systems) \in Nat \ {0} /\ DOMAIN Systems = 1 .. Len(Systems)
  BY <1>1, SeqFacts
<1>3. ASSUME NEW i \in DOMAIN Systems, Collides(Systems[i])
      PROVE {Lifetime, Blink} \cap UNION {Systems[i].family.all, Systems[i].family.any,
                                         Systems[i].family.not} = {}
  BY <1>3, WorldAssumption DEF Collides
<1>4. ASSUME NEW i \in DOMAIN Systems, Collides(Systems[i])
      PROVE /\ {Lifetime, Blink} \cap Systems[i].family.all = {}
            /\ {Lifetime, Blink} \cap Systems[i].family.any = {}
            /\ {Lifetime, Blink} \cap Systems[i].family.not = {}
  <2>1. PICK a, b, c : a = Systems[i].family.all /\ b = Systems[i].family.any
                       /\ c = Systems[i].family.not
    OBVIOUS
  <2>2. {Lifetime, Blink} \cap UNION {a, b, c} = {}
    BY <1>3, <1>4, <2>1
  <2>3. a \subseteq UNION {a, b, c} /\ b \subseteq UNION {a, b, c} /\ c \subseteq UNION {a, b, c}
    OBVIOUS
  <2> QED BY <2>1, <2>2, <2>3
<1> QED BY <1>2, <1>4

\* A lifetime or an armor more or less makes no collider and unmakes none.
LEMMA CollidersStay ==
  ASSUME NEW S, S \subseteq DOMAIN entity, S \subseteq DOMAIN entity',
         \A e \in S : entity'[e].mask \ {Lifetime, Blink} = entity[e].mask \ {Lifetime, Blink}
  PROVE  /\ Colliders \cap S = Colliders' \cap S
<1> SUFFICES ASSUME NEW e \in S, NEW i \in DOMAIN Systems, Collides(Systems[i])
             PROVE  PartOf(Systems[i].family, e) <=> PartOf(Systems[i].family, e)'
  BY DEF Colliders
<1>1. PICK f : f = Systems[i].family
  OBVIOUS
<1>2. PICK L : L = {Lifetime, Blink}
  OBVIOUS
<1>3. L \cap f.all = {} /\ L \cap f.any = {} /\ L \cap f.not = {}
  BY <1>1, <1>2, SystemsAre
<1>4. PICK M, N : M = entity[e].mask /\ N = entity'[e].mask /\ M \ L = N \ L
  BY <1>2
<1>5. f.all \subseteq M <=> f.all \subseteq N
  BY <1>3, <1>4
<1>6. f.any \cap M = f.any \cap N
  BY <1>3, <1>4
<1>7. f.not \cap M = f.not \cap N
  BY <1>3, <1>4
<1> QED BY <1>1, <1>4, <1>5, <1>6, <1>7 DEF PartOf

\* The node a walk goes on with.
LEMMA NodesNext ==
  ASSUME NEW l \in Linked
  PROVE  /\ NULL \notin DOMAIN l.nodes
         /\ l.head \in DOMAIN l.nodes \cup {NULL}
         /\ \A a \in DOMAIN l.nodes :
              l.nodes[a].next \in DOMAIN l.nodes \cup {NULL} /\ l.nodes[a].next # a
<1>1. PICK o : l \in Lists /\ Ordered(l, o)
  BY LinkedHasOrder
<1>2. PICK n \in Nat : n = l.count
  BY <1>1, ListFacts
<1>3. NULL \notin DOMAIN l.nodes
  BY <1>1, ListFacts DEF Addresses
<1>4. /\ o \in [1 .. n -> DOMAIN l.nodes]
      /\ \A a \in DOMAIN l.nodes : \E i \in 1 .. n : o[i] = a
      /\ \A i, j \in 1 .. n : o[i] = o[j] => i = j
      /\ l.head = IF n = 0 THEN NULL ELSE o[1]
      /\ \A i \in 1 .. n : l.nodes[o[i]].next = IF i = n THEN NULL ELSE o[i + 1]
  BY <1>1, <1>2 DEF Ordered
<1>5. l.head \in DOMAIN l.nodes \cup {NULL}
  <2>1. n # 0 => 1 \in 1 .. n OBVIOUS
  <2> QED BY <1>4, <2>1
<1>6. ASSUME NEW a \in DOMAIN l.nodes
      PROVE  l.nodes[a].next \in DOMAIN l.nodes \cup {NULL} /\ l.nodes[a].next # a
  <2>1. PICK i \in 1 .. n : o[i] = a
    BY <1>4
  <2>2. i # n => i + 1 \in 1 .. n /\ i + 1 # i
    OBVIOUS
  <2> QED BY <1>3, <1>4, <2>1, <2>2
<1> QED BY <1>3, <1>5, <1>6

\* world_get_all_entities_of_family finds each entity of the family once.
LEMMA FamilyFacts ==
  ASSUME ListInv, EntityInv, NEW f
  PROVE  /\ AllOfFamily(f) \in Seq({e \in DOMAIN entity : PartOf(f, e)})
         /\ Distinct(AllOfFamily(f))
         /\ Range(AllOfFamily(f)) = {e \in DOMAIN entity : PartOf(f, e)}
<1>1. PICK S : S = {e \in DOMAIN entity : PartOf(f, e)}
  OBVIOUS
<1>2. PICK s : s = Items(entities)
  OBVIOUS
<1>3. s \in Seq(Nat) /\ Range(s) = DOMAIN entity /\ Distinct(s)
  BY <1>2, ItemsHeld DEF ListInv, EntityInv
<1>4. PICK t : t = AllOfFamily(f) /\ t = Kept(s, S)
  BY <1>1, <1>2 DEF AllOfFamily
<1>5. /\ Kept(s, S) \in Seq(Nat)
      /\ Range(Kept(s, S)) = Range(s) \cap S
      /\ Distinct(s) => Distinct(Kept(s, S))
  BY <1>3, KeptFacts
<1>6. t \in Seq(Nat) /\ Range(t) = S /\ Distinct(t)
  BY <1>1, <1>3, <1>4, <1>5
<1>7. t \in Seq(S)
  BY <1>6, SeqOfHeld
<1> QED BY <1>1, <1>4, <1>6, <1>7

-----------------------------------------------------------------------------
(* What the code of the game may change of an entity.                      *)

\* A retirement, a mark, an armor put on or off changes one entity, not its id nor
\* what makes it a collider; only the entity a system visits loses a component.
Touched(e, r) ==
  /\ e \in DOMAIN entity /\ r \in Bodies
  /\ entity' = [entity EXCEPT ![e] = r]
  /\ r.id = entity[e].id
  /\ r.mask \ {Lifetime, Blink} = entity[e].mask \ {Lifetime, Blink}
  /\ entity[e].mask \subseteq r.mask \/ (stage = "visit" /\ todo # <<>> /\ e = Head(todo))

GameTouches ==
  /\ stage \in {"visit", "hook", "handle"}
  /\ UNCHANGED <<stage, listVars, entities, made, nextId, todo, collisionVars>>
  /\ \E e, r : Touched(e, r)

LEMMA GameCodeTouches ==
  ASSUME EntityInv, VisitInv, GameCode
  PROVE  GameTouches \/ (\E k \in Kinds : Create(k)) \/ (\E t \in EventTypes : PushEvent(t))
<1> USE DEF collisionVars, eventVars
<1>0. Lifetime \in 0 .. MaxComponents - 1 /\ Blink \in 0 .. MaxComponents - 1
  BY WorldAssumption
<1>1. \A e \in DOMAIN entity : entity[e] \in Bodies
  BY DEF EntityInv
<1>2. ASSUME NEW e \in DOMAIN entity, NEW stays \in BOOLEAN, Retire(e, stays) PROVE GameTouches
  <2>1. PICK r : r = IF stays THEN AddComponent(entity[e], Lifetime) ELSE entity[e]
    OBVIOUS
  <2>2. /\ AddComponent(entity[e], Lifetime) \in Bodies
        /\ AddComponent(entity[e], Lifetime).mask = entity[e].mask \cup {Lifetime}
        /\ AddComponent(entity[e], Lifetime).id = entity[e].id
    BY <1>0, <1>1, AddComponentFacts
  <2>3. entity' = [entity EXCEPT ![e] = r]
    <3>1. entity = [entity EXCEPT ![e] = entity[e]] BY DEF EntityInv
    <3> QED BY <1>2, <2>1, <3>1 DEF Retire
  <2>4. r \in Bodies /\ r.id = entity[e].id /\ entity[e].mask \subseteq r.mask
        /\ r.mask \ {Lifetime, Blink} = entity[e].mask \ {Lifetime, Blink}
    BY <1>1, <2>1, <2>2
  <2>5. Touched(e, r)
    BY <2>3, <2>4 DEF Touched
  <2> QED BY <1>2, <2>5 DEF GameTouches, Retire, Retiring
<1>3. ASSUME NEW e \in DOMAIN entity, Mark(e) PROVE GameTouches
  <2>1. PICK r : r = [entity[e] EXCEPT !.marked = TRUE]
    OBVIOUS
  <2>2. r \in Bodies /\ r.id = entity[e].id /\ r.mask = entity[e].mask
    BY <1>1, <2>1 DEF Bodies
  <2>3. entity' = [entity EXCEPT ![e] = r]
    BY <1>3, <2>1 DEF Mark
  <2>5. Touched(e, r)
    BY <2>2, <2>3 DEF Touched
  <2> QED BY <1>3, <2>5 DEF GameTouches, Mark, Marking
<1>4. ASSUME NEW e \in DOMAIN entity, Equip(e) PROVE GameTouches
  <2>1. PICK r : r = AddComponent(entity[e], Blink)
    OBVIOUS
  <2>2. r \in Bodies /\ r.id = entity[e].id /\ r.mask = entity[e].mask \cup {Blink}
    BY <1>0, <1>1, <2>1, AddComponentFacts
  <2>3. entity' = [entity EXCEPT ![e] = r]
    BY <1>4, <2>1 DEF Equip
  <2>4. r.mask \ {Lifetime, Blink} = entity[e].mask \ {Lifetime, Blink}
    BY <2>2
  <2>5. Touched(e, r)
    BY <2>2, <2>3, <2>4 DEF Touched
  <2> QED BY <1>4, <2>5 DEF GameTouches, Equip
<1>5. CASE Unequip
  <2>1. PICK e : e = Head(todo) /\ todo # <<>> /\ stage = "visit"
    BY <1>5 DEF Unequip
  <2>2. e \in DOMAIN entity
    BY <2>1, TailFacts DEF VisitInv
  <2>3. PICK r : r = RemoveComponent(entity[e], Blink)
    OBVIOUS
  <2>4. r \in Bodies /\ r.id = entity[e].id /\ r.mask = entity[e].mask \ {Blink}
    BY <1>0, <1>1, <2>2, <2>3, RemoveComponentFacts
  <2>5. entity' = [entity EXCEPT ![e] = r]
    BY <1>5, <2>1, <2>3 DEF Unequip
  <2>6. r.mask \ {Lifetime, Blink} = entity[e].mask \ {Lifetime, Blink}
    BY <2>4
  <2>7. Touched(e, r)
    BY <2>1, <2>2, <2>4, <2>5, <2>6 DEF Touched
  <2> QED BY <1>5, <2>1, <2>7 DEF GameTouches, Unequip
<1> QED BY <1>2, <1>3, <1>4, <1>5 DEF GameCode

LEMMA TouchesEntities ==
  ASSUME EntityInv, GameTouches
  PROVE  EntityInv' /\ DOMAIN entity' = DOMAIN entity
<1>1. PICK e, r : Touched(e, r)
  BY DEF GameTouches
<1>2. /\ DOMAIN entity' = DOMAIN entity
      /\ \A f \in DOMAIN entity : entity'[f] \in Bodies /\ entity'[f].id = entity[f].id
  BY <1>1 DEF Touched, EntityInv
<1>3. entity' \in [DOMAIN entity' -> Bodies]
  <2>1. entity' = [f \in DOMAIN entity |-> entity'[f]]
    BY <1>1 DEF Touched, EntityInv
  <2> QED BY <1>2, <2>1
<1>4. UNCHANGED <<stage, entities, made, nextId>>
  BY DEF GameTouches
<1> QED BY <1>2, <1>3, <1>4 DEF EntityInv, Held, HeldOnce

-----------------------------------------------------------------------------
(* The entities in memory.                                                 *)

\* A new entity gets the next address and the next id.
LEMMA CreateEntities ==
  ASSUME ListInv, EntityInv, NEW k \in Kinds, Create(k)
  PROVE  /\ EntityInv'
         /\ DOMAIN entity' = DOMAIN entity \cup {made + 1} /\ made + 1 \notin DOMAIN entity
         /\ \A f \in DOMAIN entity : entity'[f] = entity[f]
<1>1. PICK e \in Nat : e = made + 1 /\ made \in Nat
  BY DEF ListInv
<1>2. e \notin DOMAIN entity
  BY <1>1 DEF EntityInv
<1>3. PICK r : r = NewEntity(k) /\ r \in Bodies /\ r.id = nextId
  BY NewEntityFacts DEF EntityInv
<1>4. /\ made' = e /\ nextId' = nextId + 1 /\ entities' = PushBack(entities, e) /\ stage' = stage
      /\ entity' = [f \in DOMAIN entity \cup {e} |-> IF f = e THEN r ELSE entity[f]]
      /\ stage # "none"
  BY <1>1, <1>3 DEF Create, Creating
<1>5. /\ DOMAIN entity' = DOMAIN entity \cup {e} /\ entity'[e] = r
      /\ \A f \in DOMAIN entity : entity'[f] = entity[f]
  BY <1>2, <1>4
<1>6. entity' \in [DOMAIN entity' -> Bodies]
  BY <1>3, <1>4, <1>5 DEF EntityInv
<1>7. DOMAIN entity' \subseteq 1 .. made'
  BY <1>1, <1>4, <1>5 DEF EntityInv
<1>8. /\ nextId' \in Nat /\ nextId \in Nat
      /\ \A f \in DOMAIN entity : entity[f].id \in Nat /\ entity[f].id < nextId
  BY <1>4 DEF EntityInv, Bodies
<1>9. \A f \in DOMAIN entity' : entity'[f].id < nextId'
  BY <1>3, <1>4, <1>5, <1>8
<1>10. \A f, g \in DOMAIN entity' : entity'[f].id = entity'[g].id => f = g
  <2>1. \A f \in DOMAIN entity : entity'[f].id # nextId
    BY <1>5, <1>8
  <2>2. \A f, g \in DOMAIN entity : entity'[f].id = entity'[g].id => f = g
    BY <1>5 DEF EntityInv
  <2>3. entity'[e].id = nextId
    BY <1>3, <1>5
  <2> QED BY <1>5, <2>1, <2>2, <2>3
<1>11. Held(entities') = DOMAIN entity' /\ HeldOnce(entities')
  <2>1. /\ Held(PushBack(entities, e)) = Held(entities) \cup {e}
        /\ HeldOnce(entities) /\ e \notin Held(entities) => HeldOnce(PushBack(entities, e))
    BY PushBackHolds DEF ListInv
  <2>2. Held(entities) = DOMAIN entity /\ HeldOnce(entities)
    BY DEF EntityInv
  <2> QED BY <1>2, <1>4, <1>5, <2>1, <2>2
<1> QED BY <1>1, <1>2, <1>4, <1>5, <1>6, <1>7, <1>8, <1>9, <1>10, <1>11 DEF EntityInv

\* The sweep takes a marked entity off the list and out of memory.
LEMMA SweepEntities ==
  ASSUME ListInv, EntityInv, WalkInv, SweepStep
  PROVE  /\ EntityInv'
         /\ node' \in DOMAIN entities'.nodes \cup {NULL}
         /\ \A f \in DOMAIN entity' : f \in DOMAIN entity /\ entity'[f] = entity[f]
         /\ LET e == entities.nodes[node].data
            IN /\ e \in DOMAIN entity
               /\ DOMAIN entity' = IF Marked(e) THEN DOMAIN entity \ {e} ELSE DOMAIN entity
<1>1. PICK a : a = node /\ a \in DOMAIN entities.nodes /\ a # NULL
  BY DEF SweepStep, WalkInv
<1>2. PICK e : e = entities.nodes[a].data /\ e \in DOMAIN entity
  BY <1>1 DEF EntityInv, Held
<1>3. /\ node' = entities.nodes[a].next /\ node' # a
      /\ node' \in DOMAIN entities.nodes \cup {NULL}
  BY <1>1, NodesNext DEF SweepStep, ListInv
<1>4. UNCHANGED <<stage, made, nextId>>
  BY DEF SweepStep
<1>5. CASE ~ Marked(e)
  <2>1. UNCHANGED <<entities, entity>>
    BY <1>1, <1>2, <1>5 DEF SweepStep
  <2>2. EntityInv'
    BY <1>4, <2>1 DEF EntityInv, Held, HeldOnce
  <2> QED BY <1>1, <1>2, <1>3, <1>5, <2>1, <2>2
<1>6. CASE Marked(e)
  <2>1. entities' = Remove(entities, e) /\ entity' = Without(entity, e)
    BY <1>1, <1>2, <1>6 DEF SweepStep, DestroyEntity
  <2>2. entity' = [f \in DOMAIN entity \ {e} |-> entity[f]]
    BY <2>1 DEF Without
  <2>3. DOMAIN entity' = DOMAIN entity \ {e} /\ \A f \in DOMAIN entity' : entity'[f] = entity[f]
    BY <2>2
  <2>4. /\ HeldOnce(entities) => Held(Remove(entities, e)) = Held(entities) \ {e} /\ HeldOnce(Remove(entities, e))
        /\ \A b \in DOMAIN entities.nodes : entities.nodes[b].data # e => b \in DOMAIN Remove(entities, e).nodes
    BY RemoveHolds DEF ListInv
  <2>5. Held(entities) = DOMAIN entity /\ HeldOnce(entities)
    BY DEF EntityInv
  <2>6. Held(entities') = DOMAIN entity' /\ HeldOnce(entities')
    BY <2>1, <2>3, <2>4, <2>5
  <2>7. \A b \in DOMAIN entities.nodes : b # a => entities.nodes[b].data # e
    BY <1>1, <1>2, <2>5 DEF HeldOnce
  <2>8. node' \in DOMAIN entities'.nodes \cup {NULL}
    BY <1>3, <2>1, <2>4, <2>7
  <2>9. entity' \in [DOMAIN entity' -> Bodies]
    BY <2>2, <2>3 DEF EntityInv
  <2>10. EntityInv'
    <3>1. DOMAIN entity' \subseteq 1 .. made'
      BY <1>4, <2>3 DEF EntityInv
    <3>2. nextId' \in Nat /\ \A f \in DOMAIN entity' : entity'[f].id < nextId'
      BY <1>4, <2>3 DEF EntityInv
    <3>3. \A f, g \in DOMAIN entity' : entity'[f].id = entity'[g].id => f = g
      BY <2>3 DEF EntityInv
    <3>4. stage' = "none" => DOMAIN entity' = {}
      BY <1>4, <2>3 DEF EntityInv
    <3> QED BY <2>6, <2>9, <3>1, <3>2, <3>3, <3>4 DEF EntityInv
  <2> QED BY <1>1, <1>2, <1>6, <2>3, <2>8, <2>10
<1> QED BY <1>5, <1>6

\* The other steps leave the entities alone.
LEMMA WorldEntities ==
  ASSUME MemoryInv, [WorldNext]_worldVars
  PROVE  EntityInv'
<1> USE DEF MemoryInv
<1> DEFINE Same == UNCHANGED <<entity, entities, made, nextId>> /\ (stage' = "none" => stage = "none")
<1>1. Same => EntityInv'
  BY DEF EntityInv, Held, HeldOnce
<1>2. CASE CreateWorld
  <2>1. stage = "none" /\ DOMAIN entity = {} /\ UNCHANGED <<entity, made>> /\ nextId' = 0
    BY <1>2 DEF CreateWorld, EntityInv
  <2>2. entities' = EmptyList /\ DOMAIN EmptyList.nodes = {}
    BY <1>2 DEF CreateWorld, EmptyList
  <2>3. Held(entities') = {} /\ HeldOnce(entities')
    BY <2>2 DEF Held, HeldOnce
  <2> QED BY <2>1, <2>3 DEF EntityInv
<1>3. CASE DestroyWorld
  <2>1. entity' = <<>> /\ UNCHANGED <<nextId, made>>
    BY <1>3 DEF DestroyWorld
  <2>2. entities' = EmptyList /\ DOMAIN EmptyList.nodes = {}
    BY <1>3 DEF DestroyWorld, EmptyList
  <2>3. Held(entities') = {} /\ HeldOnce(entities')
    BY <2>2 DEF Held, HeldOnce
  <2>4. DOMAIN entity' = {} /\ entity' \in [{} -> Bodies]
    BY <2>1
  <2> QED BY <2>1, <2>3, <2>4 DEF EntityInv
<1>4. CASE GameCode
  <2>1. ASSUME NEW t \in EventTypes, PushEvent(t) PROVE Same
    BY <2>1 DEF PushEvent, entityVars
  <2>2. GameTouches \/ (\E k \in Kinds : Create(k)) \/ (\E t \in EventTypes : PushEvent(t))
    BY <1>4, GameCodeTouches
  <2>3. GameTouches => EntityInv'
    BY TouchesEntities
  <2>4. ASSUME NEW k \in Kinds, Create(k) PROVE EntityInv'
    BY <2>4, CreateEntities
  <2> HIDE DEF Same
  <2> QED BY <1>1, <2>1, <2>2, <2>3, <2>4
<1>5. CASE SweepStep
  BY <1>5, SweepEntities
<1>6. CASE RegisterSystem
  <2>1. Same BY <1>6 DEF RegisterSystem, entityVars
  <2> QED BY <1>1, <2>1
<1>7. CASE Update
  <2>1. CASE BeginUpdate \/ LeaveSystem \/ HandleEvent \/ EndHandler
    <3>1. Same BY <2>1 DEF BeginUpdate, LeaveSystem, HandleEvent, EndHandler, AtSystem, entityVars
    <3> QED BY <1>1, <3>1
  <2>2. CASE BeginEntitySystem \/ EndVisit \/ EndEntitySystem
    <3>1. Same BY <2>2 DEF BeginEntitySystem, EndVisit, EndEntitySystem, AtSystem, entityVars
    <3> QED BY <1>1, <3>1
  <2>3. CASE TestEntity \/ EndCollisions \/ CallHook \/ EndHook \/ EndHooks
    <3>1. Same BY <2>3 DEF TestEntity, EndCollisions, CallHook, EndHook, EndHooks, entityVars
    <3> QED BY <1>1, <3>1
  <2>4. CASE BeginSweep \/ EndSweep
    <3>1. Same BY <2>4 DEF BeginSweep, EndSweep, entityVars
    <3> QED BY <1>1, <3>1
  <2> HIDE DEF Same, MemoryInv
  <2> QED BY <1>5, <1>7, <2>1, <2>2, <2>3, <2>4 DEF Update
<1>8. CASE UNCHANGED worldVars
  <2>1. Same BY <1>8 DEF worldVars, entityVars
  <2> QED BY <1>1, <2>1
<1> HIDE DEF Same, MemoryInv
<1> QED BY <1>2, <1>3, <1>4, <1>6, <1>7, <1>8 DEF WorldNext

-----------------------------------------------------------------------------
(* The walks of the systems.                                               *)

LEMMA GameCodeStages ==
  ASSUME GameCode
  PROVE  /\ stage \in {"idle", "visit", "hook", "handle"}
         /\ UNCHANGED <<stage, listVars, todo, collisionVars>>
BY DEF GameCode, Create, Retire, Mark, Equip, Unequip, PushEvent, Creating, Retiring, Marking,
       Pushing

LEMMA WorldWalks ==
  ASSUME MemoryInv, [WorldNext]_worldVars
  PROVE  WalkInv'
<1> USE DEF MemoryInv
<1>0. /\ stage \in Stages /\ Held(systems) \subseteq DOMAIN Systems
      /\ stage = "setup" => systems.count < Len(Systems)
      /\ stage \in InUpdate => node \in DOMAIN systems.nodes \cup {NULL}
      /\ stage \in InUpdate \ {"systems"} => node # NULL
      /\ stage = "sweep" => node \in DOMAIN entities.nodes \cup {NULL}
  BY DEF WalkInv
<1>1. /\ systems.head \in DOMAIN systems.nodes \cup {NULL}
      /\ entities.head \in DOMAIN entities.nodes \cup {NULL}
      /\ \A a \in DOMAIN systems.nodes : systems.nodes[a].next \in DOMAIN systems.nodes \cup {NULL}
  BY NodesNext DEF ListInv
<1>2. CASE CreateWorld
  <2>1. systems' = EmptyList /\ Held(EmptyList) = {} /\ EmptyList.count = 0
    BY <1>2 DEF CreateWorld, Held, EmptyList
  <2>2. Held(systems') = {}
    BY <2>1
  <2>3. stage' = "setup" /\ 0 < Len(Systems)
    BY <1>2, SystemsAre DEF CreateWorld
  <2> QED BY <2>1, <2>2, <2>3 DEF WalkInv, Stages, InUpdate
<1>3. CASE RegisterSystem
  <2>1. PICK n \in Nat : n = systems.count /\ n < Len(Systems)
    BY <1>0, <1>3, LinkedHasOrder, ListFacts DEF RegisterSystem, ListInv
  <2>2. n + 1 \in DOMAIN Systems
    BY <2>1, SystemsAre
  <2>3. Held(PushBack(systems, n + 1)) = Held(systems) \cup {n + 1}
    BY PushBackHolds DEF ListInv
  <2>4. systems' = PushBack(systems, n + 1)
    BY <1>3, <2>1 DEF RegisterSystem
  <2>5. systems'.count = n + 1
    <3>1. PICK o : systems \in Lists /\ Ordered(systems, o)
      BY LinkedHasOrder DEF ListInv
    <3> QED BY <2>1, <2>4, <3>1, PushBackOrdered
  <2>6. stage' = "idle" \/ (stage' = "setup" /\ n + 1 # Len(Systems))
    BY <1>3, <2>1 DEF RegisterSystem
  <2>7. n + 1 # Len(Systems) => n + 1 < Len(Systems)
    BY <2>1, SystemsAre
  <2>8. Held(systems') \subseteq DOMAIN Systems
    BY <1>0, <2>2, <2>3, <2>4
  <2> QED BY <2>5, <2>6, <2>7, <2>8 DEF WalkInv, Stages, InUpdate
<1>4. CASE DestroyWorld
  <2>1. systems' = EmptyList /\ stage' = "none" /\ Held(EmptyList) = {}
    BY <1>4 DEF DestroyWorld, Held, EmptyList
  <2>2. Held(systems') = {}
    BY <2>1
  <2> QED BY <2>1, <2>2 DEF WalkInv, Stages, InUpdate
<1>5. CASE GameCode
  <2>1. UNCHANGED <<stage, systems, node>> /\ stage # "sweep"
    BY <1>5, GameCodeStages DEF listVars
  <2> QED BY <1>0, <2>1 DEF WalkInv, Held
<1>6. CASE Update
  <2> USE DEF listVars, entityVars
  <2> DEFINE On == /\ systems' = systems
                   /\ stage' \in Stages \ {"setup", "sweep"}
                   /\ stage' \in InUpdate => node' \in DOMAIN systems.nodes \cup {NULL}
                   /\ stage' \in InUpdate \ {"systems"} => node' # NULL
  <2>1. On => WalkInv'
    BY <1>0 DEF WalkInv, Held
  <2>2. CASE BeginUpdate
    <3>1. On BY <1>1, <2>2 DEF BeginUpdate, Stages, InUpdate
    <3> QED BY <2>1, <3>1
  <2>3. CASE LeaveSystem
    <3>1. On BY <1>0, <1>1, <2>3 DEF LeaveSystem, AtSystem, NextSystem, Stages, InUpdate
    <3> QED BY <2>1, <3>1
  <2>4. CASE HandleEvent \/ EndHandler
    <3>1. On BY <1>0, <2>4 DEF HandleEvent, EndHandler, AtSystem, Stages, InUpdate
    <3> QED BY <2>1, <3>1
  <2>5. CASE BeginEntitySystem
    <3>1. On BY <1>0, <2>5 DEF BeginEntitySystem, AtSystem, Stages, InUpdate
    <3> QED BY <2>1, <3>1
  <2>6. CASE EndVisit
    <3>1. On BY <1>0, <2>6 DEF EndVisit, Stages, InUpdate
    <3> QED BY <2>1, <3>1
  <2>7. CASE EndEntitySystem
    <3>1. On BY <1>0, <1>1, <2>7 DEF EndEntitySystem, NextSystem, Stages, InUpdate
    <3> QED BY <2>1, <3>1
  <2>8. CASE TestEntity \/ EndCollisions
    <3>1. On BY <1>0, <2>8 DEF TestEntity, EndCollisions, Stages, InUpdate
    <3> QED BY <2>1, <3>1
  <2>9. CASE CallHook \/ EndHook
    <3>1. On BY <1>0, <2>9 DEF CallHook, EndHook, Stages, InUpdate
    <3> QED BY <2>1, <3>1
  <2>10. CASE EndHooks
    <3>1. On BY <1>0, <1>1, <2>10 DEF EndHooks, NextSystem, Stages, InUpdate
    <3> QED BY <2>1, <3>1
  <2>11. CASE BeginSweep
    <3>1. UNCHANGED <<systems, entities>> /\ stage' = "sweep" /\ node' = entities.head
      BY <2>11 DEF BeginSweep
    <3> QED BY <1>0, <1>1, <3>1 DEF WalkInv, Held, Stages, InUpdate
  <2>12. CASE SweepStep
    <3>1. UNCHANGED <<systems, stage>> /\ stage = "sweep"
      BY <2>12 DEF SweepStep
    <3>2. node' \in DOMAIN entities'.nodes \cup {NULL}
      BY <2>12, SweepEntities
    <3> QED BY <1>0, <3>1, <3>2 DEF WalkInv, Held, Stages, InUpdate
  <2>13. CASE EndSweep
    <3>1. On BY <2>13 DEF EndSweep, Stages, InUpdate
    <3> QED BY <2>1, <3>1
  <2> HIDE DEF On, MemoryInv
  <2> QED BY <1>6, <2>2, <2>3, <2>4, <2>5, <2>6, <2>7, <2>8, <2>9, <2>10, <2>11, <2>12, <2>13
          DEF Update
<1>7. CASE UNCHANGED worldVars
  BY <1>7, <1>0 DEF worldVars, listVars, entityVars, WalkInv, Held
<1> HIDE DEF MemoryInv
<1> QED BY <1>2, <1>3, <1>4, <1>5, <1>6, <1>7 DEF WorldNext

LEMMA CreateCollides ==
  ASSUME ListInv, EntityInv, NEW k \in Kinds, Create(k)
  PROVE  Colliders \subseteq Colliders'
<1>1. PICK S : S = DOMAIN entity
  OBVIOUS
<1>2. S \subseteq DOMAIN entity' /\ \A e \in S : entity'[e] = entity[e]
  BY <1>1, CreateEntities
<1>3. Colliders \cap S = Colliders' \cap S
  <2>1. \A e \in S : entity'[e].mask \ {Lifetime, Blink} = entity[e].mask \ {Lifetime, Blink}
    BY <1>2
  <2> QED BY <1>1, <1>2, <2>1, CollidersStay
<1> QED BY <1>1, <1>3 DEF Colliders

LEMMA TouchesCollides ==
  ASSUME EntityInv, GameTouches
  PROVE  /\ Colliders' = Colliders
         /\ \A f \in DOMAIN entity : f \in DOMAIN entity' /\
              (entity[f].mask \subseteq entity'[f].mask
                 \/ (stage = "visit" /\ todo # <<>> /\ f = Head(todo)))
<1>1. PICK e, r : Touched(e, r)
  BY DEF GameTouches
<1>2. PICK S : S = DOMAIN entity /\ S = DOMAIN entity'
  BY TouchesEntities
<1>3. ASSUME NEW f \in S
      PROVE  entity'[f].mask \ {Lifetime, Blink} = entity[f].mask \ {Lifetime, Blink}
  BY <1>1, <1>2 DEF Touched
<1>4. Colliders \cap S = Colliders' \cap S
  BY <1>2, <1>3, CollidersStay
<1>5. Colliders \subseteq DOMAIN entity
  BY DEF Colliders
<1>6. Colliders' \subseteq DOMAIN entity'
  BY DEF Colliders
<1>7. Colliders' = Colliders
  BY <1>2, <1>4, <1>5, <1>6
<1>8. ASSUME NEW f \in DOMAIN entity
      PROVE  f \in DOMAIN entity' /\
              (entity[f].mask \subseteq entity'[f].mask
                 \/ (stage = "visit" /\ todo # <<>> /\ f = Head(todo)))
  BY <1>1, <1>2 DEF Touched
<1> QED BY <1>7, <1>8

LEMMA SameColliders ==
  ASSUME entity' = entity
  PROVE  Colliders' = Colliders
BY DEF Colliders, PartOf

LEMMA WorldVisits ==
  ASSUME MemoryInv, [WorldNext]_worldVars
  PROVE  VisitInv'
<1> USE DEF MemoryInv
<1>0. /\ todo \in Seq(DOMAIN entity) /\ Distinct(todo)
      /\ todo # <<>> => stage \in {"visit", "collide"}
      /\ stage = "collide" => Range(todo) \subseteq Colliders
      /\ stage = "visit" /\ todo # <<>> =>
           \A e \in Range(Tail(todo)) : Current.family.all \subseteq entity[e].mask
      /\ present \in Seq(Colliders)
      /\ present # <<>> => stage \in {"collide", "hooks", "hook"}
  BY DEF VisitInv
<1> DEFINE Quiet == todo' = <<>> /\ present' = <<>>
           Same == UNCHANGED <<entity, systems, node, todo, present, stage>>
<1>1. Quiet => VisitInv'
  <2> SUFFICES ASSUME Quiet PROVE VisitInv'
    OBVIOUS
  <2>1. todo' \in Seq(DOMAIN entity') /\ Distinct(todo') /\ present' \in Seq(Colliders')
        /\ Range(todo') = {}
    BY EmptySeq
  <2> QED BY <2>1 DEF VisitInv
<1>2. Same => VisitInv'
  BY SameColliders DEF VisitInv, Distinct, Current, Range
<1>3. CASE CreateWorld
  <2>1. Quiet BY <1>0, <1>3 DEF CreateWorld, collisionVars
  <2> QED BY <1>1, <2>1
<1>4. CASE RegisterSystem
  <2>1. Quiet BY <1>0, <1>4 DEF RegisterSystem, collisionVars
  <2> QED BY <1>1, <2>1
<1>5. CASE DestroyWorld
  <2>1. Quiet BY <1>0, <1>5 DEF DestroyWorld
  <2> QED BY <1>1, <2>1
<1>6. CASE GameCode
  <2>0. UNCHANGED <<stage, systems, node, todo, present>> /\ stage # "collide"
    BY <1>6, GameCodeStages DEF listVars, collisionVars
  <2>1. ASSUME DOMAIN entity \subseteq DOMAIN entity', Colliders \subseteq Colliders',
               stage = "visit" /\ todo # <<>> =>
                 \A e \in Range(Tail(todo)) : entity[e].mask \subseteq entity'[e].mask
        PROVE  VisitInv'
    <3>1. todo' \in Seq(DOMAIN entity') /\ Distinct(todo')
      <4>1. todo \in Seq(DOMAIN entity')
        BY <1>0, <2>1, SeqGrows
      <4> QED BY <1>0, <2>0, <4>1 DEF Distinct
    <3>2. present' \in Seq(Colliders')
      BY <1>0, <2>0, <2>1, SeqGrows
    <3>3. stage' = "visit" /\ todo' # <<>> =>
           \A e \in Range(Tail(todo')) : Current'.family.all \subseteq entity'[e].mask
      <4>1. Current' = Current
        BY <2>0 DEF Current
      <4>2. Range(Tail(todo')) = Range(Tail(todo))
        BY <2>0
      <4> QED BY <1>0, <2>0, <2>1, <4>1, <4>2
    <3>4. /\ todo' # <<>> => stage' \in {"visit", "collide"}
          /\ stage' # "collide"
          /\ present' # <<>> => stage' \in {"collide", "hooks", "hook"}
      BY <1>0, <2>0
    <3> QED BY <3>1, <3>2, <3>3, <3>4 DEF VisitInv
  <2>2. ASSUME NEW k \in Kinds, Create(k) PROVE VisitInv'
    <3>1. DOMAIN entity \subseteq DOMAIN entity' /\ \A f \in DOMAIN entity : entity'[f] = entity[f]
      BY <2>2, CreateEntities
    <3>2. Colliders \subseteq Colliders'
      BY <2>2, CreateCollides
    <3>3. todo # <<>> => Range(Tail(todo)) \subseteq DOMAIN entity
      BY <1>0, TailFacts, SeqFacts
    <3> QED BY <2>1, <3>1, <3>2, <3>3
  <2>3. CASE GameTouches
    <3>1. /\ Colliders' = Colliders
          /\ \A f \in DOMAIN entity : f \in DOMAIN entity' /\
              (entity[f].mask \subseteq entity'[f].mask
                 \/ (stage = "visit" /\ todo # <<>> /\ f = Head(todo)))
      BY <2>3, TouchesCollides
    <3>2. todo # <<>> => Range(Tail(todo)) \subseteq DOMAIN entity /\ Head(todo) \notin Range(Tail(todo))
      BY <1>0, TailFacts, SeqFacts
    <3>3. stage = "visit" /\ todo # <<>> =>
                 \A e \in Range(Tail(todo)) : entity[e].mask \subseteq entity'[e].mask
      BY <3>1, <3>2
    <3>4. DOMAIN entity \subseteq DOMAIN entity' /\ Colliders \subseteq Colliders'
      BY <3>1
    <3> QED BY <2>1, <3>3, <3>4
  <2>4. ASSUME NEW t \in EventTypes, PushEvent(t) PROVE VisitInv'
    <3>1. Same BY <2>4, <2>0 DEF PushEvent, entityVars
    <3> QED BY <1>2, <3>1
  <2> HIDE DEF Same, Quiet
  <2> QED BY <1>6, <2>2, <2>3, <2>4, GameCodeTouches
<1>7. CASE Update
  <2> USE DEF listVars, entityVars, collisionVars
  <2>1. CASE BeginUpdate \/ LeaveSystem \/ HandleEvent \/ EndHandler
    <3>1. Quiet
      BY <1>0, <2>1 DEF BeginUpdate, LeaveSystem, HandleEvent, EndHandler, AtSystem
    <3> QED BY <1>1, <3>1
  <2>2. CASE EndEntitySystem \/ BeginSweep \/ SweepStep \/ EndSweep
    <3>1. Quiet
      BY <1>0, <2>2 DEF EndEntitySystem, BeginSweep, SweepStep, EndSweep
    <3> QED BY <1>1, <3>1
  <2>3. CASE EndHooks
    <3>1. Quiet BY <1>0, <2>3 DEF EndHooks
    <3> QED BY <1>1, <3>1
  <2>4. CASE BeginEntitySystem
    <3>1. stage = "systems" /\ node # NULL /\ present = <<>>
      BY <1>0, <2>4 DEF BeginEntitySystem, AtSystem
    <3>2. PICK i \in DOMAIN Systems : Current = Systems[i]
      <4>1. node \in DOMAIN systems.nodes
        BY <3>1 DEF WalkInv, InUpdate
      <4>2. systems.nodes[node].data \in Held(systems)
        BY <4>1 DEF Held
      <4>3. Held(systems) \subseteq DOMAIN Systems
        BY DEF WalkInv
      <4> QED BY <4>2, <4>3 DEF Current
    <3>3. PICK f : f = Current.family
      OBVIOUS
    <3>4. PICK s : s = AllOfFamily(f)
      OBVIOUS
    <3>5. /\ s \in Seq({e \in DOMAIN entity : PartOf(f, e)}) /\ Distinct(s)
          /\ Range(s) = {e \in DOMAIN entity : PartOf(f, e)}
      BY <3>4, FamilyFacts
    <3>6. s \in Seq(DOMAIN entity)
      <4>1. {e \in DOMAIN entity : PartOf(f, e)} \subseteq DOMAIN entity
        OBVIOUS
      <4> QED BY <3>5, <4>1, SeqGrows
    <3>7. UNCHANGED <<entity, systems, node>> /\ todo' = s
      BY <2>4, <3>3, <3>4 DEF BeginEntitySystem
    <3>8. Colliders' = Colliders /\ Current' = Current
      BY <3>7, SameColliders DEF Current
    <3>9. todo' \in Seq(DOMAIN entity') /\ Distinct(todo')
      BY <3>5, <3>6, <3>7
    <3>10. CASE Current.collides
      <4>1. stage' = "collide" /\ present' = s
        BY <2>4, <3>3, <3>4, <3>10 DEF BeginEntitySystem
      <4>2. Collides(Systems[i])
        BY <2>4, <3>2, <3>10 DEF BeginEntitySystem, Collides
      <4>3. Range(s) \subseteq Colliders
        BY <3>2, <3>3, <3>5, <4>2 DEF Colliders
      <4>4. s \in Seq(Colliders)
        BY <3>6, <4>3, SeqOfHeld
      <4> QED BY <3>7, <3>8, <3>9, <4>1, <4>3, <4>4 DEF VisitInv
    <3>11. CASE ~ Current.collides
      <4>1. stage' = "visit" /\ present' = <<>>
        BY <2>4, <3>1, <3>11 DEF BeginEntitySystem
      <4>2. present' \in Seq(Colliders')
        BY <4>1, EmptySeq
      <4>3. ASSUME todo' # <<>>, NEW e \in Range(Tail(todo'))
            PROVE  Current'.family.all \subseteq entity'[e].mask
        <5>1. e \in Range(s)
          BY <3>6, <3>7, <4>3, TailFacts
        <5>2. PartOf(f, e)
          BY <3>5, <5>1
        <5> QED BY <3>3, <3>7, <3>8, <5>2 DEF PartOf
      <4> QED BY <3>9, <4>1, <4>2, <4>3 DEF VisitInv
    <3> QED BY <3>10, <3>11
  <2>5. CASE EndVisit \/ TestEntity
    <3>1. UNCHANGED <<entity, systems, node, stage, present>> /\ todo' = Tail(todo) /\ todo # <<>>
      BY <2>5 DEF EndVisit, TestEntity
    <3>2. Colliders' = Colliders /\ Current' = Current
      BY <3>1, SameColliders DEF Current
    <3>3. /\ Tail(todo) \in Seq(DOMAIN entity)
          /\ Range(todo) = Range(Tail(todo)) \cup {Head(todo)}
          /\ Distinct(todo) => Distinct(Tail(todo)) /\ Head(todo) \notin Range(Tail(todo))
      BY <1>0, <3>1, TailFacts
    <3>4. Tail(todo) # <<>> => Range(Tail(Tail(todo))) \subseteq Range(Tail(todo))
      <4>1. PICK t \in Seq(DOMAIN entity) : t = Tail(todo)
        BY <3>3
      <4>2. t # <<>> => Range(t) = Range(Tail(t)) \cup {Head(t)}
        BY TailFacts
      <4> QED BY <4>1, <4>2
    <3>5. todo' \in Seq(DOMAIN entity') /\ Distinct(todo')
      BY <1>0, <3>1, <3>3
    <3>6. todo' # <<>> => stage' \in {"visit", "collide"}
      BY <1>0, <3>1
    <3>7. stage' = "collide" => Range(todo') \subseteq Colliders'
      BY <1>0, <3>1, <3>2, <3>3
    <3>8. stage' = "visit" /\ todo' # <<>> =>
            \A e \in Range(Tail(todo')) : Current'.family.all \subseteq entity'[e].mask
      BY <1>0, <3>1, <3>2, <3>4
    <3>9. present' \in Seq(Colliders') /\ (present' # <<>> => stage' \in {"collide", "hooks", "hook"})
      BY <1>0, <3>1, <3>2
    <3> QED BY <3>5, <3>6, <3>7, <3>8, <3>9 DEF VisitInv
  <2>6. CASE EndCollisions \/ CallHook \/ EndHook
    <3>1. UNCHANGED <<entity, todo, present>> /\ stage' \in {"hooks", "hook"} /\ todo = <<>>
      BY <1>0, <2>6 DEF EndCollisions, CallHook, EndHook
    <3>2. Colliders' = Colliders
      BY <3>1, SameColliders
    <3>3. todo' \in Seq(DOMAIN entity') /\ Distinct(todo')
      BY <3>1, EmptySeq
    <3> QED BY <1>0, <3>1, <3>2, <3>3 DEF VisitInv
  <2> HIDE DEF Same, Quiet, MemoryInv
  <2> QED BY <1>7, <2>1, <2>2, <2>3, <2>4, <2>5, <2>6 DEF Update
<1>8. CASE UNCHANGED worldVars
  <2>1. Same BY <1>8 DEF worldVars, listVars, entityVars, collisionVars
  <2> QED BY <1>2, <2>1
<1> HIDE DEF Same, Quiet, MemoryInv
<1> QED BY <1>3, <1>4, <1>5, <1>6, <1>7, <1>8 DEF WorldNext

-----------------------------------------------------------------------------
(* The contacts and their hooks.                                           *)

Hooks(C) == [hook : {"enter", "exit"}, contact : C]

\* No entity is at NULL: a list of contacts is not the one that says there are none
\* to compare with.
LEMMA RealContacts ==
  ASSUME EntityInv, NEW s \in Seq(Contacts)
  PROVE  s # NoContacts
<1>1. NULL \notin Colliders
  BY DEF EntityInv, Colliders, NULL
<1>2. NoContacts[1] = <<NULL, NULL>> /\ Len(NoContacts) = 1
  BY DEF NoContacts
<1>3. ASSUME s = NoContacts PROVE FALSE
  <2>1. Len(s) = 1 /\ s[1] \in Contacts
    BY <1>2, <1>3, SeqFacts
  <2>2. <<NULL, NULL>> \in Colliders \X Colliders
    BY <1>2, <1>3, <2>1 DEF Contacts
  <2> QED BY <1>1, <2>2
<1> QED BY <1>3

\* The hooks due: enter for the new contacts, each once, exit for those that ended.
LEMMA HooksDueFacts ==
  ASSUME NEW C, contacts \in Seq(C), previous \in Seq(C), previous # NoContacts,
         Distinct(contacts)
  PROVE  /\ HooksDue \in Seq(Hooks(C))
         /\ \A i \in DOMAIN HooksDue : HooksDue[i].hook = "enter" =>
              /\ HooksDue[i].contact \in Range(contacts) \ Range(previous)
              /\ \A j \in DOMAIN HooksDue : HooksDue[j] = HooksDue[i] => j = i
         /\ \A c \in Range(previous) \ Range(contacts) :
              \E i \in DOMAIN HooksDue : HooksDue[i] = [hook |-> "exit", contact |-> c]
<1>1. PICK new : new = Kept(contacts, Range(contacts) \ Range(previous))
  OBVIOUS
<1>2. PICK over : over = Kept(previous, Range(previous) \ Range(contacts))
  OBVIOUS
<1>3. new \in Seq(C) /\ Range(new) = Range(contacts) \ Range(previous) /\ Distinct(new)
  <2>1. /\ Kept(contacts, Range(contacts) \ Range(previous)) \in Seq(C)
        /\ Range(Kept(contacts, Range(contacts) \ Range(previous)))
             = Range(contacts) \cap (Range(contacts) \ Range(previous))
        /\ Distinct(contacts) => Distinct(Kept(contacts, Range(contacts) \ Range(previous)))
    BY KeptFacts
  <2> QED BY <1>1, <2>1
<1>4. over \in Seq(C) /\ Range(over) = Range(previous) \ Range(contacts)
  <2>1. /\ Kept(previous, Range(previous) \ Range(contacts)) \in Seq(C)
        /\ Range(Kept(previous, Range(previous) \ Range(contacts)))
             = Range(previous) \cap (Range(previous) \ Range(contacts))
    BY KeptFacts
  <2> QED BY <1>2, <2>1
<1>5. PICK m \in Nat : m = Len(new) /\ DOMAIN new = 1 .. m /\ new \in [1 .. m -> C]
  BY <1>3, SeqFacts
<1>6. PICK n \in Nat : n = Len(over) /\ DOMAIN over = 1 .. n /\ over \in [1 .. n -> C]
  BY <1>4, SeqFacts
<1>7. PICK a : a = [i \in 1 .. m |-> [hook |-> "enter", contact |-> new[i]]]
  OBVIOUS
<1>8. PICK b : b = [i \in 1 .. n |-> [hook |-> "exit", contact |-> over[i]]]
  OBVIOUS
<1>9. PICK h : h = a \o b
  OBVIOUS
<1>10. HooksDue = h
  BY <1>1, <1>2, <1>5, <1>6, <1>7, <1>8, <1>9 DEF HooksDue
<1>11. a \in [1 .. m -> Hooks(C)] /\ b \in [1 .. n -> Hooks(C)]
  BY <1>5, <1>6, <1>7, <1>8 DEF Hooks
<1>12. a \in Seq(Hooks(C)) /\ Len(a) = m /\ b \in Seq(Hooks(C)) /\ Len(b) = n
  BY <1>11
<1>13. /\ h \in Seq(Hooks(C)) /\ DOMAIN h = 1 .. m + n
       /\ \A i \in 1 .. m : i \in 1 .. m + n /\ h[i] = a[i]
       /\ \A i \in 1 .. n : m + i \in 1 .. m + n /\ h[m + i] = b[i]
  <2>0. /\ a \o b \in Seq(Hooks(C)) /\ Len(a \o b) = Len(a) + Len(b)
        /\ \A i \in 1 .. Len(a) + Len(b) :
             (a \o b)[i] = IF i <= Len(a) THEN a[i] ELSE b[i - Len(a)]
    BY <1>12, ConcatFacts
  <2>1. h \in Seq(Hooks(C)) /\ Len(h) = m + n
    BY <1>9, <1>12, <2>0
  <2>2. \A i \in 1 .. m + n : h[i] = IF i <= m THEN a[i] ELSE b[i - m]
    BY <1>9, <1>12, <2>0
  <2>3. \A i \in 1 .. m : i \in 1 .. m + n /\ i <= m
    OBVIOUS
  <2>4. \A i \in 1 .. n : m + i \in 1 .. m + n /\ ~ (m + i <= m) /\ (m + i) - m = i
    OBVIOUS
  <2>5. DOMAIN h = 1 .. m + n
    BY <2>1, SeqFacts
  <2>6. \A i \in 1 .. n : h[m + i] = b[i]
    <3> TAKE i \in 1 .. n
    <3>1. PICK j \in 1 .. m + n : j = m + i /\ ~ (j <= m) /\ j - m = i
      BY <2>4
    <3> QED BY <2>2, <3>1
  <2> QED BY <2>1, <2>2, <2>3, <2>4, <2>5, <2>6
<1>14. ASSUME NEW i \in 1 .. m + n, i \notin 1 .. m PROVE h[i].hook = "exit"
  <2>1. PICK j \in 1 .. n : i = m + j
    <3>1. i - m \in 1 .. n /\ i = m + (i - m) BY <1>14
    <3> QED BY <3>1
  <2>2. h[m + j] = b[j]
    BY <1>13
  <2>3. b[j] = [hook |-> "exit", contact |-> over[j]]
    BY <1>8
  <2> QED BY <2>1, <2>2, <2>3
<1>15. ASSUME NEW i \in 1 .. m + n, h[i].hook = "enter"
       PROVE  /\ h[i].contact \in Range(contacts) \ Range(previous)
              /\ \A j \in 1 .. m + n : h[j] = h[i] => j = i
  <2>1. "enter" # "exit"
    OBVIOUS
  <2>2. i \in 1 .. m
    BY <1>14, <1>15, <2>1
  <2>3. h[i] = [hook |-> "enter", contact |-> new[i]]
    BY <1>7, <1>13, <2>2
  <2>4. new[i] \in Range(new)
    BY <1>5, <2>2 DEF Range
  <2>5. ASSUME NEW j \in 1 .. m + n, h[j] = h[i] PROVE j = i
    <3>1. j \in 1 .. m
      BY <1>14, <1>15, <2>1, <2>5
    <3>2. h[j] = [hook |-> "enter", contact |-> new[j]]
      BY <1>7, <1>13, <3>1
    <3>3. new[j] = new[i]
      BY <2>3, <2>5, <3>2
    <3> QED BY <1>3, <1>5, <2>2, <3>1, <3>3 DEF Distinct
  <2> QED BY <1>3, <2>3, <2>4, <2>5
<1>16. ASSUME NEW c \in Range(previous) \ Range(contacts)
       PROVE  \E i \in 1 .. m + n : h[i] = [hook |-> "exit", contact |-> c]
  <2>1. PICK j \in 1 .. n : over[j] = c
    BY <1>4, <1>6, <1>16 DEF Range
  <2>2. h[m + j] = [hook |-> "exit", contact |-> c] /\ m + j \in 1 .. m + n
    BY <1>8, <1>13, <2>1
  <2> QED BY <2>2
<1> QED BY <1>10, <1>13, <1>15, <1>16

\* A step that tests nothing, calls no hook and ends no collision.
LEMMA CollisionsStay ==
  ASSUME EntityInv', ContactInv, HookInv, Contacts \subseteq Contacts', contacts' = <<>>,
         UNCHANGED <<previous, hooks, told>>,
         hooks # <<>> => stage' \in {"hooks", "hook"}
  PROVE  ContactInv' /\ HookInv'
<1>1. contacts' \in Seq(Contacts') /\ DOMAIN contacts' = {}
  OBVIOUS
<1>2. previous # NoContacts => previous \in Seq(Contacts')
  BY SeqGrows DEF ContactInv
<1>3. ContactInv'
  BY <1>1, <1>2 DEF ContactInv
<1>4. PICK A, B : A = Hooks(Contacts) /\ B = Hooks(Contacts') /\ A \subseteq B
  BY DEF Hooks
<1>5. hooks \in Seq(A)
  BY <1>4 DEF HookInv, Hooks
<1>6. hooks \in Seq(B)
  BY <1>4, <1>5, SeqGrows
<1>7. hooks' \in Seq([hook : {"enter", "exit"}, contact : Contacts'])
  BY <1>4, <1>6 DEF Hooks
<1>8. /\ \A i \in DOMAIN hooks : hooks[i].hook = "enter" =>
           /\ hooks[i].contact \in Range(previous) \ told
           /\ \A j \in DOMAIN hooks : hooks[j] = hooks[i] => j = i
      /\ \A c \in told : \/ c \in Range(previous)
                         \/ \E i \in DOMAIN hooks : hooks[i] = [hook |-> "exit", contact |-> c]
  BY DEF HookInv
<1>9. Range(previous') = Range(previous) /\ hooks' = hooks /\ told' = told
  OBVIOUS
<1>10. HookInv'
  BY <1>7, <1>8, <1>9 DEF HookInv
<1> QED BY <1>3, <1>10

LEMMA TestCollides ==
  ASSUME MemoryInv, TestEntity
  PROVE  ContactInv' /\ HookInv'
<1> USE DEF MemoryInv
<1>1. /\ stage = "collide" /\ stage' = stage /\ todo # <<>> /\ todo' = Tail(todo)
      /\ UNCHANGED <<entity, previous, hooks, told>> /\ hooks = <<>>
  BY DEF TestEntity, entityVars, HookInv
<1>2. Contacts' = Contacts
  BY <1>1, SameColliders DEF Contacts
<1>3. HookInv'
  <2>1. \A i \in DOMAIN hooks : FALSE
    BY <1>1
  <2> QED BY <1>1, <1>2, <2>1 DEF HookInv
<1>4. PICK e : e = Head(todo)
  OBVIOUS
<1>5. Range(todo) = Range(todo') \cup {e} /\ e \notin Range(todo') /\ e \in Colliders
  <2>1. /\ Range(todo) = Range(Tail(todo)) \cup {Head(todo)}
        /\ Distinct(todo) => Distinct(Tail(todo)) /\ Head(todo) \notin Range(Tail(todo))
    BY <1>1, TailFacts DEF VisitInv
  <2> QED BY <1>1, <1>4, <2>1 DEF VisitInv
<1>6. PICK n \in Nat : n = Len(contacts) /\ DOMAIN contacts = 1 .. n /\ contacts \in Seq(Contacts)
  BY SeqFacts DEF ContactInv
<1>7. /\ \A i, j \in 1 .. n : contacts[i][1] = contacts[j][1] => i = j
      /\ \A i \in 1 .. n : contacts[i][1] # e /\ contacts[i][1] \notin Range(todo')
  BY <1>5, <1>6 DEF ContactInv
<1>8. /\ previous' # NoContacts => previous' \in Seq(Contacts')
      /\ previous' = NoContacts => told' = {} /\ hooks' = <<>>
  BY <1>1, <1>2 DEF ContactInv
<1>9. CASE contacts' = contacts
  BY <1>1, <1>2, <1>6, <1>7, <1>8, <1>9, <1>3 DEF ContactInv
<1>10. CASE \E f \in Range(present) : contacts' = Append(contacts, <<e, f>>)
  <2>1. PICK f \in Range(present) : contacts' = Append(contacts, <<e, f>>)
    BY <1>10
  <2>2. f \in Colliders
    BY <2>1, SeqFacts DEF VisitInv
  <2>3. <<e, f>> \in Contacts
    BY <1>5, <2>2 DEF Contacts
  <2>4. /\ contacts' \in Seq(Contacts) /\ DOMAIN contacts' = 1 .. n + 1
        /\ \A i \in 1 .. n : contacts'[i] = contacts[i]
        /\ contacts'[n + 1] = <<e, f>>
    BY <1>6, <2>1, <2>3
  <2>5. \A i \in 1 .. n + 1 : i = n + 1 \/ i \in 1 .. n
    OBVIOUS
  <2>6. contacts'[n + 1][1] = e
    BY <2>4
  <2>7. \A i, j \in 1 .. n + 1 : contacts'[i][1] = contacts'[j][1] => i = j
    BY <1>7, <2>4, <2>5, <2>6
  <2>8. \A i \in 1 .. n + 1 : contacts'[i][1] \notin Range(todo')
    BY <1>5, <1>7, <2>4, <2>5, <2>6
  <2> QED BY <1>1, <1>2, <1>3, <1>8, <2>4, <2>7, <2>8 DEF ContactInv
<1> QED BY <1>4, <1>9, <1>10 DEF TestEntity

LEMMA CollisionsEnd ==
  ASSUME MemoryInv, EndCollisions
  PROVE  ContactInv' /\ HookInv'
<1> USE DEF MemoryInv
<1>1. /\ hooks' = HooksDue /\ previous' = contacts /\ contacts' = <<>> /\ stage' = "hooks"
      /\ UNCHANGED <<entity, told, todo>> /\ hooks = <<>>
  BY DEF EndCollisions, entityVars, HookInv
<1>2. Contacts' = Contacts
  BY <1>1, SameColliders DEF Contacts
<1>3. contacts \in Seq(Contacts) /\ contacts # NoContacts
  BY RealContacts DEF ContactInv
<1>4. ContactInv'
  <2>1. contacts' \in Seq(Contacts') /\ DOMAIN contacts' = {}
    BY <1>1
  <2> QED BY <1>1, <1>2, <1>3, <2>1 DEF ContactInv
<1>5. CASE previous = NoContacts
  <2>1. hooks' = <<>> /\ told' = {}
    BY <1>1, <1>5 DEF HooksDue, ContactInv
  <2>2. hooks' \in Seq([hook : {"enter", "exit"}, contact : Contacts']) /\ DOMAIN hooks' = {}
    BY <2>1
  <2> QED BY <1>4, <2>1, <2>2 DEF HookInv
<1>6. CASE previous # NoContacts
  <2>1. previous \in Seq(Contacts) /\ Distinct(contacts)
    BY <1>6 DEF ContactInv, Distinct
  <2>2. PICK h : h = HooksDue
    OBVIOUS
  <2>3. /\ h \in Seq(Hooks(Contacts))
        /\ \A i \in DOMAIN h : h[i].hook = "enter" =>
              /\ h[i].contact \in Range(contacts) \ Range(previous)
              /\ \A j \in DOMAIN h : h[j] = h[i] => j = i
        /\ \A c \in Range(previous) \ Range(contacts) :
              \E i \in DOMAIN h : h[i] = [hook |-> "exit", contact |-> c]
    BY <1>3, <1>6, <2>1, <2>2, HooksDueFacts
  <2>4. told \subseteq Range(previous)
    <3>1. \A i \in DOMAIN hooks : FALSE
      BY <1>1
    <3> QED BY <3>1 DEF HookInv
  <2>5. Range(previous') = Range(contacts)
    BY <1>1
  <2>6. /\ hooks' = h /\ told' = told /\ stage' = "hooks"
        /\ hooks' \in Seq([hook : {"enter", "exit"}, contact : Contacts'])
    BY <1>1, <1>2, <2>2, <2>3 DEF Hooks
  <2>7. \A i \in DOMAIN h : h[i].hook = "enter" =>
          /\ h[i].contact \in Range(previous') \ told
          /\ \A j \in DOMAIN h : h[j] = h[i] => j = i
    BY <2>3, <2>4, <2>5
  <2>8. \A c \in told : \/ c \in Range(previous')
                        \/ \E i \in DOMAIN h : h[i] = [hook |-> "exit", contact |-> c]
    BY <2>3, <2>4, <2>5
  <2>9. HookInv'
    BY <2>6, <2>7, <2>8 DEF HookInv
  <2> QED BY <1>4, <2>9
<1> QED BY <1>5, <1>6

LEMMA HookCalled ==
  ASSUME MemoryInv, CallHook
  PROVE  ContactInv' /\ HookInv'
<1> USE DEF MemoryInv
<1>1. /\ hooks # <<>> /\ hooks' = Tail(hooks) /\ stage' \in {"hooks", "hook"}
      /\ UNCHANGED <<entity, todo, contacts, previous>> /\ contacts = <<>>
      /\ told' = IF Head(hooks).hook = "enter" THEN told \cup {Head(hooks).contact}
                 ELSE told \ {Head(hooks).contact}
  BY DEF CallHook, entityVars, ContactInv
<1>2. Contacts' = Contacts
  BY <1>1, SameColliders DEF Contacts
<1>3. PICK t, x : t = Tail(hooks) /\ x = Head(hooks)
  OBVIOUS
<1>4. /\ t \in Seq(Hooks(Contacts)) /\ x \in Hooks(Contacts)
      /\ x = hooks[1] /\ 1 \in DOMAIN hooks
      /\ \A i \in DOMAIN t : i + 1 \in DOMAIN hooks /\ t[i] = hooks[i + 1]
      /\ \A i \in DOMAIN hooks : i = 1 \/ (i - 1 \in DOMAIN t /\ t[i - 1] = hooks[i])
  <2>1. hooks \in Seq(Hooks(Contacts))
    BY DEF HookInv, Hooks
  <2> QED BY <1>1, <1>3, <2>1, TailFacts
<1>5. /\ \A i \in DOMAIN hooks : hooks[i].hook = "enter" =>
           /\ hooks[i].contact \in Range(previous) \ told
           /\ \A j \in DOMAIN hooks : hooks[j] = hooks[i] => j = i
      /\ \A c \in told : \/ c \in Range(previous)
                         \/ \E i \in DOMAIN hooks : hooks[i] = [hook |-> "exit", contact |-> c]
      /\ previous # NoContacts
  BY <1>1 DEF HookInv, ContactInv
<1>6. ContactInv'
  <2>1. contacts' \in Seq(Contacts') /\ DOMAIN contacts' = {}
    BY <1>1
  <2> QED BY <1>1, <1>2, <1>5, <2>1 DEF ContactInv
<1>7. t \in Seq(Hooks(Contacts)) /\ DOMAIN t = 1 .. Len(t) /\ Len(t) \in Nat
  BY <1>4, SeqFacts
<1>8. ASSUME NEW i \in DOMAIN t, t[i].hook = "enter"
      PROVE  /\ t[i].contact \in Range(previous) \ told'
             /\ \A j \in DOMAIN t : t[j] = t[i] => j = i
  <2>1. PICK p \in DOMAIN hooks : p = i + 1 /\ hooks[p] = t[i] /\ p # 1
    BY <1>4, <1>7
  <2>2. t[i].contact \in Range(previous) \ told
    BY <1>5, <1>8, <2>1
  <2>3. t[i].contact \notin told'
    <3>1. CASE x.hook = "enter"
      <4>1. x # t[i]
        BY <1>4, <1>5, <1>8, <2>1
      <4>2. x = [hook |-> "enter", contact |-> x.contact]
            /\ t[i] = [hook |-> "enter", contact |-> t[i].contact]
        <5>1. t[i] \in Hooks(Contacts)
          BY <1>7, SeqFacts
        <5> QED BY <1>4, <1>8, <3>1, <5>1 DEF Hooks
      <4>3. x.contact # t[i].contact
        BY <4>1, <4>2
      <4> QED BY <1>1, <1>3, <2>2, <3>1, <4>3
    <3>2. CASE x.hook # "enter"
      BY <1>1, <1>3, <2>2, <3>2
    <3> QED BY <3>1, <3>2
  <2>4. ASSUME NEW j \in DOMAIN t, t[j] = t[i] PROVE j = i
    <3>1. j + 1 \in DOMAIN hooks /\ hooks[j + 1] = hooks[p]
      BY <1>4, <2>1, <2>4
    <3>2. j + 1 = p
      BY <1>5, <1>8, <2>1, <3>1
    <3> QED BY <1>7, <2>1, <3>2
  <2> QED BY <2>2, <2>3, <2>4
<1>9. ASSUME NEW c \in told'
      PROVE  \/ c \in Range(previous)
             \/ \E i \in DOMAIN t : t[i] = [hook |-> "exit", contact |-> c]
  <2>1. CASE x.hook = "enter"
    <3>1. x.contact \in Range(previous)
      BY <1>4, <1>5, <2>1
    <3>2. c = x.contact \/ c \in told
      BY <1>1, <1>3, <1>9, <2>1
    <3>3. ASSUME NEW i \in DOMAIN hooks, hooks[i] = [hook |-> "exit", contact |-> c]
          PROVE  i # 1
      <4>1. hooks[i].hook # "enter" BY <3>3
      <4> QED BY <1>4, <2>1, <4>1
    <3> QED BY <1>4, <1>5, <3>1, <3>2, <3>3
  <2>2. CASE x.hook # "enter"
    <3>1. c \in told /\ c # x.contact
      BY <1>1, <1>3, <1>9, <2>2
    <3>2. ASSUME NEW i \in DOMAIN hooks, hooks[i] = [hook |-> "exit", contact |-> c]
          PROVE  i # 1
      <4>1. hooks[i].contact = c BY <3>2
      <4> QED BY <1>4, <3>1, <4>1
    <3> QED BY <1>4, <1>5, <3>1, <3>2
  <2> QED BY <2>1, <2>2
<1>10. hooks' = t /\ hooks' \in Seq([hook : {"enter", "exit"}, contact : Contacts'])
  BY <1>1, <1>2, <1>3, <1>4 DEF Hooks
<1>11. Range(previous') = Range(previous)
  BY <1>1
<1>12. HookInv'
  BY <1>1, <1>8, <1>9, <1>10, <1>11 DEF HookInv
<1> QED BY <1>6, <1>12

\* The contacts of an entity that goes are forgotten on both sides.
LEMMA SweepCollides ==
  ASSUME MemoryInv, SweepStep
  PROVE  ContactInv' /\ HookInv'
<1> USE DEF MemoryInv
<1>1. /\ stage = "sweep" /\ stage' = stage /\ contacts' = contacts /\ hooks' = hooks /\ todo' = todo
      /\ hooks = <<>> /\ contacts = <<>>
  BY DEF SweepStep, HookInv, ContactInv
<1>2. PICK e \in DOMAIN entity :
        /\ e = entities.nodes[node].data
        /\ DOMAIN entity' = IF Marked(e) THEN DOMAIN entity \ {e} ELSE DOMAIN entity
        /\ \A f \in DOMAIN entity' : f \in DOMAIN entity /\ entity'[f] = entity[f]
        /\ EntityInv'
  BY SweepEntities
<1>3. CASE ~ Marked(e)
  <2>1. UNCHANGED <<entity, previous, told>>
    BY <1>2, <1>3 DEF SweepStep
  <2>2. Contacts \subseteq Contacts'
    BY <2>1, SameColliders DEF Contacts
  <2> QED BY <1>1, <1>2, <2>1, <2>2, CollisionsStay
<1>4. CASE Marked(e)
  <2>1. previous' = WithoutContactsOf(e) /\ told' = {c \in told : e \notin {c[1], c[2]}}
    BY <1>2, <1>4 DEF SweepStep
  <2>2. Colliders \ {e} \subseteq Colliders'
    <3>1. PICK S : S = DOMAIN entity \ {e}
      OBVIOUS
    <3>2. S \subseteq DOMAIN entity /\ S \subseteq DOMAIN entity'
      BY <1>2, <1>4, <3>1
    <3>3. \A f \in S : entity'[f].mask \ {Lifetime, Blink} = entity[f].mask \ {Lifetime, Blink}
      BY <1>2, <3>2
    <3>4. Colliders \cap S = Colliders' \cap S
      BY <3>2, <3>3, CollidersStay
    <3> QED BY <3>1, <3>4 DEF Colliders
  <2>3. told \subseteq Range(previous) \/ previous = NoContacts
    <3>1. \A i \in DOMAIN hooks : FALSE
      BY <1>1
    <3> QED BY <3>1 DEF HookInv
  <2>4. contacts' \in Seq(Contacts') /\ DOMAIN contacts' = {}
        /\ hooks' \in Seq([hook : {"enter", "exit"}, contact : Contacts']) /\ DOMAIN hooks' = {}
    BY <1>1
  <2>5. CASE previous = NoContacts
    <3>1. previous' = NoContacts /\ told = {} /\ told' = {}
      BY <2>1, <2>5 DEF WithoutContactsOf, ContactInv
    <3> QED BY <1>1, <2>4, <3>1 DEF ContactInv, HookInv
  <2>6. CASE previous # NoContacts
    <3>1. previous \in Seq(Contacts)
      BY <2>6 DEF ContactInv
    <3>2. Range(previous) \subseteq Contacts
      BY <3>1, SeqFacts
    <3>3. ASSUME NEW c \in Range(previous)
          PROVE  /\ Touches(c, e) <=> e \in {c[1], c[2]}
                 /\ e \notin {c[1], c[2]} => c \in Contacts'
      <4>1. c[1] \in Colliders /\ c[2] \in Colliders /\ c = <<c[1], c[2]>>
        BY <3>2 DEF Contacts
      <4>2. c[1] \in DOMAIN entity /\ c[2] \in DOMAIN entity
        BY <4>1 DEF Colliders
      <4>3. \A f \in DOMAIN entity : entity[f].id = entity[e].id <=> f = e
        BY DEF EntityInv
      <4>4. Touches(c, e) <=> (c[1] = e \/ c[2] = e)
        BY <4>2, <4>3 DEF Touches
      <4>5. e \notin {c[1], c[2]} => c \in Contacts'
        <5>1. e \notin {c[1], c[2]} => c[1] \in Colliders' /\ c[2] \in Colliders'
          BY <2>2, <4>1
        <5>2. ASSUME NEW D, c[1] \in D, c[2] \in D PROVE c \in D \X D
          BY <4>1, <5>2
        <5> QED BY <5>1, <5>2 DEF Contacts
      <4> QED BY <4>4, <4>5
    <3>4. /\ previous' \in Seq(Contacts')
          /\ \A c \in Range(previous) : e \notin {c[1], c[2]} => c \in Range(previous')
      <4>1. CASE e \in Colliders
        <5>1. PICK K : K = {c \in Range(previous) : ~ Touches(c, e)}
          OBVIOUS
        <5>2. previous' = Kept(previous, K)
          BY <2>1, <2>6, <4>1, <5>1 DEF WithoutContactsOf, Colliders, Collides
        <5>3. Kept(previous, K) \in Seq(Contacts) /\ Range(Kept(previous, K)) = Range(previous) \cap K
          BY <3>1, KeptFacts
        <5>4. previous' \in Seq(Contacts) /\ Range(previous') = K
          BY <5>1, <5>2, <5>3
        <5>5. K \subseteq Contacts'
          BY <3>3, <5>1
        <5>6. previous' \in Seq(Contacts')
          BY <5>4, <5>5, SeqOfHeld
        <5> QED BY <3>3, <5>1, <5>4, <5>6
      <4>2. CASE e \notin Colliders
        <5>1. previous' = previous
          BY <2>1, <4>2 DEF WithoutContactsOf, Colliders, Collides
        <5>2. \A c \in Range(previous) : e \notin {c[1], c[2]}
          BY <3>2, <4>2 DEF Contacts
        <5>3. Range(previous) \subseteq Contacts'
          BY <3>3, <5>2
        <5>4. previous \in Seq(Contacts')
          BY <3>1, <5>3, SeqOfHeld
        <5> QED BY <5>1, <5>4
      <4> QED BY <4>1, <4>2
    <3>5. told' \subseteq Range(previous')
      BY <2>1, <2>3, <2>6, <3>4
    <3>6. previous' # NoContacts
      <4>1. PICK s : s = previous'
        OBVIOUS
      <4>2. s \in Seq(Contacts)
        <5>1. Colliders' \subseteq Colliders
          <6>1. PICK S : S = DOMAIN entity \ {e}
            OBVIOUS
          <6>2. S \subseteq DOMAIN entity /\ S = DOMAIN entity'
            BY <1>2, <1>4, <6>1
          <6>3. \A f \in S : entity'[f].mask \ {Lifetime, Blink} = entity[f].mask \ {Lifetime, Blink}
            BY <1>2, <6>2
          <6>4. Colliders \cap S = Colliders' \cap S
            BY <6>2, <6>3, CollidersStay
          <6>5. Colliders' \subseteq DOMAIN entity'
            BY DEF Colliders
          <6> QED BY <6>2, <6>4, <6>5
        <5>2. Contacts' \subseteq Contacts
          BY <5>1 DEF Contacts
        <5> QED BY <3>4, <4>1, <5>2, SeqGrows
      <4> QED BY <4>1, <4>2, RealContacts
    <3> QED BY <1>1, <2>4, <3>4, <3>5, <3>6 DEF ContactInv, HookInv
  <2> QED BY <2>5, <2>6
<1> QED BY <1>3, <1>4

\* The other steps neither add a contact nor call a hook.
LEMMA WorldContacts ==
  ASSUME MemoryInv, [WorldNext]_worldVars
  PROVE  ContactInv' /\ HookInv'
<1> USE DEF MemoryInv
<1>0. /\ EntityInv'
      /\ contacts # <<>> => stage = "collide"
      /\ hooks # <<>> => stage \in {"hooks", "hook"}
  BY WorldEntities DEF ContactInv, HookInv
<1> DEFINE Still == /\ contacts' = <<>> /\ UNCHANGED <<previous, hooks, told>>
                    /\ hooks # <<>> => stage' \in {"hooks", "hook"}
<1>1. Still /\ Contacts \subseteq Contacts' => ContactInv' /\ HookInv'
  BY <1>0, CollisionsStay
<1>2. entity' = entity => Contacts \subseteq Contacts'
  BY SameColliders DEF Contacts
<1>3. CASE CreateWorld \/ RegisterSystem
  <2>1. Still /\ entity' = entity
    BY <1>0, <1>3 DEF CreateWorld, RegisterSystem, collisionVars, entityVars
  <2> HIDE DEF Still
  <2> QED BY <1>1, <1>2, <2>1
<1>4. CASE DestroyWorld
  <2>1. /\ contacts' = <<>> /\ previous' = NoContacts /\ told' = {} /\ hooks' = <<>>
    BY <1>0, <1>4 DEF DestroyWorld
  <2>2. /\ contacts' \in Seq(Contacts') /\ DOMAIN contacts' = {}
        /\ hooks' \in Seq([hook : {"enter", "exit"}, contact : Contacts']) /\ DOMAIN hooks' = {}
    BY <2>1
  <2>3. ContactInv'
    BY <2>1, <2>2 DEF ContactInv
  <2>4. HookInv'
    BY <2>1, <2>2 DEF HookInv
  <2> QED BY <2>3, <2>4
<1>5. CASE GameCode
  <2>1. Still
    BY <1>0, <1>5, GameCodeStages DEF collisionVars
  <2>2. Colliders \subseteq Colliders'
    <3>1. ASSUME NEW t \in EventTypes, PushEvent(t) PROVE entity' = entity
      BY <3>1 DEF PushEvent, entityVars
    <3>2. ASSUME NEW k \in Kinds, Create(k) PROVE Colliders \subseteq Colliders'
      BY <3>2, CreateCollides
    <3>3. GameTouches => Colliders' = Colliders
      BY TouchesCollides
    <3>4. GameTouches \/ (\E k \in Kinds : Create(k)) \/ (\E t \in EventTypes : PushEvent(t))
      BY <1>5, GameCodeTouches
    <3>5. entity' = entity => Colliders' = Colliders
      BY SameColliders
    <3> HIDE DEF MemoryInv
    <3> QED BY <3>1, <3>2, <3>3, <3>4, <3>5
  <2>3. Contacts \subseteq Contacts'
    BY <2>2 DEF Contacts
  <2> HIDE DEF Still
  <2> QED BY <1>1, <2>1, <2>3
<1>6. CASE Update
  <2>1. CASE TestEntity
    BY <2>1, TestCollides
  <2>2. CASE EndCollisions
    BY <2>2, CollisionsEnd
  <2>3. CASE CallHook
    BY <2>3, HookCalled
  <2>4. CASE SweepStep
    BY <2>4, SweepCollides
  <2>5. CASE BeginUpdate \/ LeaveSystem \/ HandleEvent \/ EndHandler
    <3>1. Still /\ entity' = entity
      BY <1>0, <2>5 DEF BeginUpdate, LeaveSystem, HandleEvent, EndHandler, AtSystem,
                        collisionVars, entityVars
    <3> HIDE DEF Still
    <3> QED BY <1>1, <1>2, <3>1
  <2>6. CASE BeginEntitySystem
    <3>1. Still /\ entity' = entity
      BY <1>0, <2>6 DEF BeginEntitySystem, AtSystem, entityVars
    <3> HIDE DEF Still
    <3> QED BY <1>1, <1>2, <3>1
  <2>7. CASE EndVisit \/ EndEntitySystem \/ EndHook \/ EndHooks
    <3>1. Still /\ entity' = entity
      BY <1>0, <2>7 DEF EndVisit, EndEntitySystem, EndHook, EndHooks, collisionVars, entityVars
    <3> HIDE DEF Still
    <3> QED BY <1>1, <1>2, <3>1
  <2>8. CASE BeginSweep \/ EndSweep
    <3>1. Still /\ entity' = entity
      BY <1>0, <2>8 DEF BeginSweep, EndSweep, collisionVars, entityVars
    <3> HIDE DEF Still
    <3> QED BY <1>1, <1>2, <3>1
  <2> HIDE DEF Still, MemoryInv
  <2> QED BY <1>6, <2>1, <2>2, <2>3, <2>4, <2>5, <2>6, <2>7, <2>8 DEF Update
<1>7. CASE UNCHANGED worldVars
  <2>1. UNCHANGED <<entity, stage, todo, contacts, previous, hooks, told>>
    BY <1>7 DEF worldVars, entityVars, collisionVars
  <2>2. Contacts' = Contacts
    BY <2>1, SameColliders DEF Contacts
  <2> QED BY <2>1, <2>2 DEF ContactInv, HookInv
<1> HIDE DEF Still, MemoryInv
<1> QED BY <1>3, <1>4, <1>5, <1>6, <1>7 DEF WorldNext

-----------------------------------------------------------------------------
(* The memory of a world.                                                  *)

LEMMA WorldStarts == WorldInit => MemoryInv
<1> SUFFICES ASSUME WorldInit PROVE MemoryInv
  OBVIOUS
<1>1. /\ stage = "none" /\ systems = EmptyList /\ entities = EmptyList /\ entity = <<>>
      /\ nextId = 0 /\ made = 0 /\ todo = <<>> /\ present = <<>> /\ contacts = <<>>
      /\ previous = NoContacts /\ hooks = <<>> /\ told = {}
  BY DEF WorldInit
<1>2. DOMAIN entity = {} /\ Held(EmptyList) = {} /\ HeldOnce(EmptyList)
  BY <1>1 DEF EmptyList, Held, HeldOnce
<1>3. EntityInv
  <2>1. entity \in [DOMAIN entity -> Bodies]
    BY <1>1, <1>2
  <2> QED BY <1>1, <1>2, <2>1 DEF EntityInv
<1>4. WalkInv
  BY <1>1, <1>2 DEF WalkInv, Stages, InUpdate
<1>5. VisitInv
  <2>1. todo \in Seq(DOMAIN entity) /\ Distinct(todo) /\ present \in Seq(Colliders)
    BY <1>1, EmptySeq
  <2> QED BY <1>1, <2>1 DEF VisitInv
<1>6. ContactInv
  <2>1. contacts \in Seq(Contacts) /\ DOMAIN contacts = {}
    BY <1>1, EmptySeq
  <2> QED BY <1>1, <2>1 DEF ContactInv
<1>7. HookInv
  <2>1. hooks \in Seq([hook : {"enter", "exit"}, contact : Contacts]) /\ DOMAIN hooks = {}
    BY <1>1, EmptySeq
  <2> QED BY <1>1, <2>1 DEF HookInv
<1> QED BY <1>3, <1>4, <1>5, <1>6, <1>7, WorldInitLists DEF MemoryInv

LEMMA WorldSteps ==
  ASSUME MemoryInv, [WorldNext]_worldVars
  PROVE  MemoryInv'
<1>1. DOMAIN entity \subseteq Nat
  BY DEF MemoryInv, ListInv, EntityInv
<1>2. ListInv'
  BY <1>1, WorldLists DEF MemoryInv
<1> QED BY <1>2, WorldEntities, WorldWalks, WorldVisits, WorldContacts DEF MemoryInv

\* Every reachable world satisfies the invariant of its memory, walks and contacts, for
\* every set of kinds, systems and families in which systems that collide agree
\* (world.c, collision_entity_system.c).
THEOREM WorldMemory == WorldSpec => []MemoryInv
<1>1. MemoryInv /\ [WorldNext]_worldVars => MemoryInv'
  BY WorldSteps
<1> QED BY <1>1, WorldStarts, PTL DEF WorldSpec

LEMMA InvEntersAndExitsMatch == MemoryInv => EntersAndExitsMatch
<1> SUFFICES ASSUME MemoryInv PROVE EntersAndExitsMatch
  OBVIOUS
<1>1. ASSUME hooks # <<>>, Head(hooks).hook = "enter"
      PROVE  Head(hooks).contact \notin told
  <2>1. PICK H : H = [hook : {"enter", "exit"}, contact : Contacts] /\ hooks \in Seq(H)
    BY DEF MemoryInv, HookInv
  <2>2. 1 \in DOMAIN hooks /\ Head(hooks) = hooks[1]
    BY <1>1, <2>1
  <2> QED BY <1>1, <2>2 DEF MemoryInv, HookInv
<1>2. ASSUME stage = "idle", previous # NoContacts
      PROVE  told \subseteq Range(previous)
  <2>1. hooks = <<>>
    BY <1>2 DEF MemoryInv, HookInv
  <2>2. \A i \in DOMAIN hooks : FALSE
    BY <2>1
  <2> QED BY <2>2 DEF MemoryInv, HookInv
<1> QED BY <1>1, <1>2 DEF EntersAndExitsMatch

\* The enter hooks of a contact are not called again before it is over, and when an
\* update ends no contact whose enter hooks were called was forgotten, for every
\* number of entities and contacts and every order of systems
\* (collision_entity_system_end).
THEOREM WorldMatchesEntersAndExits == WorldSpec => []EntersAndExitsMatch
  BY WorldMemory, InvEntersAndExitsMatch, PTL

-----------------------------------------------------------------------------
(* Tags and groups: the tables an entity takes and leaves.                 *)

LEMMA JoinGets ==
  ASSUME NEW K, K \subseteq Keys, IsFiniteSet(K), ProbesFor(K),
         NEW t \in Maps(K, Linked), NEW g \in K, NEW e \in Nat
  PROVE  /\ JoinGroup(t, g, e) \in Maps(K, Linked)
         /\ Get(t, g, EmptyList) \in Linked
         /\ \A h \in K : Get(JoinGroup(t, g, e), h, EmptyList)
              = IF h = g THEN PushBack(Get(t, g, EmptyList), e) ELSE Get(t, h, EmptyList)
<1>1. CASE \A x \in Entries(t) : x.key # g
  <2>1. Turn(t, g) = {} /\ Get(t, g, EmptyList) = EmptyList
    BY <1>1, KeyMissing
  <2>2. PushBack(EmptyList, e) \in Linked /\ EmptyList \in Linked
    BY EmptyListLinked, PushBackLinked
  <2>3. PICK u : u = Add(t, g, PushBack(EmptyList, e))
    OBVIOUS
  <2>4. /\ u \in Maps(K, Linked)
        /\ \A h \in K : \A m : Get(u, h, m) = IF h = g THEN PushBack(EmptyList, e) ELSE Get(t, h, m)
    BY <1>1, <2>2, <2>3, AddGets
  <2> QED BY <2>1, <2>2, <2>3, <2>4 DEF JoinGroup
<1>2. CASE \E x \in Entries(t) : x.key = g
  <2>1. PICK x \in Entries(t) : x.key = g
    BY <1>2
  <2>2. Turn(t, g) # {} /\ Get(t, g, EmptyList) = x.item /\ t.slots[FoundAt(t, g)] = x
    BY <2>1, KeyFound
  <2>3. x.item \in Linked /\ PushBack(x.item, e) \in Linked
    BY MapFacts, PushBackLinked
  <2>4. PICK u : u = [t EXCEPT !.slots[FoundAt(t, g)].item = PushBack(x.item, e)]
    OBVIOUS
  <2>5. /\ u \in Maps(K, Linked)
        /\ \A h \in K : \A m : Get(u, h, m) = IF h = g THEN PushBack(x.item, e) ELSE Get(t, h, m)
    BY <2>2, <2>3, <2>4, ReplaceGets
  <2>6. JoinGroup(t, g, e) = u
    BY <2>2, <2>4 DEF JoinGroup
  <2> QED BY <2>2, <2>3, <2>5, <2>6
<1> QED BY <1>1, <1>2

LEMMA LeaveGets ==
  ASSUME NEW K, K \subseteq Keys, NEW t \in Maps(K, Linked), NEW g \in K, NEW e
  PROVE  /\ LeaveGroup(t, g, e) \in Maps(K, Linked)
         /\ Get(t, g, EmptyList) \in Linked
         /\ \A h \in K : Get(LeaveGroup(t, g, e), h, EmptyList)
              = IF h = g THEN Remove(Get(t, g, EmptyList), e) ELSE Get(t, h, EmptyList)
<1>1. CASE \A x \in Entries(t) : x.key # g
  <2>1. Turn(t, g) = {} /\ Get(t, g, EmptyList) = EmptyList
    BY <1>1, KeyMissing
  <2>2. EmptyList \in Linked /\ Remove(EmptyList, e) = EmptyList
    BY EmptyListLinked DEF Remove, Exists, EmptyList
  <2> QED BY <2>1, <2>2 DEF LeaveGroup
<1>2. CASE \E x \in Entries(t) : x.key = g
  <2>1. PICK x \in Entries(t) : x.key = g
    BY <1>2
  <2>2. Turn(t, g) # {} /\ Get(t, g, EmptyList) = x.item /\ t.slots[FoundAt(t, g)] = x
    BY <2>1, KeyFound
  <2>3. x.item \in Linked /\ Remove(x.item, e) \in Linked
    BY MapFacts, RemoveLinked
  <2>4. PICK u : u = [t EXCEPT !.slots[FoundAt(t, g)].item = Remove(x.item, e)]
    OBVIOUS
  <2>5. /\ u \in Maps(K, Linked)
        /\ \A h \in K : \A m : Get(u, h, m) = IF h = g THEN Remove(x.item, e) ELSE Get(t, h, m)
    BY <2>2, <2>3, <2>4, ReplaceGets
  <2>6. LeaveGroup(t, g, e) = u
    BY <2>2, <2>4 DEF LeaveGroup
  <2> QED BY <2>2, <2>3, <2>5, <2>6
<1> QED BY <1>1, <1>2

\* Edits of different keys do not meet: each key of the set gets its value, the
\* others keep theirs.
EditSets(op, A, K, ks, e, t, m, val) ==
  \A b \in A, k \in ks : Get(b, k, m) = Get(t, k, m) =>
    /\ Edit(op, b, k, e) \in A
    /\ \A h \in K : Get(Edit(op, b, k, e), h, m) = IF h = k THEN val[k] ELSE Get(b, h, m)

LEMMA EditsGet ==
  ASSUME NEW K, NEW ks, ks \subseteq K, IsFiniteSet(ks), NEW B, NEW A, A \subseteq B, NEW t \in A,
         NEW op, NEW e, NEW m, NEW val,
         EditsStay(op, B, ks, e), EditSets(op, A, K, ks, e, t, m, val)
  PROVE  /\ EditAll(op, t, ks, e) \in A
         /\ \A h \in K : Get(EditAll(op, t, ks, e), h, m)
              = IF h \in ks THEN val[h] ELSE Get(t, h, m)
<1>1. PICK n \in Nat : n = Cardinality(ks)
  BY KeysInOrder
<1>2. PICK o \in [1 .. n -> ks] :
        /\ o = OrderOf(ks)
        /\ \A k \in ks : \E i \in 1 .. n : o[i] = k
        /\ \A i, j \in 1 .. n : o[i] = o[j] => i = j
  BY <1>1, KeysInOrder
<1>3. PICK f : EditsLoop(f, op, B, t, ks, e)
  <2>1. t \in B
    OBVIOUS
  <2> QED BY <2>1, EditsInTurn
<1>3a. /\ f \in [0 .. n -> B] /\ f[0] = t
       /\ \A p \in 1 .. n : f[p] = Edit(op, f[p - 1], o[p], e)
       /\ EditAll(op, t, ks, e) = f[n]
  BY <1>1, <1>2, <1>3 DEF EditsLoop
<1> DEFINE Taken(p) == {o[i] : i \in 1 .. p}
           S == {p \in 0 .. n : /\ f[p] \in A
                                /\ \A h \in K : Get(f[p], h, m)
                                     = IF h \in Taken(p) THEN val[h] ELSE Get(t, h, m)}
<1>4. 0 \in S
  <2>1. Taken(0) = {} /\ 0 \in 0 .. n
    OBVIOUS
  <2> HIDE DEF Taken
  <2> QED BY <1>3a, <2>1
<1>5. ASSUME NEW k \in 0 .. n - 1, k \in S PROVE k + 1 \in S
  <2>1. PICK p \in 1 .. n : p = k + 1 /\ p - 1 = k /\ p \in 0 .. n
    OBVIOUS
  <2>2. PICK g \in ks : g = o[p]
    BY <1>2
  <2>3. g \notin Taken(k)
    <3>1. \A i \in 1 .. k : i \in 1 .. n /\ i # p
      BY <2>1
    <3>2. \A i \in 1 .. k : o[i] # g
      BY <1>2, <2>2, <3>1
    <3> QED BY <3>2
  <2>4. Taken(p) = Taken(k) \cup {g}
    <3>1. \A i \in 1 .. p : i = p \/ i \in 1 .. k
      BY <2>1
    <3>2. p \in 1 .. p /\ \A i \in 1 .. k : i \in 1 .. p
      BY <2>1
    <3>3. Taken(p) \subseteq Taken(k) \cup {g}
      <4>1. ASSUME NEW i \in 1 .. p PROVE o[i] \in Taken(k) \cup {g}
        BY <2>1, <2>2, <3>1
      <4> QED BY <4>1
    <3>4. Taken(k) \subseteq Taken(p)
      BY <3>2
    <3>5. g \in Taken(p)
      BY <2>2, <3>2
    <3> HIDE DEF Taken
    <3> QED BY <3>3, <3>4, <3>5
  <2> HIDE DEF Taken
  <2>5. PICK b \in A : b = f[k] /\ \A h \in K : Get(b, h, m) = IF h \in Taken(k) THEN val[h] ELSE Get(t, h, m)
    BY <1>5
  <2>6. Get(b, g, m) = Get(t, g, m)
    BY <2>3, <2>5
  <2>7. f[p] = Edit(op, b, g, e)
    BY <1>3a, <2>1, <2>2, <2>5
  <2>8. /\ f[p] \in A
        /\ \A h \in K : Get(f[p], h, m) = IF h = g THEN val[g] ELSE Get(b, h, m)
    BY <2>6, <2>7 DEF EditSets
  <2>9. ASSUME NEW h \in K
        PROVE Get(f[p], h, m) = IF h \in Taken(p) THEN val[h] ELSE Get(t, h, m)
    BY <2>4, <2>5, <2>8
  <2> QED BY <2>1, <2>8, <2>9
<1>6. n \in S
  <2> HIDE DEF S
  <2>1. \A k \in 0 .. n : k \in S
    BY <1>4, <1>5, SetInduction
  <2>2. n \in 0 .. n
    OBVIOUS
  <2> QED BY <2>1, <2>2
<1>7. Taken(n) = ks
  BY <1>2
<1> HIDE DEF Taken
<1> QED BY <1>3a, <1>6, <1>7

\* The four ways in which the world uses them.
Owners == Nat \ {Missing}

TagMaps == Maps(Tags, Owners)

GroupMaps == Maps(GroupNames, Linked)

LEMMA NamesAre ==
  /\ Tags \subseteq Keys /\ IsFiniteSet(Tags) /\ ProbesFor(Tags)
  /\ GroupNames \subseteq Keys /\ IsFiniteSet(GroupNames) /\ ProbesFor(GroupNames)
<1>1. /\ Tags \subseteq Keys /\ GroupNames \subseteq Keys /\ IsFiniteSet(Keys)
      /\ ProbesFor(Tags) /\ ProbesFor(GroupNames)
  BY WorldAssumption
<1>2. IsFiniteSet(Tags) /\ IsFiniteSet(GroupNames)
  BY <1>1, FS_Subset
<1> QED BY <1>1, <1>2

LEMMA TagAll ==
  ASSUME NEW t \in TagMaps, NEW ks, ks \subseteq Tags, NEW e \in Owners,
         \A k \in ks : Get(t, k, Missing) = Missing
  PROVE  LET u == EditAll("tag", t, ks, e)
         IN u \in TagMaps /\ \A h \in Tags : Get(u, h, Missing) = IF h \in ks THEN e ELSE Get(t, h, Missing)
<1>1. PICK B : B = TablesOf(Owners)
  OBVIOUS
<1>2. TagMaps \subseteq B
  BY <1>1 DEF TagMaps, Maps
<1>3. ks \subseteq Keys /\ IsFiniteSet(ks)
  BY NamesAre, FS_Subset
<1>4. EditsStay("tag", B, ks, e)
  BY <1>1, <1>3, AddKeepsTables DEF Edit, EditsStay
<1>5. PICK val : val = [k \in ks |-> e]
  OBVIOUS
<1>6. ASSUME NEW b \in TagMaps, NEW k \in ks, Get(b, k, Missing) = Get(t, k, Missing)
      PROVE  /\ Edit("tag", b, k, e) \in TagMaps
             /\ \A h \in Tags : Get(Edit("tag", b, k, e), h, Missing)
                  = IF h = k THEN val[k] ELSE Get(b, h, Missing)
  <2>1. ASSUME NEW x \in Entries(b), x.key = k PROVE FALSE
    <3>1. Get(b, x.key, Missing) = x.item
      BY NamesAre, KeyFound DEF TagMaps
    <3>2. x.item \in Owners
      BY MapFacts DEF TagMaps
    <3> QED BY <1>6, <2>1, <3>1, <3>2 DEF Owners
  <2>2. PICK u : u = Add(b, k, e)
    OBVIOUS
  <2>3. /\ u \in Maps(Tags, Owners)
        /\ \A h \in Tags : \A m : Get(u, h, m) = IF h = k THEN e ELSE Get(b, h, m)
    BY <2>1, <2>2, NamesAre, AddGets DEF TagMaps
  <2>4. Edit("tag", b, k, e) = u
    BY <2>2 DEF Edit
  <2> QED BY <1>5, <2>3, <2>4 DEF TagMaps
<1>7. PICK u : u = EditAll("tag", t, ks, e)
  OBVIOUS
<1>8. EditSets("tag", TagMaps, Tags, ks, e, t, Missing, val)
  BY <1>6 DEF EditSets
<1>9. /\ EditAll("tag", t, ks, e) \in TagMaps
      /\ \A h \in Tags : Get(EditAll("tag", t, ks, e), h, Missing)
           = IF h \in ks THEN val[h] ELSE Get(t, h, Missing)
  BY <1>2, <1>3, <1>4, <1>8, EditsGet
<1>10. u \in TagMaps /\ \A h \in Tags : Get(u, h, Missing) = IF h \in ks THEN val[h] ELSE Get(t, h, Missing)
  BY <1>7, <1>9
<1> QED BY <1>5, <1>7, <1>10

LEMMA UntagAll ==
  ASSUME NEW t \in TagMaps, NEW ks, ks \subseteq Tags, NEW e
  PROVE  LET u == EditAll("untag", t, ks, e)
         IN u \in TagMaps /\ \A h \in Tags : Get(u, h, Missing) = IF h \in ks THEN Missing ELSE Get(t, h, Missing)
<1>1. IsFiniteSet(ks)
  BY NamesAre, FS_Subset
<1>2. PICK val : val = [k \in ks |-> Missing]
  OBVIOUS
<1>3. ASSUME NEW b \in TagMaps, NEW k \in ks
      PROVE  /\ Edit("untag", b, k, e) \in TagMaps
             /\ \A h \in Tags : Get(Edit("untag", b, k, e), h, Missing)
                  = IF h = k THEN val[k] ELSE Get(b, h, Missing)
  <2>1. PICK u : u = Delete(b, k)
    OBVIOUS
  <2>2. /\ u \in Maps(Tags, Owners)
        /\ \A h \in Tags : \A m : Get(u, h, m) = IF h = k THEN m ELSE Get(b, h, m)
    BY <2>1, NamesAre, DeleteGets DEF TagMaps
  <2>3. Edit("untag", b, k, e) = u
    BY <2>1 DEF Edit
  <2> QED BY <1>2, <2>2, <2>3 DEF TagMaps
<1>4. PICK u : u = EditAll("untag", t, ks, e)
  OBVIOUS
<1>5. EditsStay("untag", TagMaps, ks, e) /\ EditSets("untag", TagMaps, Tags, ks, e, t, Missing, val)
  BY <1>3 DEF EditsStay, EditSets
<1>6. /\ EditAll("untag", t, ks, e) \in TagMaps
      /\ \A h \in Tags : Get(EditAll("untag", t, ks, e), h, Missing)
           = IF h \in ks THEN val[h] ELSE Get(t, h, Missing)
  <2>1. TagMaps \subseteq TagMaps
    OBVIOUS
  <2> QED BY <1>1, <1>5, <2>1, EditsGet
<1>7. /\ u \in TagMaps
      /\ \A h \in Tags : Get(u, h, Missing) = IF h \in ks THEN val[h] ELSE Get(t, h, Missing)
  BY <1>4, <1>6
<1> QED BY <1>2, <1>4, <1>7

LEMMA JoinAll ==
  ASSUME NEW t \in GroupMaps, NEW ks, ks \subseteq GroupNames, NEW e \in Nat
  PROVE  LET u == EditAll("join", t, ks, e)
         IN u \in GroupMaps /\ \A h \in GroupNames : Get(u, h, EmptyList)
              = IF h \in ks THEN PushBack(Get(t, h, EmptyList), e) ELSE Get(t, h, EmptyList)
<1>1. IsFiniteSet(ks)
  BY NamesAre, FS_Subset
<1>2. PICK val : val = [k \in ks |-> PushBack(Get(t, k, EmptyList), e)]
  OBVIOUS
<1>3. ASSUME NEW b \in GroupMaps, NEW k \in ks
      PROVE  /\ Edit("join", b, k, e) \in GroupMaps
             /\ Get(b, k, EmptyList) = Get(t, k, EmptyList) =>
                \A h \in GroupNames : Get(Edit("join", b, k, e), h, EmptyList)
                  = IF h = k THEN val[k] ELSE Get(b, h, EmptyList)
  <2>1. PICK u : u = JoinGroup(b, k, e)
    OBVIOUS
  <2>2. /\ u \in Maps(GroupNames, Linked)
        /\ \A h \in GroupNames : Get(u, h, EmptyList)
             = IF h = k THEN PushBack(Get(b, k, EmptyList), e) ELSE Get(b, h, EmptyList)
    BY <2>1, NamesAre, JoinGets DEF GroupMaps
  <2>3. Edit("join", b, k, e) = u
    BY <2>1 DEF Edit
  <2> QED BY <1>2, <2>2, <2>3 DEF GroupMaps
<1>4. PICK u : u = EditAll("join", t, ks, e)
  OBVIOUS
<1>5. EditsStay("join", GroupMaps, ks, e) /\ EditSets("join", GroupMaps, GroupNames, ks, e, t, EmptyList, val)
  BY <1>3 DEF EditsStay, EditSets
<1>6. /\ EditAll("join", t, ks, e) \in GroupMaps
      /\ \A h \in GroupNames : Get(EditAll("join", t, ks, e), h, EmptyList)
           = IF h \in ks THEN val[h] ELSE Get(t, h, EmptyList)
  <2>1. GroupMaps \subseteq GroupMaps
    OBVIOUS
  <2> QED BY <1>1, <1>5, <2>1, EditsGet
<1>7. /\ u \in GroupMaps
      /\ \A h \in GroupNames : Get(u, h, EmptyList) = IF h \in ks THEN val[h] ELSE Get(t, h, EmptyList)
  BY <1>4, <1>6
<1> QED BY <1>2, <1>4, <1>7

LEMMA LeaveAll ==
  ASSUME NEW t \in GroupMaps, NEW ks, ks \subseteq GroupNames, NEW e
  PROVE  LET u == EditAll("leave", t, ks, e)
         IN u \in GroupMaps /\ \A h \in GroupNames : Get(u, h, EmptyList)
              = IF h \in ks THEN Remove(Get(t, h, EmptyList), e) ELSE Get(t, h, EmptyList)
<1>1. IsFiniteSet(ks)
  BY NamesAre, FS_Subset
<1>2. PICK val : val = [k \in ks |-> Remove(Get(t, k, EmptyList), e)]
  OBVIOUS
<1>3. ASSUME NEW b \in GroupMaps, NEW k \in ks
      PROVE  /\ Edit("leave", b, k, e) \in GroupMaps
             /\ Get(b, k, EmptyList) = Get(t, k, EmptyList) =>
                \A h \in GroupNames : Get(Edit("leave", b, k, e), h, EmptyList)
                  = IF h = k THEN val[k] ELSE Get(b, h, EmptyList)
  <2>1. PICK u : u = LeaveGroup(b, k, e)
    OBVIOUS
  <2>2. /\ u \in Maps(GroupNames, Linked)
        /\ \A h \in GroupNames : Get(u, h, EmptyList)
             = IF h = k THEN Remove(Get(b, k, EmptyList), e) ELSE Get(b, h, EmptyList)
    BY <2>1, NamesAre, LeaveGets DEF GroupMaps
  <2>3. Edit("leave", b, k, e) = u
    BY <2>1 DEF Edit
  <2> QED BY <1>2, <2>2, <2>3 DEF GroupMaps
<1>4. PICK u : u = EditAll("leave", t, ks, e)
  OBVIOUS
<1>5. EditsStay("leave", GroupMaps, ks, e) /\ EditSets("leave", GroupMaps, GroupNames, ks, e, t, EmptyList, val)
  BY <1>3 DEF EditsStay, EditSets
<1>6. /\ EditAll("leave", t, ks, e) \in GroupMaps
      /\ \A h \in GroupNames : Get(EditAll("leave", t, ks, e), h, EmptyList)
           = IF h \in ks THEN val[h] ELSE Get(t, h, EmptyList)
  <2>1. GroupMaps \subseteq GroupMaps
    OBVIOUS
  <2> QED BY <1>1, <1>5, <2>1, EditsGet
<1>7. /\ u \in GroupMaps
      /\ \A h \in GroupNames : Get(u, h, EmptyList) = IF h \in ks THEN val[h] ELSE Get(t, h, EmptyList)
  BY <1>4, <1>6
<1> QED BY <1>2, <1>4, <1>7

LEMMA EmptyMaps == EmptyTable \in TagMaps /\ EmptyTable \in GroupMaps
                   /\ (\A k \in Keys : Get(EmptyTable, k, Missing) = Missing)
                   /\ (\A k \in Keys : Get(EmptyTable, k, EmptyList) = EmptyList)
<1>1. /\ EmptyTable \in Maps(Tags, Owners) /\ EmptyTable \in Maps(GroupNames, Linked)
      /\ Entries(EmptyTable) = {}
  BY EmptyTableIsMap
<1>2. \A k \in Keys : \A m : Get(EmptyTable, k, m) = m
  BY <1>1, KeyMissing
<1> QED BY <1>1, <1>2 DEF TagMaps, GroupMaps

LEMMA MapItems ==
  /\ \A t \in TagMaps, k \in Tags : Get(t, k, Missing) \in Nat
  /\ \A t \in GroupMaps, k \in GroupNames : Get(t, k, EmptyList) \in Linked
<1>1. ASSUME NEW t \in TagMaps, NEW k \in Tags PROVE Get(t, k, Missing) \in Nat
  <2>1. CASE \A x \in Entries(t) : x.key # k
    <3>1. Get(t, k, Missing) = Missing
      BY <2>1, NamesAre, KeyMissing DEF TagMaps
    <3> QED BY <3>1 DEF Missing
  <2>2. CASE \E x \in Entries(t) : x.key = k
    <3>1. PICK x \in Entries(t) : x.key = k
      BY <2>2
    <3>2. Get(t, x.key, Missing) = x.item
      BY NamesAre, KeyFound DEF TagMaps
    <3>3. x.item \in Owners
      BY MapFacts DEF TagMaps
    <3> QED BY <3>1, <3>2, <3>3 DEF Owners
  <2> QED BY <2>1, <2>2
<1>2. ASSUME NEW t \in GroupMaps, NEW k \in GroupNames PROVE Get(t, k, EmptyList) \in Linked
  BY NamesAre, LeaveGets DEF GroupMaps
<1> QED BY <1>1, <1>2

-----------------------------------------------------------------------------
(* Names stand for entities in memory.                                     *)

Unmarked == {e \in DOMAIN entity : ~ Marked(e)}

\* The tables hold each key once, where a search finds it, and name entities that
\* nobody marked: an entity is marked only when it has lost its tags and groups.
NamesInv ==
  /\ tags \in TagMaps /\ groups \in GroupMaps
  /\ \A t \in Tags : Get(tags, t, Missing) \in Unmarked \cup {Missing}
  /\ \A g \in GroupNames : Held(Group(g)) \subseteq Unmarked /\ HeldOnce(Group(g))

LEMMA NamesSame ==
  ASSUME NamesInv, UNCHANGED <<tags, groups>>, Unmarked \subseteq Unmarked'
  PROVE  NamesInv'
<1>1. tags' = tags /\ groups' = groups /\ \A g : Group(g)' = Group(g)
  BY DEF Group
<1>2. \A t \in Tags : Get(tags', t, Missing) \in Unmarked' \cup {Missing}
  BY <1>1 DEF NamesInv
<1>3. \A g \in GroupNames : Held(Group(g)') \subseteq Unmarked' /\ HeldOnce(Group(g)')
  BY <1>1 DEF NamesInv
<1> QED BY <1>1, <1>2, <1>3 DEF NamesInv

LEMMA NamesEmpty ==
  ASSUME tags = EmptyTable, groups = EmptyTable
  PROVE  NamesInv
<1>1. \A t \in Tags : Get(tags, t, Missing) = Missing
  BY EmptyMaps, NamesAre
<1>2. \A g \in GroupNames : Group(g) = EmptyList
  BY EmptyMaps, NamesAre DEF Group
<1>3. Held(EmptyList) = {} /\ HeldOnce(EmptyList)
  BY DEF Held, HeldOnce, EmptyList
<1> QED BY <1>1, <1>2, <1>3, EmptyMaps DEF NamesInv

LEMMA NamesEmptied ==
  ASSUME tags' = EmptyTable, groups' = EmptyTable
  PROVE  NamesInv'
<1>1. \A t \in Tags : Get(tags', t, Missing) = Missing
  BY EmptyMaps, NamesAre
<1>2. \A g \in GroupNames : Group(g)' = EmptyList
  BY EmptyMaps, NamesAre DEF Group
<1>3. Held(EmptyList) = {} /\ HeldOnce(EmptyList)
  BY DEF Held, HeldOnce, EmptyList
<1>4. \A g \in GroupNames : Held(Group(g)') = {} /\ HeldOnce(Group(g)')
  BY <1>2, <1>3
<1> QED BY <1>1, <1>4, EmptyMaps DEF NamesInv

\* The groups of NamesInv are lists.
LEMMA GroupsAre ==
  ASSUME NamesInv, NEW g \in GroupNames
  PROVE  Group(g) \in Linked /\ (\A e : Exists(Group(g), e) <=> e \in Held(Group(g)))
<1>1. Group(g) \in Linked
  BY MapItems DEF NamesInv, Group
<1> QED BY <1>1 DEF Exists, Held

\* A new entity takes free tags and joins groups.
LEMMA CreateNames ==
  ASSUME ListInv, EntityInv, NamesInv, NEW k \in Kinds, Create(k)
  PROVE  /\ NamesInv'
         /\ \A t \in Tags : Get(tags', t, Missing)
              = IF t \in k.tags THEN made + 1 ELSE Get(tags, t, Missing)
         /\ \A g \in GroupNames : Group(g)' = IF g \in k.groups THEN PushBack(Group(g), made + 1)
                                              ELSE Group(g)
<1>1. PICK e \in Owners : e = made + 1 /\ e \in Nat
  BY DEF ListInv, Owners, Missing
<1>2. k.tags \subseteq Tags /\ k.groups \subseteq GroupNames
  BY WorldAssumption
<1>3. /\ tags' = EditAll("tag", tags, k.tags, e) /\ groups' = EditAll("join", groups, k.groups, e)
      /\ \A t \in k.tags : Get(tags, t, Missing) = Missing
  BY <1>1 DEF Create
<1>4. tags' \in TagMaps /\ \A t \in Tags : Get(tags', t, Missing)
              = IF t \in k.tags THEN e ELSE Get(tags, t, Missing)
  BY <1>1, <1>2, <1>3, TagAll DEF NamesInv
<1>5. groups' \in GroupMaps /\ \A g \in GroupNames : Get(groups', g, EmptyList)
              = IF g \in k.groups THEN PushBack(Get(groups, g, EmptyList), e) ELSE Get(groups, g, EmptyList)
  <2>1. groups \in GroupMaps /\ e \in Nat
    BY DEF NamesInv, Owners
  <2>2. PICK ks : ks = k.groups /\ ks \subseteq GroupNames
    BY <1>2
  <2>3. groups' = EditAll("join", groups, ks, e)
    BY <1>3, <2>2
  <2>4. groups' \in GroupMaps /\ \A g \in GroupNames : Get(groups', g, EmptyList)
              = IF g \in ks THEN PushBack(Get(groups, g, EmptyList), e) ELSE Get(groups, g, EmptyList)
    BY <2>1, <2>2, <2>3, JoinAll
  <2> QED BY <2>2, <2>4
<1>6. \A g \in GroupNames : Group(g)' = IF g \in k.groups THEN PushBack(Group(g), e) ELSE Group(g)
  BY <1>5 DEF Group
<1>7. Unmarked \cup {e} \subseteq Unmarked'
  <2>1. /\ DOMAIN entity' = DOMAIN entity \cup {e}
        /\ \A f \in DOMAIN entity : entity'[f] = entity[f]
    BY <1>1, CreateEntities
  <2>2. entity'[e].marked = FALSE
    <3>1. entity' = [f \in DOMAIN entity \cup {e} |-> IF f = e THEN NewEntity(k) ELSE entity[f]]
      BY <1>1 DEF Create
    <3>2. NewEntity(k).marked = FALSE
      BY NewEntityFacts DEF EntityInv
    <3> QED BY <3>1, <3>2
  <2> QED BY <2>1, <2>2 DEF Unmarked, Marked
<1>8. \A t \in Tags : Get(tags', t, Missing) \in Unmarked' \cup {Missing}
  BY <1>4, <1>7 DEF NamesInv
<1>9. ASSUME NEW g \in GroupNames
      PROVE  Held(Group(g)') \subseteq Unmarked' /\ HeldOnce(Group(g)')
  <2>1. /\ Held(PushBack(Group(g), e)) = Held(Group(g)) \cup {e}
        /\ HeldOnce(Group(g)) /\ e \notin Held(Group(g)) => HeldOnce(PushBack(Group(g), e))
    BY <1>1, GroupsAre, PushBackHolds
  <2>2. Held(Group(g)) \subseteq Unmarked /\ HeldOnce(Group(g))
    BY DEF NamesInv
  <2>3. e \notin Unmarked
    BY <1>1 DEF Unmarked, EntityInv, ListInv
  <2> QED BY <1>6, <1>7, <2>1, <2>2, <2>3
<1> QED BY <1>1, <1>4, <1>5, <1>6, <1>8, <1>9 DEF NamesInv

\* An entity that retires loses its tags and its groups.
LEMMA RetireNames ==
  ASSUME EntityInv, NamesInv, NEW e \in DOMAIN entity, NEW stays \in BOOLEAN, Retire(e, stays)
  PROVE  /\ NamesInv' /\ Unmarked' = Unmarked
         /\ \A t \in Tags : Get(tags', t, Missing)
              = IF Get(tags, t, Missing) = e THEN Missing ELSE Get(tags, t, Missing)
         /\ \A g \in GroupNames : Group(g)' = Remove(Group(g), e)
<1>1. /\ tags' = EditAll("untag", tags, TagsOf(e), e)
      /\ groups' = EditAll("leave", groups, GroupsOf(e), e)
  BY DEF Retire
<1>2. TagsOf(e) \subseteq Tags /\ GroupsOf(e) \subseteq GroupNames
  BY DEF TagsOf, GroupsOf
<1>3. tags' \in TagMaps /\ \A t \in Tags : Get(tags', t, Missing)
              = IF t \in TagsOf(e) THEN Missing ELSE Get(tags, t, Missing)
  BY <1>1, <1>2, UntagAll DEF NamesInv
<1>4. groups' \in GroupMaps /\ \A g \in GroupNames : Get(groups', g, EmptyList)
              = IF g \in GroupsOf(e) THEN Remove(Get(groups, g, EmptyList), e) ELSE Get(groups, g, EmptyList)
  BY <1>1, <1>2, LeaveAll DEF NamesInv
<1>5. ASSUME NEW g \in GroupNames PROVE Group(g)' = Remove(Group(g), e)
  <2>1. g \notin GroupsOf(e) => Remove(Group(g), e) = Group(g)
    BY DEF GroupsOf, Remove
  <2> QED BY <1>4, <2>1 DEF Group
<1>6. \A t \in Tags : Get(tags', t, Missing)
              = IF Get(tags, t, Missing) = e THEN Missing ELSE Get(tags, t, Missing)
  BY <1>3 DEF TagsOf
<1>7. Unmarked' = Unmarked
  <2>1. PICK r : entity' = [entity EXCEPT ![e] = r] /\ r.marked = entity[e].marked
    <3>1. entity[e] \in Bodies /\ Lifetime \in 0 .. MaxComponents - 1
      BY WorldAssumption DEF EntityInv
    <3>2. AddComponent(entity[e], Lifetime).marked = entity[e].marked
      BY <3>1, AddComponentFacts
    <3>3. entity = [entity EXCEPT ![e] = entity[e]]
      BY DEF EntityInv
    <3> QED BY <3>2, <3>3 DEF Retire
  <2>2. DOMAIN entity' = DOMAIN entity /\ \A f \in DOMAIN entity : entity'[f].marked = entity[f].marked
    BY <2>1
  <2> QED BY <2>2 DEF Unmarked, Marked
<1>8. \A t \in Tags : Get(tags', t, Missing) \in Unmarked' \cup {Missing}
  BY <1>6, <1>7 DEF NamesInv
<1>9. ASSUME NEW g \in GroupNames
      PROVE  Held(Group(g)') \subseteq Unmarked' /\ HeldOnce(Group(g)')
  <2>1. /\ Held(Remove(Group(g), e)) \subseteq Held(Group(g))
        /\ HeldOnce(Group(g)) => HeldOnce(Remove(Group(g), e))
    BY GroupsAre, RemoveHolds
  <2>2. Held(Group(g)) \subseteq Unmarked /\ HeldOnce(Group(g))
    BY DEF NamesInv
  <2> QED BY <1>5, <1>7, <2>1, <2>2
<1> QED BY <1>3, <1>4, <1>5, <1>6, <1>7, <1>8, <1>9 DEF NamesInv

\* Only an entity without tags and groups is marked.
LEMMA MarkNames ==
  ASSUME EntityInv, NamesInv, NEW e \in DOMAIN entity, Mark(e)
  PROVE  /\ NamesInv' /\ Unmarked' = Unmarked \ {e}
         /\ \A t \in Tags : Get(tags, t, Missing) # e
         /\ \A g \in GroupNames : e \notin Held(Group(g))
<1>1. UNCHANGED <<tags, groups>> /\ \A g : Group(g)' = Group(g)
  BY DEF Mark, Group
<1>2. TagsOf(e) = {} /\ GroupsOf(e) = {}
  BY DEF Mark
<1>3. \A t \in Tags : Get(tags, t, Missing) # e
  BY <1>2 DEF TagsOf
<1>4. \A g \in GroupNames : e \notin Held(Group(g))
  BY <1>2, GroupsAre DEF GroupsOf
<1>5. Unmarked' = Unmarked \ {e}
  <2>1. PICK r : entity' = [entity EXCEPT ![e] = r] /\ r.marked = TRUE
    <3>1. entity[e] \in Bodies
      BY DEF EntityInv
    <3>2. [entity[e] EXCEPT !.marked = TRUE].marked = TRUE
      BY <3>1 DEF Bodies
    <3>3. entity' = [entity EXCEPT ![e] = [entity[e] EXCEPT !.marked = TRUE]]
      BY DEF Mark
    <3> QED BY <3>2, <3>3
  <2>2. /\ DOMAIN entity' = DOMAIN entity /\ entity'[e].marked = TRUE
        /\ \A f \in DOMAIN entity \ {e} : entity'[f] = entity[f]
    BY <2>1
  <2> QED BY <2>2 DEF Unmarked, Marked
<1>6. \A t \in Tags : Get(tags', t, Missing) \in Unmarked' \cup {Missing}
  BY <1>1, <1>3, <1>5 DEF NamesInv
<1>7. \A g \in GroupNames : Held(Group(g)') \subseteq Unmarked' /\ HeldOnce(Group(g)')
  BY <1>1, <1>4, <1>5 DEF NamesInv
<1> QED BY <1>1, <1>3, <1>4, <1>5, <1>6, <1>7 DEF NamesInv

\* The armor comes and goes: no one is marked or loses its mark.
LEMMA BlinkNames ==
  ASSUME EntityInv, VisitInv, NamesInv, (\E e \in DOMAIN entity : Equip(e)) \/ Unequip
  PROVE  NamesInv' /\ Unmarked' = Unmarked /\ UNCHANGED <<tags, groups, entities, bus, stage>>
<1>0. Blink \in 0 .. MaxComponents - 1
  BY WorldAssumption
<1>1. \E e \in DOMAIN entity : \E r :
        entity' = [entity EXCEPT ![e] = r] /\ r.marked = entity[e].marked
  <2>1. ASSUME NEW f \in DOMAIN entity, Equip(f)
        PROVE  \E r : entity' = [entity EXCEPT ![f] = r] /\ r.marked = entity[f].marked
    <3>1. AddComponent(entity[f], Blink).marked = entity[f].marked
      BY <1>0, AddComponentFacts DEF EntityInv
    <3> QED BY <2>1, <3>1 DEF Equip
  <2>2. CASE Unequip
    <3>1. PICK f : f = Head(todo) /\ todo # <<>>
      BY <2>2 DEF Unequip
    <3>2. f \in DOMAIN entity
      BY <3>1, TailFacts DEF VisitInv
    <3>3. RemoveComponent(entity[f], Blink).marked = entity[f].marked
      BY <1>0, <3>2, RemoveComponentFacts DEF EntityInv
    <3> QED BY <2>2, <3>1, <3>2, <3>3 DEF Unequip
  <2> QED BY <2>1, <2>2
<1>2. UNCHANGED <<tags, groups, entities, bus, stage>>
  BY DEF Equip, Unequip, eventVars
<1>3. DOMAIN entity' = DOMAIN entity /\ \A f \in DOMAIN entity : entity'[f].marked = entity[f].marked
  <2>1. PICK e \in DOMAIN entity : \E r :
          entity' = [entity EXCEPT ![e] = r] /\ r.marked = entity[e].marked
    BY <1>1
  <2>2. PICK r : entity' = [entity EXCEPT ![e] = r] /\ r.marked = entity[e].marked
    BY <2>1
  <2> QED BY <2>2
<1>4. Unmarked' = Unmarked
  BY <1>3 DEF Unmarked, Marked
<1> QED BY <1>2, <1>4, NamesSame

\* The sweep takes a marked entity, which has no name.
LEMMA SweepNames ==
  ASSUME ListInv, EntityInv, WalkInv, NamesInv, SweepStep
  PROVE  NamesInv' /\ Unmarked' = Unmarked /\ UNCHANGED <<tags, groups, bus, stage>>
<1>1. PICK e : e = entities.nodes[node].data
  OBVIOUS
<1>2. /\ \A f \in DOMAIN entity' : f \in DOMAIN entity /\ entity'[f] = entity[f]
      /\ DOMAIN entity' = IF Marked(e) THEN DOMAIN entity \ {e} ELSE DOMAIN entity
  BY <1>1, SweepEntities
<1>3. Unmarked' = Unmarked
  BY <1>2 DEF Unmarked, Marked
<1>4. UNCHANGED <<tags, groups, bus, stage>>
  BY DEF SweepStep, eventVars
<1> QED BY <1>3, <1>4, NamesSame

LEMMA WorldNames ==
  ASSUME MemoryInv, NamesInv, [WorldNext]_worldVars
  PROVE  NamesInv'
<1> DEFINE Same == UNCHANGED <<entity, tags, groups>>
<1>1. Same => NamesInv'
  <2> SUFFICES ASSUME Same PROVE NamesInv'
    OBVIOUS
  <2>1. Unmarked' = Unmarked
    BY DEF Unmarked, Marked
  <2> QED BY <2>1, NamesSame
<1>2. CASE CreateWorld \/ DestroyWorld
  BY <1>2, NamesEmptied DEF CreateWorld, DestroyWorld
<1>3. CASE GameCode
  <2>1. ASSUME NEW k \in Kinds, Create(k) PROVE NamesInv'
    BY <2>1, CreateNames DEF MemoryInv
  <2>2. ASSUME NEW e \in DOMAIN entity, NEW stays \in BOOLEAN, Retire(e, stays) PROVE NamesInv'
    BY <2>2, RetireNames DEF MemoryInv
  <2>3. ASSUME NEW e \in DOMAIN entity, Mark(e) PROVE NamesInv'
    BY <2>3, MarkNames DEF MemoryInv
  <2>4. CASE (\E e \in DOMAIN entity : Equip(e)) \/ Unequip
    BY <2>4, BlinkNames DEF MemoryInv
  <2>5. ASSUME NEW t \in EventTypes, PushEvent(t) PROVE Same
    BY <2>5 DEF PushEvent, entityVars
  <2> HIDE DEF Same
  <2> QED BY <1>1, <1>3, <2>1, <2>2, <2>3, <2>4, <2>5 DEF GameCode
<1>4. CASE RegisterSystem
  <2>1. Same BY <1>4 DEF RegisterSystem, entityVars
  <2> QED BY <1>1, <2>1
<1>5. CASE Update
  <2>1. CASE BeginUpdate \/ LeaveSystem \/ HandleEvent \/ EndHandler
    <3>1. Same BY <2>1 DEF BeginUpdate, LeaveSystem, HandleEvent, EndHandler, AtSystem, entityVars
    <3> QED BY <1>1, <3>1
  <2>2. CASE BeginEntitySystem \/ EndVisit \/ EndEntitySystem
    <3>1. Same BY <2>2 DEF BeginEntitySystem, EndVisit, EndEntitySystem, AtSystem, entityVars
    <3> QED BY <1>1, <3>1
  <2>3. CASE TestEntity \/ EndCollisions \/ CallHook \/ EndHook \/ EndHooks
    <3>1. Same BY <2>3 DEF TestEntity, EndCollisions, CallHook, EndHook, EndHooks, entityVars
    <3> QED BY <1>1, <3>1
  <2>4. CASE BeginSweep \/ EndSweep
    <3>1. Same BY <2>4 DEF BeginSweep, EndSweep, entityVars
    <3> QED BY <1>1, <3>1
  <2>5. CASE SweepStep
    BY <2>5, SweepNames DEF MemoryInv
  <2> HIDE DEF Same
  <2> QED BY <1>5, <2>1, <2>2, <2>3, <2>4, <2>5 DEF Update
<1>6. CASE UNCHANGED worldVars
  <2>1. Same BY <1>6 DEF worldVars, entityVars
  <2> QED BY <1>1, <2>1
<1> HIDE DEF Same
<1> QED BY <1>2, <1>3, <1>4, <1>5, <1>6 DEF WorldNext

WorldInv == MemoryInv /\ NamesInv

LEMMA WorldInvSteps ==
  /\ WorldInit => WorldInv
  /\ WorldInv /\ [WorldNext]_worldVars => WorldInv'
<1>1. WorldInit => NamesInv
  BY NamesEmpty DEF WorldInit
<1> QED BY <1>1, WorldStarts, WorldSteps, WorldNames DEF WorldInv

\* Every reachable world satisfies the invariant: what it has in memory, and that its
\* tags and groups, in tables of any size that grow as they fill, name entities that
\* are in memory and unmarked (entity_tag_manager.c, entity_group_manager.c).
THEOREM WorldNaming == WorldSpec => []WorldInv
  BY WorldInvSteps, PTL DEF WorldSpec

LEMMA InvListsAreLinked == WorldInv => ListsAreLinked
<1> SUFFICES ASSUME WorldInv PROVE ListsAreLinked
  OBVIOUS
<1>1. WellLinked(entities) /\ WellLinked(systems)
  BY LinkedIsWellLinked DEF WorldInv, MemoryInv, ListInv
<1>2. \A g \in GroupNames : WellLinked(Group(g))
  BY GroupsAre, LinkedIsWellLinked DEF WorldInv
<1>3. ASSUME stage # "none", NEW t \in EventTypes PROVE WellLinked(BagGetAt(bus, t))
  <2>1. bus \in Buses
    BY <1>3 DEF WorldInv, MemoryInv, ListInv
  <2>2. BagGetAt(bus, t) \in Linked
    BY <2>1 DEF Buses, BagGetAt
  <2> QED BY <2>2, LinkedIsWellLinked
<1> QED BY <1>1, <1>2, <1>3 DEF ListsAreLinked

\* The lists of entities and systems, of every channel and of every group stay
\* linked both ways, whatever is pushed and removed while they are walked, for every
\* number of entities, events, systems and groups (list.c, remove_node_from_list).
THEOREM WorldKeepsListsLinked == WorldSpec => []ListsAreLinked
  BY WorldNaming, InvListsAreLinked, PTL

\* What the walks and the collisions refer to.
LEMMA InvNoDanglingPointers == WorldInv => NoDanglingPointers
<1> SUFFICES ASSUME WorldInv PROVE NoDanglingPointers
  OBVIOUS
<1> USE DEF WorldInv, MemoryInv
<1>1. /\ Range(Items(entities)) = DOMAIN entity
      /\ entities.count = Cardinality(DOMAIN entity)
  BY ItemsHeld DEF ListInv, EntityInv
<1>2. Range(todo) \cup Range(present) \subseteq DOMAIN entity
  <2>1. Range(todo) \subseteq DOMAIN entity /\ Range(present) \subseteq Colliders
    BY SeqFacts DEF VisitInv
  <2> QED BY <2>1 DEF Colliders
<1>3. \A t \in Tags : Get(tags, t, Missing) \in DOMAIN entity \cup {Missing}
  BY DEF NamesInv, Unmarked
<1>4. ASSUME NEW g \in GroupNames PROVE Range(Items(Group(g))) \subseteq DOMAIN entity
  <2>1. Range(Items(Group(g))) = Held(Group(g))
    BY GroupsAre, ItemsHeld
  <2> QED BY <2>1 DEF NamesInv, Unmarked
<1>5. ASSUME previous # NoContacts,
             NEW c \in Range(previous) \cup {hooks[i].contact : i \in DOMAIN hooks}
      PROVE  {c[1], c[2]} \subseteq DOMAIN entity
  <2>1. Range(previous) \subseteq Contacts
    BY <1>5, SeqFacts DEF ContactInv
  <2>2. \A i \in DOMAIN hooks : hooks[i].contact \in Contacts
    <3>1. PICK H : H = [hook : {"enter", "exit"}, contact : Contacts] /\ hooks \in Seq(H)
      BY DEF HookInv
    <3>2. DOMAIN hooks = 1 .. Len(hooks) /\ hooks \in [1 .. Len(hooks) -> H]
      BY <3>1, SeqFacts
    <3>3. \A i \in DOMAIN hooks : hooks[i] \in H
      BY <3>2
    <3> QED BY <3>1, <3>3
  <2>3. c \in Contacts
    BY <1>5, <2>1, <2>2
  <2>4. c[1] \in Colliders /\ c[2] \in Colliders
    BY <2>3 DEF Contacts
  <2> QED BY <2>4 DEF Colliders
<1>6. stage = "sweep" => node \in DOMAIN entities.nodes \cup {NULL}
  BY DEF WalkInv
<1>7. ASSUME stage = "visit", todo # <<>>,
             NEW e \in Range(Tail(todo)), NEW c \in Current.family.all
      PROVE  BagGetAt(entity[e].components, c) # NoItem
  <2>1. c \in entity[e].mask
    BY <1>7 DEF VisitInv
  <2>2. e \in DOMAIN entity
    BY <1>7, TailFacts, SeqFacts DEF VisitInv
  <2>3. entity[e] \in Bodies
    BY <2>2 DEF EntityInv
  <2> QED BY <2>1, <2>3 DEF Bodies, BagGetAt
<1> QED BY <1>1, <1>2, <1>3, <1>4, <1>5, <1>6, <1>7 DEF NoDanglingPointers

\* No list, table, walk or contact refers to an entity that was freed, whatever the game
\* creates, marks, tags and destroys in the visits, handlers and hooks of an update, for
\* every number of entities, systems, tags and groups (world.c,
\* world_destroy_marked_for_deletion_entities; collision_entity_system.c,
\* collision_entity_on_entity_destroyed).
THEOREM WorldKeepsPointers == WorldSpec => []NoDanglingPointers
  BY WorldNaming, InvNoDanglingPointers, PTL

-----------------------------------------------------------------------------
(* The world implements the plain store.                                   *)

BoundsInv == bounds \in Bounds /\ made <= bounds.entities

LEMMA BoundsAre ==
  ASSUME MemoryInv, BoundsInv
  PROVE  /\ bounds.entities \in Nat /\ bounds.events \in Nat
         /\ 1 .. bounds.entities \subseteq UNION {1 .. b.entities : b \in Bounds}
         /\ 1 .. bounds.events \subseteq UNION {1 .. b.events : b \in Bounds}
         /\ DOMAIN entity \subseteq UNION {1 .. b.entities : b \in Bounds}
<1>1. bounds \in Bounds /\ bounds.entities \in Nat /\ bounds.events \in Nat
  BY WorldAssumption DEF BoundsInv
<1>2. /\ 1 .. bounds.entities \subseteq UNION {1 .. b.entities : b \in Bounds}
      /\ 1 .. bounds.events \subseteq UNION {1 .. b.events : b \in Bounds}
  BY <1>1
<1>3. DOMAIN entity \subseteq 1 .. bounds.entities
  BY <1>1 DEF MemoryInv, EntityInv, ListInv, BoundsInv
<1> QED BY <1>1, <1>2, <1>3

LEMMA WorldBounds ==
  ASSUME MemoryInv, BoundsInv, [WorldNext]_worldVars
  PROVE  BoundsInv'
<1> DEFINE Same == made' = made
<1>1. bounds' = bounds
  BY DEF WorldNext, worldVars
<1>2. Same => BoundsInv'
  BY <1>1 DEF BoundsInv
<1>3. CASE CreateWorld \/ DestroyWorld \/ RegisterSystem \/ UNCHANGED worldVars
  <2>1. Same
    BY <1>3 DEF CreateWorld, DestroyWorld, RegisterSystem, worldVars, entityVars
  <2> QED BY <1>2, <2>1
<1>4. CASE GameCode
  <2>1. ASSUME NEW k \in Kinds, Create(k) PROVE BoundsInv'
    <3>1. made < bounds.entities /\ made' = made + 1 /\ made \in Nat /\ bounds.entities \in Nat
      BY <2>1, BoundsAre DEF Create, MemoryInv, ListInv
    <3> QED BY <1>1, <3>1 DEF BoundsInv
  <2>2. (\E k \in Kinds : Create(k)) \/ Same
    BY <1>4 DEF GameCode, Retire, Mark, Equip, Unequip, PushEvent, entityVars
  <2> HIDE DEF Same
  <2> QED BY <1>2, <2>1, <2>2
<1>5. CASE Update
  <2>1. Same
    BY <1>5 DEF Update, BeginUpdate, LeaveSystem, HandleEvent, EndHandler, AtSystem,
       BeginEntitySystem, EndVisit, EndEntitySystem, TestEntity, EndCollisions, CallHook, EndHook,
       EndHooks, BeginSweep, EndSweep, SweepStep, entityVars
  <2> QED BY <1>2, <2>1
<1> HIDE DEF Same
<1> QED BY <1>3, <1>4, <1>5 DEF WorldNext

\* The events that wait in a channel.
Waiting(t) == IF stage = "none" THEN <<>> ELSE Items(BagGetAt(bus, t))

Doomed == {e \in DOMAIN entity : Marked(e)}

LEMMA DropIs == \A s, e : Abstract!Drop(s, e) = Kept(s, Range(s) \ {e})
  BY DEF Abstract!Drop, Abstract!Kept, Kept, Range

LEMMA CreateImplements ==
  ASSUME MemoryInv, NamesInv, BoundsInv, NEW k \in Kinds, Create(k)
  PROVE  Abstract!StoreNext
<1>1. PICK e \in Nat : e = made + 1
  BY DEF MemoryInv, ListInv
<1>2. e \in UNION {1 .. b.entities : b \in Bounds}
  <2>1. e \in 1 .. bounds.entities
    <3>1. made < bounds.entities /\ made \in Nat /\ bounds.entities \in Nat
      BY BoundsAre DEF Create, MemoryInv, ListInv
    <3> QED BY <1>1, <3>1
  <2> QED BY <2>1, BoundsAre
<1>3. Items(entities)' = Append(Items(entities), e)
  <2>1. entities' = PushBack(entities, e) /\ entities \in Linked
    BY <1>1 DEF Create, MemoryInv, ListInv
  <2> QED BY <2>1, PushBackAppends
<1>4. /\ DOMAIN entity' = DOMAIN entity \cup {e} /\ e \notin DOMAIN entity
      /\ \A f \in DOMAIN entity : entity'[f] = entity[f]
  BY <1>1, CreateEntities DEF MemoryInv
<1>5. ~ Abstract!InStore(e)
  <2>1. Range(Items(entities)) = DOMAIN entity
    BY ItemsHeld DEF MemoryInv, ListInv, EntityInv
  <2> QED BY <1>4, <2>1 DEF Abstract!InStore, Range
<1>6. /\ \A t \in Tags : Get(tags', t, Missing) = IF t \in k.tags THEN e ELSE Get(tags, t, Missing)
      /\ \A g \in GroupNames : Group(g)' = IF g \in k.groups THEN PushBack(Group(g), e) ELSE Group(g)
  BY <1>1, CreateNames DEF MemoryInv
<1>7. \A g \in GroupNames : Items(Group(g))'
        = IF g \in k.groups THEN Append(Items(Group(g)), e) ELSE Items(Group(g))
  BY <1>1, <1>6, GroupsAre, PushBackAppends
<1>8. Doomed' = Doomed
  <2>1. entity'[e].marked = FALSE
    <3>1. entity' = [f \in DOMAIN entity \cup {e} |-> IF f = e THEN NewEntity(k) ELSE entity[f]]
      BY <1>1 DEF Create
    <3>2. NewEntity(k).marked = FALSE
      BY NewEntityFacts DEF MemoryInv, EntityInv
    <3> QED BY <3>1, <3>2
  <2> QED BY <1>4, <2>1 DEF Doomed, Marked
<1>9. \A t : Waiting(t)' = Waiting(t)
  BY DEF Create, Waiting, BagGetAt, eventVars
<1>10. k.tags \in SUBSET {t \in Tags : [u \in Tags |-> Get(tags, u, Missing)][t] = Missing}
       /\ k.groups \in SUBSET GroupNames
  BY WorldAssumption DEF Create
<1>11. Abstract!Enter(e)
  <2>1. [t \in Tags |-> Get(tags, t, Missing)]'
          = [n \in Tags |-> IF n \in k.tags THEN e ELSE [t \in Tags |-> Get(tags, t, Missing)][n]]
    BY <1>6
  <2>2. [g \in GroupNames |-> Items(Group(g))]'
          = [h \in GroupNames |-> IF h \in k.groups
               THEN Append([g \in GroupNames |-> Items(Group(g))][h], e)
               ELSE [g \in GroupNames |-> Items(Group(g))][h]]
    BY <1>7
  <2>3. {f \in DOMAIN entity : Marked(f)}' = {f \in DOMAIN entity : Marked(f)}
    BY <1>8 DEF Doomed
  <2>4. [t \in EventTypes |-> IF stage = "none" THEN <<>> ELSE Items(BagGetAt(bus, t))]'
          = [t \in EventTypes |-> IF stage = "none" THEN <<>> ELSE Items(BagGetAt(bus, t))]
    BY <1>9 DEF Waiting
  <2> QED BY <1>3, <1>5, <1>10, <2>1, <2>2, <2>3, <2>4 DEF Abstract!Enter
<1>12. e \notin {f \in DOMAIN entity : Marked(f)}
  BY <1>4
<1> QED BY <1>2, <1>11, <1>12 DEF Abstract!StoreNext

LEMMA RetireImplements ==
  ASSUME MemoryInv, NamesInv, BoundsInv, NEW e \in DOMAIN entity, NEW stays \in BOOLEAN,
         Retire(e, stays)
  PROVE  Abstract!StoreNext
<1>1. /\ DOMAIN entity' = DOMAIN entity /\ Unmarked' = Unmarked
      /\ \A t \in Tags : Get(tags', t, Missing)
           = IF Get(tags, t, Missing) = e THEN Missing ELSE Get(tags, t, Missing)
      /\ \A g \in GroupNames : Group(g)' = Remove(Group(g), e)
  <2>1. DOMAIN entity' = DOMAIN entity
    BY DEF Retire
  <2> QED BY <2>1, RetireNames DEF MemoryInv
<1>2. entities' = entities /\ (\A t : Waiting(t)' = Waiting(t))
  BY DEF Retire, Waiting, BagGetAt, eventVars
<1>3. Doomed' = Doomed
  BY <1>1 DEF Doomed, Unmarked
<1>4. Abstract!InStore(e)
  <2>1. Range(Items(entities)) = DOMAIN entity
    BY ItemsHeld DEF MemoryInv, ListInv, EntityInv
  <2> QED BY <2>1 DEF Abstract!InStore, Range
<1>5. \A g \in GroupNames : Items(Group(g))' = Abstract!Drop(Items(Group(g)), e)
  <2> TAKE g \in GroupNames
  <2>1. Group(g) \in Linked /\ HeldOnce(Group(g))
    BY GroupsAre DEF NamesInv
  <2>2. Items(Remove(Group(g), e)) = Kept(Items(Group(g)), Range(Items(Group(g))) \ {e})
    BY <2>1, RemoveDrops
  <2> QED BY <1>1, <2>2, DropIs
<1>6. Abstract!Resign(e)
  <2>1. [t \in Tags |-> Get(tags, t, Missing)]'
          = [n \in Tags |-> IF [t \in Tags |-> Get(tags, t, Missing)][n] = e THEN Missing
                            ELSE [t \in Tags |-> Get(tags, t, Missing)][n]]
    BY <1>1
  <2>2. [g \in GroupNames |-> Items(Group(g))]'
          = [h \in GroupNames |-> Abstract!Drop([g \in GroupNames |-> Items(Group(g))][h], e)]
    BY <1>5
  <2>3. {f \in DOMAIN entity : Marked(f)}' = {f \in DOMAIN entity : Marked(f)}
    BY <1>3 DEF Doomed
  <2>4. [t \in EventTypes |-> IF stage = "none" THEN <<>> ELSE Items(BagGetAt(bus, t))]'
          = [t \in EventTypes |-> IF stage = "none" THEN <<>> ELSE Items(BagGetAt(bus, t))]
    BY <1>2 DEF Waiting
  <2>5. Items(entities)' = Items(entities)
    BY <1>2
  <2> QED BY <1>4, <2>1, <2>2, <2>3, <2>4, <2>5 DEF Abstract!Resign
<1> QED BY <1>6, BoundsAre DEF Abstract!StoreNext

LEMMA MarkImplements ==
  ASSUME MemoryInv, NamesInv, BoundsInv, NEW e \in DOMAIN entity, Mark(e)
  PROVE  Abstract!StoreNext
<1>1. /\ \A t \in Tags : Get(tags, t, Missing) # e
      /\ \A g \in GroupNames : e \notin Held(Group(g))
  BY MarkNames DEF MemoryInv
<1>2. UNCHANGED <<entities, tags, groups, stage, bus>>
  BY DEF Mark, eventVars
<1>3. Doomed' = Doomed \cup {e} /\ e \notin Doomed
  <2>1. entity[e] \in Bodies /\ ~ entity[e].marked
    BY DEF Mark, MemoryInv, EntityInv
  <2>2. [entity[e] EXCEPT !.marked = TRUE].marked = TRUE
    BY <2>1 DEF Bodies
  <2>3. PICK r : r = [entity[e] EXCEPT !.marked = TRUE]
    OBVIOUS
  <2>4. entity' = [entity EXCEPT ![e] = r] /\ r.marked = TRUE
    BY <2>2, <2>3 DEF Mark
  <2>5. /\ DOMAIN entity' = DOMAIN entity /\ entity'[e].marked = TRUE
        /\ \A f \in DOMAIN entity \ {e} : entity'[f] = entity[f]
    BY <2>4
  <2> QED BY <2>1, <2>5 DEF Doomed, Marked
<1>4. Abstract!InStore(e)
  <2>1. Range(Items(entities)) = DOMAIN entity
    BY ItemsHeld DEF MemoryInv, ListInv, EntityInv
  <2> QED BY <2>1 DEF Abstract!InStore, Range
<1>5. \A g \in GroupNames : Abstract!Drop(Items(Group(g)), e) = Items(Group(g))
  <2> TAKE g \in GroupNames
  <2>1. Items(Group(g)) \in Seq(Nat) /\ Range(Items(Group(g))) = Held(Group(g))
    BY GroupsAre, ItemsHeld
  <2>2. Kept(Items(Group(g)), Range(Items(Group(g))) \ {e}) = Items(Group(g))
    BY <1>1, <2>1, KeepsAll
  <2> QED BY <2>2, DropIs
<1>6. Abstract!Doom(e)
  <2>1. {f \in DOMAIN entity : Marked(f)}' = {f \in DOMAIN entity : Marked(f)} \cup {e}
    BY <1>3 DEF Doomed
  <2>2. \A n \in Tags : [t \in Tags |-> Get(tags, t, Missing)][n] # e
    BY <1>1
  <2>3. \A h \in GroupNames : Abstract!Drop([g \in GroupNames |-> Items(Group(g))][h], e)
          = [g \in GroupNames |-> Items(Group(g))][h]
    BY <1>5
  <2>4. /\ [t \in EventTypes |-> IF stage = "none" THEN <<>> ELSE Items(BagGetAt(bus, t))]'
          = [t \in EventTypes |-> IF stage = "none" THEN <<>> ELSE Items(BagGetAt(bus, t))]
        /\ [t \in Tags |-> Get(tags, t, Missing)]' = [t \in Tags |-> Get(tags, t, Missing)]
        /\ [g \in GroupNames |-> Items(Group(g))]' = [g \in GroupNames |-> Items(Group(g))]
        /\ Items(entities)' = Items(entities)
    BY <1>2 DEF BagGetAt, Group
  <2> QED BY <1>4, <2>1, <2>2, <2>3, <2>4 DEF Abstract!Doom
<1>7. e \in (UNION {1 .. b.entities : b \in Bounds}) \ {f \in DOMAIN entity : Marked(f)}
  <2>1. e \in UNION {1 .. b.entities : b \in Bounds}
    BY BoundsAre
  <2>2. e \notin {f \in DOMAIN entity : Marked(f)}
    BY <1>3 DEF Doomed
  <2> QED BY <2>1, <2>2
<1> QED BY <1>6, <1>7 DEF Abstract!StoreNext

\* What leaves the store as it is.
Still ==
  /\ UNCHANGED <<entities, tags, groups>>
  /\ DOMAIN entity' = DOMAIN entity /\ Doomed' = Doomed
  /\ (stage = "none" <=> stage' = "none")
  /\ stage # "none" => bus' = bus

LEMMA StillStutters ==
  ASSUME Still
  PROVE  UNCHANGED Abstract!storeVars
<1>1. {f \in DOMAIN entity : Marked(f)}' = {f \in DOMAIN entity : Marked(f)}
  BY DEF Doomed, Still
<1>2. /\ [t \in EventTypes |-> IF stage = "none" THEN <<>> ELSE Items(BagGetAt(bus, t))]'
          = [t \in EventTypes |-> IF stage = "none" THEN <<>> ELSE Items(BagGetAt(bus, t))]
      /\ [t \in Tags |-> Get(tags, t, Missing)]' = [t \in Tags |-> Get(tags, t, Missing)]
      /\ [g \in GroupNames |-> Items(Group(g))]' = [g \in GroupNames |-> Items(Group(g))]
      /\ Items(entities)' = Items(entities)
  BY DEF BagGetAt, Group, Still
<1> QED BY <1>1, <1>2 DEF Abstract!storeVars

LEMMA SweepImplements ==
  ASSUME MemoryInv, NamesInv, SweepStep
  PROVE  Abstract!StoreNext \/ Still
<1>1. PICK e : e = entities.nodes[node].data
  OBVIOUS
<1>2. /\ \A f \in DOMAIN entity' : f \in DOMAIN entity /\ entity'[f] = entity[f]
      /\ e \in DOMAIN entity
      /\ DOMAIN entity' = IF Marked(e) THEN DOMAIN entity \ {e} ELSE DOMAIN entity
  BY <1>1, SweepEntities DEF MemoryInv
<1>3. UNCHANGED <<tags, groups, bus, stage>>
  BY DEF SweepStep, eventVars
<1>4. CASE ~ Marked(e)
  <2>1. entities' = entities
    BY <1>1, <1>4 DEF SweepStep
  <2>2. Doomed' = Doomed
    BY <1>2, <1>4 DEF Doomed, Marked
  <2> QED BY <1>2, <1>3, <1>4, <2>1, <2>2 DEF Still
<1>5. CASE Marked(e)
  <2>1. entities' = Remove(entities, e)
    BY <1>1, <1>5 DEF SweepStep, DestroyEntity
  <2>2. Doomed' = Doomed \ {e} /\ e \in Doomed
    BY <1>2, <1>5 DEF Doomed, Marked
  <2>3. Items(entities)' = Abstract!Drop(Items(entities), e)
    <3>1. entities \in Linked /\ HeldOnce(entities)
      BY DEF MemoryInv, ListInv, EntityInv
    <3>2. Items(Remove(entities, e)) = Kept(Items(entities), Range(Items(entities)) \ {e})
      BY <3>1, RemoveDrops
    <3> QED BY <2>1, <3>2, DropIs
  <2>4. {f \in DOMAIN entity : Marked(f)}' = {f \in DOMAIN entity : Marked(f)} \ {e}
        /\ e \in {f \in DOMAIN entity : Marked(f)}
    BY <2>2 DEF Doomed
  <2>5. /\ [t \in EventTypes |-> IF stage = "none" THEN <<>> ELSE Items(BagGetAt(bus, t))]'
          = [t \in EventTypes |-> IF stage = "none" THEN <<>> ELSE Items(BagGetAt(bus, t))]
        /\ [t \in Tags |-> Get(tags, t, Missing)]' = [t \in Tags |-> Get(tags, t, Missing)]
        /\ [g \in GroupNames |-> Items(Group(g))]' = [g \in GroupNames |-> Items(Group(g))]
    BY <1>3 DEF BagGetAt, Group
  <2>6. Abstract!Destroy(e)
    BY <2>3, <2>4, <2>5 DEF Abstract!Destroy
  <2> QED BY <2>4, <2>6 DEF Abstract!StoreNext
<1> QED BY <1>4, <1>5

LEMMA PushImplements ==
  ASSUME MemoryInv, BoundsInv, NEW c \in EventTypes, PushEvent(c)
  PROVE  Abstract!StoreNext
<1>1. PICK v \in Nat : v = pushed + 1
  BY DEF MemoryInv, ListInv
<1>2. v \in UNION {1 .. b.events : b \in Bounds}
  <2>1. v \in 1 .. bounds.events
    <3>1. pushed < bounds.events /\ pushed \in Nat /\ bounds.events \in Nat
      BY BoundsAre DEF PushEvent, MemoryInv, ListInv
    <3> QED BY <1>1, <3>1
  <2> QED BY <2>1, BoundsAre
<1>3. UNCHANGED <<entities, entity, tags, groups, stage>> /\ stage # "none"
  BY DEF PushEvent, Pushing, entityVars
<1>4. bus \in Buses
  BY <1>3 DEF MemoryInv, ListInv
<1>5. PICK l : l = PushBack(bus.items[c], v)
  OBVIOUS
<1>6. bus' = [bus EXCEPT !.items[c] = l]
  BY <1>1, <1>5 DEF PushEvent
<1>7. \A t \in EventTypes : bus'.items[t] = IF t = c THEN l ELSE bus.items[t]
  BY <1>4, <1>6 DEF Buses
<1>8. Items(l) = Append(Items(bus.items[c]), v)
  BY <1>4, <1>5, PushBackAppends DEF Buses
<1>9. PICK q : q = [t \in EventTypes |-> IF stage = "none" THEN <<>> ELSE Items(BagGetAt(bus, t))]
  OBVIOUS
<1>10. [t \in EventTypes |-> IF stage = "none" THEN <<>> ELSE Items(BagGetAt(bus, t))]'
         = [q EXCEPT ![c] = Append(@, v)]
  <2>1. \A t \in EventTypes : q[t] = Items(bus.items[t])
    BY <1>3, <1>9 DEF BagGetAt
  <2>2. \A t \in EventTypes : (IF stage = "none" THEN <<>> ELSE Items(BagGetAt(bus, t)))'
          = IF t = c THEN Append(q[c], v) ELSE q[t]
    BY <1>3, <1>7, <1>8, <2>1 DEF BagGetAt
  <2> QED BY <1>9, <2>2
<1>11. Abstract!Send(c, v)
  <2>1. /\ {f \in DOMAIN entity : Marked(f)}' = {f \in DOMAIN entity : Marked(f)}
        /\ [t \in Tags |-> Get(tags, t, Missing)]' = [t \in Tags |-> Get(tags, t, Missing)]
        /\ [g \in GroupNames |-> Items(Group(g))]' = [g \in GroupNames |-> Items(Group(g))]
        /\ Items(entities)' = Items(entities)
    BY <1>3 DEF Group, Marked
  <2> QED BY <1>9, <1>10, <2>1 DEF Abstract!Send
<1> QED BY <1>2, <1>11 DEF Abstract!StoreNext

LEMMA HandleImplements ==
  ASSUME MemoryInv, HandleEvent
  PROVE  Abstract!StoreNext \/ Still
<1>1. UNCHANGED <<entities, entity, tags, groups>> /\ stage # "none" /\ stage' # "none"
  BY DEF HandleEvent, AtSystem, entityVars
<1>2. bus \in Buses
  BY <1>1 DEF MemoryInv, ListInv
<1>3. PICK c : c = Current.consumes
  OBVIOUS
<1>4. bus.items[c].count > 0 /\ bus' = [bus EXCEPT !.items[c] = RemoveFirst(@)]
  BY <1>3 DEF HandleEvent, Channel, BagGetAt
<1>5. CASE c \notin EventTypes
  <2>1. PICK f : f = [bus.items EXCEPT ![c] = RemoveFirst(@)]
    OBVIOUS
  <2>2. bus' = [bus EXCEPT !.items = f]
    BY <1>2, <1>4, <2>1 DEF Buses
  <2>3. f = bus.items
    BY <1>2, <1>5, <2>1 DEF Buses
  <2>4. bus' = bus
    BY <1>2, <2>2, <2>3 DEF Buses
  <2>5. Doomed' = Doomed
    BY <1>1 DEF Doomed, Marked
  <2> QED BY <1>1, <2>4, <2>5 DEF Still
<1>6. CASE c \in EventTypes
  <2>1. bus.items[c] \in Linked
    BY <1>2, <1>6 DEF Buses
  <2>2. PICK l : l = RemoveFirst(bus.items[c])
    OBVIOUS
  <2>3. Items(bus.items[c]) # <<>> /\ Items(l) = Tail(Items(bus.items[c]))
    BY <1>4, <2>1, <2>2, RemoveFirstTail
  <2>4. bus' = [bus EXCEPT !.items[c] = l]
    BY <1>4, <2>2
  <2>5. \A t \in EventTypes : bus'.items[t] = IF t = c THEN l ELSE bus.items[t]
    BY <1>2, <2>4 DEF Buses
  <2>6. PICK q : q = [t \in EventTypes |-> IF stage = "none" THEN <<>> ELSE Items(BagGetAt(bus, t))]
    OBVIOUS
  <2>7. \A t \in EventTypes : q[t] = Items(bus.items[t])
    BY <1>1, <2>6 DEF BagGetAt
  <2>8. [t \in EventTypes |-> IF stage = "none" THEN <<>> ELSE Items(BagGetAt(bus, t))]'
          = [q EXCEPT ![c] = Tail(@)]
    <3>1. \A t \in EventTypes : (IF stage = "none" THEN <<>> ELSE Items(BagGetAt(bus, t)))'
            = IF t = c THEN Tail(q[c]) ELSE q[t]
      BY <1>1, <2>3, <2>5, <2>7 DEF BagGetAt
    <3> QED BY <2>6, <3>1
  <2>9. q[c] # <<>>
    BY <1>6, <2>3, <2>7
  <2>10. Abstract!Consume(c)
    <3>1. /\ {f \in DOMAIN entity : Marked(f)}' = {f \in DOMAIN entity : Marked(f)}
          /\ [t \in Tags |-> Get(tags, t, Missing)]' = [t \in Tags |-> Get(tags, t, Missing)]
          /\ [g \in GroupNames |-> Items(Group(g))]' = [g \in GroupNames |-> Items(Group(g))]
          /\ Items(entities)' = Items(entities)
      BY <1>1 DEF Group, Marked
    <3> QED BY <2>6, <2>8, <2>9, <3>1 DEF Abstract!Consume
  <2> QED BY <1>6, <2>10 DEF Abstract!StoreNext
<1> QED BY <1>5, <1>6

\* An empty world.
LEMMA EmptyImplements ==
  ASSUME entities = EmptyList, DOMAIN entity = {}, tags = EmptyTable, groups = EmptyTable,
         stage # "none" => \A t \in EventTypes : bus.items[t] = EmptyList
  PROVE  Abstract!EmptyStore
<1>1. Items(entities) = <<>>
  BY EmptyListLinked
<1>2. {f \in DOMAIN entity : Marked(f)} = {}
  OBVIOUS
<1>3. [t \in Tags |-> Get(tags, t, Missing)] = [t \in Tags |-> Missing]
  BY EmptyMaps, NamesAre
<1>4. [g \in GroupNames |-> Items(Group(g))] = [g \in GroupNames |-> <<>>]
  <2>1. \A g \in GroupNames : Group(g) = EmptyList
    BY EmptyMaps, NamesAre DEF Group
  <2> QED BY <2>1, EmptyListLinked
<1>5. [t \in EventTypes |-> IF stage = "none" THEN <<>> ELSE Items(BagGetAt(bus, t))]
        = [t \in EventTypes |-> <<>>]
  <2>1. \A t \in EventTypes : (IF stage = "none" THEN <<>> ELSE Items(BagGetAt(bus, t))) = <<>>
    BY EmptyListLinked DEF BagGetAt
  <2> QED BY <2>1
<1> QED BY <1>1, <1>2, <1>3, <1>4, <1>5 DEF Abstract!EmptyStore

LEMMA ClearImplements ==
  ASSUME entities' = EmptyList, DOMAIN entity' = {}, tags' = EmptyTable, groups' = EmptyTable,
         stage' # "none" => \A t \in EventTypes : bus'.items[t] = EmptyList
  PROVE  Abstract!StoreNext
<1>1. Items(entities)' = <<>>
  BY EmptyListLinked
<1>2. {f \in DOMAIN entity : Marked(f)}' = {}
  OBVIOUS
<1>3. [t \in Tags |-> Get(tags, t, Missing)]' = [t \in Tags |-> Missing]
  BY EmptyMaps, NamesAre
<1>4. [g \in GroupNames |-> Items(Group(g))]' = [g \in GroupNames |-> <<>>]
  <2>1. \A g \in GroupNames : Group(g)' = EmptyList
    BY EmptyMaps, NamesAre DEF Group
  <2> QED BY <2>1, EmptyListLinked
<1>5. [t \in EventTypes |-> IF stage = "none" THEN <<>> ELSE Items(BagGetAt(bus, t))]'
        = [t \in EventTypes |-> <<>>]
  <2>1. \A t \in EventTypes : (IF stage = "none" THEN <<>> ELSE Items(BagGetAt(bus, t)))' = <<>>
    BY EmptyListLinked DEF BagGetAt
  <2> QED BY <2>1
<1> QED BY <1>1, <1>2, <1>3, <1>4, <1>5 DEF Abstract!EmptyStore, Abstract!Clear, Abstract!StoreNext

Mirrored == Abstract!StoreNext \/ Still

LEMMA WorldImplements ==
  ASSUME MemoryInv, NamesInv, BoundsInv, [WorldNext]_worldVars
  PROVE  [Abstract!StoreNext]_(Abstract!storeVars)
<1> DEFINE Same == UNCHANGED <<entities, entity, tags, groups, bus>>
                   /\ (stage = "none" <=> stage' = "none")
<1>0. Same => Still
  BY DEF Still, Doomed, Marked
<1>1. CASE CreateWorld \/ DestroyWorld
  <2>1. /\ entities' = EmptyList /\ tags' = EmptyTable /\ groups' = EmptyTable
        /\ DOMAIN entity' = {}
    BY <1>1 DEF CreateWorld, DestroyWorld, MemoryInv, EntityInv
  <2>2. stage' # "none" => \A t \in EventTypes : bus'.items[t] = EmptyList
    BY <1>1, NewBusIsBus DEF CreateWorld, DestroyWorld
  <2> QED BY <2>1, <2>2, ClearImplements
<1>2. CASE GameCode
  <2>1. ASSUME NEW k \in Kinds, Create(k) PROVE Mirrored
    BY <2>1, CreateImplements DEF Mirrored
  <2>2. ASSUME NEW e \in DOMAIN entity, NEW stays \in BOOLEAN, Retire(e, stays) PROVE Mirrored
    BY <2>2, RetireImplements DEF Mirrored
  <2>3. ASSUME NEW e \in DOMAIN entity, Mark(e) PROVE Mirrored
    BY <2>3, MarkImplements DEF Mirrored
  <2>4. ASSUME (\E e \in DOMAIN entity : Equip(e)) \/ Unequip PROVE Mirrored
    <3>1. Unmarked' = Unmarked /\ UNCHANGED <<tags, groups, entities, bus, stage>>
      BY <2>4, BlinkNames DEF MemoryInv
    <3>2. DOMAIN entity' = DOMAIN entity
      BY <2>4 DEF Equip, Unequip
    <3>3. Doomed' = Doomed
      BY <3>1, <3>2 DEF Doomed, Unmarked
    <3>4. Still
      BY <3>1, <3>2, <3>3 DEF Still
    <3> QED BY <3>4 DEF Mirrored
  <2>5. ASSUME NEW t \in EventTypes, PushEvent(t) PROVE Mirrored
    BY <2>5, PushImplements DEF Mirrored
  <2>6. Mirrored
    BY <1>2, <2>1, <2>2, <2>3, <2>4, <2>5 DEF GameCode
  <2> QED BY <2>6, StillStutters DEF Mirrored
<1>3. CASE RegisterSystem
  <2>1. Same BY <1>3 DEF RegisterSystem, entityVars, eventVars
  <2> HIDE DEF Same
  <2> QED BY <1>0, <2>1, StillStutters
<1>4. CASE Update
  <2>1. ASSUME BeginUpdate \/ LeaveSystem \/ EndHandler PROVE Mirrored
    <3>1. Same BY <2>1 DEF BeginUpdate, LeaveSystem, EndHandler, AtSystem, entityVars, eventVars
    <3> HIDE DEF Same
    <3> QED BY <1>0, <3>1 DEF Mirrored
  <2>2. ASSUME BeginEntitySystem \/ EndVisit \/ EndEntitySystem PROVE Mirrored
    <3>1. Same BY <2>2 DEF BeginEntitySystem, EndVisit, EndEntitySystem, AtSystem, entityVars, eventVars
    <3> HIDE DEF Same
    <3> QED BY <1>0, <3>1 DEF Mirrored
  <2>3. ASSUME TestEntity \/ EndCollisions \/ CallHook \/ EndHook \/ EndHooks PROVE Mirrored
    <3>1. Same
      BY <2>3 DEF TestEntity, EndCollisions, CallHook, EndHook, EndHooks, entityVars, eventVars
    <3> HIDE DEF Same
    <3> QED BY <1>0, <3>1 DEF Mirrored
  <2>4. ASSUME BeginSweep \/ EndSweep PROVE Mirrored
    <3>1. Same BY <2>4 DEF BeginSweep, EndSweep, entityVars, eventVars
    <3> HIDE DEF Same
    <3> QED BY <1>0, <3>1 DEF Mirrored
  <2>5. HandleEvent \/ SweepStep => Mirrored
    BY HandleImplements, SweepImplements DEF Mirrored
  <2>6. Mirrored
    BY <1>4, <2>1, <2>2, <2>3, <2>4, <2>5 DEF Update
  <2> QED BY <2>6, StillStutters DEF Mirrored
<1>5. CASE UNCHANGED worldVars
  <2>1. Same BY <1>5 DEF worldVars, entityVars, eventVars
  <2> HIDE DEF Same
  <2> QED BY <1>0, <2>1, StillStutters
<1> HIDE DEF Same
<1> QED BY <1>1, <1>2, <1>3, <1>4, <1>5 DEF WorldNext

\* The linked lists, bags and hash tables of a world behave as the plain store: entities
\* in the order of their creation, a queue for each type of event that is handled in the
\* order of the pushes, an owner for each tag and members for each group (world.c,
\* entity_tag_manager.c, entity_group_manager.c).
THEOREM WorldImplementsStore == WorldSpec => ImplementsEntityStore
<1> DEFINE I == MemoryInv /\ NamesInv /\ BoundsInv
<1>1. WorldInit => I
  <2>1. WorldInit => BoundsInv
    BY WorldAssumption DEF WorldInit, BoundsInv
  <2> QED BY <2>1, WorldInvSteps DEF WorldInv
<1>2. I /\ [WorldNext]_worldVars => I'
  BY WorldInvSteps, WorldBounds DEF WorldInv
<1>3. I /\ [WorldNext]_worldVars => [Abstract!StoreNext]_(Abstract!storeVars)
  BY WorldImplements
<1>4. WorldInit => Abstract!EmptyStore
  BY EmptyImplements DEF WorldInit
<1> HIDE DEF I
<1> QED BY <1>1, <1>2, <1>3, <1>4, PTL DEF WorldSpec, ImplementsEntityStore
================================================================================
