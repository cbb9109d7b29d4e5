-------------------------------- MODULE HashTable --------------------------------
(***************************************************************************)
(* htable_t of tdd: open addressing with quadratic probing.                *)
(*                                                                         *)
(* A key is a model value; Hash gives what hash_sdbm computes for it.  The *)
(* program adds each key through one string literal, so that the pointer   *)
(* find_free_slot compares and the text find_entry compares agree.  A slot *)
(* of the internal array holds an entry or is empty.                       *)
(***************************************************************************)
EXTENDS Naturals, FiniteSets

CONSTANTS Keys, Hash, Capacity

ASSUME HashTableAssumption ==
  /\ Capacity \in Nat \ {0}
  /\ Hash \in [Keys -> Nat]

\* The probe sequence of each key of a set meets as many slots, in the smallest
\* table, as there are keys in the set: find_free_slot ends in every table of them.
ProbesFor(K) ==
  \A k \in K :
    Cardinality(K) <= Cardinality({(Hash[k] + i * i) % Capacity : i \in 0 .. Capacity - 1})

NoEntry == [key |-> "none"]

\* htable_create_with_capacity
EmptyTable ==
  [slots |-> [s \in 0 .. Capacity - 1 |-> NoEntry], capacity |-> Capacity, count |-> 0]

\* The i-th slot of the probe sequence of key k.
Probe(t, k, i) == (Hash[k] + i * i) % t.capacity

\* Probes repeat after capacity turns: a slot the loop has not reached by then
\* it never reaches.
Turns(t) == 0 .. t.capacity - 1

Stops(t, k, i) ==
  LET e == t.slots[Probe(t, k, i)] IN e = NoEntry \/ e.key = k

\* find_free_slot ends at the first turn whose slot is empty or holds the key.
HasFreeSlot(t, k) == \E i \in Turns(t) : Stops(t, k, i)
FreeSlot(t, k) ==
  Probe(t, k, CHOOSE i \in Turns(t) : Stops(t, k, i) /\ \A j \in 0 .. i - 1 : ~ Stops(t, k, j))

\* insert_entry: an entry with the same key is replaced and not counted again.
InsertEntry(t, e) ==
  LET s == FreeSlot(t, e.key)
  IN [t EXCEPT !.slots[s] = e,
               !.count = IF t.slots[s] = NoEntry THEN @ + 1 ELSE @]

\* grow: the entries are inserted anew, in the order of their old slots.
Grow(t) ==
  LET empty == [slots |-> [s \in 0 .. 2 * t.capacity - 1 |-> NoEntry],
                capacity |-> 2 * t.capacity, count |-> 0]
      rehashed[s \in 0 .. t.capacity] ==
        IF s = 0 THEN empty
        ELSE LET before == rehashed[s - 1]
             IN IF t.slots[s - 1] = NoEntry THEN before ELSE InsertEntry(before, t.slots[s - 1])
  IN rehashed[t.capacity]

\* htable_add: the load factor reaches the threshold of 0.75 only by a new entry.
Add(t, k, item) ==
  LET added == InsertEntry(t, [key |-> k, item |-> item])
  IN IF added.count # t.count /\ 4 * added.count >= 3 * added.capacity
     THEN Grow(added) ELSE added

\* find_entry looks at every turn, past the slots that are empty.
Turn(t, k) ==
  {i \in Turns(t) : t.slots[Probe(t, k, i)] # NoEntry /\ t.slots[Probe(t, k, i)].key = k}
FoundAt(t, k) ==
  LET turns == Turn(t, k)
  IN Probe(t, k, CHOOSE i \in turns : \A j \in turns : i <= j)

\* htable_get with what it returns for a key that is not there.
Get(t, k, missing) ==
  LET turns == Turn(t, k)
  IN IF turns = {} THEN missing
     ELSE t.slots[Probe(t, k, CHOOSE i \in turns : \A j \in turns : i <= j)].item

\* htable_remove: remove_entry empties the slot and leaves a hole.
Delete(t, k) ==
  IF Turn(t, k) = {} THEN t
  ELSE [t EXCEPT !.slots[FoundAt(t, k)] = NoEntry, !.count = @ - 1]
=============================================================================
