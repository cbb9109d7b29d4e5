--------------------------------- MODULE ItemBag ---------------------------------
(***************************************************************************)
(* bag_t of tdd: an array that grows, filled at its cursor (bag_append) or *)
(* at given indexes (bag_set_at).  The program fills one bag in one of the *)
(* two ways only.                                                          *)
(***************************************************************************)
EXTENDS Naturals

NoItem == [item |-> "none"]

\* bag_create, and grow from nothing.
EmptyBag(capacity) ==
  [capacity |-> capacity, cursor |-> 0, count |-> 0,
   items |-> [i \in 0 .. capacity - 1 |-> NoItem]]

\* grow: realloc keeps the old slots, those from the cursor on become empty.
Enlarge(b, capacity) ==
  [b EXCEPT !.capacity = capacity,
            !.items = [i \in 0 .. capacity - 1 |-> IF i < b.cursor THEN b.items[i] ELSE NoItem]]

\* bag_append
BagAppend(b, item) ==
  LET room == IF b.count >= b.capacity THEN Enlarge(b, 2 * b.capacity) ELSE b
  IN [room EXCEPT !.items[room.cursor] = item, !.cursor = @ + 1, !.count = @ + 1]

\* bag_set_at: an index equal to the capacity does not make the bag grow, one
\* equal to the cursor does not move it.
BagSetAt(b, index, item) ==
  LET room == IF index > b.capacity THEN Enlarge(b, index + b.capacity \div 2) ELSE b
  IN [room EXCEPT !.cursor = IF index > @ THEN index + 1 ELSE @,
                  !.items[index] = item,
                  !.count = IF room.items[index] = NoItem THEN @ + 1 ELSE @]

\* bag_get_at
BagGetAt(b, index) == b.items[index]

\* bag_remove_at; bag_clear does it at every index.
BagRemoveAt(b, index) ==
  IF b.items[index] = NoItem THEN b
  ELSE [b EXCEPT !.items[index] = NoItem, !.count = @ - 1,
                 !.cursor = IF index = @ - 1 THEN @ - 1 ELSE @]
=================================================================================
