------------------------------- MODULE LinkedList -------------------------------
(***************************************************************************)
(* list_t of tdd: a doubly linked list with a head, a tail and a count.    *)
(*                                                                         *)
(* A list is a record of its fields and of the heap of its nodes, a        *)
(* function from addresses to nodes: malloc takes an address that is not   *)
(* in use and free takes the node out of the heap.  The operators are the  *)
(* functions of list.c that the program calls.                             *)
(***************************************************************************)
EXTENDS Naturals, Sequences, FiniteSets

NULL == 0

\* list_create
EmptyList == [head |-> NULL, tail |-> NULL, count |-> 0, nodes |-> <<>>]

\* create_list_node: malloc returns an address that holds no node.
NewAddress(l) == CHOOSE a \in 1 .. Cardinality(DOMAIN l.nodes) + 1 : a \notin DOMAIN l.nodes

\* The heap h with the node n at address a.
Store(h, a, n) == [b \in DOMAIN h \cup {a} |-> IF b = a THEN n ELSE h[b]]

\* list_push_back
PushBack(l, data) ==
  LET a == NewAddress(l)
      heap == Store(l.nodes, a, [data |-> data, prev |-> l.tail, next |-> NULL])
  IN IF l.count = 0
     THEN [head |-> a, tail |-> a, count |-> 1,
           nodes |-> Store(l.nodes, a, [data |-> data, prev |-> NULL, next |-> NULL])]
     ELSE [l EXCEPT !.tail = a, !.count = @ + 1,
                    !.nodes = [heap EXCEPT ![l.tail].next = a]]

\* free(node)
Without(h, a) == [b \in DOMAIN h \ {a} |-> h[b]]

\* Fault: the new head keeps the pointer to the node that is freed.
RemoveNodeKeepsPrev(l, a) ==
  LET n == l.nodes[a]
      unlinked ==
        IF a = l.head THEN [l EXCEPT !.head = n.next,
                                     !.tail = IF n.next = NULL THEN NULL ELSE @]
        ELSE IF a = l.tail THEN [l EXCEPT !.tail = n.prev, !.nodes[n.prev].next = NULL]
        ELSE [l EXCEPT !.nodes[n.prev].next = n.next, !.nodes[n.next].prev = n.prev]
  IN [unlinked EXCEPT !.count = @ - 1, !.nodes = Without(@, a)]

\* remove_node_from_list: the head, the tail, or a node between two others.
RemoveNode(l, a) ==
  LET n == l.nodes[a]
      unlinked ==
        IF a = l.head
        THEN IF n.next # NULL
             THEN [l EXCEPT !.head = n.next, !.nodes[n.next].prev = NULL]
             ELSE [l EXCEPT !.head = NULL, !.tail = NULL]
        ELSE IF a = l.tail
        THEN [l EXCEPT !.tail = n.prev, !.nodes[n.prev].next = NULL]
        ELSE [l EXCEPT !.nodes[n.prev].next = n.next, !.nodes[n.next].prev = n.prev]
  IN [unlinked EXCEPT !.count = @ - 1, !.nodes = Without(@, a)]

\* The i-th node on the walk from the head (list_iter), NULL past the end.
NodeAt(l) ==
  LET at[i \in 0 .. Cardinality(DOMAIN l.nodes)] ==
        IF i = 0 THEN l.head
        ELSE LET a == at[i - 1] IN IF a = NULL THEN NULL ELSE l.nodes[a].next
  IN at

\* The same walk from the tail along prev.
NodeFromEnd(l) ==
  LET at[i \in 0 .. Cardinality(DOMAIN l.nodes)] ==
        IF i = 0 THEN l.tail
        ELSE LET a == at[i - 1] IN IF a = NULL THEN NULL ELSE l.nodes[a].prev
  IN at

\* The items in the order list_iter meets them.
Items(l) ==
  LET upto[i \in 0 .. Cardinality(DOMAIN l.nodes)] ==
        IF i = 0 THEN [at |-> l.head, items |-> <<>>]
        ELSE LET w == upto[i - 1]
             IN IF w.at = NULL THEN w
                ELSE [at |-> l.nodes[w.at].next, items |-> Append(w.items, l.nodes[w.at].data)]
  IN upto[Cardinality(DOMAIN l.nodes)].items

\* list_exists; list_find returns such an item.
Exists(l, data) == \E a \in DOMAIN l.nodes : l.nodes[a].data = data

\* list_remove: the first node with this item, if there is one.
Remove(l, data) ==
  IF ~ Exists(l, data) THEN l
  ELSE LET at == NodeAt(l)
           i == CHOOSE i \in DOMAIN at :
                  /\ at[i] # NULL /\ l.nodes[at[i]].data = data
                  /\ \A j \in 0 .. i - 1 : l.nodes[at[j]].data # data
       IN RemoveNode(l, at[i])

\* list_remove_at(list, 0) and the item it returns.
First(l) == l.nodes[l.head].data
RemoveFirst(l) == RemoveNode(l, l.head)

\* What every function leaves: the nodes reached from the head along next are
\* all the nodes there are, count of them, and the walk from the tail along
\* prev is the same walk backwards.
WellLinked(l) ==
  LET n == Cardinality(DOMAIN l.nodes)
      forth == NodeAt(l)
      back == NodeFromEnd(l)
  IN /\ {l.head, l.tail} \subseteq DOMAIN l.nodes \cup {NULL}
     /\ \A a \in DOMAIN l.nodes :
          {l.nodes[a].prev, l.nodes[a].next} \subseteq DOMAIN l.nodes \cup {NULL}
     /\ l.count = n
     /\ forth[n] = NULL /\ back[n] = NULL
     /\ {forth[i] : i \in 0 .. n - 1} = DOMAIN l.nodes
     /\ \A i \in 0 .. n - 1 : back[i] = forth[n - 1 - i]
=============================================================================
