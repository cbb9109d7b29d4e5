------------------------------- MODULE EntityStore -------------------------------
(***************************************************************************)
(* What the entity world promises to the systems of a game state, without  *)
(* its lists, hash tables and walks: entities in the order of their        *)
(* creation, a name for some of them, groups, and one queue of events per  *)
(* type.  An entity only disappears after it was marked, or with its world.*)
(***************************************************************************)
EXTENDS Naturals, Sequences, Selection

CONSTANTS Entities, Names, GroupNames, Channels, Values, Nobody

VARIABLES
  alive,    \* the entities of the world, oldest first
  marked,   \* those that will be destroyed
  named,    \* the entity each name stands for, or Nobody
  members,  \* the entities of each group, in the order they joined
  queued    \* the events of each channel, oldest first

storeVars == <<alive, marked, named, members, queued>>

InStore(e) == \E i \in DOMAIN alive : alive[i] = e
Drop(s, e) == Kept(s, {s[i] : i \in DOMAIN s} \ {e})

EmptyStore ==
  /\ alive = <<>> /\ marked = {}
  /\ named = [n \in Names |-> Nobody]
  /\ members = [g \in GroupNames |-> <<>>]
  /\ queued = [c \in Channels |-> <<>>]

\* A new entity takes free names and joins groups.
Enter(e) ==
  /\ alive' = Append(alive, e)
  /\ ~ InStore(e)
  /\ \E ns \in SUBSET {n \in Names : named[n] = Nobody}, gs \in SUBSET GroupNames :
       /\ named' = [n \in Names |-> IF n \in ns THEN e ELSE named[n]]
       /\ members' = [g \in GroupNames |-> IF g \in gs THEN Append(members[g], e) ELSE members[g]]
  /\ UNCHANGED <<marked, queued>>

\* An entity loses its names and groups.
Resign(e) ==
  /\ InStore(e)
  /\ named' = [n \in Names |-> IF named[n] = e THEN Nobody ELSE named[n]]
  /\ members' = [g \in GroupNames |-> Drop(members[g], e)]
  /\ UNCHANGED <<alive, marked, queued>>

Doom(e) ==
  /\ marked' = marked \cup {e}
  /\ InStore(e)
  /\ \A n \in Names : named[n] # e
  /\ \A g \in GroupNames : Drop(members[g], e) = members[g]
  /\ UNCHANGED <<alive, named, members, queued>>

Destroy(e) ==
  /\ marked' = marked \ {e}
  /\ alive' = Drop(alive, e)
  /\ UNCHANGED <<named, members, queued>>

Send(c, v) ==
  /\ queued' = [queued EXCEPT ![c] = Append(@, v)]
  /\ UNCHANGED <<alive, marked, named, members>>

Consume(c) ==
  /\ queued[c] # <<>>
  /\ queued' = [queued EXCEPT ![c] = Tail(@)]
  /\ UNCHANGED <<alive, marked, named, members>>

\* The world is destroyed with everything in it.
Clear == EmptyStore'

StoreNext ==
  \/ \E e \in Entities \ marked : Enter(e) \/ Doom(e)
  \/ \E e \in marked : Destroy(e)
  \/ \E c \in Channels, v \in Values : Send(c, v)
  \/ \E c \in Channels : Consume(c)
  \/ Clear
  \/ \E e \in Entities : Resign(e)

StoreSpec == EmptyStore /\ [][StoreNext]_storeVars
=============================================================================
