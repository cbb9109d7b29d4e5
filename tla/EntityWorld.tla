------------------------------- MODULE EntityWorld -------------------------------
(***************************************************************************)
(* tdd_ecs: the world of a game state, with the collision system of the    *)
(* client, the one system that keeps pointers to entities from one update  *)
(* to the next.                                                            *)
(*                                                                         *)
(* world_update runs the systems in the order of their registration and    *)
(* then destroys the entities that were marked.  The code of the game runs *)
(* inside it, as the callbacks of the systems, the collision hooks and the *)
(* event handlers; and between updates, when a game state is entered or a  *)
(* message pushes an event.  It creates, retires and marks entities and    *)
(* pushes events in all these places, while the world walks its lists.     *)
(*                                                                         *)
(* Entities are addresses: an address is never used twice, so a pointer    *)
(* that outlives its entity is seen.  Whether two colliders overlap is the *)
(* environment's choice.                                                   *)
(***************************************************************************)
EXTENDS LinkedList, HashTable, ItemBag, Selection, Functions

CONSTANTS
  Systems,      \* the systems of the game state in the order of registration
  Kinds,        \* the entities its factories make
  Tags,         \* names for entities; Keys holds them and the names of groups
  GroupNames,
  Physics,      \* id of the component of the collision system
  Lifetime,     \* id of the component of the lifetime system
  Blink,        \* id of the component a player with an armor has
  EventTypes,   \* 0 .. n, the indexes of the event bus
  MaxComponents,
  Bounds        \* sets of bounds: entities and events ever made, contacts of an
                \* update, whether players get an armor

\* A system is [type, enabled] with what it consumes or with [family, collides,
\* effects]; a family is [all, any, not], sets of component ids.  A kind is
\* [components, kinetic, tags, groups].
ASSUME WorldAssumption ==
  /\ Keys = Tags \cup GroupNames /\ IsFiniteSet(Keys)
  /\ ProbesFor(Tags) /\ ProbesFor(GroupNames)
  /\ MaxComponents \in Nat
  /\ EventTypes \subseteq Nat /\ \E n \in EventTypes : EventTypes = 0 .. n
  /\ \A b \in Bounds : {b.entities, b.events, b.contacts} \subseteq Nat
  /\ {Physics, Lifetime, Blink} \subseteq 0 .. MaxComponents - 1
  /\ Systems \in Seq({Systems[i] : i \in DOMAIN Systems}) /\ Systems # <<>>
  /\ \A i \in DOMAIN Systems : Systems[i].type = "entity" /\ Systems[i].collides =>
       {Lifetime, Blink} \cap UNION {Systems[i].family.all, Systems[i].family.any,
                                    Systems[i].family.not} = {}
  /\ \A k \in Kinds : /\ k.components \subseteq 0 .. MaxComponents - 1
                      /\ k.tags \subseteq Tags /\ k.groups \subseteq GroupNames

VARIABLES
  bounds,    \* the bounds of this behaviour, one of Bounds
  stage,     \* where the frame stands
  systems,   \* list of systems
  node,      \* node of the list of systems, or of entities, the walk is at
  entities,  \* list of entities
  entity,    \* the entities in memory
  made,      \* entities created so far in all worlds
  nextId,    \* next_entity_id
  tags,      \* tags_table
  groups,    \* groups_table
  bus,       \* event_bus, a list of events per type
  pushed,    \* events pushed so far
  todo,      \* entities the running entity system has still to visit
  present,   \* physics_entities, all of them
  contacts,  \* collisions, pairs of entities
  previous,  \* previous_collisions
  hooks,     \* enter and exit hooks still to be called in this update
  told       \* history: contacts whose enter hooks were called, not ended yet

listVars == <<systems, node>>
entityVars == <<entities, entity, made, nextId, tags, groups>>
eventVars == <<bus, pushed>>
collisionVars == <<present, contacts, previous, hooks, told>>
worldVars == <<bounds, stage, listVars, entityVars, eventVars, todo, collisionVars>>

NoContacts == <<<<NULL, NULL>>>>
Missing == 0

\* Where the code of the game runs: between updates (a state is entered, a
\* message arrives), in the callback of an entity system, in a collision hook,
\* in the handler of an event.  Bombs explode and players drop bombs in the
\* first kind of callback; in hooks bonuses are picked up and a bomb hit by a
\* blast explodes, which makes a blast of its own; bombs and bonuses appear and
\* players die in handlers.
Creating == {"idle", "visit", "hook", "handle"}
Retiring == {"visit", "hook", "handle"}
Marking == {"visit", "hook"}
Pushing == {"idle", "visit", "hook", "handle"}

-----------------------------------------------------------------------------
(* Entities and families.                                                  *)

\* family_entity_is_part_of
PartOf(f, e) ==
  /\ f.all \subseteq entity[e].mask
  /\ f.any = {} \/ f.any \cap entity[e].mask # {}
  /\ f.not \cap entity[e].mask = {}

\* world_get_all_entities_of_family
AllOfFamily(f) == Kept(Items(entities), {e \in DOMAIN entity : PartOf(f, e)})

\* component_add_to_entity
AddComponent(r, c) ==
  [r EXCEPT !.mask = @ \cup {c}, !.components = BagSetAt(@, c, [component |-> c])]

\* component_remove_from_entity
RemoveComponent(r, c) ==
  [r EXCEPT !.mask = @ \ {c}, !.components = BagRemoveAt(@, c)]

\* The entity of a factory: world_create_entity and its components.
NewEntity(k) ==
  LET blank == [id |-> nextId, mask |-> {}, marked |-> FALSE, kinetic |-> k.kinetic,
                components |-> EmptyBag(MaxComponents)]
      built[c \in 0 .. MaxComponents] ==
        IF c = 0 THEN blank
        ELSE IF c - 1 \in k.components THEN AddComponent(built[c - 1], c - 1)
        ELSE built[c - 1]
  IN built[MaxComponents]

\* entity_group_manager_get_group.
Group(g) == Get(groups, g, EmptyList)

\* entity_group_manager_add_entity: the first entity creates the group.
JoinGroup(t, g, e) ==
  IF Turn(t, g) = {} THEN Add(t, g, PushBack(EmptyList, e))
  ELSE [t EXCEPT !.slots[FoundAt(t, g)].item = PushBack(@, e)]

\* entity_group_manager_remove_entity
LeaveGroup(t, g, e) ==
  IF Turn(t, g) = {} THEN t
  ELSE [t EXCEPT !.slots[FoundAt(t, g)].item = Remove(@, e)]

\* What becomes of a table when entity e takes, or loses, a tag or a group.
Edit(op, t, key, e) ==
  CASE op = "tag" -> Add(t, key, e)
    [] op = "untag" -> Delete(t, key)
    [] op = "join" -> JoinGroup(t, key, e)
    [] op = "leave" -> LeaveGroup(t, key, e)

\* The same for every key of a set, in some order.
EditAll(op, t, ks, e) ==
  LET n == Cardinality(ks)
      order == CHOOSE o \in [1 .. n -> ks] : \A k \in ks : \E i \in 1 .. n : o[i] = k
      done[i \in 0 .. n] == IF i = 0 THEN t ELSE Edit(op, done[i - 1], order[i], e)
  IN done[n]

-----------------------------------------------------------------------------
(* The life of a world.                                                    *)

WorldInit ==
  /\ bounds \in Bounds
  /\ stage = "none"
  /\ systems = EmptyList /\ node = NULL
  /\ entities = EmptyList /\ entity = <<>> /\ made = 0 /\ nextId = 0
  /\ tags = EmptyTable /\ groups = EmptyTable
  /\ bus = EmptyBag(1) /\ pushed = 0
  /\ todo = <<>>
  /\ present = <<>> /\ contacts = <<>> /\ previous = NoContacts /\ hooks = <<>> /\ told = {}

\* The event bus gets a list for every index up to its capacity.
NewBus ==
  LET n == 1 + CHOOSE t \in EventTypes : \A u \in EventTypes : u <= t
      filled[i \in 0 .. n] ==
        IF i = 0 THEN EmptyBag(n) ELSE BagAppend(filled[i - 1], EmptyList)
  IN filled[n]

\* world_create
CreateWorld ==
  /\ stage = "none" /\ made < bounds.entities
  /\ entities' = EmptyList /\ systems' = EmptyList
  /\ tags' = EmptyTable /\ groups' = EmptyTable
  /\ nextId' = 0
  /\ bus' = NewBus
  /\ stage' = "setup"
  /\ UNCHANGED <<node, entity, made, pushed, todo, collisionVars>>

\* world_register_system and world_register_entity_system
RegisterSystem ==
  /\ stage = "setup"
  /\ systems' = PushBack(systems, systems.count + 1)
  /\ stage' = IF systems.count + 1 = Len(Systems) THEN "idle" ELSE "setup"
  /\ UNCHANGED <<node, entityVars, eventVars, todo, collisionVars>>

\* Fault: the collision system keeps its list when its world is destroyed.
DestroyWorldKeepsContacts ==
  /\ stage = "idle"
  /\ stage' = "none"
  /\ entities' = EmptyList /\ systems' = EmptyList /\ entity' = <<>>
  /\ tags' = EmptyTable /\ groups' = EmptyTable /\ bus' = EmptyBag(1)
  /\ told' = {}
  /\ UNCHANGED <<node, made, nextId, pushed, todo, present, contacts, previous, hooks>>

\* world_destroy: entities go without their hooks; the cleanup of the
\* collision system forgets the collisions.
DestroyWorld ==
  /\ stage = "idle"
  /\ stage' = "none"
  /\ entities' = EmptyList /\ systems' = EmptyList /\ entity' = <<>>
  /\ tags' = EmptyTable /\ groups' = EmptyTable /\ bus' = EmptyBag(1)
  /\ previous' = NoContacts /\ contacts' = <<>> /\ present' = <<>> /\ told' = {}
  /\ UNCHANGED <<node, made, nextId, pushed, todo, hooks>>

-----------------------------------------------------------------------------
(* The code of the game, in callbacks and between updates.                 *)

\* The system the walk is at.
Current == Systems[systems.nodes[node].data]

\* A factory such as create_player_entity: the entity with its components, tags
\* and groups.  A tag is taken by one entity at a time.
Create(k) ==
  /\ stage \in Creating
  /\ made < bounds.entities
  /\ \A t \in k.tags : Get(tags, t, Missing) = Missing /\ HasFreeSlot(tags, t)
  /\ LET e == made + 1
     IN /\ made' = e
        /\ entity' = [f \in DOMAIN entity \cup {e} |-> IF f = e THEN NewEntity(k) ELSE entity[f]]
        /\ entities' = PushBack(entities, e)
        /\ tags' = EditAll("tag", tags, k.tags, e)
        /\ groups' = EditAll("join", groups, k.groups, e)
  /\ nextId' = nextId + 1
  /\ UNCHANGED <<stage, listVars, eventVars, todo, collisionVars>>

TagsOf(e) == {t \in Tags : Get(tags, t, Missing) = e}
GroupsOf(e) == {g \in GroupNames : Exists(Group(g), e)}

\* What a death, an explosion or a pick-up does: the entity loses its tags and
\* groups, and one that stays on screen for a while gets a lifetime.
Retire(e, stays) ==
  /\ stage \in Retiring
  /\ e \in DOMAIN entity
  /\ TagsOf(e) \cup GroupsOf(e) # {}
  /\ tags' = EditAll("untag", tags, TagsOf(e), e)
  /\ groups' = EditAll("leave", groups, GroupsOf(e), e)
  /\ entity' = IF stays THEN [entity EXCEPT ![e] = AddComponent(@, Lifetime)] ELSE entity
  /\ UNCHANGED <<stage, listVars, entities, made, nextId, eventVars, todo, collisionVars>>

\* world_destroy_entity, without the callbacks of the systems.
DestroyEntity(e) ==
  /\ entities' = Remove(entities, e)
  /\ entity' = Without(entity, e)

\* Fault: the entity leaves the list of entities and memory at once.
MarkDestroys(e) ==
  /\ stage \in Marking
  /\ e \in DOMAIN entity
  /\ ~ entity[e].marked
  /\ TagsOf(e) \cup GroupsOf(e) = {}
  /\ DestroyEntity(e)
  /\ UNCHANGED <<stage, listVars, made, nextId, tags, groups, eventVars, todo, collisionVars>>

\* world_mark_entity_for_deletion, of an entity without tags and groups.
Mark(e) ==
  /\ stage \in Marking
  /\ e \in DOMAIN entity
  /\ ~ entity[e].marked
  /\ TagsOf(e) \cup GroupsOf(e) = {}
  /\ entity' = [entity EXCEPT ![e].marked = TRUE]
  /\ UNCHANGED <<stage, listVars, entities, made, nextId, tags, groups, eventVars, todo,
                 collisionVars>>

\* apply_armor in the handler of an event: the player blinks.
Equip(e) ==
  /\ stage = "handle" /\ bounds.armor
  /\ e \in DOMAIN entity
  /\ GroupsOf(e) # {} /\ Blink \notin entity[e].mask
  /\ entity' = [entity EXCEPT ![e] = AddComponent(@, Blink)]
  /\ UNCHANGED <<stage, listVars, entities, made, nextId, tags, groups, eventVars, todo,
                 collisionVars>>

\* update_bonuses_effects_entity_system: the armor of the visited player is over.
Unequip ==
  /\ stage = "visit" /\ todo # <<>> /\ Current.effects
  /\ Blink \in entity[Head(todo)].mask
  /\ entity' = [entity EXCEPT ![Head(todo)] = RemoveComponent(@, Blink)]
  /\ UNCHANGED <<stage, listVars, entities, made, nextId, tags, groups, eventVars, todo,
                 collisionVars>>

\* world_push_event
PushEvent(type) ==
  /\ stage \in Pushing
  /\ pushed < bounds.events
  /\ pushed' = pushed + 1
  /\ bus' = [bus EXCEPT !.items[type] = PushBack(@, pushed + 1)]
  /\ UNCHANGED <<stage, listVars, entityVars, todo, collisionVars>>

-----------------------------------------------------------------------------
(* world_update: world_process_systems.                                    *)

Channel == BagGetAt(bus, Current.consumes)
NextSystem == node' = systems.nodes[node].next

BeginUpdate ==
  /\ stage = "idle"
  /\ stage' = "systems"
  /\ node' = systems.head
  /\ UNCHANGED <<systems, entityVars, eventVars, todo, collisionVars>>

AtSystem == stage = "systems" /\ node # NULL

\* The call returns with nothing to do: a system that is not enabled, or the
\* end of world_consume_events.
LeaveSystem ==
  /\ AtSystem
  /\ ~ Current.enabled \/ (Current.type = "process" /\ Channel.count = 0)
  /\ NextSystem
  /\ UNCHANGED <<stage, systems, entityVars, eventVars, todo, collisionVars>>

\* Fault: the newest event of the channel is taken.
HandleNewestEvent ==
  /\ AtSystem
  /\ Current.enabled /\ Current.type = "process" /\ Channel.count > 0
  /\ bus' = [bus EXCEPT !.items[Current.consumes] = RemoveNode(@, @.tail)]
  /\ stage' = "handle"
  /\ UNCHANGED <<listVars, entityVars, pushed, todo, collisionVars>>

\* One turn of world_consume_events: the oldest event leaves its channel and
\* its handler runs.
HandleEvent ==
  /\ AtSystem
  /\ Current.enabled /\ Current.type = "process" /\ Channel.count > 0
  /\ bus' = [bus EXCEPT !.items[Current.consumes] = RemoveFirst(@)]
  /\ stage' = "handle"
  /\ UNCHANGED <<listVars, entityVars, pushed, todo, collisionVars>>

EndHandler ==
  /\ stage = "handle"
  /\ stage' = "systems"
  /\ UNCHANGED <<listVars, entityVars, eventVars, todo, collisionVars>>

\* entity_system_process_func collects the entities of the family first; the
\* begin hook of the collision system empties its list of collisions.
BeginEntitySystem ==
  /\ AtSystem
  /\ Current.enabled /\ Current.type = "entity"
  /\ todo' = AllOfFamily(Current.family)
  /\ IF Current.collides
     THEN stage' = "collide" /\ contacts' = <<>> /\ present' = AllOfFamily(Current.family)
     ELSE stage' = "visit" /\ UNCHANGED <<contacts, present>>
  /\ UNCHANGED <<listVars, entityVars, eventVars, previous, hooks, told>>

EndVisit ==
  /\ stage = "visit" /\ todo # <<>>
  /\ todo' = Tail(todo)
  /\ UNCHANGED <<stage, listVars, entityVars, eventVars, collisionVars>>

EndEntitySystem ==
  /\ stage = "visit" /\ todo = <<>>
  /\ stage' = "systems"
  /\ NextSystem
  /\ UNCHANGED <<systems, entityVars, eventVars, todo, collisionVars>>

-----------------------------------------------------------------------------
(* The collision system.                                                   *)

\* test_for_collisions: an entity is not tested with itself.
MayTouch(e, other) == entity[other].id # entity[e].id

\* collision_entity_system: an entity that is not kinetic is tested with all
\* the others.  At most one of them overlaps it, to bound the contacts.
TestEntity ==
  /\ stage = "collide" /\ todo # <<>>
  /\ todo' = Tail(todo)
  /\ \/ UNCHANGED contacts
     \/ /\ ~ entity[Head(todo)].kinetic /\ Len(contacts) < bounds.contacts
        /\ \E other \in Range(present) :
             /\ MayTouch(Head(todo), other)
             /\ contacts' = Append(contacts, <<Head(todo), other>>)
  /\ UNCHANGED <<stage, listVars, entityVars, eventVars, present, previous, hooks, told>>

\* The hooks due: enter for the contacts that are new, exit for those that are
\* over; none in the first update.
HooksDue ==
  IF previous = NoContacts THEN <<>>
  ELSE LET new == Kept(contacts, Range(contacts) \ Range(previous))
           over == Kept(previous, Range(previous) \ Range(contacts))
       IN [i \in 1 .. Len(new) |-> [hook |-> "enter", contact |-> new[i]]]
          \o [i \in 1 .. Len(over) |-> [hook |-> "exit", contact |-> over[i]]]

\* Fault: the contacts of the first update are compared with for ever.
EndCollisionsOnce ==
  /\ stage = "collide" /\ todo = <<>>
  /\ hooks' = HooksDue
  /\ previous' = IF previous = NoContacts THEN contacts ELSE previous
  /\ contacts' = <<>>
  /\ stage' = "hooks"
  /\ UNCHANGED <<listVars, entityVars, eventVars, todo, present, told>>

\* collision_entity_system_end.  Hooks do not change the two lists, so that the
\* hooks due are settled when it starts and the list of the collisions becomes the
\* previous one.
EndCollisions ==
  /\ stage = "collide" /\ todo = <<>>
  /\ hooks' = HooksDue
  /\ previous' = contacts
  /\ contacts' = <<>>
  /\ stage' = "hooks"
  /\ UNCHANGED <<listVars, entityVars, eventVars, todo, present, told>>

Marked(e) == entity[e].marked

\* handle_enter_hooks and handle_exit_hooks: no exit for an entity that was
\* marked, also by a hook before it.
CallHook ==
  /\ stage = "hooks" /\ hooks # <<>>
  /\ LET h == Head(hooks)
         skipped == h.hook = "exit" /\ (Marked(h.contact[1]) \/ Marked(h.contact[2]))
     IN /\ stage' = IF skipped THEN "hooks" ELSE "hook"
        /\ told' = IF h.hook = "enter" THEN told \cup {h.contact} ELSE told \ {h.contact}
  /\ hooks' = Tail(hooks)
  /\ UNCHANGED <<listVars, entityVars, eventVars, todo, present, contacts, previous>>

EndHook ==
  /\ stage = "hook"
  /\ stage' = "hooks"
  /\ UNCHANGED <<listVars, entityVars, eventVars, todo, collisionVars>>

\* The list of the entities of the family is freed.
EndHooks ==
  /\ stage = "hooks" /\ hooks = <<>>
  /\ stage' = "systems"
  /\ NextSystem
  /\ present' = <<>>
  /\ UNCHANGED <<systems, entityVars, eventVars, todo, contacts, previous, hooks, told>>

-----------------------------------------------------------------------------
(* world_destroy_marked_for_deletion_entities.                             *)

BeginSweep ==
  /\ stage = "systems" /\ node = NULL
  /\ stage' = "sweep"
  /\ node' = entities.head
  /\ UNCHANGED <<systems, entityVars, eventVars, todo, collisionVars>>

Touches(c, e) == \E i \in {1, 2} : entity[c[i]].id = entity[e].id

\* The contacts without those of e: collision_entity_on_entity_destroyed, called
\* when the entity is of the family of the collision system.
WithoutContactsOf(e) ==
  IF previous # NoContacts /\ \E i \in DOMAIN Systems :
       Systems[i].type = "entity" /\ Systems[i].collides /\ PartOf(Systems[i].family, e)
  THEN Kept(previous, {c \in Range(previous) : ~ Touches(c, e)}) ELSE previous

\* One turn: the next node is read before the entity goes.
SweepStep ==
  /\ stage = "sweep" /\ node # NULL
  /\ LET e == entities.nodes[node].data
     IN /\ node' = entities.nodes[node].next
        /\ IF Marked(e)
           THEN /\ DestroyEntity(e)
                /\ previous' = WithoutContactsOf(e)
                /\ told' = {c \in told : e \notin {c[1], c[2]}}
           ELSE UNCHANGED <<entities, entity, previous, told>>
  /\ UNCHANGED <<stage, systems, made, nextId, tags, groups, eventVars, todo, present,
                 contacts, hooks>>

\* world_update returns.
EndSweep ==
  /\ stage = "sweep" /\ node = NULL
  /\ stage' = "idle"
  /\ UNCHANGED <<listVars, entityVars, eventVars, todo, collisionVars>>

-----------------------------------------------------------------------------
GameCode ==
  \/ \E k \in Kinds : Create(k)
  \/ \E e \in DOMAIN entity : Mark(e) \/ Equip(e) \/ \E stays \in BOOLEAN : Retire(e, stays)
  \/ Unequip
  \/ \E t \in EventTypes : PushEvent(t)

Update ==
  \/ BeginUpdate \/ LeaveSystem \/ HandleEvent \/ EndHandler
  \/ BeginEntitySystem \/ EndVisit \/ EndEntitySystem
  \/ TestEntity \/ EndCollisions \/ CallHook \/ EndHook \/ EndHooks
  \/ BeginSweep \/ SweepStep \/ EndSweep

WorldNext ==
  /\ CreateWorld \/ RegisterSystem \/ DestroyWorld \/ GameCode \/ Update
  /\ UNCHANGED bounds

WorldSpec == WorldInit /\ [][WorldNext]_worldVars

-----------------------------------------------------------------------------
(* What the world promises.                                                *)

\* The lists of entities and systems, of every channel and of every group stay
\* linked both ways, whatever is pushed and removed while they are walked
\* (list.c, remove_node_from_list).
ListsAreLinked ==
  /\ WellLinked(entities) /\ WellLinked(systems)
  /\ \A g \in GroupNames : WellLinked(Group(g))
  /\ stage # "none" => \A t \in EventTypes : WellLinked(BagGetAt(bus, t))

\* No list, table, walk or collision refers to an entity that was freed
\* (world.c, collision_entity_system.c); the list of entities names every entity
\* in memory once; and an entity a system has still to visit has the components
\* the system takes out of its bag.
NoDanglingPointers ==
  /\ Range(Items(entities)) = DOMAIN entity /\ entities.count = Cardinality(DOMAIN entity)
  /\ Range(todo) \cup Range(present) \subseteq DOMAIN entity
  /\ \A t \in Tags : Get(tags, t, Missing) \in DOMAIN entity \cup {Missing}
  /\ \A g \in GroupNames : Range(Items(Group(g))) \subseteq DOMAIN entity
  /\ previous # NoContacts =>
       \A c \in Range(previous) \cup {hooks[i].contact : i \in DOMAIN hooks} :
         {c[1], c[2]} \subseteq DOMAIN entity
  /\ stage = "sweep" => node \in DOMAIN entities.nodes \cup {NULL}
  /\ stage = "visit" /\ todo # <<>> =>
       \A e \in Range(Tail(todo)), c \in Current.family.all :
         BagGetAt(entity[e].components, c) # NoItem

\* The enter hooks of a contact are not called again before it is over, and
\* when an update ends no contact whose enter hooks were called was forgotten:
\* the next update still compares with it (collision_entity_system_end).
EntersAndExitsMatch ==
  /\ stage = "hooks" /\ hooks # <<>> /\ Head(hooks).hook = "enter" =>
       Head(hooks).contact \notin told
  /\ stage = "idle" /\ previous # NoContacts => told \subseteq Range(previous)

Abstract == INSTANCE EntityStore WITH
  Entities <- UNION {1 .. b.entities : b \in Bounds}, Names <- Tags,
  Channels <- EventTypes, Values <- UNION {1 .. b.events : b \in Bounds}, Nobody <- Missing,
  alive <- Items(entities),
  marked <- {e \in DOMAIN entity : Marked(e)},
  named <- [t \in Tags |-> Get(tags, t, Missing)],
  members <- [g \in GroupNames |-> Items(Group(g))],
  queued <- [t \in EventTypes |-> IF stage = "none" THEN <<>> ELSE Items(BagGetAt(bus, t))]

\* The lists, the hash tables that grow, the sweep and the callbacks together
\* are the plain store the systems of the game rely on (world.c,
\* entity_tag_manager.c, entity_group_manager.c).
ImplementsEntityStore == Abstract!EmptyStore /\ [][Abstract!StoreNext]_(Abstract!storeVars)
=============================================================================
