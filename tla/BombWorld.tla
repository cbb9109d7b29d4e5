------------------------------- MODULE BombWorld -------------------------------
(***************************************************************************)
(* The game world of one client: bombs, blasts, destructible walls, kicks, *)
(* the gear and the deaths of the players, as the systems of an update     *)
(* treat them one after the other.  pc says which system is next.  Between *)
(* two updates messages of the server become events of the world.          *)
(*                                                                         *)
(* Players move freely: where the local one drops a bomb, which bomb it    *)
(* touches and whether a blast touches it is left open.  A bomb lies still *)
(* on its cell until it is kicked; then it rolls, some part of a cell per  *)
(* update, a diagonal way in single steps.  Lifetimes end in some later    *)
(* update; those of bombs, all of three seconds, in the order of their     *)
(* creation.  Of the messages this client sends only EXPLODED is kept.     *)
(***************************************************************************)
EXTENDS Integers, Sequences, FiniteSetsExt

CONSTANTS
  Ground,           \* cells of the map that are free when the round starts
  DestWalls,        \* cells with a destructible wall; all others are walls
  Bonuses,          \* kinds of the bonuses hidden in the walls
  MaxDrops,         \* bound: bombs dropped in the round
  MaxMessages,      \* bound: messages that come in during the round
  StrayRanges,      \* bound: ranges and cells that stand in memory where a null
  StrayCells,       \*   pointer leads
  BaseBombsCount, MaxBombsCount,
  BaseRange, MaxRange

ASSUME ConstantsAssumption ==
  /\ Ground \subseteq Int \X Int /\ DestWalls \subseteq Int \X Int
  /\ Ground \cap DestWalls = {} /\ Ground # {}
  /\ Bonuses \subseteq {"extra_bomb", "explosion_expander", "max_explosion", "kick"}
  /\ StrayRanges \subseteq 0 .. MaxRange /\ StrayCells \subseteq Ground \cup DestWalls
  /\ {MaxDrops, MaxMessages, BaseBombsCount, MaxBombsCount, BaseRange, MaxRange} \subseteq Nat
  /\ BaseBombsCount <= MaxBombsCount /\ BaseRange <= MaxRange

VARIABLES
  cells,            \* the map: ground, dest_wall or bomb
  walls,            \* the entities of the destructible walls
  bombs,            \* the entities of the bombs, in the order of their creation
  blasts,           \* the explosion of each bomb
  players,          \* alive, dead (deleted two seconds later) or gone
  gear,
  dropEvents, bonusEvents, kickEvents, explodedEvents,
  received,         \* messages
  made,             \* bombs created
  reported,         \* EXPLODED messages sent
  pc

events == <<dropEvents, bonusEvents, kickEvents, explodedEvents>>
vars == <<cells, walls, bombs, blasts, players, gear, events,
          received, made, reported, pc>>

Interior == Ground \cup DestWalls
Drops == 1 .. MaxDrops
Players == {"local", "remote"}
Dirs == {"left", "right", "up", "down"}

\* The cell n steps from c.
Ahead(c, d, n) ==
  CASE d = "left" -> <<c[1] - n, c[2]>>
    [] d = "right" -> <<c[1] + n, c[2]>>
    [] d = "up" -> <<c[1], c[2] - n>>
    [] d = "down" -> <<c[1], c[2] + n>>

\* Directions in which a bomb kicked on c may roll: those of the velocity of the
\* player, less those in which a wall stops the bomb at once.  In a message the
\* direction is cut to whole numbers, which makes a diagonal one none at all.
Kicks(c) == {ds \in SUBSET {d \in Dirs : Ahead(c, d, 1) \in Interior} :
               ~({"left", "right"} \subseteq ds) /\ ~({"up", "down"} \subseteq ds)}
SentKicks(c) == {ds \in Kicks(c) : Cardinality(ds) <= 1}

Bomb == [
  state : {"none", "fresh", "live", "marked", "gone"},   \* fresh: made in this update
  local : BOOLEAN,             \* in the group of the local player's bombs
  pos : Interior,
  range : 0 .. MaxRange,
  is_kicked : BOOLEAN,         \* by the local player
  still : BOOLEAN,             \* kinetic, and on its cell of the map
  rolls : SUBSET Dirs,
  explosions : Nat]            \* history: calls of bomb_explode

Explosion == [
  state : {"none", "fresh", "burning", "marked", "gone"},
  center : Interior,
  range : 0 .. MaxRange,
  reach : [Dirs -> 0 .. MaxRange]]       \* cells covered besides the center

AnyCell == CHOOSE c \in Interior : TRUE
NoBomb == [state |-> "none", local |-> FALSE, pos |-> AnyCell, range |-> 0,
           is_kicked |-> FALSE, still |-> TRUE, rolls |-> {}, explosions |-> 0]
NoBlast == [state |-> "none", center |-> AnyCell, range |-> 0, reach |-> [d \in Dirs |-> 0]]

Init ==
  /\ cells = [c \in Interior |-> IF c \in Ground THEN "ground" ELSE "dest_wall"]
  /\ walls = [c \in DestWalls |-> "standing"]
  /\ bombs = [b \in Drops |-> NoBomb]
  /\ blasts = [b \in Drops |-> NoBlast]
  /\ players = [p \in Players |-> "alive"]
  /\ gear = [p \in Players |-> [bombs_count |-> BaseBombsCount,
                                explosion_range |-> BaseRange, can_kick |-> FALSE]]
  /\ dropEvents = <<>> /\ bonusEvents = <<>> /\ kickEvents = <<>> /\ explodedEvents = <<>>
  /\ received = 0 /\ made = 0 /\ reported = 0
  /\ pc = "idle"

-----------------------------------------------------------------------------
(* Geometry.                                                               *)

CellAt(c) == IF c \in Interior THEN cells[c] ELSE "wall"

\* Fault: the cell that ends the loop is counted.
ReachTooFar(c, d, range) ==
  Max({n \in 0 .. range : \A i \in 1 .. n - 1 : CellAt(Ahead(c, d, i)) = "ground"})

\* Where the loop over the offsets stops.
Reach(c, d, range) ==
  Max({n \in 0 .. range : \A i \in 1 .. n : CellAt(Ahead(c, d, i)) = "ground"})

NewBlast(c, range) ==
  [state |-> "fresh", center |-> c, range |-> range, reach |-> [d \in Dirs |-> Reach(c, d, range)]]

Abs(n) == IF n < 0 THEN -n ELSE n

\* The colliders are rectangles of whole cells, borders included, so that a
\* target next to the last cell is touched; the hooks then compare the row, or
\* the column, and the range.
HitsH(s, t) ==
  /\ t[2] = s.center[2]
  /\ t[1] + 1 >= s.center[1] - s.reach["left"] /\ t[1] <= s.center[1] + s.reach["right"] + 1
  /\ Abs(t[1] - s.center[1]) <= s.range
HitsV(s, t) ==
  /\ t[1] = s.center[1]
  /\ t[2] + 1 >= s.center[2] - s.reach["up"] /\ t[2] <= s.center[2] + s.reach["down"] + 1
  /\ Abs(t[2] - s.center[2]) <= s.range

Hits(s, t) == HitsH(s, t) \/ HitsV(s, t)

\* A rolling bomb lies between cells: whether a blast near it touches it, and in
\* line, depends on where exactly.
MayHit(s, t) == Hits(s, t) \/ \E d \in Dirs : Hits(s, Ahead(t, d, 1))

Burning == {s \in Drops : blasts[s].state = "burning"}
InBlast(t) == \E s \in Burning : Hits(blasts[s], t)
NearBlast(t) == \E s \in Burning : MayHit(blasts[s], t)

-----------------------------------------------------------------------------
(* Groups of entities, and what an update has left to do.                  *)

\* Fault: the tag stays until the entity is deleted.
HasTagAsDead(p) == players[p] # "gone"

\* A player loses its tags when it dies.
HasTag(p) == players[p] = "alive"

BombsGroup == {b \in Drops : bombs[b].state \in {"fresh", "live"}}
LocalBombsGroup == {b \in BombsGroup : bombs[b].local}

\* find_bomb_entity_at takes the first of them.
BombsAt(c) == {b \in BombsGroup : bombs[b].pos = c}

\* Bombs the local player may touch from outside and kick.
Kickable ==
  {b \in BombsGroup : /\ bombs[b].still /\ ~bombs[b].is_kicked
                      /\ HasTag("local") /\ gear["local"].can_kick}

\* The systems after the inputs, in the order of an update.
Systems == <<"movement", "contacts", "blasts", "spawn", "bonuses", "kicks", "lifetimes",
             "bombs", "players", "end">>

HasWork(system) ==
  CASE system = "movement" -> \E b \in BombsGroup : bombs[b].rolls # {}
    [] system = "contacts" -> Kickable # {}
    [] system = "blasts" -> Burning # {}
    [] system = "spawn" -> dropEvents # <<>>
    [] system = "bonuses" -> bonusEvents # <<>>
    [] system = "kicks" -> kickEvents # <<>>
    [] system = "bombs" -> \E b \in Drops : bombs[b].state = "live"
    [] system = "players" -> explodedEvents # <<>>
    [] OTHER -> TRUE

\* The first system from this one on that has something to do.
From(system) ==
  LET first == CHOOSE i \in DOMAIN Systems : Systems[i] = system
  IN  Systems[Min({i \in first .. Len(Systems) : HasWork(Systems[i])})]

GoOn(system) == pc' = From(system)'

\* What reads or writes through the null pointer of an entity that is not there
\* ends the process or goes on with what is in memory.
GoOnIf(entityIsThere, system) == GoOn(system) \/ (~entityIsThere /\ pc' = "stopped")

\* Fault: the cell keeps the bomb.
BombExplodeKeepsCell(b) ==
  /\ bombs' = [bombs EXCEPT ![b].state = "marked", ![b].explosions = @ + 1]
  /\ blasts' = [blasts EXCEPT ![b] = NewBlast(bombs[b].pos, bombs[b].range)]
  /\ UNCHANGED cells

\* bomb_explode and the mark: the groups lose the bomb.
BombExplode(b) ==
  /\ bombs' = [bombs EXCEPT ![b].state = "marked", ![b].explosions = @ + 1]
  /\ blasts' = [blasts EXCEPT ![b] = NewBlast(bombs[b].pos, bombs[b].range)]
  /\ cells' = [cells EXCEPT ![bombs[b].pos] = "ground"]

\* For a bomb of the local player the gear is looked up by the tag.
OwnerIsThere(b) == bombs[b].local => HasTag("local")

-----------------------------------------------------------------------------
(* Between two updates: messages.                                          *)

\* The events of a message wait for the next update.
Receive ==
  /\ pc = "idle"
  /\ received < MaxMessages
  /\ received' = received + 1
  /\ UNCHANGED <<cells, walls, bombs, blasts, players, gear, made, reported, pc>>

\* The sender's map may be ahead of this one: its bomb may be anywhere.
ReceiveDropBomb(c) ==
  /\ Receive
  /\ made + Len(dropEvents) < MaxDrops
  /\ dropEvents' = Append(dropEvents, [player |-> "remote", pos |-> c])
  /\ UNCHANGED <<bonusEvents, kickEvents, explodedEvents>>

ReceiveKickBomb(c, dirs) ==
  /\ Receive
  /\ kickEvents' = Append(kickEvents, [pos |-> c, dirs |-> dirs])
  /\ UNCHANGED <<dropEvents, bonusEvents, explodedEvents>>

ReceiveApplyBonus(p, bonus) ==
  /\ Receive
  /\ bonusEvents' = Append(bonusEvents, [player |-> p, bonus |-> bonus])
  /\ UNCHANGED <<dropEvents, kickEvents, explodedEvents>>

\* The server forwards one EXPLODED of a player per round, to the others.
ReceiveExploded ==
  /\ Receive
  /\ HasTag("remote") /\ explodedEvents = <<>>
  /\ explodedEvents' = <<"remote">>
  /\ UNCHANGED <<dropEvents, bonusEvents, kickEvents>>

-----------------------------------------------------------------------------
(* The systems, in the order of an update.                                 *)

\* Fault: the bombs that lie there are not counted.
MayDropAlways ==
  /\ players["local"] # "gone"
  /\ made + Len(dropEvents) < MaxDrops

MayDrop ==
  /\ players["local"] # "gone"
  /\ Cardinality(LocalBombsGroup) < gear["local"].bombs_count
  /\ made + Len(dropEvents) < MaxDrops

\* inputs_system and process_inputs: a dead player goes on with the keys that were
\* held last.
ReadInputs ==
  /\ pc = "idle"
  /\ \/ \E c \in Interior :
          /\ MayDrop
          /\ cells[c] = "ground"
          /\ dropEvents' = Append(dropEvents, [player |-> "local", pos |-> c])
     \/ UNCHANGED dropEvents
  /\ UNCHANGED <<cells, walls, bombs, blasts, players, gear, bonusEvents, kickEvents,
                 explodedEvents, made, received, reported>>
  /\ GoOn("movement")

\* Fault: walls do not stop the bomb.
RolledThroughWalls(bomb, d) == [bomb EXCEPT !.pos = Ahead(@, d, 1)]

\* A kicked bomb goes through all but walls, which end its way in that direction.
Rolled(bomb, d) ==
  LET c == Ahead(bomb.pos, d, 1)
      free == c \in Ground \/ (c \in DestWalls /\ walls[c] = "gone")
  IN  IF free THEN [bomb EXCEPT !.pos = c] ELSE [bomb EXCEPT !.rolls = @ \ {d}]

\* movement_entity_system, with the resolution of collisions with walls.
MoveBombs ==
  /\ pc = "movement"
  /\ \E moves \in [BombsGroup -> Dirs \cup {"stay"}] :
       /\ \A b \in BombsGroup : moves[b] \in bombs[b].rolls \cup {"stay"}
       /\ bombs' = [b \in Drops |->
            IF b \in BombsGroup /\ moves[b] # "stay" THEN Rolled(bombs[b], moves[b]) ELSE bombs[b]]
  /\ UNCHANGED <<cells, walls, blasts, players, gear, events, made, received, reported>>
  /\ GoOn("contacts")

\* on_bomb_collision_enter, once the player has left the bomb: a rolling bomb does
\* not collide with players.  The player's collisions come first in the list.
TouchBomb(b, dirs) ==
  /\ pc = "contacts"
  /\ b \in Kickable
  /\ bombs' = [bombs EXCEPT ![b].is_kicked = TRUE]
  /\ kickEvents' = Append(kickEvents, [pos |-> bombs[b].pos, dirs |-> dirs])
  /\ UNCHANGED <<cells, walls, blasts, players, gear, dropEvents, bonusEvents,
                 explodedEvents, made, received, reported>>
  /\ GoOn("contacts")

EndContacts ==
  /\ pc = "contacts"
  /\ UNCHANGED <<cells, walls, bombs, blasts, players, gear, events, made,
                 received, reported>>
  /\ GoOn("blasts")

\* on_bomb_hit_by_explosion.  The hooks of the bombs that are hit run in some order.
HitBomb(b) ==
  /\ pc = "blasts"
  /\ b \in BombsGroup
  /\ IF bombs[b].still THEN InBlast(bombs[b].pos) ELSE NearBlast(bombs[b].pos)
  /\ BombExplode(b)
  /\ UNCHANGED <<walls, players, gear, events, made, received, reported>>
  /\ GoOnIf(OwnerIsThere(b), "blasts")

\* The hooks of the walls, whose lifetime starts again with each blast and is longer
\* than the blast's, and of the local player, one per collider that it enters: two
\* stand for more.
EndBlasts ==
  /\ pc = "blasts"
  /\ \A b \in BombsGroup : bombs[b].still => ~InBlast(bombs[b].pos)
  /\ walls' = [c \in DestWalls |->
                 IF walls[c] # "gone" /\ InBlast(c) THEN "lit" ELSE walls[c]]
  /\ \E hits \in 0 .. 2 :
       /\ hits > 0 => players["local"] = "alive"
       /\ explodedEvents' = explodedEvents \o [i \in 1 .. hits |-> "local"]
  /\ UNCHANGED <<cells, bombs, blasts, players, gear, dropEvents, bonusEvents,
                 kickEvents, made, received, reported>>
  /\ GoOn("spawn")

\* handle_player_drop_bomb_event: the range is read from the gear of a player that
\* may have died.
SpawnBomb ==
  /\ pc = "spawn"
  /\ LET ev == Head(dropEvents)
         isThere == HasTag(ev.player)
     IN  /\ \E range \in IF isThere THEN {gear[ev.player].explosion_range} ELSE StrayRanges :
              bombs' = [bombs EXCEPT ![made + 1] =
                   [NoBomb EXCEPT !.state = "fresh", !.local = ev.player = "local",
                                  !.pos = ev.pos, !.range = range]]
         /\ cells' = [cells EXCEPT ![ev.pos] = "bomb"]
         /\ made' = made + 1
         /\ dropEvents' = Tail(dropEvents)
         /\ UNCHANGED <<walls, blasts, players, gear, bonusEvents, kickEvents,
                        explodedEvents, received, reported>>
         /\ GoOnIf(isThere, "spawn")

AtMost(n, limit) == IF n < limit THEN n ELSE limit

\* Of the other players only the range is ever read.
Equipped(p, g, bonus) ==
  CASE bonus = "explosion_expander" -> [g EXCEPT !.explosion_range = AtMost(@ + 1, MaxRange)]
    [] bonus = "max_explosion" -> [g EXCEPT !.explosion_range = AtMost(@ + MaxRange, MaxRange)]
    [] bonus = "extra_bomb" /\ p = "local" ->
         [g EXCEPT !.bombs_count = AtMost(@ + 1, MaxBombsCount)]
    [] bonus = "kick" /\ p = "local" -> [g EXCEPT !.can_kick = TRUE]
    [] OTHER -> g

\* handle_local_player_picked_up_event.
ApplyBonus ==
  /\ pc = "bonuses"
  /\ LET ev == Head(bonusEvents)
         isThere == HasTag(ev.player)
     IN  /\ gear' = IF isThere THEN [gear EXCEPT ![ev.player] = Equipped(ev.player, @, ev.bonus)]
                    ELSE gear
         /\ bonusEvents' = Tail(bonusEvents)
         /\ UNCHANGED <<cells, walls, bombs, blasts, players, dropEvents,
                        kickEvents, explodedEvents, made, received, reported>>
         /\ GoOnIf(isThere, "bonuses")

Cleared(c) == [cells EXCEPT ![c] = "ground"]

\* handle_player_kick_bomb_event.  The bomb may have exploded in the meantime; the
\* position then read is anything.
KickBomb ==
  /\ pc = "kicks"
  /\ LET ev == Head(kickEvents)
         at == BombsAt(ev.pos)
     IN  /\ IF at # {}
              THEN /\ bombs' = [bombs EXCEPT ![Min(at)].still = FALSE, ![Min(at)].rolls = ev.dirs]
                   /\ cells' = Cleared(ev.pos)
              ELSE /\ UNCHANGED bombs
                   /\ (\E c \in StrayCells : cells' = Cleared(c)) \/ UNCHANGED cells
         /\ kickEvents' = Tail(kickEvents)
         /\ UNCHANGED <<walls, blasts, players, gear, dropEvents, bonusEvents,
                        explodedEvents, made, received, reported>>
         /\ GoOnIf(at # {}, "kicks")

\* lifetime_entity_system: walls and players are older than bombs; that blasts end
\* among the bombs changes nothing for these, nor that the other player is deleted.
ExpireOthers ==
  /\ pc = "lifetimes"
  /\ \E ws \in SUBSET {c \in DestWalls : walls[c] = "burning"}, ss \in SUBSET Burning :
       /\ walls' = [c \in DestWalls |-> IF c \in ws THEN "gone" ELSE walls[c]]
       /\ cells' = [c \in Interior |-> IF c \in ws THEN "ground" ELSE cells[c]]
       /\ blasts' = [s \in Drops |-> IF s \in ss THEN [blasts[s] EXCEPT !.state = "marked"]
                                     ELSE blasts[s]]
  /\ \/ players["local"] = "dead" /\ players' = [players EXCEPT !["local"] = "gone"]
     \/ UNCHANGED players
  /\ UNCHANGED <<bombs, gear, events, made, received, reported>>
  /\ GoOn("bombs")

\* Fault: the mark is not looked at.
HasNoMarkIgnored(b) == bombs[b].state \in {"live", "marked"}

\* Fault: the owner's gear is needed.
HasNoMarkAndOwner(b) == bombs[b].state = "live" /\ OwnerIsThere(b)

\* Made in an earlier update and not marked for deletion in this one.
HasNoMark(b) == bombs[b].state = "live"

\* The lifetime of the oldest bomb is over.
ExpireBomb(b) ==
  /\ pc = "bombs"
  /\ HasNoMark(b)
  /\ \A older \in 1 .. b - 1 : bombs[older].state # "live"
  /\ BombExplode(b)
  /\ UNCHANGED <<walls, players, gear, events, made, received, reported>>
  /\ GoOnIf(OwnerIsThere(b), "bombs")

EndLifetimes ==
  /\ pc = "bombs"
  /\ UNCHANGED <<cells, walls, bombs, blasts, players, gear, events, made,
                 received, reported>>
  /\ GoOn("players")

\* handle_player_exploded_event: the player is looked up by its tag.
ExplodePlayer ==
  /\ pc = "players"
  /\ LET p == Head(explodedEvents)
     IN  IF HasTag(p)
           THEN /\ players' = [players EXCEPT ![p] = "dead"]
                /\ reported' = IF p = "local" THEN reported + 1 ELSE reported
           ELSE UNCHANGED <<players, reported>>
  /\ explodedEvents' = Tail(explodedEvents)
  /\ UNCHANGED <<cells, walls, bombs, blasts, gear, dropEvents, bonusEvents,
                 kickEvents, made, received>>
  /\ GoOn("players")

\* Marked entities are destroyed; the others have been there for an update.
EndUpdate ==
  /\ pc = "end"
  /\ pc' = "idle"
  /\ bombs' = [b \in Drops |->
       CASE bombs[b].state = "fresh" -> [bombs[b] EXCEPT !.state = "live"]
         [] bombs[b].state = "marked" ->
              [NoBomb EXCEPT !.state = "gone", !.explosions = bombs[b].explosions]
         [] OTHER -> bombs[b]]
  /\ blasts' = [s \in Drops |->
       CASE blasts[s].state = "fresh" -> [blasts[s] EXCEPT !.state = "burning"]
         [] blasts[s].state = "marked" -> [NoBlast EXCEPT !.state = "gone"]
         [] OTHER -> blasts[s]]
  /\ walls' = [c \in DestWalls |-> IF walls[c] = "lit" THEN "burning" ELSE walls[c]]
  /\ UNCHANGED <<cells, players, gear, events, made, received, reported>>

-----------------------------------------------------------------------------
System ==
  \/ ReadInputs \/ MoveBombs \/ EndContacts \/ EndBlasts \/ SpawnBomb \/ ApplyBonus
  \/ KickBomb \/ ExpireOthers \/ EndLifetimes \/ ExplodePlayer \/ EndUpdate
  \/ \E b \in Drops : HitBomb(b)

ExpireOldestBomb == \E b \in Drops : ExpireBomb(b)

Next ==
  \/ System
  \/ ExpireOldestBomb
  \/ \E c \in Interior : ReceiveDropBomb(c) \/ \E dirs \in SentKicks(c) : ReceiveKickBomb(c, dirs)
  \/ \E p \in Players, bonus \in Bonuses : ReceiveApplyBonus(p, bonus)
  \/ ReceiveExploded
  \/ \E b \in Drops : \E dirs \in Kicks(bombs[b].pos) : TouchBomb(b, dirs)

Spec == Init /\ [][Next]_vars

\* The browser calls for updates, and the clock passes the date of the oldest bomb.
FairSpec == Spec /\ WF_vars(System) /\ SF_vars(ExpireOldestBomb)

-----------------------------------------------------------------------------
(* Properties.                                                             *)

\* The variables have their types.
TypeOK ==
  /\ cells \in [Interior -> {"ground", "dest_wall", "bomb"}]
  /\ walls \in [DestWalls -> {"standing", "lit", "burning", "gone"}]
  /\ bombs \in [Drops -> Bomb]
  /\ blasts \in [Drops -> Explosion]
  /\ players \in [Players -> {"alive", "dead", "gone"}]
  /\ gear \in [Players -> [bombs_count : 0 .. MaxBombsCount, explosion_range : 0 .. MaxRange,
                           can_kick : BOOLEAN]]
  /\ dropEvents \in Seq([player : Players, pos : Interior])
  /\ bonusEvents \in Seq([player : Players, bonus : Bonuses])
  /\ kickEvents \in Seq([pos : Interior, dirs : SUBSET Dirs])
  /\ explodedEvents \in Seq(Players)
  /\ received \in 0 .. MaxMessages /\ made \in 0 .. MaxDrops /\ reported \in Nat
  /\ pc \in {"idle", "stopped"} \cup {Systems[i] : i \in DOMAIN Systems}

\* A bomb explodes once, though several blasts may reach it, and its own lifetime
\* end, in one update.
ExplodesOnce == \A b \in Drops : bombs[b].explosions <= 1

\* What keeps a cell of the map occupied is there to be seen and destroyed, a bomb
\* that lies on it or the entity of its wall, whatever explodes, rolls away or is
\* dropped by others on the same cell.
NoGhosts ==
  \A c \in Interior :
    /\ cells[c] = "bomb" => \E b \in BombsAt(c) : bombs[b].still
    /\ cells[c] = "dest_wall" => c \in DestWalls /\ walls[c] # "gone"

\* The sight of an explosion: along a row or a column, as far as its range, up to
\* the first cell that is not ground, this one included.
InSight(c, range, t) ==
  t = c \/ \E d \in Dirs, n \in 1 .. range :
             t = Ahead(c, d, n) /\ \A i \in 1 .. n - 1 : CellAt(Ahead(c, d, i)) = "ground"

\* The colliders of an explosion, one cell wider on each side since borders count,
\* and the tests of the hooks together hit exactly what is in its sight.
BlastsHitWhatTheySee ==
  pc = "bombs" =>
    \A c \in Interior, range \in 0 .. MaxRange, t \in Interior :
      Hits(NewBlast(c, range), t) <=> InSight(c, range, t)

\* The local player never has more bombs on the map than its gear allows, kicked
\* ones included, although a drop becomes a bomb some systems later.
BombsWithinGear == Cardinality(LocalBombsGroup) <= gear["local"].bombs_count

\* The death of the local player is reported, and only once, however many blasts it
\* is in: the server counts on it.
DeathReportedOnce ==
  /\ reported <= 1
  /\ players["local"] = "alive" <=> reported = 0

\* Every bomb explodes in the end, also when it rolls and when its owner is dead or
\* gone, unless the process stopped at a null pointer.
EveryBombExplodes ==
  \A b \in Drops : bombs[b].state # "none" ~> (bombs[b].explosions > 0 \/ pc = "stopped")
=============================================================================
