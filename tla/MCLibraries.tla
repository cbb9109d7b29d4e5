------------------------------ MODULE MCLibraries ------------------------------
(***************************************************************************)
(* Instances of the parts that share no state and that the game uses side  *)
(* by side: the entity world, the packing of messages, the game timer and  *)
(* the interpolation of positions.  A behaviour of this specification is a *)
(* behaviour of one of them, chosen at the start; the others stand still.  *)
(***************************************************************************)
EXTENDS EntityWorld, NetMessages, GameTimer, Interpolation, TLC

CONSTANTS player1, bomber1, players

VARIABLE part

-----------------------------------------------------------------------------
(* The entity world: two tags and a group in tables of two slots, which    *)
(* grow, and whose hashes collide; the collision system, a system of       *)
(* events, the systems of effects and of lifetimes, and a disabled one, in *)
(* the order of create_game_world.                                         *)

MCKeys == {player1, bomber1, players}
MCHash == (player1 :> 1) @@ (bomber1 :> 5) @@ (players :> 2)
MCTags == {player1, bomber1}
MCGroups == {players}
MCEventTypes == {0}

MCGear == 2
MCKinds ==
  {[components |-> {Physics, MCGear}, kinetic |-> FALSE, tags |-> MCTags, groups |-> MCGroups],
   [components |-> {Physics, Lifetime}, kinetic |-> TRUE, tags |-> {}, groups |-> {}]}

MCFamily(c) == [all |-> {c}, any |-> {}, not |-> {}]
MCVisits(c, enabled) ==
  [type |-> "entity", enabled |-> enabled, family |-> MCFamily(c),
   collides |-> enabled /\ c = Physics, effects |-> c = MCGear]
MCEvents == [type |-> "process", enabled |-> TRUE, consumes |-> 0]
MCSystems ==
  <<MCVisits(Physics, TRUE), MCEvents, MCVisits(MCGear, TRUE), MCVisits(Lifetime, TRUE),
    MCVisits(Physics, FALSE)>>

\* Three entities and no event; two entities, two contacts and two events; an
\* entity with an armor.
MCBound(n, events, n2, armor) ==
  [entities |-> n, events |-> events, contacts |-> n2, armor |-> armor]
MCBounds ==
  {MCBound(3, 0, 1, FALSE), MCBound(2, 2, 2, FALSE), MCBound(1, 1, 0, TRUE)}

-----------------------------------------------------------------------------
(* Messages: each type with the least or the greatest values of its        *)
(* members, bitmaps and positions with the greatest, and connections of    *)
(* one to three players.                                                   *)

MCNickname(n) ==
  [j \in 1 .. PLAYER_NICKNAME_MAX_LENGTH \div 4 |->
    [i \in 1 .. WORD_SIZE |-> (n * j + i) % 2]]
MCBonuses(n) == [i \in 1 .. n |-> i % 5]

MCExtreme(type, greatest) ==
  LET fs == Factory[type + 1]
      vs == [i \in 1 .. Len(fs) |->
              IF fs[i].kind = "row"
              THEN IF greatest THEN [j \in 1 .. fs[i].n |-> fs[i].of.max] ELSE MCBonuses(fs[i].n)
              ELSE IF greatest THEN fs[i].max ELSE fs[i].min]
  IN [type |-> type,
      values |-> vs \o [i \in 1 .. Len(Nicknames(type, fs, vs)) |-> MCNickname(i)]]

MCConnected(n) ==
  [type |-> PLAYER_CONNECTED,
   values |-> [i \in 1 .. 6 |-> 1] \o <<n>> \o [i \in 1 .. n |-> MCNickname(i)]]

BONUS_MAP == 11
PLAYER_KICK_BOMB == 14

MCSampleMessages ==
  {MCExtreme(type, type % 2 = 0) : type \in 0 .. Len(Factory) - 1}
    \cup {MCExtreme(type, TRUE) : type \in {1, BONUS_MAP}}
    \cup {MCConnected(n) : n \in 1 .. 3}
MCFillMessages == {MCConnected(3), MCExtreme(BONUS_MAP, TRUE), MCExtreme(PLAYER_KICK_BOMB, TRUE)}

-----------------------------------------------------------------------------
Init ==
  /\ part \in {"world", "packet", "timer", "interpolation"}
  /\ WorldInit /\ (part # "world" => bounds = MCBound(3, 0, 1, FALSE))
  /\ PacketInit
  /\ TimerInit /\ (part # "timer" => clock = 0)
  /\ InterpolationInit

WorldStep ==
  /\ part = "world" /\ WorldNext
  /\ UNCHANGED <<part, packetVars, timerVars, interpolationVars>>
PacketStep ==
  /\ part = "packet" /\ PacketNext
  /\ UNCHANGED <<part, worldVars, timerVars, interpolationVars>>
TimerStep ==
  /\ part = "timer" /\ TimerNext
  /\ UNCHANGED <<part, worldVars, packetVars, interpolationVars>>
InterpolationStep ==
  /\ part = "interpolation" /\ InterpolationNext
  /\ UNCHANGED <<part, worldVars, packetVars, timerVars>>

Next == WorldStep \/ PacketStep \/ TimerStep \/ InterpolationStep

Spec ==
  Init /\ [][Next]_<<part, worldVars, packetVars, timerVars, interpolationVars>>
================================================================================
