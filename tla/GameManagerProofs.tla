--------------------------- MODULE GameManagerProofs ---------------------------
(***************************************************************************)
(* Proofs about the game server, for any number of sessions, any arguments *)
(* of the server, any largest score and any map.                           *)
(***************************************************************************)
EXTENDS GameManager, FiniteSetTheorems, SequenceTheorems, TLAPS

-----------------------------------------------------------------------------
(* The messages a step sends.                                              *)

LEMMA SilenceType == Silence \in [Ids -> Seq(Message)]
BY DEF Silence

LEMMA MsgType ==
  ASSUME NEW type \in Types, NEW id \in Ids \cup {Nobody}
  PROVE  Msg(type, id) \in Message
BY DEF Msg, Message

LEMMA ToAllType ==
  ASSUME NEW ps, NEW messages \in Seq(Message)
  PROVE  ToAll(ps, messages) \in [Ids -> Seq(Message)]
BY DEF ToAll

LEMMA ToOthersType ==
  ASSUME NEW id, NEW message \in Message
  PROVE  ToOthers(id, message) \in [Ids -> Seq(Message)]
<1>1. <<message>> \in Seq(Message)
  OBVIOUS
<1> QED
  BY <1>1 DEF ToOthers

-----------------------------------------------------------------------------
(* The players.                                                            *)

LEMMA NewPlayerType == \A s \in Ids : NewPlayer(s) \in Player
BY DEF NewPlayer, Player

LEMMA PlayerUpdates ==
  ASSUME NEW p \in Player
  PROVE  /\ [p EXCEPT !.is_dead = TRUE] \in Player
         /\ [p EXCEPT !.is_dead = FALSE] \in Player
         /\ [p EXCEPT !.is_ready = TRUE] \in Player
         /\ [p EXCEPT !.score = @ + 1] \in Player
         /\ p.id \in Ids
<1>1. [p EXCEPT !.is_dead = TRUE] \in Player
  BY DEF Player
<1>2. [p EXCEPT !.is_dead = FALSE] \in Player
  BY DEF Player
<1>3. [p EXCEPT !.is_ready = TRUE] \in Player
  BY DEF Player
<1>4. [p EXCEPT !.score = @ + 1] \in Player
  BY DEF Player
<1>5. p.id \in Ids
  BY DEF Player
<1> QED
  BY <1>1, <1>2, <1>3, <1>4, <1>5

LEMMA FirstIsLeast ==
  ASSUME NEW n \in Nat, NEW S \in SUBSET (1 .. n), S # {}
  PROVE  First(S) \in S /\ \A j \in S : First(S) <= j
<1> DEFINE R == StrictSubsetOrdering(1 .. n)
           F == FiniteSubsetsOf(1 .. n)
           T == {1 .. k : k \in S}
<1>1. IsWellFoundedOn(R, F)
  BY FS_StrictSubsetOrderingWellFounded
<1>2. T \subseteq F /\ T # {}
  <2>1. \A k \in S : IsFiniteSet(1 .. k) /\ 1 .. k \subseteq 1 .. n
    BY FS_Interval
  <2> QED
    BY <2>1 DEF FiniteSubsetsOf
<1>3. \E x \in T : \A y \in T : ~ (<<y, x>> \in R)
  <2> HIDE DEF R, F, T
  <2> QED
    BY <1>1, <1>2, WFMin
<1>4. PICK i \in S : \A j \in S : ~ (<<1 .. j, 1 .. i>> \in R)
  BY <1>3
<1>5. ASSUME NEW j \in S, j < i PROVE FALSE
  <2>1. 1 .. j \subseteq 1 .. i /\ 1 .. j # 1 .. i /\ 1 .. i \subseteq 1 .. n
    <3>1. i \in 1 .. i /\ i \notin 1 .. j
      BY <1>5
    <3> QED
      BY <1>5, <3>1
  <2> QED
    BY <1>4, <2>1 DEF StrictSubsetOrdering
<1>6. \A j \in S : i <= j
  BY <1>5
<1> HIDE DEF R, F, T
<1> QED
  BY <1>6 DEF First

LEMMA AliveIsFinite ==
  ASSUME NEW ps \in Seq(Player)
  PROVE  /\ Alive(ps) \in SUBSET (1 .. Len(ps))
         /\ IsFiniteSet(Alive(ps))
         /\ Cardinality(Alive(ps)) \in Nat
<1>1. Alive(ps) \in SUBSET (1 .. Len(ps)) /\ Len(ps) \in Nat
  BY DEF Alive
<1>2. IsFiniteSet(1 .. Len(ps))
  BY <1>1, FS_Interval
<1>3. IsFiniteSet(Alive(ps))
  BY <1>1, <1>2, FS_Subset
<1> QED
  BY <1>1, <1>3, FS_CardinalityType

LEMMA ScoredType ==
  ASSUME NEW ps \in Seq(Player)
  PROVE  /\ Scored(ps) \in Seq(Player)
         /\ Len(Scored(ps)) = Len(ps)
         /\ Winner(ps) \in Ids \cup {Nobody}
<1>1. CASE Alive(ps) = {}
  BY <1>1 DEF Scored, Winner
<1>2. CASE Alive(ps) # {}
  <2> DEFINE f == First(Alive(ps))
  <2>1. f \in 1 .. Len(ps)
    <3>1. Alive(ps) \in SUBSET (1 .. Len(ps)) /\ Len(ps) \in Nat
      BY AliveIsFinite
    <3>2. First(Alive(ps)) \in Alive(ps)
      BY <1>2, <3>1, FirstIsLeast
    <3> QED
      BY <3>1, <3>2
  <2>2. ps[f] \in Player
    BY <2>1
  <2>3. [ps[f] EXCEPT !.score = @ + 1] \in Player
    BY <2>2, PlayerUpdates
  <2>4. Scored(ps) = [ps EXCEPT ![f] = [ps[f] EXCEPT !.score = @ + 1]]
    BY <1>2 DEF Scored
  <2>5. Winner(ps) = ps[f].id
    BY <1>2 DEF Winner
  <2> HIDE DEF f
  <2>6. Winner(ps) \in Ids
    BY <2>2, <2>5, PlayerUpdates
  <2> QED
    BY <2>1, <2>3, <2>4, <2>6, ExceptSeq
<1> QED
  BY <1>1, <1>2

LEMMA ResetType ==
  ASSUME NEW ps \in Seq(Player)
  PROVE  Reset(ps) \in Seq(Player) /\ Len(Reset(ps)) = Len(ps)
<1>1. \A i \in DOMAIN ps : [ps[i] EXCEPT !.is_dead = FALSE] \in Player
  <2>1. ASSUME NEW i \in DOMAIN ps PROVE ps[i] \in Player
    OBVIOUS
  <2> QED
    BY <2>1, PlayerUpdates
<1>2. /\ Len(ps) \in Nat /\ DOMAIN ps = 1 .. Len(ps)
      /\ Reset(ps) \in [1 .. Len(ps) -> Player]
  BY <1>1 DEF Reset
<1> HIDE DEF Reset
<1>3. Reset(ps) \in Seq(Player)
  BY <1>2, SeqDef
<1>4. DOMAIN Reset(ps) = 1 .. Len(ps)
  BY <1>2
<1> QED
  BY <1>2, <1>3, <1>4

LEMMA PutPlayer ==
  ASSUME NEW ps \in Seq(Player), NEW i \in 1 .. Len(ps), NEW p \in Player, NEW qs,
         qs = [ps EXCEPT ![i] = p]
  PROVE  /\ qs \in Seq(Player) /\ Len(qs) = Len(ps)
         /\ \A j \in 1 .. Len(ps) : qs[j] = IF j = i THEN p ELSE ps[j]
BY ExceptSeq

\* ps with the player at i marked dead, or ready.
MarkedDead(ps, i) == [ps EXCEPT ![i].is_dead = TRUE]
MarkedReady(ps, i) == [ps EXCEPT ![i].is_ready = TRUE]

LEMMA MarkDead ==
  ASSUME NEW ps \in Seq(Player), NEW i \in 1 .. Len(ps), NEW qs, qs = MarkedDead(ps, i)
  PROVE  /\ qs \in Seq(Player) /\ Len(qs) = Len(ps)
         /\ \A j \in 1 .. Len(ps) : qs[j].id = ps[j].id /\ qs[j].score = ps[j].score
         /\ qs[i].is_dead
         /\ \A j \in 1 .. Len(ps) : j # i => qs[j].is_dead = ps[j].is_dead
<1>1. ps[i] \in Player
  OBVIOUS
<1> DEFINE p == [ps[i] EXCEPT !.is_dead = TRUE]
<1>2. p \in Player /\ p.id = ps[i].id /\ p.score = ps[i].score /\ p.is_dead = TRUE
  BY <1>1, PlayerUpdates DEF Player
<1>3. qs = [ps EXCEPT ![i] = p]
  BY DEF MarkedDead
<1> HIDE DEF p
<1>4. /\ qs \in Seq(Player) /\ Len(qs) = Len(ps)
      /\ \A j \in 1 .. Len(ps) : qs[j] = IF j = i THEN p ELSE ps[j]
  BY <1>2, <1>3, PutPlayer
<1> QED
  BY <1>2, <1>4

LEMMA MarkReady ==
  ASSUME NEW ps \in Seq(Player), NEW i \in 1 .. Len(ps), NEW qs, qs = MarkedReady(ps, i)
  PROVE  /\ qs \in Seq(Player) /\ Len(qs) = Len(ps)
         /\ \A j \in 1 .. Len(ps) : qs[j].id = ps[j].id /\ qs[j].score = ps[j].score
         /\ \A j \in 1 .. Len(ps) : qs[j].is_dead = ps[j].is_dead
<1>1. ps[i] \in Player
  OBVIOUS
<1> DEFINE p == [ps[i] EXCEPT !.is_ready = TRUE]
<1>2. p \in Player /\ p.id = ps[i].id /\ p.score = ps[i].score /\ p.is_dead = ps[i].is_dead
  BY <1>1, PlayerUpdates DEF Player
<1>3. qs = [ps EXCEPT ![i] = p]
  BY DEF MarkedReady
<1> HIDE DEF p
<1>4. /\ qs \in Seq(Player) /\ Len(qs) = Len(ps)
      /\ \A j \in 1 .. Len(ps) : qs[j] = IF j = i THEN p ELSE ps[j]
  BY <1>2, <1>3, PutPlayer
<1> QED
  BY <1>2, <1>4

\* What closing a round makes of the players: the first one alive scores, then
\* everyone is alive.
LEMMA CloseEffect ==
  ASSUME NEW ps \in Seq(Player), NEW qs, qs = Reset(Scored(ps))
  PROVE  /\ qs \in Seq(Player) /\ Len(qs) = Len(ps)
         /\ \A j \in 1 .. Len(ps) :
              /\ qs[j].id = ps[j].id /\ qs[j].is_dead = FALSE
              /\ qs[j].score = IF Alive(ps) # {} /\ j = First(Alive(ps))
                                 THEN ps[j].score + 1 ELSE ps[j].score
<1> DEFINE ss == Scored(ps)
<1>1. ss \in Seq(Player) /\ Len(ss) = Len(ps)
  BY ScoredType
<1>2. qs \in Seq(Player) /\ Len(qs) = Len(ps)
  BY <1>1, ResetType
<1>3. \A j \in 1 .. Len(ps) :
         /\ ss[j].id = ps[j].id
         /\ ss[j].score = IF Alive(ps) # {} /\ j = First(Alive(ps))
                            THEN ps[j].score + 1 ELSE ps[j].score
  <2>1. CASE Alive(ps) = {}
    BY <2>1 DEF Scored
  <2>2. CASE Alive(ps) # {}
    <3> DEFINE f == First(Alive(ps))
               p == [ps[f] EXCEPT !.score = @ + 1]
    <3>1. f \in 1 .. Len(ps)
      <4>1. Alive(ps) \in SUBSET (1 .. Len(ps)) /\ Len(ps) \in Nat
        BY AliveIsFinite
      <4>2. First(Alive(ps)) \in Alive(ps)
        BY <2>2, <4>1, FirstIsLeast
      <4> QED
        BY <4>1, <4>2
    <3>2. ss = [ps EXCEPT ![f] = p]
      BY <2>2 DEF Scored
    <3> HIDE DEF f
    <3>3. ps[f] \in Player
      BY <3>1
    <3>4. p \in Player /\ p.id = ps[f].id /\ p.score = ps[f].score + 1
      BY <3>3, PlayerUpdates DEF Player
    <3> HIDE DEF p, ss
    <3>5. \A j \in 1 .. Len(ps) : ss[j] = IF j = f THEN p ELSE ps[j]
      BY <3>1, <3>2, <3>4, ExceptSeq
    <3> QED
      BY <2>2, <3>4, <3>5 DEF f
  <2> QED
    BY <2>1, <2>2
<1>4. ASSUME NEW j \in 1 .. Len(ps)
      PROVE  qs[j].id = ss[j].id /\ qs[j].score = ss[j].score /\ qs[j].is_dead = FALSE
  <2>1. ss[j] \in Player /\ j \in DOMAIN ss
    BY <1>1, <1>4
  <2>2. qs[j] = [ss[j] EXCEPT !.is_dead = FALSE]
    BY <2>1 DEF Reset
  <2> HIDE DEF ss
  <2> QED
    BY <2>1, <2>2 DEF Player
<1> QED
  BY <1>2, <1>3, <1>4

-----------------------------------------------------------------------------
(* Every variable has its type.                                            *)

LEMMA TypeInit == Init => TypeOK
<1> SUFFICES ASSUME Init PROVE TypeOK
  OBVIOUS
<1>1. players \in Seq(Player) /\ newPlayers \in Seq(Ids) /\ explosions \in Seq(DOMAIN players)
  BY DEF Init
<1>2. sends \in [Ids -> Seq(Message)]
  BY SilenceType DEF Init
<1>3. granted \in [Cells -> Nat]
  BY DEF Init
<1> QED
  BY <1>1, <1>2, <1>3 DEF Init, TypeOK, States, TickParts, Hooks

\* What a handler of the packets does to the players it knows.
LEMMA TypeEnterRound ==
  ASSUME TypeOK, NEW before \in Seq(Message), EnterRoundPlaying(before)
  PROVE  /\ fsm' \in States /\ round_is_over' \in BOOLEAN /\ bonuses' \subseteq Cells
         /\ sends' \in [Ids -> Seq(Message)] /\ exploded' \subseteq Ids
         /\ granted' \in [Cells -> Nat]
<1>1. Msg("bonus_map", Nobody) \in Message /\ Msg("round_start", Nobody) \in Message
  BY MsgType DEF Types
<1>2. before \o <<Msg("bonus_map", Nobody), Msg("round_start", Nobody)>> \in Seq(Message)
  BY <1>1
<1> QED
  BY <1>2, ToAllType DEF EnterRoundPlaying, States

LEMMA TypeStep == TypeOK /\ [Next]_vars => TypeOK'
<1> SUFFICES ASSUME TypeOK, [Next]_vars PROVE TypeOK'
  OBVIOUS
<1> USE ConstantsAssumption
<1>0. Nobody \in Ids \cup {Nobody} /\ Silence \in [Ids -> Seq(Message)]
  BY SilenceType
<1>1. ASSUME NEW s \in Ids, OnPlayerSessionReady(s) PROVE TypeOK'
  BY <1>0, <1>1 DEF TypeOK, OnPlayerSessionReady, clientVars
<1>2. ASSUME NEW id \in Ids, ClientReadies(id) PROVE TypeOK'
  <2>1. Msg("player_ready", id) \in Message
    BY MsgType DEF Types
  <2>2. sends' \in [Ids -> Seq(Message)]
    BY <1>2, <2>1, ToOthersType DEF ClientReadies, HandlePlayerReady
  <2>3. players' \in Seq(Player) /\ Len(players') = Len(players)
    <3>1. CASE IsPlayer(id)
      <4>1. At(id) \in 1 .. Len(players) /\ players \in Seq(Player)
        BY <3>1 DEF TypeOK, IsPlayer
      <4>2. [players[At(id)] EXCEPT !.is_ready = TRUE] \in Player
        BY <4>1, ElementOfSeq, PlayerUpdates
      <4>3. players' = [players EXCEPT ![At(id)] = [players[At(id)] EXCEPT !.is_ready = TRUE]]
        BY <1>2, <3>1 DEF ClientReadies, HandlePlayerReady
      <4> QED
        BY <4>1, <4>2, <4>3, ExceptSeq
    <3>2. CASE ~IsPlayer(id)
      BY <1>2, <3>2 DEF ClientReadies, HandlePlayerReady, TypeOK
    <3> QED
      BY <3>1, <3>2
  <2>4. explosions' \in Seq(DOMAIN players')
    BY <1>2, <2>3 DEF ClientReadies, HandlePlayerReady, TypeOK
  <2> QED
    BY <1>2, <2>2, <2>3, <2>4 DEF TypeOK, ClientReadies, HandlePlayerReady
<1>3. ASSUME NEW id \in Ids, ClientExplodes(id) PROVE TypeOK'
  <2>1. Msg("player_exploded", id) \in Message
    BY MsgType DEF Types
  <2>2. sends' \in [Ids -> Seq(Message)]
    BY <1>0, <1>3, <2>1, ToOthersType DEF ClientExplodes, HandlePlayerExploded
  <2>3. explosions' \in Seq(DOMAIN players)
    <3>1. CASE IsSender(id)
      <4>1. At(id) \in DOMAIN players /\ explosions \in Seq(DOMAIN players)
        BY <3>1 DEF IsSender, IsPlayer, TypeOK
      <4>2. explosions' = Append(explosions, At(id))
        BY <1>3, <3>1 DEF ClientExplodes, HandlePlayerExploded
      <4> QED
        BY <4>1, <4>2
    <3>2. CASE ~IsSender(id)
      BY <1>3, <3>2 DEF ClientExplodes, HandlePlayerExploded, TypeOK
    <3> QED
      BY <3>1, <3>2
  <2> QED
    BY <1>3, <2>2, <2>3 DEF TypeOK, ClientExplodes, HandlePlayerExploded
<1>4. ASSUME NEW id \in Ids, HandlePlayerDropBomb(id) PROVE TypeOK'
  <2>1. Msg("player_drop_bomb", id) \in Message
    BY MsgType DEF Types
  <2>2. sends' \in [Ids -> Seq(Message)]
    BY <1>0, <1>4, <2>1, ToOthersType DEF HandlePlayerDropBomb
  <2> QED
    BY <1>4, <2>2 DEF TypeOK, HandlePlayerDropBomb, serverVars, clientVars
<1>5. ASSUME NEW id \in Ids, HandlePlayerKickBomb(id) PROVE TypeOK'
  <2>1. Msg("player_kick_bomb", id) \in Message
    BY MsgType DEF Types
  <2>2. sends' \in [Ids -> Seq(Message)]
    BY <1>0, <1>5, <2>1, ToOthersType DEF HandlePlayerKickBomb
  <2> QED
    BY <1>5, <2>2 DEF TypeOK, HandlePlayerKickBomb, serverVars, clientVars
<1>6. ASSUME NEW id \in Ids, HandlePing(id) PROVE TypeOK'
  <2>1. Msg("pong", id) \in Message
    BY MsgType DEF Types
  <2>2. <<Msg("pong", id)>> \in Seq(Message)
    BY <2>1
  <2>3. sends' \in [Ids -> Seq(Message)]
    BY <1>0, <1>6, <2>2 DEF HandlePing
  <2> QED
    BY <1>6, <2>3 DEF TypeOK, HandlePing, serverVars, clientVars
<1>7. ASSUME NEW id \in Ids, NEW c \in Cells, HandlePlayerPickupBonus(id, c) PROVE TypeOK'
  <2>1. Msg("player_apply_bonus", id) \in Message
    BY MsgType DEF Types
  <2>2. <<Msg("player_apply_bonus", id)>> \in Seq(Message)
    BY <2>1
  <2>3. sends' \in [Ids -> Seq(Message)]
    BY <1>0, <1>7, <2>2, ToAllType DEF HandlePlayerPickupBonus
  <2>4. bonuses' \subseteq Cells /\ granted' \in [Cells -> Nat]
    <3>1. CASE c \in bonuses
      BY <1>7, <3>1 DEF HandlePlayerPickupBonus, TypeOK
    <3>2. CASE c \notin bonuses
      BY <1>7, <3>2 DEF HandlePlayerPickupBonus, TypeOK
    <3> QED
      BY <3>1, <3>2
  <2> QED
    BY <1>7, <2>3, <2>4 DEF TypeOK, HandlePlayerPickupBonus
<1>8. ASSUME EndPackets \/ EndSpawn \/ EndExplode \/ EndTimers \/ EndUpdate \/ EndTick \/ AbortOnScore
      PROVE  TypeOK'
  BY <1>0, <1>8 DEF TypeOK, EndPackets, EndSpawn, EndExplode, EndTimers, EndUpdate, EndTick,
    AbortOnScore, serverVars, clientVars, TickParts
<1>9. ASSUME SpawnPlayer PROVE TypeOK'
  <2>1. Head(newPlayers) \in Ids /\ Tail(newPlayers) \in Seq(Ids)
    BY <1>9 DEF SpawnPlayer, TypeOK
  <2>2. players' \in Seq(Player) /\ Len(players') = Len(players) + 1 /\ Len(players) \in Nat
    BY <1>9, <2>1, NewPlayerType DEF SpawnPlayer, TypeOK
  <2>3. <<Msg("player_connected", Head(newPlayers))>> \in Seq(Message)
    BY <2>1, MsgType DEF Types
  <2>4. sends' \in [Ids -> Seq(Message)]
    BY <1>9, <2>3, ToAllType DEF SpawnPlayer
  <2>5. explosions' \in Seq(DOMAIN players')
    <3>1. explosions' = explosions /\ explosions \in Seq(DOMAIN players)
      BY <1>9 DEF SpawnPlayer, TypeOK
    <3>2. DOMAIN players \subseteq DOMAIN players'
      BY <2>2 DEF TypeOK
    <3> QED
      BY <3>1, <3>2
  <2> QED
    BY <1>9, <2>1, <2>2, <2>4, <2>5 DEF TypeOK, SpawnPlayer, clientVars
<1>10. ASSUME ExplodePlayer PROVE TypeOK'
  <2> DEFINE h == Head(explosions)
  <2>1. h \in 1 .. Len(players) /\ Tail(explosions) \in Seq(DOMAIN players)
    BY <1>10 DEF ExplodePlayer, TypeOK
  <2>2. [players[h] EXCEPT !.is_dead = TRUE] \in Player
    BY <2>1, ElementOfSeq, PlayerUpdates DEF TypeOK
  <2>3. players' = [players EXCEPT ![h] = [players[h] EXCEPT !.is_dead = TRUE]]
    BY <1>10 DEF ExplodePlayer
  <2>4. players' \in Seq(Player) /\ DOMAIN players' = DOMAIN players
    BY <2>1, <2>2, <2>3, ExceptSeq DEF TypeOK
  <2> QED
    BY <1>0, <1>10, <2>1, <2>4 DEF TypeOK, ExplodePlayer, clientVars
<1>11. ASSUME CloseRound PROVE TypeOK'
  <2>1. /\ players' \in Seq(Player) /\ Len(players') = Len(players)
        /\ Winner(players) \in Ids \cup {Nobody}
    BY <1>11, ScoredType, ResetType DEF CloseRound, TypeOK
  <2>2. <<Msg("round_over", Winner(players))>> \in Seq(Message)
    BY <2>1, MsgType DEF Types
  <2>3. sends' \in [Ids -> Seq(Message)]
    BY <1>11, <2>2, ToAllType DEF CloseRound
  <2>4. explosions' \in Seq(DOMAIN players')
    BY <1>11, <2>1 DEF CloseRound, TypeOK
  <2>5. timer' \subseteq Hooks /\ fsm' \in States /\ pc' \in TickParts
    BY <1>11 DEF CloseRound, TypeOK, Hooks, States, TickParts
  <2> QED
    BY <1>11, <2>1, <2>3, <2>4, <2>5 DEF TypeOK, CloseRound, clientVars
<1>12. ASSUME NextRound PROVE TypeOK'
  <2>1. <<>> \in Seq(Message) /\ EnterRoundPlaying(<<>>)
    BY <1>12 DEF NextRound
  <2>2. timer' \subseteq Hooks /\ pc' \in TickParts
    BY <1>12 DEF NextRound, TypeOK, TickParts
  <2> QED
    BY <1>12, <2>1, <2>2, TypeEnterRound DEF TypeOK, NextRound
<1>13. ASSUME GameReady PROVE TypeOK'
  <2>1. <<Msg("game_ready", Nobody)>> \in Seq(Message)
    BY <1>0, MsgType DEF Types
  <2>2. EnterRoundPlaying(<<Msg("game_ready", Nobody)>>)
    BY <1>13 DEF GameReady
  <2>3. timer' \subseteq Hooks /\ pc' \in TickParts
    BY <1>13 DEF GameReady, TypeOK, TickParts
  <2> QED
    BY <1>13, <2>1, <2>2, <2>3, TypeEnterRound DEF TypeOK, GameReady
<1>14. ASSUME WaitForGame \/ EndRound PROVE TypeOK'
  BY <1>0, <1>14 DEF TypeOK, WaitForGame, EndRound, Hooks, TickParts, clientVars
<1>15. ASSUME UNCHANGED vars PROVE TypeOK'
  BY <1>15 DEF TypeOK, vars, serverVars, clientVars
<1> QED
  BY <1>1, <1>2, <1>3, <1>4, <1>5, <1>6, <1>7, <1>8, <1>9, <1>10, <1>11, <1>12, <1>13, <1>14,
     <1>15 DEF Next, HandleMessage, Tick

\* Every variable keeps its type, and an explosion waits only for a player of the array,
\* in whichever order sessions get ready.
THEOREM TypeCorrect == Spec => []TypeOK
BY TypeInit, TypeStep, PTL DEF Spec

-----------------------------------------------------------------------------
(* Bonuses.                                                                *)

\* A bonus still on the map has not been granted in this round.
Bonuses == \A c \in Cells : granted[c] <= 1 /\ (c \in bonuses => granted[c] = 0)

LEMMA BonusesStep == TypeOK /\ Bonuses /\ [Next]_vars => Bonuses'
<1> SUFFICES ASSUME TypeOK, Bonuses, [Next]_vars PROVE Bonuses'
  OBVIOUS
<1>1. ASSUME NEW id \in Ids, NEW c \in Cells, HandlePlayerPickupBonus(id, c) PROVE Bonuses'
  <2>1. CASE c \in bonuses
    <3>1. bonuses' = bonuses \ {c} /\ granted' = [granted EXCEPT ![c] = @ + 1]
      BY <1>1, <2>1 DEF HandlePlayerPickupBonus
    <3> QED
      BY <2>1, <3>1 DEF Bonuses, TypeOK
  <2>2. CASE c \notin bonuses
    BY <1>1, <2>2 DEF HandlePlayerPickupBonus, Bonuses
  <2> QED
    BY <2>1, <2>2
<1>2. ASSUME NEW before, EnterRoundPlaying(before) PROVE Bonuses'
  BY <1>2 DEF EnterRoundPlaying, Bonuses
<1>3. ASSUME UNCHANGED <<bonuses, granted>> PROVE Bonuses'
  BY <1>3 DEF Bonuses
<1> QED
  BY <1>1, <1>2, <1>3 DEF Next, HandleMessage, Tick, vars, serverVars, clientVars,
    OnPlayerSessionReady, ClientReadies, HandlePlayerReady, ClientExplodes,
    HandlePlayerExploded, HandlePlayerDropBomb,
    HandlePlayerKickBomb, HandlePing, EndPackets, SpawnPlayer, EndSpawn, ExplodePlayer,
    EndExplode, CloseRound, NextRound, EndTimers, GameReady, WaitForGame, EndRound, EndUpdate,
    EndTick, AbortOnScore

\* However many players report the same bonus, and in whichever order, it is granted at
\* most once per round.
THEOREM BonusOnce == Spec => []BonusGrantedOnce
<1>1. Init => Bonuses
  BY DEF Init, Bonuses
<1>2. Bonuses => BonusGrantedOnce
  BY DEF Bonuses, BonusGrantedOnce
<1> QED
  BY <1>1, <1>2, TypeCorrect, BonusesStep, PTL DEF Spec

-----------------------------------------------------------------------------
(* Indexes and ids, when sessions get ready in the order of their ids.     *)

\* The sessions ready are the first ones; their players are in the array, then
\* in the pending events, each at the index its id says.
Arrival ==
  /\ sessions = 0 .. Len(players) + Len(newPlayers) - 1
  /\ Len(players) + Len(newPlayers) <= Sessions
  /\ \A i \in 1 .. Len(players) : players[i].id = i - 1
  /\ \A i \in 1 .. Len(newPlayers) : newPlayers[i] = Len(players) + i - 1

LEMMA ArrivalStep ==
  ASSUME InOrder
  PROVE  TypeOK /\ Arrival /\ [Next]_vars => Arrival'
<1> SUFFICES ASSUME TypeOK, Arrival, [Next]_vars PROVE Arrival'
  OBVIOUS
<1> USE ConstantsAssumption
<1>0. /\ players \in Seq(Player) /\ newPlayers \in Seq(Ids) /\ explosions \in Seq(1 .. Len(players))
      /\ Len(players) \in Nat /\ Len(newPlayers) \in Nat
      /\ DOMAIN players = 1 .. Len(players)
  BY DEF TypeOK
<1>1. ASSUME NEW s \in Ids, OnPlayerSessionReady(s) PROVE Arrival'
  <2> DEFINE n == Len(players) + Len(newPlayers)
  <2>1. s = n
    <3>1. s \notin 0 .. n - 1 /\ \A t \in Ids : t < s => t \in 0 .. n - 1
      BY <1>1 DEF OnPlayerSessionReady, Arrival
    <3>2. s \in Nat /\ n \in Nat /\ n <= Sessions /\ s < Sessions
      BY <1>0 DEF Ids, Arrival
    <3> HIDE DEF n
    <3>3. n < s => n \in Ids
      BY <3>2 DEF Ids
    <3>4. ~(n < s)
      BY <3>1, <3>2, <3>3
    <3> QED
      BY <3>1, <3>2, <3>4
  <2>2. /\ newPlayers' = Append(newPlayers, s) /\ sessions' = sessions \cup {s}
        /\ players' = players
    BY <1>1 DEF OnPlayerSessionReady
  <2>3. Len(newPlayers') = Len(newPlayers) + 1
    BY <1>0, <2>2
  <2>4. \A i \in 1 .. Len(newPlayers') : newPlayers'[i] = Len(players') + i - 1
    BY <1>0, <2>1, <2>2 DEF Arrival
  <2>5. sessions' = 0 .. Len(players') + Len(newPlayers') - 1
    BY <1>0, <2>1, <2>2, <2>3 DEF Arrival
  <2>6. Len(players') + Len(newPlayers') <= Sessions
    BY <1>0, <2>1, <2>2, <2>3 DEF Ids
  <2> QED
    BY <2>2, <2>4, <2>5, <2>6 DEF Arrival
<1>2. ASSUME SpawnPlayer PROVE Arrival'
  <2>1. /\ newPlayers # <<>> /\ newPlayers' = Tail(newPlayers) /\ sessions' = sessions
        /\ players' = Append(players, NewPlayer(Head(newPlayers)))
    BY <1>2 DEF SpawnPlayer
  <2>2. /\ Len(newPlayers) > 0 /\ Len(newPlayers') = Len(newPlayers) - 1
        /\ Len(players') = Len(players) + 1
    BY <1>0, <2>1
  <2>3. Head(newPlayers) = Len(players)
    BY <1>0, <2>1, <2>2 DEF Arrival
  <2>4. \A i \in 1 .. Len(players') : players'[i].id = i - 1
    BY <1>0, <2>1, <2>3 DEF Arrival, NewPlayer
  <2>5. \A i \in 1 .. Len(newPlayers') : newPlayers'[i] = Len(players') + i - 1
    <3>1. ASSUME NEW i \in 1 .. Len(newPlayers') PROVE newPlayers'[i] = Len(players') + i - 1
      <4>1. newPlayers'[i] = newPlayers[i + 1] /\ i + 1 \in 1 .. Len(newPlayers)
        BY <1>0, <2>1, <2>2, <3>1
      <4> QED
        BY <1>0, <2>2, <4>1 DEF Arrival
    <3> QED
      BY <3>1
  <2> QED
    BY <1>0, <2>1, <2>2, <2>4, <2>5 DEF Arrival
<1>3. ASSUME /\ players' \in Seq(Player) /\ Len(players') = Len(players)
             /\ \A i \in 1 .. Len(players) : players'[i].id = players[i].id
             /\ UNCHANGED <<sessions, newPlayers>>
      PROVE  Arrival'
  BY <1>0, <1>3 DEF Arrival
<1>4. ASSUME NEW id \in Ids, ClientReadies(id) PROVE Arrival'
  <2>1. CASE IsPlayer(id)
    <3>1. /\ At(id) \in 1 .. Len(players) /\ UNCHANGED <<sessions, newPlayers>>
          /\ players' = MarkedReady(players, At(id))
      BY <1>0, <1>4, <2>1 DEF ClientReadies, HandlePlayerReady, IsPlayer, MarkedReady
    <3> QED
      BY <1>0, <1>3, <3>1, MarkReady
  <2>2. CASE ~IsPlayer(id)
    BY <1>4, <2>2 DEF ClientReadies, HandlePlayerReady, Arrival
  <2> QED
    BY <2>1, <2>2
<1>5. ASSUME ExplodePlayer PROVE Arrival'
  <2> DEFINE h == Head(explosions)
  <2>1. h \in 1 .. Len(players)
    BY <1>0, <1>5 DEF ExplodePlayer
  <2>2. players' = MarkedDead(players, h) /\ UNCHANGED <<sessions, newPlayers>>
    BY <1>5 DEF ExplodePlayer, MarkedDead
  <2> HIDE DEF h
  <2>3. /\ players' \in Seq(Player) /\ Len(players') = Len(players)
        /\ \A i \in 1 .. Len(players) : players'[i].id = players[i].id
    BY <1>0, <2>1, <2>2, MarkDead
  <2> QED
    BY <1>3, <2>2, <2>3
<1>6. ASSUME CloseRound PROVE Arrival'
  <2>1. players' = Reset(Scored(players)) /\ UNCHANGED <<sessions, newPlayers>>
    BY <1>6 DEF CloseRound
  <2> QED
    BY <1>0, <1>3, <2>1, CloseEffect
<1>7. ASSUME UNCHANGED <<sessions, newPlayers, players>> PROVE Arrival'
  BY <1>7 DEF Arrival
<1> QED
  BY <1>1, <1>2, <1>4, <1>5, <1>6, <1>7 DEF Next, HandleMessage, Tick, vars, serverVars,
    clientVars, ClientExplodes, HandlePlayerExploded, HandlePlayerDropBomb,
    HandlePlayerKickBomb, HandlePing, HandlePlayerPickupBonus, EndPackets, EndSpawn,
    EndExplode, NextRound, EndTimers, GameReady, WaitForGame, EndRound, EndUpdate,
    EndTick, AbortOnScore

LEMMA ArrivalInvariant ==
  ASSUME InOrder
  PROVE  Spec => [](TypeOK /\ Arrival)
<1> USE ConstantsAssumption
<1>1. Init => Arrival
  BY DEF Init, Arrival
<1>2. TypeOK /\ Arrival /\ [Next]_vars => Arrival'
  BY ArrivalStep
<1> QED
  BY <1>1, <1>2, TypeCorrect, PTL DEF Spec

LEMMA IndexIsId ==
  ASSUME TypeOK, Arrival, NEW id \in IdsIn(players)
  PROVE  IsSender(id) /\ At(id) \in 1 .. Len(players)
<1>1. PICK i \in DOMAIN players : players[i].id = id
  BY DEF IdsIn
<1>2. i \in 1 .. Len(players) /\ Len(players) \in Nat /\ DOMAIN players = 1 .. Len(players)
  BY DEF TypeOK
<1>3. id = i - 1
  BY <1>1, <1>2 DEF Arrival
<1> QED
  BY <1>1, <1>2, <1>3 DEF IsSender, IsPlayer, At

\* When sessions get ready in the order of their ids, the server forwards every explosion
\* a client reports to all the other clients.
THEOREM Forwarded ==
  ASSUME InOrder
  PROVE  Spec => ForwardsExplosions
<1>1. TypeOK /\ Arrival =>
        [\A id \in Ids : ClientExplodes(id) =>
           \A other \in IdsIn(players) \ {id} : sends'[other] = <<Msg("player_exploded", id)>>]_vars
  <2> SUFFICES ASSUME TypeOK, Arrival, NEW id \in Ids, ClientExplodes(id),
                      NEW other \in IdsIn(players) \ {id}
               PROVE  sends'[other] = <<Msg("player_exploded", id)>>
    OBVIOUS
  <2>1. IsSender(id)
    BY IndexIsId DEF ClientExplodes, Plays
  <2>2. sends' = ToOthers(id, Msg("player_exploded", id))
    BY <2>1 DEF ClientExplodes, HandlePlayerExploded
  <2>3. other \in Ids
    <3>1. PICK i \in DOMAIN players : players[i].id = other
      BY DEF IdsIn
    <3>2. players[i] \in Player
      BY <3>1 DEF TypeOK
    <3> QED
      BY <3>1, <3>2, PlayerUpdates
  <2> QED
    BY <2>2, <2>3 DEF ToOthers
<1> QED
  BY <1>1, ArrivalInvariant, PTL DEF ForwardsExplosions

-----------------------------------------------------------------------------
(* The hooks of the timers.                                                *)

\* Every state waits for exactly the hook it has set.
Hooked ==
  /\ fsm = "game_waiting" => timer = IF is_game_ready THEN {"game_ready"} ELSE {}
  /\ fsm = "round_playing" => timer = IF round_is_over THEN {"close_round"} ELSE {}
  /\ fsm = "next_round_waiting" => timer = {"next_round"}
  /\ fsm # "game_waiting" => is_game_ready

LEMMA HookedStep == TypeOK /\ Hooked /\ [Next]_vars => Hooked'
<1> SUFFICES ASSUME TypeOK, Hooked, [Next]_vars PROVE Hooked'
  OBVIOUS
<1>0. /\ fsm \in States /\ is_game_ready \in BOOLEAN /\ round_is_over \in BOOLEAN
  BY DEF TypeOK
<1>1. ASSUME CloseRound PROVE Hooked'
  BY <1>0, <1>1 DEF CloseRound, Hooked, States
<1>2. ASSUME NextRound PROVE Hooked'
  BY <1>0, <1>2 DEF NextRound, EnterRoundPlaying, Hooked, States
<1>3. ASSUME GameReady PROVE Hooked'
  BY <1>0, <1>3 DEF GameReady, EnterRoundPlaying, Hooked, States
<1>4. ASSUME WaitForGame PROVE Hooked'
  BY <1>0, <1>4 DEF WaitForGame, Hooked, States
<1>5. ASSUME EndRound PROVE Hooked'
  BY <1>0, <1>5 DEF EndRound, Hooked, States
<1>6. ASSUME UNCHANGED <<fsm, timer, is_game_ready, round_is_over>> PROVE Hooked'
  BY <1>6 DEF Hooked
<1> QED
  BY <1>1, <1>2, <1>3, <1>4, <1>5, <1>6 DEF Next, HandleMessage, Tick, vars, serverVars,
    clientVars, OnPlayerSessionReady, ClientReadies, HandlePlayerReady, ClientExplodes,
    HandlePlayerExploded,
    HandlePlayerDropBomb, HandlePlayerKickBomb, HandlePing, HandlePlayerPickupBonus,
    EndPackets, SpawnPlayer, EndSpawn, ExplodePlayer, EndExplode, EndTimers, EndUpdate,
    EndTick, AbortOnScore

-----------------------------------------------------------------------------
(* The rounds, when all the sessions are those of the expected players.    *)

\* The game waits for all the players.
AllHere == is_game_ready => Len(players) = Sessions

\* Nobody dies before the first round.
LobbyAlive ==
  fsm = "game_waiting" => explosions = <<>> /\ \A i \in 1 .. Len(players) : ~players[i].is_dead

\* A round found over stays over until it is closed.
Survivors == fsm = "round_playing" /\ round_is_over => Cardinality(Alive(players)) <= 1

\* The events are consumed when the timers are looked at.
Consumed == pc = "timers" => explosions = <<>>

\* A player that has exploded in the round played is dead, or about to be.
DeadKnown ==
  fsm = "round_playing" =>
    \A id \in exploded :
      /\ At(id) \in 1 .. Len(players)
      /\ \/ players[At(id)].is_dead
         \/ \E k \in 1 .. Len(explosions) : explosions[k] = At(id)

IInv == TypeOK /\ Arrival /\ Hooked /\ AllHere /\ LobbyAlive /\ Survivors /\ Consumed /\ DeadKnown

\* The players in qs are those in ps, as alive and with the same scores.
Kept(ps, qs) ==
  /\ Len(qs) = Len(ps)
  /\ \A j \in 1 .. Len(ps) :
       qs[j].id = ps[j].id /\ qs[j].score = ps[j].score /\ qs[j].is_dead = ps[j].is_dead

LEMMA ReadyKeeps ==
  ASSUME TypeOK, NEW id \in Ids, ClientReadies(id)
  PROVE  Kept(players, players')
<1>0. players \in Seq(Player) /\ DOMAIN players = 1 .. Len(players)
  BY DEF TypeOK
<1>1. CASE IsPlayer(id)
  <2>1. At(id) \in 1 .. Len(players)
    BY <1>0, <1>1 DEF IsPlayer
  <2>2. players' = MarkedReady(players, At(id))
    BY <1>1 DEF ClientReadies, HandlePlayerReady, MarkedReady
  <2> QED
    BY <1>0, <2>1, <2>2, MarkReady DEF Kept
<1>2. CASE ~IsPlayer(id)
  BY <1>2 DEF ClientReadies, HandlePlayerReady, Kept
<1> QED
  BY <1>1, <1>2

LEMMA ExplodeEffect ==
  ASSUME TypeOK, ExplodePlayer
  PROVE  /\ Head(explosions) \in 1 .. Len(players)
         /\ players' \in Seq(Player) /\ Len(players') = Len(players)
         /\ \A j \in 1 .. Len(players) :
              players'[j].id = players[j].id /\ players'[j].score = players[j].score
         /\ players'[Head(explosions)].is_dead
         /\ \A j \in 1 .. Len(players) :
              j # Head(explosions) => players'[j].is_dead = players[j].is_dead
<1> DEFINE h == Head(explosions)
<1>1. players \in Seq(Player) /\ h \in 1 .. Len(players)
  BY DEF TypeOK, ExplodePlayer
<1>2. players' = MarkedDead(players, h)
  BY DEF ExplodePlayer, MarkedDead
<1> HIDE DEF h
<1>3. /\ players' \in Seq(Player) /\ Len(players') = Len(players)
      /\ \A j \in 1 .. Len(players) :
           players'[j].id = players[j].id /\ players'[j].score = players[j].score
      /\ players'[h].is_dead
      /\ \A j \in 1 .. Len(players) : j # h => players'[j].is_dead = players[j].is_dead
  BY <1>1, <1>2, MarkDead
<1> QED
  BY <1>1, <1>3 DEF h

\* What a step does to the players and to the round.
LEMMA StepEffects ==
  ASSUME TypeOK, [Next]_vars
  PROVE  \/ SpawnPlayer
         \/ ExplodePlayer
         \/ CloseRound
         \/ /\ Kept(players, players')
            /\ \/ NextRound
               \/ GameReady
               \/ WaitForGame
               \/ EndRound
               \/ UNCHANGED <<fsm, is_game_ready, round_is_over>>
<1>1. ASSUME UNCHANGED players PROVE Kept(players, players')
  BY <1>1 DEF Kept
<1>2. ASSUME NEW id \in Ids, ClientReadies(id)
      PROVE  Kept(players, players') /\ UNCHANGED <<fsm, is_game_ready, round_is_over>>
  BY <1>2, ReadyKeeps DEF ClientReadies, HandlePlayerReady
<1> QED
  BY <1>1, <1>2 DEF Next, HandleMessage, Tick, vars, serverVars,
    clientVars, OnPlayerSessionReady, ClientExplodes, HandlePlayerExploded,
    HandlePlayerDropBomb, HandlePlayerKickBomb, HandlePing, HandlePlayerPickupBonus,
    EndPackets, EndSpawn, EndExplode, NextRound, EndTimers, GameReady, WaitForGame, EndRound,
    EndUpdate, EndTick, AbortOnScore

\* Nobody comes once the game is ready.
LEMMA NobodyComes ==
  ASSUME TypeOK, Arrival, AllHere, is_game_ready
  PROVE  newPlayers = <<>> /\ ~SpawnPlayer
<1>1. Len(newPlayers) \in Nat /\ Len(players) \in Nat /\ newPlayers \in Seq(Ids)
  BY DEF TypeOK
<1>2. Len(newPlayers) = 0
  BY <1>1, ConstantsAssumption DEF Arrival, AllHere
<1>3. newPlayers = <<>>
  BY <1>1, <1>2
<1> QED
  BY <1>3 DEF SpawnPlayer

LEMMA AllHereStep ==
  ASSUME ExpectedPlayers = Sessions, TypeOK, Arrival, AllHere, [Next]_vars
  PROVE  AllHere'
<1> USE ConstantsAssumption
<1>0. /\ players \in Seq(Player) /\ Len(players) \in Nat /\ Len(newPlayers) \in Nat
      /\ DOMAIN players = 1 .. Len(players)
  BY DEF TypeOK
<1>1. CASE SpawnPlayer
  BY <1>1, NobodyComes DEF SpawnPlayer, AllHere
<1>2. CASE ExplodePlayer
  BY <1>2, ExplodeEffect DEF ExplodePlayer, AllHere
<1>3. CASE CloseRound
  <2>1. Len(players') = Len(players)
    BY <1>0, <1>3, CloseEffect DEF CloseRound
  <2> QED
    BY <1>3, <2>1 DEF CloseRound, AllHere
<1>4. CASE WaitForGame
  <2>1. ReadyPlayers \in SUBSET (1 .. Len(players)) /\ Cardinality(ReadyPlayers) = Sessions
    BY <1>0, <1>4 DEF ReadyPlayers, WaitForGame
  <2>2. IsFiniteSet(1 .. Len(players)) /\ Cardinality(1 .. Len(players)) = Len(players)
    <3>1. \A n \in Nat : IsFiniteSet(1 .. n) /\ Cardinality(1 .. n) = n
      BY FS_Interval
    <3> QED
      BY <1>0, <3>1
  <2>3. Sessions <= Len(players)
    BY <2>1, <2>2, FS_Subset
  <2>4. Len(players) = Sessions
    <3> DEFINE m == Len(players)
               n == Len(newPlayers)
    <3>1. m + n <= Sessions /\ Sessions <= m /\ m \in Nat /\ n \in Nat /\ Sessions \in Nat
      BY <1>0, <2>3 DEF Arrival
    <3> HIDE DEF m, n
    <3>2. m = Sessions
      BY ONLY <3>1
    <3> QED
      BY <3>2 DEF m
  <2> QED
    BY <1>4, <2>4 DEF WaitForGame, AllHere
<1>5. CASE Kept(players, players') /\ UNCHANGED is_game_ready
  BY <1>5 DEF Kept, AllHere
<1> QED
  BY <1>1, <1>2, <1>3, <1>4, <1>5, StepEffects DEF NextRound, GameReady, EndRound

LEMMA SurvivorsStep ==
  ASSUME TypeOK, Arrival, Hooked, AllHere, Survivors, [Next]_vars
  PROVE  Survivors'
<1>0. players \in Seq(Player) /\ DOMAIN players = 1 .. Len(players)
  BY DEF TypeOK
<1>1. CASE SpawnPlayer
  BY <1>1, NobodyComes DEF SpawnPlayer, Hooked, Survivors
<1>2. CASE ExplodePlayer
  <2>1. Alive(players') \in SUBSET Alive(players)
    <3>1. DOMAIN players' = DOMAIN players
      BY <1>0, <1>2, ExplodeEffect
    <3> QED
      BY <1>0, <1>2, <3>1, ExplodeEffect DEF Alive
  <2>2. Cardinality(Alive(players')) <= Cardinality(Alive(players))
    BY <1>0, <2>1, AliveIsFinite, FS_Subset
  <2>3. Cardinality(Alive(players')) \in Nat /\ Cardinality(Alive(players)) \in Nat
    <3>1. players' \in Seq(Player)
      BY <1>2, ExplodeEffect
    <3> QED
      BY <1>0, <3>1, AliveIsFinite
  <2> QED
    BY <1>2, <2>2, <2>3 DEF ExplodePlayer, Survivors
<1>3. CASE CloseRound
  BY <1>3 DEF CloseRound, Survivors
<1>4. CASE NextRound \/ GameReady
  BY <1>4 DEF NextRound, GameReady, EnterRoundPlaying, Survivors
<1>5. CASE EndRound
  BY <1>5 DEF EndRound, IsRoundOver, Survivors
<1>6. CASE Kept(players, players') /\ UNCHANGED <<fsm, round_is_over>>
  <2>1. players' \in Seq(Player)
    BY TypeStep DEF TypeOK
  <2>2. Alive(players') = Alive(players)
    BY <1>0, <1>6, <2>1 DEF Alive, Kept
  <2> QED
    BY <1>6, <2>2 DEF Survivors
<1> QED
  BY <1>1, <1>2, <1>3, <1>4, <1>5, <1>6, StepEffects DEF WaitForGame

LEMMA LobbyAliveStep ==
  ASSUME TypeOK, LobbyAlive, [Next]_vars
  PROVE  LobbyAlive'
<1>0. players \in Seq(Player) /\ newPlayers \in Seq(Ids) /\ Len(players) \in Nat
  BY DEF TypeOK
<1>1. CASE SpawnPlayer
  <2> DEFINE p == NewPlayer(Head(newPlayers))
  <2>1. players' = Append(players, p) /\ UNCHANGED <<fsm, explosions>>
    BY <1>1 DEF SpawnPlayer
  <2>2. p.is_dead = FALSE
    BY DEF NewPlayer
  <2> HIDE DEF p
  <2>3. /\ Len(players') = Len(players) + 1 /\ players'[Len(players) + 1] = p
        /\ \A i \in 1 .. Len(players) : players'[i] = players[i]
    BY <1>0, <2>1
  <2>4. \A i \in 1 .. Len(players') : i \in 1 .. Len(players) \/ i = Len(players) + 1
    BY <1>0, <2>3
  <2> QED
    BY <2>1, <2>2, <2>3, <2>4 DEF LobbyAlive
<1>2. CASE ExplodePlayer
  BY <1>2 DEF ExplodePlayer, LobbyAlive
<1>3. CASE CloseRound
  BY <1>3 DEF CloseRound, LobbyAlive
<1>4. CASE NextRound \/ GameReady
  BY <1>4 DEF NextRound, GameReady, EnterRoundPlaying, LobbyAlive
<1>5. CASE /\ Kept(players, players') /\ UNCHANGED fsm
           /\ fsm = "game_waiting" => UNCHANGED explosions
  BY <1>5 DEF Kept, LobbyAlive
<1>6. fsm = "game_waiting" /\ ~UNCHANGED explosions => ExplodePlayer
  BY DEF Next, HandleMessage, Tick, vars, serverVars, Plays,
    clientVars, OnPlayerSessionReady, ClientReadies, HandlePlayerReady, ClientExplodes,
    HandlePlayerExploded,
    HandlePlayerDropBomb, HandlePlayerKickBomb, HandlePing, HandlePlayerPickupBonus,
    EndPackets, EndSpawn, SpawnPlayer, EndExplode, CloseRound, NextRound, EndTimers, GameReady,
    WaitForGame, EndRound, EndUpdate, EndTick, AbortOnScore
<1> QED
  BY <1>1, <1>2, <1>3, <1>4, <1>5, <1>6, StepEffects DEF WaitForGame, EndRound

LEMMA ConsumedStep ==
  ASSUME TypeOK, Consumed, [Next]_vars
  PROVE  Consumed'
BY DEF Consumed, Next, HandleMessage, Tick, vars, serverVars,
    clientVars, OnPlayerSessionReady, ClientReadies, HandlePlayerReady, ClientExplodes,
    HandlePlayerExploded,
    HandlePlayerDropBomb, HandlePlayerKickBomb, HandlePing, HandlePlayerPickupBonus,
    EndPackets, EndSpawn, SpawnPlayer, ExplodePlayer, EndExplode, CloseRound, NextRound,
    EndTimers, GameReady, WaitForGame, EndRound, EndUpdate, EndTick, AbortOnScore

\* What a step does to the explosions.
LEMMA ExplosionEffects ==
  ASSUME TypeOK, [Next]_vars
  PROVE  \/ \E id \in Ids : ClientExplodes(id)
         \/ ExplodePlayer
         \/ NextRound
         \/ GameReady
         \/ UNCHANGED <<explosions, exploded>>
BY DEF Next, HandleMessage, Tick, vars, serverVars,
    clientVars, OnPlayerSessionReady, ClientReadies, HandlePlayerReady,
    HandlePlayerDropBomb, HandlePlayerKickBomb, HandlePing, HandlePlayerPickupBonus,
    EndPackets, EndSpawn, SpawnPlayer, EndExplode, CloseRound,
    EndTimers, WaitForGame, EndRound, EndUpdate, EndTick, AbortOnScore

LEMMA DeadKnownStep ==
  ASSUME TypeOK, Arrival, Hooked, AllHere, LobbyAlive, DeadKnown, [Next]_vars
  PROVE  DeadKnown'
<1>0. /\ players \in Seq(Player) /\ Len(players) \in Nat
      /\ explosions \in Seq(1 .. Len(players)) /\ Len(explosions) \in Nat
  BY DEF TypeOK
<1>1. ASSUME NEW id \in Ids, ClientExplodes(id) PROVE DeadKnown'
  <2>1. IsSender(id) /\ At(id) \in 1 .. Len(players)
    BY <1>1, IndexIsId DEF ClientExplodes, Plays
  <2>2. /\ explosions' = Append(explosions, At(id)) /\ exploded' = exploded \cup {id}
        /\ UNCHANGED <<fsm, players>>
    BY <1>1, <2>1 DEF ClientExplodes, HandlePlayerExploded
  <2> DEFINE a == At(id)
  <2>3. /\ Len(explosions') = Len(explosions) + 1 /\ explosions'[Len(explosions) + 1] = a
        /\ \A k \in 1 .. Len(explosions) : explosions'[k] = explosions[k]
    BY <1>0, <2>1, <2>2
  <2>4. Len(explosions) + 1 \in 1 .. Len(explosions')
    BY <1>0, <2>3
  <2>5. 1 .. Len(explosions) \subseteq 1 .. Len(explosions')
    BY <1>0, <2>3
  <2>6. ASSUME fsm' = "round_playing", NEW x \in exploded'
        PROVE  /\ At(x) \in 1 .. Len(players')
               /\ \/ players'[At(x)].is_dead
                  \/ \E k \in 1 .. Len(explosions') : explosions'[k] = At(x)
    <3>1. CASE x = id
      BY <2>1, <2>2, <2>3, <2>4, <3>1
    <3>2. CASE x \in exploded
      BY <2>2, <2>3, <2>5, <2>6, <3>2 DEF DeadKnown
    <3> QED
      BY <2>2, <2>6, <3>1, <3>2
  <2> QED
    BY <2>6 DEF DeadKnown
<1>2. CASE ExplodePlayer
  <2> DEFINE h == Head(explosions)
  <2>1. /\ explosions # <<>> /\ explosions' = Tail(explosions) /\ UNCHANGED <<fsm, exploded>>
    BY <1>2 DEF ExplodePlayer, clientVars
  <2>2. /\ h = explosions[1] /\ Len(explosions') = Len(explosions) - 1
        /\ \A k \in 1 .. Len(explosions') : explosions'[k] = explosions[k + 1]
    BY <1>0, <2>1
  <2>3. /\ Len(players') = Len(players) /\ players'[h].is_dead /\ h \in 1 .. Len(players)
        /\ \A j \in 1 .. Len(players) : j # h => players'[j].is_dead = players[j].is_dead
    BY <1>2, ExplodeEffect
  <2> HIDE DEF h
  <2>4. ASSUME fsm' = "round_playing", NEW x \in exploded'
        PROVE  /\ At(x) \in 1 .. Len(players')
               /\ \/ players'[At(x)].is_dead
                  \/ \E k \in 1 .. Len(explosions') : explosions'[k] = At(x)
    <3>1. /\ At(x) \in 1 .. Len(players)
          /\ \/ players[At(x)].is_dead
             \/ \E k \in 1 .. Len(explosions) : explosions[k] = At(x)
      BY <2>1, <2>4 DEF DeadKnown
    <3>2. CASE At(x) = h
      BY <2>3, <3>1, <3>2
    <3>3. CASE At(x) # h
      <4>1. CASE players[At(x)].is_dead
        BY <2>3, <3>1, <3>3, <4>1
      <4>2. ASSUME NEW k \in 1 .. Len(explosions), explosions[k] = At(x)
            PROVE  \E m \in 1 .. Len(explosions') : explosions'[m] = At(x)
        <5>1. k # 1
          BY <2>2, <3>3, <4>2
        <5>2. k - 1 \in 1 .. Len(explosions') /\ (k - 1) + 1 = k
          BY <1>0, <2>2, <5>1
        <5> QED
          BY <2>2, <4>2, <5>2
      <4> QED
        BY <2>3, <3>1, <4>1, <4>2
    <3> QED
      BY <3>2, <3>3
  <2> QED
    BY <2>4 DEF DeadKnown
<1>3. CASE NextRound \/ GameReady
  BY <1>3 DEF NextRound, GameReady, EnterRoundPlaying, DeadKnown
<1>4. CASE UNCHANGED <<explosions, exploded>>
  <2>1. CASE SpawnPlayer
    BY <2>1, NobodyComes DEF SpawnPlayer, Hooked, DeadKnown
  <2>2. CASE CloseRound
    BY <2>2 DEF CloseRound, DeadKnown
  <2>3. CASE Kept(players, players') /\ UNCHANGED fsm
    BY <1>4, <2>3 DEF Kept, DeadKnown
  <2> QED
    BY <1>2, <1>3, <2>1, <2>2, <2>3, StepEffects DEF WaitForGame, EndRound
<1> QED
  BY <1>1, <1>2, <1>3, <1>4, ExplosionEffects

LEMMA Invariance ==
  ASSUME InOrder, ExpectedPlayers = Sessions
  PROVE  Spec => []IInv
<1>1. Init => IInv
  <2> SUFFICES ASSUME Init PROVE IInv
    OBVIOUS
  <2>1. TypeOK
    BY TypeInit
  <2> QED
    BY <2>1, ConstantsAssumption DEF Init, IInv, Arrival, Hooked, AllHere, LobbyAlive,
      Survivors, Consumed, DeadKnown
<1>2. IInv /\ [Next]_vars => IInv'
  BY TypeStep, ArrivalStep, HookedStep, AllHereStep, LobbyAliveStep, SurvivorsStep,
     ConsumedStep, DeadKnownStep DEF IInv
<1> QED
  BY <1>1, <1>2, PTL DEF Spec

\* The winner of a round has not exploded in it, provided that sessions get ready in the
\* order of their ids and that they are those of the expected players.
THEOREM WinnerNotDead ==
  ASSUME InOrder, ExpectedPlayers = Sessions
  PROVE  Spec => NoDeadWinner
<1>1. IInv /\ [Next]_vars =>
        [fsm = "round_playing" /\ fsm' = "next_round_waiting"
           => Winner(players) \notin exploded]_vars
  <2> SUFFICES ASSUME IInv, [Next]_vars, fsm = "round_playing", fsm' = "next_round_waiting",
                      Winner(players) \in exploded
               PROVE  FALSE
    OBVIOUS
  <2> USE DEF IInv
  <2>1. CloseRound
    BY StepEffects DEF SpawnPlayer, ExplodePlayer, NextRound, GameReady, EnterRoundPlaying,
      WaitForGame, EndRound
  <2>2. explosions = <<>>
    BY <2>1 DEF CloseRound, Consumed
  <2> DEFINE w == Winner(players)
  <2>3. At(w) \in 1 .. Len(players) /\ players[At(w)].is_dead
    BY <2>2 DEF DeadKnown
  <2>4. players \in Seq(Player) /\ Len(players) \in Nat /\ w \in Ids
    BY DEF TypeOK
  <2>5. Alive(players) # {}
    BY <2>4, ConstantsAssumption DEF Winner, Nobody, Ids
  <2> DEFINE f == First(Alive(players))
  <2>6. f \in Alive(players) /\ f \in 1 .. Len(players)
    <3>1. Alive(players) \in SUBSET (1 .. Len(players))
      BY <2>4, AliveIsFinite
    <3>2. First(Alive(players)) \in Alive(players)
      BY <2>4, <2>5, <3>1, FirstIsLeast
    <3> QED
      BY <3>1, <3>2
  <2>7. w = players[f].id
    BY <2>5 DEF Winner
  <2> HIDE DEF f, w
  <2>8. w = f - 1
    BY <2>6, <2>7 DEF Arrival
  <2>9. At(w) = f
    BY <2>6, <2>8 DEF At
  <2> QED
    BY <2>3, <2>6, <2>9 DEF Alive
<1> QED
  BY <1>1, Invariance, PTL DEF NoDeadWinner, Spec

-----------------------------------------------------------------------------
(* The server runs rounds.                                                 *)

\* The players dead and the scores, when players are at the index of their id.
DeadIn(ps) == {id \in Ids : At(id) \in 1 .. Len(ps) /\ ps[At(id)].is_dead}
ScoreIn(ps) == [id \in Ids |-> IF At(id) \in 1 .. Len(ps) THEN ps[At(id)].score ELSE 0]

LEMMA ViewOfPlayers ==
  ASSUME NEW ps \in Seq(Player), Len(ps) <= Sessions,
         \A i \in 1 .. Len(ps) : ps[i].id = i - 1
  PROVE  /\ {ps[i].id : i \in {j \in DOMAIN ps : ps[j].is_dead}} = DeadIn(ps)
         /\ \A id \in Ids :
              (IF id \in IdsIn(ps) THEN ps[CHOOSE i \in DOMAIN ps : ps[i].id = id].score ELSE 0)
                = ScoreIn(ps)[id]
<1> USE ConstantsAssumption
<1>0. Len(ps) \in Nat /\ DOMAIN ps = 1 .. Len(ps)
  OBVIOUS
<1>1. \A i \in 1 .. Len(ps) : ps[i].id \in Ids /\ At(ps[i].id) = i
  BY <1>0 DEF Ids, At
<1>2. \A id \in Ids : At(id) \in 1 .. Len(ps) => ps[At(id)].id = id
  BY <1>0 DEF Ids, At
<1>3. {ps[i].id : i \in {j \in DOMAIN ps : ps[j].is_dead}} = DeadIn(ps)
  BY <1>0, <1>1, <1>2 DEF DeadIn
<1>4. ASSUME NEW id \in Ids
      PROVE  (IF id \in IdsIn(ps) THEN ps[CHOOSE i \in DOMAIN ps : ps[i].id = id].score ELSE 0)
               = ScoreIn(ps)[id]
  <2>1. id \in IdsIn(ps) <=> At(id) \in 1 .. Len(ps)
    BY <1>0, <1>1, <1>2 DEF IdsIn
  <2>2. CASE At(id) \in 1 .. Len(ps)
    <3> DEFINE c == CHOOSE i \in DOMAIN ps : ps[i].id = id
    <3>1. \E i \in DOMAIN ps : ps[i].id = id
      BY <1>0, <1>2, <2>2
    <3>2. c \in DOMAIN ps /\ ps[c].id = id
      BY <3>1
    <3> HIDE DEF c
    <3>3. c = At(id)
      BY <1>0, <1>1, <3>2
    <3>4. ps[c].score = ps[At(id)].score
      BY <3>3
    <3> USE DEF c
    <3> QED
      BY <2>1, <2>2, <3>4 DEF ScoreIn
  <2>3. CASE At(id) \notin 1 .. Len(ps)
    BY <2>1, <2>3 DEF ScoreIn
  <2> QED
    BY <2>2, <2>3
<1> QED
  BY <1>3, <1>4

LEMMA ViewKept ==
  ASSUME NEW ps \in Seq(Player), NEW qs \in Seq(Player), Kept(ps, qs)
  PROVE  DeadIn(qs) = DeadIn(ps) /\ ScoreIn(qs) = ScoreIn(ps)
BY DEF Kept, DeadIn, ScoreIn

LEMMA ViewSpawn ==
  ASSUME NEW ps \in Seq(Player), NEW s \in Ids, s = Len(ps)
  PROVE  LET qs == Append(ps, NewPlayer(s))
         IN  DeadIn(qs) = DeadIn(ps) /\ ScoreIn(qs) = ScoreIn(ps)
<1> DEFINE p == NewPlayer(s)
           qs == Append(ps, p)
           n == Len(ps)
<1>1. p.is_dead = FALSE /\ p.score = 0
  BY DEF NewPlayer
<1> HIDE DEF p
<1>2. n \in Nat /\ Len(qs) = n + 1 /\ qs[n + 1] = p /\ \A i \in 1 .. n : qs[i] = ps[i]
  OBVIOUS
<1>3. \A a : a \in 1 .. n + 1 <=> a \in 1 .. n \/ a = n + 1
  BY <1>2
<1>4. n + 1 \notin 1 .. n
  BY <1>2
<1> HIDE DEF qs, n
<1>5. DeadIn(qs) = DeadIn(ps)
  BY <1>1, <1>2, <1>3, <1>4 DEF DeadIn, n
<1>6. ScoreIn(qs) = ScoreIn(ps)
  <2>1. ASSUME NEW id \in Ids PROVE ScoreIn(qs)[id] = ScoreIn(ps)[id]
    BY <1>1, <1>2, <1>3, <1>4 DEF ScoreIn, n
  <2> QED
    BY <2>1 DEF ScoreIn
<1> QED
  BY <1>5, <1>6 DEF qs, p

\* The stage of the rounds the server is in.
Stage(state) == [game_waiting |-> "lobby", round_playing |-> "playing",
                 next_round_waiting |-> "pause"][state]

LEMMA Stages ==
  /\ Stage("game_waiting") = "lobby"
  /\ Stage("round_playing") = "playing"
  /\ Stage("next_round_waiting") = "pause"
BY DEF Stage

LEMMA ViewOfState ==
  ASSUME TypeOK, Arrival
  PROVE  DeadIds = DeadIn(players) /\ [id \in Ids |-> ScoreOf(id)] = ScoreIn(players)
<1>1. /\ players \in Seq(Player) /\ Len(players) <= Sessions
      /\ \A i \in 1 .. Len(players) : players[i].id = i - 1
  BY ConstantsAssumption DEF TypeOK, Arrival
<1>2. DeadIds = DeadIn(players)
  BY <1>1, ViewOfPlayers DEF DeadIds
<1>3. \A id \in Ids : ScoreOf(id) = ScoreIn(players)[id]
  BY <1>1, ViewOfPlayers DEF ScoreOf
<1> QED
  BY <1>2, <1>3 DEF ScoreIn

\* A step of the server on what the players see of it.
ServerStep(stage, stageNext, dead, deadNext, score, scoreNext) ==
  \/ stageNext = stage /\ deadNext = dead /\ scoreNext = score
  \/ stage # "playing" /\ stageNext = "playing" /\ deadNext = dead /\ scoreNext = score
  \/ /\ stage # "lobby" /\ stageNext = stage /\ scoreNext = score
     /\ \E id \in Ids : deadNext = dead \cup {id}
  \/ /\ stage = "playing" /\ stageNext = "pause" /\ deadNext = {}
     /\ \A p, q \in Ids \ dead : p = q
     /\ scoreNext = [id \in Ids |-> IF id \in Ids \ dead THEN score[id] + 1 ELSE score[id]]

LEMMA CloseView ==
  ASSUME NEW ps \in Seq(Player), Len(ps) = Sessions, Cardinality(Alive(ps)) <= 1
  PROVE  LET qs == Reset(Scored(ps))
         IN  /\ DeadIn(qs) = {}
             /\ \A p, q \in Ids \ DeadIn(ps) : p = q
             /\ ScoreIn(qs) = [id \in Ids |-> IF id \in Ids \ DeadIn(ps)
                                                THEN ScoreIn(ps)[id] + 1 ELSE ScoreIn(ps)[id]]
<1> USE ConstantsAssumption
<1> DEFINE qs == Reset(Scored(ps))
           f == First(Alive(ps))
<1>0. Len(ps) \in Nat /\ DOMAIN ps = 1 .. Len(ps)
  OBVIOUS
<1>1. /\ qs \in Seq(Player) /\ Len(qs) = Len(ps)
      /\ \A j \in 1 .. Len(ps) :
           /\ qs[j].id = ps[j].id /\ qs[j].is_dead = FALSE
           /\ qs[j].score = IF Alive(ps) # {} /\ j = f THEN ps[j].score + 1 ELSE ps[j].score
  BY CloseEffect
<1>2. \A id \in Ids : At(id) \in 1 .. Len(ps)
  BY DEF Ids, At
<1>3. \A id \in Ids : id \in Ids \ DeadIn(ps) <=> At(id) \in Alive(ps)
  BY <1>0, <1>2 DEF DeadIn, Alive
<1>4. \A j \in Alive(ps) : Alive(ps) # {} /\ j = f
  <2>1. IsFiniteSet(Alive(ps)) /\ Cardinality(Alive(ps)) \in Nat
    BY AliveIsFinite
  <2>2. Alive(ps) = {} \/ \E x : Alive(ps) = {x}
    <3>1. Cardinality(Alive(ps)) = 0 \/ Cardinality(Alive(ps)) = 1
      BY <2>1
    <3> QED
      BY <2>1, <3>1, FS_EmptySet, FS_Singleton
  <2>3. Alive(ps) # {} => f \in Alive(ps)
    <3>1. Alive(ps) \in SUBSET (1 .. Len(ps))
      BY AliveIsFinite
    <3> QED
      BY <1>0, <3>1, FirstIsLeast
  <2> QED
    BY <2>2, <2>3
<1> HIDE DEF qs, f
<1>5. DeadIn(qs) = {}
  BY <1>1, <1>2 DEF DeadIn
<1>6. \A p, q \in Ids \ DeadIn(ps) : p = q
  BY <1>3, <1>4 DEF Ids, At
<1>7. ASSUME NEW id \in Ids
      PROVE  ScoreIn(qs)[id] = IF id \in Ids \ DeadIn(ps)
                                 THEN ScoreIn(ps)[id] + 1 ELSE ScoreIn(ps)[id]
  <2>0. At(id) \in 1 .. Len(ps) /\ Len(qs) = Len(ps)
    BY <1>1, <1>2
  <2>1. ScoreIn(qs)[id] = qs[At(id)].score /\ ScoreIn(ps)[id] = ps[At(id)].score
    BY <2>0 DEF ScoreIn
  <2>2. CASE At(id) \in Alive(ps)
    BY <1>1, <1>3, <1>4, <2>0, <2>1, <2>2
  <2>3. CASE At(id) \notin Alive(ps)
    <3>1. ~(Alive(ps) # {} /\ At(id) = f)
      <4>1. Alive(ps) # {} => f \in Alive(ps)
        BY <1>4
      <4> QED
        BY <2>3, <4>1
    <3> QED
      BY <1>1, <1>3, <2>0, <2>1, <2>3, <3>1
  <2> QED
    BY <2>2, <2>3
<1>8. ScoreIn(qs) = [id \in Ids |-> IF id \in Ids \ DeadIn(ps)
                                     THEN ScoreIn(ps)[id] + 1 ELSE ScoreIn(ps)[id]]
  BY <1>7 DEF ScoreIn
<1> QED
  BY <1>5, <1>6, <1>8 DEF qs

LEMMA ServerSteps ==
  ASSUME IInv, [Next]_vars
  PROVE  ServerStep(Stage(fsm), Stage(fsm'), DeadIn(players), DeadIn(players'),
                    ScoreIn(players), ScoreIn(players'))
<1> USE DEF IInv
<1>0. players \in Seq(Player) /\ Len(players) \in Nat /\ players' \in Seq(Player)
  BY TypeStep DEF TypeOK
<1>1. CASE SpawnPlayer
  <2>1. newPlayers \in Seq(Ids) /\ newPlayers # <<>>
    BY <1>1 DEF TypeOK, SpawnPlayer
  <2>2. Head(newPlayers) = Len(players) /\ Head(newPlayers) \in Ids
    BY <1>0, <2>1 DEF Arrival
  <2>3. players' = Append(players, NewPlayer(Head(newPlayers))) /\ fsm' = fsm
    BY <1>1 DEF SpawnPlayer
  <2>4. DeadIn(players') = DeadIn(players) /\ ScoreIn(players') = ScoreIn(players)
    BY <1>0, <2>2, <2>3, ViewSpawn
  <2> QED
    BY <2>3, <2>4 DEF ServerStep
<1>2. CASE ExplodePlayer
  <2> DEFINE h == Head(explosions)
  <2>1. /\ h \in 1 .. Len(players) /\ Len(players') = Len(players)
        /\ \A j \in 1 .. Len(players) :
             players'[j].id = players[j].id /\ players'[j].score = players[j].score
        /\ players'[h].is_dead
        /\ \A j \in 1 .. Len(players) : j # h => players'[j].is_dead = players[j].is_dead
    BY <1>2, ExplodeEffect
  <2>2. fsm' = fsm /\ explosions # <<>>
    BY <1>2 DEF ExplodePlayer
  <2>3. fsm # "game_waiting"
    BY <2>2 DEF LobbyAlive
  <2>4. Stage(fsm) # "lobby"
    BY <2>3, Stages DEF TypeOK, States
  <2> HIDE DEF h
  <2>5. h - 1 \in Ids /\ At(h - 1) = h
    <3>1. Len(players) <= Sessions
      BY <1>0, ConstantsAssumption DEF Arrival, TypeOK
    <3> QED
      BY <1>0, <2>1, <3>1, ConstantsAssumption DEF Ids, At
  <2>6. \A id \in Ids : At(id) = h <=> id = h - 1
    BY <1>0, <2>1, ConstantsAssumption DEF Ids, At
  <2>7. DeadIn(players') = DeadIn(players) \cup {h - 1}
    BY <2>1, <2>5, <2>6 DEF DeadIn
  <2>8. ScoreIn(players') = ScoreIn(players)
    BY <2>1 DEF ScoreIn
  <2> QED
    BY <2>2, <2>4, <2>5, <2>7, <2>8 DEF ServerStep
<1>3. CASE CloseRound
  <2>1. /\ "close_round" \in timer /\ players' = Reset(Scored(players))
        /\ fsm' = "next_round_waiting"
    BY <1>3 DEF CloseRound
  <2>2. fsm = "round_playing" /\ round_is_over /\ is_game_ready
    BY <2>1 DEF Hooked, TypeOK, States
  <2>3. Len(players) = Sessions /\ Cardinality(Alive(players)) <= 1
    BY <2>2 DEF AllHere, Survivors
  <2>4. /\ DeadIn(players') = {}
        /\ \A p, q \in Ids \ DeadIn(players) : p = q
        /\ ScoreIn(players') = [id \in Ids |-> IF id \in Ids \ DeadIn(players)
                                 THEN ScoreIn(players)[id] + 1 ELSE ScoreIn(players)[id]]
    BY <1>0, <2>1, <2>3, CloseView
  <2> QED
    BY <2>1, <2>2, <2>4, Stages DEF ServerStep
<1>4. CASE Kept(players, players') /\ (NextRound \/ GameReady)
  <2>1. DeadIn(players') = DeadIn(players) /\ ScoreIn(players') = ScoreIn(players)
    BY <1>0, <1>4, ViewKept
  <2>2. fsm' = "round_playing"
    BY <1>4 DEF NextRound, GameReady, EnterRoundPlaying
  <2>3. fsm # "round_playing"
    <3>1. CASE NextRound
      BY <3>1 DEF NextRound, Hooked
    <3>2. CASE GameReady
      BY <3>2 DEF GameReady
    <3> QED
      BY <1>4, <3>1, <3>2
  <2>4. Stage(fsm) # "playing"
    BY <2>3, Stages DEF TypeOK, States
  <2> QED
    BY <2>1, <2>2, <2>4, Stages DEF ServerStep
<1>5. CASE Kept(players, players') /\ UNCHANGED fsm
  <2>1. DeadIn(players') = DeadIn(players) /\ ScoreIn(players') = ScoreIn(players)
    BY <1>0, <1>5, ViewKept
  <2> QED
    BY <1>5, <2>1 DEF ServerStep
<1> QED
  BY <1>1, <1>2, <1>3, <1>4, <1>5, StepEffects DEF WaitForGame, EndRound

\* The server implements Rounds: a round closes only when at most one of the players is
\* alive, its survivor and nobody else scores, and everyone is alive again in the pause.
THEOREM RoundsImplemented ==
  ASSUME InOrder, ExpectedPlayers = Sessions
  PROVE  Spec => ImplementsRounds
<1> USE ConstantsAssumption
<1>1. Init => ServerRounds!Init
  <2> SUFFICES ASSUME Init PROVE ServerRounds!Init
    OBVIOUS
  <2>1. players = <<>> /\ fsm = "game_waiting"
    BY DEF Init
  <2>2. DeadIds = {} /\ \A id \in Ids : ScoreOf(id) = 0
    BY <2>1 DEF DeadIds, ScoreOf, IdsIn
  <2> QED
    BY <2>1, <2>2 DEF ServerRounds!Init
<1>2. IInv /\ IInv' /\ [Next]_vars => [ServerRounds!Next]_(ServerRounds!vars)
  <2> SUFFICES ASSUME IInv, IInv', [Next]_vars
               PROVE  [ServerRounds!Next]_(ServerRounds!vars)
    OBVIOUS
  <2>1. DeadIds = DeadIn(players) /\ [id \in Ids |-> ScoreOf(id)] = ScoreIn(players)
    BY ViewOfState DEF IInv
  <2>2. DeadIds' = DeadIn(players') /\ [id \in Ids |-> ScoreOf(id)]' = ScoreIn(players')
    <3>1. /\ players' \in Seq(Player) /\ Len(players') <= Sessions
          /\ \A i \in 1 .. Len(players') : players'[i].id = i - 1
      BY DEF IInv, TypeOK, Arrival
    <3>2. DeadIds' = DeadIn(players')
      BY <3>1, ViewOfPlayers DEF DeadIds
    <3>3. \A id \in Ids : ScoreOf(id)' = ScoreIn(players')[id]
      BY <3>1, ViewOfPlayers DEF ScoreOf
    <3> QED
      BY <3>2, <3>3 DEF ScoreIn
  <2>3. ServerStep(Stage(fsm), Stage(fsm'), DeadIn(players), DeadIn(players'),
                   ScoreIn(players), ScoreIn(players'))
    BY ServerSteps
  <2> DEFINE d == DeadIn(players)
             e == DeadIn(players')
             x == ScoreIn(players)
             y == ScoreIn(players')
  <2>4. CASE Stage(fsm') = Stage(fsm) /\ e = d /\ y = x
    BY <2>1, <2>2, <2>4 DEF Stage, ServerRounds!vars
  <2>5. CASE Stage(fsm) # "playing" /\ Stage(fsm') = "playing" /\ e = d /\ y = x
    <3>1. ServerRounds!Begin
      BY <2>1, <2>2, <2>5 DEF Stage, ServerRounds!Begin
    <3> QED
      BY <3>1 DEF ServerRounds!Next
  <2>6. ASSUME Stage(fsm) # "lobby", Stage(fsm') = Stage(fsm), y = x, NEW id \in Ids, e = d \cup {id}
        PROVE  [ServerRounds!Next]_(ServerRounds!vars)
    <3>1. Ids \ e = (Ids \ d) \ {id}
      BY <2>6
    <3> HIDE DEF d, e, x, y
    <3>2. ServerRounds!Die(id)
      BY <2>1, <2>2, <2>6, <3>1 DEF Stage, ServerRounds!Die, d, e, x, y
    <3> QED
      BY <3>2 DEF ServerRounds!Next
  <2>7. CASE /\ Stage(fsm) = "playing" /\ Stage(fsm') = "pause" /\ e = {}
             /\ \A p, q \in Ids \ d : p = q
             /\ y = [id \in Ids |-> IF id \in Ids \ d THEN x[id] + 1 ELSE x[id]]
    <3>1. Ids \ DeadIds' = Ids /\ \A p, q \in Ids \ DeadIds : p = q
      BY <2>1, <2>2, <2>7
    <3>2. [id \in Ids |-> ScoreOf(id)]' =
             [p \in Ids |-> IF p \in Ids \ DeadIds
                              THEN [id \in Ids |-> ScoreOf(id)][p] + 1
                              ELSE [id \in Ids |-> ScoreOf(id)][p]]
      BY <2>1, <2>2, <2>7
    <3>3. ServerRounds!Close
      BY <2>7, <3>1, <3>2 DEF Stage, ServerRounds!Close
    <3> QED
      BY <3>3 DEF ServerRounds!Next
  <2> QED
    BY <2>3, <2>4, <2>5, <2>6, <2>7 DEF ServerStep
<1> QED
  BY <1>1, <1>2, Invariance, PTL DEF ImplementsRounds, ServerRounds!Spec, Spec
=============================================================================
