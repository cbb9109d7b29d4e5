----------------------------- MODULE RoundProtocol -----------------------------
(***************************************************************************)
(* The clients' state machines (connection, lobby, game, score) played     *)
(* against the server of GameManager over the channels between them.       *)
(*                                                                         *)
(* An update of a client handles the messages that have come in, each in   *)
(* the state the update began in, then takes at most one transition and    *)
(* runs the state it is in.  Packets of the server leave at the end of its *)
(* ticks; the reliable channels keep the order and lose nothing (see       *)
(* SendingService for when that is so), the unreliable one carries only    *)
(* the forwarded READY messages here.  Messages that decide nothing about  *)
(* the rounds (positions, bombs, kicks, bonuses, pings) are left out.      *)
(***************************************************************************)
EXTENDS GameManager

CONSTANT
  Prompt    \* whether messages and updates take less than the server's delays

ASSUME PromptAssumption == Prompt \in BOOLEAN

VARIABLES
  client,    \* the clients, by the id of their session
  up,        \* reliable messages on their way to the server
  queued,    \* reliable messages of the server before its next flush
  down,      \* reliable messages on their way to a client
  readies,   \* READY messages forwarded on the unreliable channel
  maps       \* which bonus map is the server's: a new one is drawn each round

channelVars == <<up, queued, down, readies>>
protocolVars == <<client, up, queued, down, readies, maps>>
allVars == <<vars, protocolVars>>

ClientStates == {"connection", "lobby", "game", "score"}
Maps == {"blank", "even", "odd"}
NextMap(m) == IF m = "even" THEN "odd" ELSE "even"

Client == [
  state : ClientStates,
  channels_ready : BOOLEAN,              \* both channels are open
  received_connected : BOOLEAN,
  is_connected : BOOLEAN,
  is_round_playing : BOOLEAN,
  ready_players : SUBSET Ids,            \* the mask received with the connection
  lobby : SUBSET Ids,                    \* players with a tagged entity in the lobby
  is_local_player_ready : BOOLEAN,
  scores : [Ids -> Nat],
  map : Maps, saved_map : Maps,
  events : SUBSET Ids,                   \* EVENT_PLAYER_EXPLODED of the game world
  dead : SUBSET Ids,                     \* players dead in the game world
  stopped : BOOLEAN]                     \* the process ended

ClientMessage == [
  type : {"player_connected", "game_ready", "bonus_map", "round_start", "round_over",
          "player_exploded"},
  player_id : Ids \cup {Nobody},
  ready : SUBSET Ids,                    \* of player_connected
  scores : [Ids -> Nat],                 \* of round_over
  map : Maps]                            \* of bonus_map

NoScores == [id \in Ids |-> 0]

InitClient == [
  state |-> "connection", channels_ready |-> FALSE, received_connected |-> FALSE,
  is_connected |-> FALSE, is_round_playing |-> FALSE, ready_players |-> {},
  lobby |-> {}, is_local_player_ready |-> FALSE, scores |-> NoScores,
  map |-> "blank", saved_map |-> "blank", events |-> {}, dead |-> {}, stopped |-> FALSE]

InitProtocol ==
  /\ Init
  /\ client = [id \in Ids |-> InitClient]
  /\ up = [id \in Ids |-> <<>>]
  /\ queued = [id \in Ids |-> <<>>]
  /\ down = [id \in Ids |-> <<>>]
  /\ readies = [id \in Ids |-> {}]
  /\ maps = "blank"

-----------------------------------------------------------------------------
(* What being prompt means.                                                *)

On(id, type) == \E i \in DOMAIN down[id] : down[id][i].type = type

\* A bomb burns for three seconds, and two seconds pass between the end of a
\* round and its close: a prompt client has handled the ROUND_START of the round
\* and been updated before a player explodes in it and before it closes.
HasStarted(id) ==
  client[id].stopped \/ (~On(id, "round_start") /\ client[id].state = "game")

\* Five seconds pass before the next round: a prompt client has handled the
\* ROUND_OVER and been updated, and what it had sent before has arrived.
HasPaused(id) ==
  client[id].stopped \/ (~On(id, "round_over") /\ up[id] = <<>> /\ client[id].state = "score")

-----------------------------------------------------------------------------
(* The server.                                                             *)

\* What the messages carry besides their type: the mask and the scores go by
\* the index of the players, the map is that of the round that starts.
Payload(m, ps, map) ==
  [type |-> m.type,
   player_id |-> m.player_id,
   ready |-> IF m.type = "player_connected"
               THEN {id \in Ids : At(id) \in DOMAIN ps /\ ps[At(id)].is_ready} ELSE {},
   scores |-> IF m.type = "round_over"
                THEN [id \in Ids |-> IF At(id) \in DOMAIN ps THEN ps[At(id)].score ELSE 0]
                ELSE NoScores,
   map |-> IF m.type = "bonus_map" THEN map ELSE "blank"]

\* What a step sends to one client is a READY alone or goes on the reliable
\* channel.
IsReady(out) == \E i \in DOMAIN out : out[i].type = "player_ready"

Written(out, ps, map) ==
  IF IsReady(out) THEN <<>> ELSE [i \in DOMAIN out |-> Payload(out[i], ps, map)]
ReadyIn(out) == IF IsReady(out) THEN {out[i].player_id : i \in DOMAIN out} ELSE {}

\* What the step enqueued waits for the flush.
Enqueue ==
  /\ maps' = IF fsm # "round_playing" /\ fsm' = "round_playing" THEN NextMap(maps) ELSE maps
  /\ queued' = [id \in Ids |-> queued[id] \o Written(sends'[id], players', maps')]
  /\ readies' = [id \in Ids |-> readies[id] \cup ReadyIn(sends'[id])]
  /\ UNCHANGED <<client, down>>

ServerSessionReady(id) == OnPlayerSessionReady(id) /\ Enqueue /\ UNCHANGED up

ServerReceive(id) ==
  /\ up[id] # <<>>
  /\ up' = [up EXCEPT ![id] = Tail(@)]
  /\ \/ Head(up[id]) = "player_ready" /\ HandlePlayerReady(id)
     \/ Head(up[id]) = "player_exploded" /\ HandlePlayerExploded(id)
  /\ Enqueue

\* The parts of a tick that do not wait for a date.
ServerTick ==
  /\ \/ EndPackets \/ SpawnPlayer \/ EndSpawn \/ ExplodePlayer \/ EndExplode \/ EndTimers
     \/ WaitForGame \/ EndRound \/ EndUpdate
  /\ Enqueue
  /\ UNCHANGED up

ServerGameReady == GameReady /\ Enqueue /\ UNCHANGED up

\* The flush; the process may end in it.
ServerFlush ==
  /\ EndTick
  /\ down' = [id \in Ids |-> down[id] \o queued[id]]
  /\ queued' = [id \in Ids |-> <<>>]
  /\ UNCHANGED <<client, up, readies, maps>>

ServerAbort == AbortOnScore /\ UNCHANGED protocolVars

ServerCloseRound ==
  /\ Prompt => \A id \in IdsIn(players) : HasStarted(id)
  /\ CloseRound
  /\ Enqueue
  /\ UNCHANGED up

ServerNextRound ==
  /\ Prompt => \A id \in IdsIn(players) : HasPaused(id)
  /\ NextRound
  /\ Enqueue
  /\ UNCHANGED up

-----------------------------------------------------------------------------
(* A client: the messages, by the state it is in.                          *)

\* The message is local for the new player, which is told of itself first; what
\* it says of another player is not kept.
InConnection(id, c, m) ==
  IF m.type = "player_connected" /\ m.player_id = id
    THEN [c EXCEPT !.received_connected = TRUE, !.ready_players = m.ready]
    ELSE c

\* Fault: the lobby does not react to the start of the round.
InLobbyDeaf(c, m) ==
  IF m.type = "player_connected" THEN [c EXCEPT !.lobby = @ \cup {m.player_id}] ELSE c

InLobby(c, m) ==
  CASE m.type = "player_connected" -> [c EXCEPT !.lobby = @ \cup {m.player_id}]
    [] m.type = "round_start" -> [c EXCEPT !.is_round_playing = TRUE]
    [] OTHER -> c

\* Fault: update_scores leaves out the last player.
UpdateScoresButLast(old, new) ==
  [id \in Ids |-> IF id + 1 \in Ids THEN new[id] ELSE old[id]]

\* update_scores.
UpdateScores(old, new) == new

\* What is not the end of the round is an event for the systems of the world;
\* none of them consumes a ROUND_START.
InGame(c, m) ==
  CASE m.type = "round_over" ->
         [c EXCEPT !.is_round_playing = FALSE, !.scores = UpdateScores(@, m.scores)]
    [] m.type = "player_exploded" -> [c EXCEPT !.events = @ \cup {m.player_id}]
    [] OTHER -> c

\* Fault: the start of the next round is not noticed.
InScoreDeaf(c, m) == c

InScore(c, m) ==
  IF m.type = "round_start" THEN [c EXCEPT !.is_round_playing = TRUE] ELSE c

\* The map is taken over in every state.
Handled(id, c, m) ==
  IF m.type = "bonus_map" THEN [c EXCEPT !.map = m.map]
  ELSE CASE c.state = "connection" -> InConnection(id, c, m)
         [] c.state = "lobby" -> InLobby(c, m)
         [] c.state = "game" -> InGame(c, m)
         [] c.state = "score" -> InScore(c, m)

\* The while loop of process_pending_packets empties what has come in; whatever
\* comes in before the update can as well have come in before the loop.
ClientReceive(id) ==
  /\ ~client[id].stopped
  /\ down[id] # <<>>
  /\ client' = [client EXCEPT ![id] = Handled(id, @, Head(down[id]))]
  /\ down' = [down EXCEPT ![id] = Tail(@)]
  /\ UNCHANGED <<vars, up, queued, readies, maps>>

\* Without an entity tagged for the player a null pointer is followed: the
\* process ends or goes on with what it read.
MayStop(c, player) == IF player \in c.lobby THEN {FALSE} ELSE BOOLEAN

\* A forwarded READY: only the lobby cares.
ClientReceiveReady(id, player) ==
  /\ ~client[id].stopped
  /\ player \in readies[id]
  /\ readies' = [readies EXCEPT ![id] = @ \ {player}]
  /\ IF client[id].state = "lobby"
       THEN \E stops \in MayStop(client[id], player) :
              client' = [client EXCEPT ![id].stopped = stops]
       ELSE UNCHANGED client
  /\ UNCHANGED <<vars, up, queued, down, maps>>

LoseReady(id, player) ==
  /\ player \in readies[id]
  /\ readies' = [readies EXCEPT ![id] = @ \ {player}]
  /\ UNCHANGED <<vars, client, up, queued, down, maps>>

-----------------------------------------------------------------------------
(* A client: game_state_machine_update.                                    *)

\* onopen of the data channel that comes last.
OpenChannels(id) ==
  /\ ~client[id].channels_ready
  /\ client' = [client EXCEPT ![id].channels_ready = TRUE]
  /\ UNCHANGED <<vars, channelVars, maps>>

\* Fault: a player more is put in the lobby.
EnterLobbyOneMore(id, c) ==
  [c EXCEPT !.state = "lobby", !.lobby = (0 .. id + 1) \ c.ready_players]

\* create_lobby_world: players seen before the local one; a player that was
\* ready is shown so and gets no tag.
EnterLobby(id, c) ==
  [c EXCEPT !.state = "lobby", !.lobby = (0 .. id) \ c.ready_players]

\* Fault: the map is restored where it should be saved.
EnterGameWithReset(c) ==
  [c EXCEPT !.state = "game", !.lobby = {}, !.map = c.saved_map, !.events = {}, !.dead = {}]

\* A new world; map_save.
EnterGame(c) ==
  [c EXCEPT !.state = "game", !.lobby = {}, !.saved_map = c.map, !.events = {}, !.dead = {}]

\* world_destroy; map_reset.
LeaveGame(c) ==
  [c EXCEPT !.state = "score", !.map = c.saved_map, !.events = {}, !.dead = {}]

\* At most one transition.
Moved(id, c) ==
  CASE c.state = "connection" /\ c.is_connected -> EnterLobby(id, c)
    [] c.state \in {"lobby", "score"} /\ c.is_round_playing -> EnterGame(c)
    [] c.state = "game" /\ ~c.is_round_playing -> LeaveGame(c)
    [] OTHER -> c

\* game_state_machine_update up to on_state_updated of a state.
Reaches(id, state) ==
  /\ ~client[id].stopped
  /\ Moved(id, client[id]).state = state
  /\ UNCHANGED <<vars, queued, down, readies, maps>>

UpdateConnection(id) ==
  /\ Reaches(id, "connection")
  /\ client' = [client EXCEPT ![id].is_connected = @ \/
                  (client[id].channels_ready /\ client[id].received_connected)]
  /\ UNCHANGED up

\* Fault: the key is read again after it was pressed.
PressReadyAgain(id, c) ==
  \E stops \in MayStop(c, id) :
    /\ client' = [client EXCEPT ![id] = [c EXCEPT !.stopped = stops]]
    /\ up' = IF stops THEN up ELSE [up EXCEPT ![id] = Append(@, "player_ready")]

\* on_player_ready for the local player.
PressReady(id, c) ==
  \E stops \in MayStop(c, id) :
    /\ client' = [client EXCEPT ![id] =
         [c EXCEPT !.stopped = stops, !.is_local_player_ready = ~stops]]
    /\ up' = IF stops THEN up ELSE [up EXCEPT ![id] = Append(@, "player_ready")]

UpdateLobby(id) ==
  /\ Reaches(id, "lobby")
  /\ LET c == Moved(id, client[id])
     IN  \/ ~c.is_local_player_ready /\ PressReady(id, c)
         \/ client' = [client EXCEPT ![id] = c] /\ UNCHANGED up

\* explode_players_system, with what hit the local player in this update.  A
\* player whose entity is no longer tagged is not exploded again.
UpdateGame(id) ==
  /\ Reaches(id, "game")
  /\ \E hit \in {{}, {id}} :
       LET c == Moved(id, client[id])
       IN  /\ Prompt /\ hit # {} => \A p \in IdsIn(players) : HasStarted(p)
           /\ client' = [client EXCEPT ![id] =
                [c EXCEPT !.dead = @ \cup c.events \cup hit, !.events = {}]]
           /\ up' = IF hit \subseteq c.dead THEN up
                    ELSE [up EXCEPT ![id] = Append(@, "player_exploded")]

UpdateScore(id) ==
  /\ Reaches(id, "score")
  /\ client' = [client EXCEPT ![id] = Moved(id, @)]
  /\ UNCHANGED up

Update(id) == UpdateConnection(id) \/ UpdateLobby(id) \/ UpdateGame(id) \/ UpdateScore(id)

-----------------------------------------------------------------------------
NextProtocol ==
  \/ ServerTick \/ ServerGameReady \/ ServerFlush \/ ServerAbort
  \/ ServerCloseRound \/ ServerNextRound
  \/ \E id \in Ids :
       \/ ServerSessionReady(id) \/ ServerReceive(id)
       \/ ClientReceive(id) \/ OpenChannels(id) \/ Update(id)
       \/ \E player \in Ids : ClientReceiveReady(id, player) \/ LoseReady(id, player)

ProtocolSpec == InitProtocol /\ [][NextProtocol]_allVars

\* The server's loop and its clocks, as in GameManager; the browser updates a
\* client and hands over what a reliable channel carries.
FairProtocol ==
  /\ ProtocolSpec
  /\ WF_allVars(ServerTick) /\ WF_allVars(ServerFlush) /\ WF_allVars(ServerAbort)
  /\ SF_allVars(ServerGameReady) /\ SF_allVars(ServerCloseRound) /\ SF_allVars(ServerNextRound)
  /\ \A id \in Ids : /\ WF_allVars(Update(id))
                     /\ WF_allVars(ClientReceive(id))
                     /\ SF_allVars(ServerReceive(id))

-----------------------------------------------------------------------------
(* Properties.                                                             *)

\* The protocol's variables have their types.
ProtocolTypeOK ==
  /\ client \in [Ids -> Client]
  /\ up \in [Ids -> Seq({"player_ready", "player_exploded"})]
  /\ queued \in [Ids -> Seq(ClientMessage)]
  /\ down \in [Ids -> Seq(ClientMessage)]
  /\ readies \in [Ids -> SUBSET Ids]
  /\ maps \in Maps

\* What a client is told and has not yet been handled.
Coming(id) == down[id] \o queued[id]
TurnsOf(id) == {i \in DOMAIN Coming(id) : Coming(id)[i].type \in {"round_start", "round_over"}}
LastOf(S) == CHOOSE i \in S : \A j \in S : j <= i

\* Once a client has handled what is on its way it knows whether a round is
\* being played: no ROUND_START or ROUND_OVER reaches it in a state that takes no
\* notice of it.
RoundsAreNoticed ==
  \A id \in IdsIn(players) : ~client[id].stopped =>
    LET playing == IF TurnsOf(id) = {} THEN client[id].is_round_playing
                   ELSE Coming(id)[LastOf(TurnsOf(id))].type = "round_start"
    IN  playing <=> fsm = "round_playing"

\* The server gets from the clients what GameManager takes them to send: one
\* READY each, after their connection, and one EXPLODED each per round.
ClientsSendAsAssumed ==
  \A id \in Ids : up[id] # <<>> =>
    \/ Head(up[id]) = "player_ready" /\ id \in IdsIn(players) \ pressed
    \/ Head(up[id]) = "player_exploded" /\ Plays(id) /\ id \notin exploded

Synchronised(id) ==
  /\ ~client[id].stopped
  /\ Coming(id) = <<>>
  /\ client[id].is_round_playing <=> client[id].state = "game"

\* A client that has handled what it was told shows as dead, of the other
\* players, those whose explosion the server has forwarded in this round.
SameDeaths ==
  \A id \in Ids :
    Synchronised(id) /\ client[id].state = "game" /\ client[id].events = {}
      => client[id].dead \ {id} = exploded \ {id}

\* The score screen shows the scores of the server.
SameScores ==
  \A id \in Ids :
    Synchronised(id) /\ client[id].state = "score"
      => client[id].scores = [p \in Ids |-> ScoreOf(p)]

\* A client plays on the map of bonuses the server drew for the round.
SameMap ==
  \A id \in Ids :
    Synchronised(id) /\ client[id].state = "game" => client[id].map = maps

Over(id) == client[id].stopped \/ pc = "aborted"

\* Once all the players have said that they are ready each of them gets into the
\* game.
EveryoneEnters ==
  \A id \in Ids :
    Cardinality(pressed) = ExpectedPlayers ~> (client[id].state = "game" \/ Over(id))

\* A client that shows the scores goes back to the game when the pause is over.
ScoresThenGame ==
  \A id \in Ids : client[id].state = "score" ~> (client[id].state = "game" \/ Over(id))
=============================================================================
