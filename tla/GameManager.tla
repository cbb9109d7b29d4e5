------------------------------ MODULE GameManager ------------------------------
(***************************************************************************)
(* The game server: players, their readiness and the life of the rounds.   *)
(*                                                                         *)
(* One thread runs simulate_server_tick again and again: handle the        *)
(* packets that came in, run the systems of the world (spawn the new       *)
(* players, explode the dead ones), update the timers, update the state    *)
(* machine of the game, flush.  pc says which part of the tick is next.    *)
(* Between two ticks the signaling server reports sessions that are ready. *)
(*                                                                         *)
(* A session is identified by the rank of its signaling request, a player  *)
(* by the id of its session; the array players is in order of arrival.     *)
(***************************************************************************)
EXTENDS Integers, Sequences, FiniteSets

CONSTANTS
  Sessions,              \* sessions that will ever ask for a connection
  InOrder,               \* whether sessions get ready in the order of their ids
  MaxPlayers,            \* size of the array players
  ExpectedPlayers,       \* first argument of the server
  RequiredRoundsToWin,   \* second argument of the server
  MaxScore,              \* largest score a ROUND_OVER message can carry
  Cells                  \* cells of the map that hide a bonus at each round

ASSUME ConstantsAssumption ==
  /\ Sessions \in Nat
  /\ InOrder \in BOOLEAN
  /\ MaxPlayers \in Nat /\ Sessions <= MaxPlayers
  /\ ExpectedPlayers \in Nat
  /\ RequiredRoundsToWin \in Nat
  /\ MaxScore \in Nat

Ids == 0 .. Sessions - 1

VARIABLES
  \* the server
  sessions,       \* ids of the sessions reported ready: they have a connection
  newPlayers,     \* pending EVENT_NEW_PLAYER, oldest first
  explosions,     \* pending EVENT_PLAYER_EXPLODED, as indexes of players
  players,        \* players[1 .. players_count], in order of arrival
  fsm,            \* current state of the state machine
  is_game_ready,
  round_is_over,
  timer,          \* wait hooks not yet triggered
  bonuses,        \* cells of the map whose bonus has not been consumed
  pc,             \* part of the tick that runs next
  \* what it sends
  sends,          \* messages enqueued by the last step, per recipient
  \* the clients, as far as they decide what is sent to the server
  pressed,        \* players that have sent READY
  exploded,       \* players that have sent EXPLODED in this round
  granted         \* history: times the bonus of a cell was granted in this round

serverVars == <<sessions, newPlayers, explosions, players, fsm, is_game_ready,
                round_is_over, timer, bonuses>>
clientVars == <<pressed, exploded, granted>>
vars == <<serverVars, pc, sends, clientVars>>

Hooks == {"game_ready", "close_round", "next_round"}
TickParts == {"packets", "spawn", "explode", "timers", "update", "flush", "aborted"}
States == {"game_waiting", "round_playing", "next_round_waiting"}
Types == {"player_connected", "player_ready", "game_ready", "bonus_map", "round_start",
          "round_over", "player_drop_bomb", "player_exploded", "player_apply_bonus",
          "player_kick_bomb", "pong"}

Nobody == Sessions
Message == [type : Types, player_id : Ids \cup {Nobody}]
Msg(type, id) == [type |-> type, player_id |-> id]

Player == [id : Ids, is_dead : BOOLEAN, is_ready : BOOLEAN, score : Nat]

\* Fault: the score of a new player is not initialised.
NewPlayerUninitialised(s) == [id |-> s, is_dead |-> FALSE, is_ready |-> FALSE, score |-> -1]

\* create_player.
NewPlayer(s) == [id |-> s, is_dead |-> FALSE, is_ready |-> FALSE, score |-> 0]

Silence == [s \in Ids |-> <<>>]
IdsIn(ps) == {ps[i].id : i \in DOMAIN ps}

\* The same messages to every player.
ToAll(ps, messages) == [s \in Ids |-> IF s \in IdsIn(ps) THEN messages ELSE <<>>]

\* Fault: the loop over the players begins after the sender.
ToLaterOthers(id, message) ==
  [s \in Ids |-> IF s \in IdsIn(players) /\ s > id THEN <<message>> ELSE <<>>]

\* The same message to every player but one.
ToOthers(id, message) ==
  [s \in Ids |-> IF s \in IdsIn(players) \ {id} THEN <<message>> ELSE <<>>]

\* players[player_id]: the handlers use the id of a player as an index.
At(id) == id + 1

\* Fault: the last player of the array is not found.
IsPlayerButLast(id) == At(id) + 1 \in DOMAIN players

IsPlayer(id) == At(id) \in DOMAIN players
IsSender(id) == IsPlayer(id) /\ players[At(id)].id = id

Init ==
  /\ sessions = {}
  /\ newPlayers = <<>>
  /\ explosions = <<>>
  /\ players = <<>>
  /\ fsm = "game_waiting"
  /\ is_game_ready = FALSE
  /\ round_is_over = FALSE
  /\ timer = {}
  /\ bonuses = {}
  /\ pc = "packets"
  /\ sends = Silence
  /\ pressed = {}
  /\ exploded = {}
  /\ granted = [c \in Cells |-> 0]

-----------------------------------------------------------------------------
(* Between two ticks.                                                      *)

\* Ids are given when the signaling starts, on_player_session_ready is called
\* when the data channel opens.
OnPlayerSessionReady(s) ==
  /\ pc = "packets"
  /\ s \notin sessions
  /\ InOrder => \A t \in Ids : t < s => t \in sessions
  /\ sessions' = sessions \cup {s}
  /\ newPlayers' = Append(newPlayers, s)
  /\ sends' = Silence
  /\ UNCHANGED <<explosions, players, fsm, is_game_ready, round_is_over, timer, bonuses,
                 pc, clientVars>>

-----------------------------------------------------------------------------
(* process_pending_packets: the handlers of the messages of the clients.   *)

\* The flag set is that of the player at index id; past the end of the array the
\* write is lost.
HandlePlayerReady(id) ==
  /\ pc = "packets"
  /\ players' = IF IsPlayer(id) THEN [players EXCEPT ![At(id)].is_ready = TRUE] ELSE players
  /\ sends' = ToOthers(id, Msg("player_ready", id))
  /\ pressed' = pressed \cup {id}
  /\ UNCHANGED <<sessions, newPlayers, explosions, fsm, is_game_ready, round_is_over, timer,
                 bonuses, pc, exploded, granted>>

\* A client that has entered the lobby sends READY once.
ClientReadies(id) ==
  /\ id \in IdsIn(players) \ pressed
  /\ HandlePlayerReady(id)

HandlePlayerExploded(id) ==
  /\ pc = "packets"
  /\ exploded' = exploded \cup {id}
  /\ IF IsSender(id)
       THEN /\ explosions' = Append(explosions, At(id))
            /\ sends' = ToOthers(id, Msg("player_exploded", id))
       ELSE /\ sends' = Silence
            /\ UNCHANGED explosions
  /\ UNCHANGED <<sessions, newPlayers, players, fsm, is_game_ready, round_is_over, timer,
                 bonuses, pc, pressed, granted>>

\* Clients play from the ROUND_START they receive to the ROUND_OVER they
\* receive, so what they send may still arrive after the round was closed.
Plays(id) == id \in IdsIn(players) /\ fsm # "game_waiting"

\* A client reports its death once in a round.
ClientExplodes(id) ==
  /\ Plays(id)
  /\ id \notin exploded
  /\ HandlePlayerExploded(id)

HandlePlayerDropBomb(id) ==
  /\ pc = "packets"
  /\ Plays(id)
  /\ sends' = IF IsSender(id) THEN ToOthers(id, Msg("player_drop_bomb", id)) ELSE Silence
  /\ UNCHANGED <<serverVars, pc, clientVars>>

HandlePlayerKickBomb(id) ==
  /\ pc = "packets"
  /\ Plays(id)
  /\ sends' = ToOthers(id, Msg("player_kick_bomb", id))
  /\ UNCHANGED <<serverVars, pc, clientVars>>

\* Fault: the bonus stays on the map.
HandlePlayerPickupBonusKeepsIt(id, c) ==
  /\ pc = "packets"
  /\ Plays(id)
  /\ c \in bonuses
  /\ sends' = ToAll(players, <<Msg("player_apply_bonus", id)>>)
  /\ granted' = [granted EXCEPT ![c] = @ + 1]
  /\ UNCHANGED <<serverVars, pc, pressed, exploded>>

\* map_consume_bonus: the cell is emptied whatever it held, and only the
\* message that found the bonus is answered.
HandlePlayerPickupBonus(id, c) ==
  /\ pc = "packets"
  /\ Plays(id)
  /\ bonuses' = bonuses \ {c}
  /\ IF c \in bonuses
       THEN /\ sends' = ToAll(players, <<Msg("player_apply_bonus", id)>>)
            /\ granted' = [granted EXCEPT ![c] = @ + 1]
       ELSE /\ sends' = Silence
            /\ UNCHANGED granted
  /\ UNCHANGED <<sessions, newPlayers, explosions, players, fsm, is_game_ready,
                 round_is_over, timer, pc, pressed, exploded>>

\* Without a player at index id the connection is read from address 0; only the
\* calls that find one are modelled.
HandlePing(id) ==
  /\ pc = "packets"
  /\ id \in IdsIn(players)
  /\ IsPlayer(id)
  /\ sends' = [Silence EXCEPT ![players[At(id)].id] = <<Msg("pong", id)>>]
  /\ UNCHANGED <<serverVars, pc, clientVars>>

EndPackets ==
  /\ pc = "packets"
  /\ pc' = "spawn"
  /\ sends' = Silence
  /\ UNCHANGED <<serverVars, clientVars>>

-----------------------------------------------------------------------------
(* world_update: the events are consumed oldest first.                     *)

SpawnPlayer ==
  /\ pc = "spawn"
  /\ newPlayers # <<>>
  /\ newPlayers' = Tail(newPlayers)
  /\ players' = Append(players, NewPlayer(Head(newPlayers)))
  /\ sends' = ToAll(players', <<Msg("player_connected", Head(newPlayers))>>)
  /\ UNCHANGED <<sessions, explosions, fsm, is_game_ready, round_is_over, timer, bonuses,
                 pc, clientVars>>

EndSpawn ==
  /\ pc = "spawn"
  /\ newPlayers = <<>>
  /\ pc' = "explode"
  /\ sends' = Silence
  /\ UNCHANGED <<serverVars, clientVars>>

\* Whatever the state of the game.
ExplodePlayer ==
  /\ pc = "explode"
  /\ explosions # <<>>
  /\ explosions' = Tail(explosions)
  /\ players' = [players EXCEPT ![Head(explosions)].is_dead = TRUE]
  /\ sends' = Silence
  /\ UNCHANGED <<sessions, newPlayers, fsm, is_game_ready, round_is_over, timer, bonuses,
                 pc, clientVars>>

\* Fault: events are left for a later tick.
EndExplodeEarly ==
  /\ pc = "explode"
  /\ pc' = "timers"
  /\ sends' = Silence
  /\ UNCHANGED <<serverVars, clientVars>>

EndExplode ==
  /\ pc = "explode"
  /\ explosions = <<>>
  /\ pc' = "timers"
  /\ sends' = Silence
  /\ UNCHANGED <<serverVars, clientVars>>

-----------------------------------------------------------------------------
(* game_manager_update_game_state: the timer of the game manager first.    *)

Alive(ps) == {i \in DOMAIN ps : ~ps[i].is_dead}
First(S) == CHOOSE i \in S : \A j \in S : i <= j

\* get_winning_player and update_scores: the first player not dead, if any.
Scored(ps) ==
  IF Alive(ps) = {} THEN ps ELSE [ps EXCEPT ![First(Alive(ps))].score = @ + 1]
Winner(ps) == IF Alive(ps) = {} THEN Nobody ELSE ps[First(Alive(ps))].id
Reset(ps) == [i \in DOMAIN ps |-> [ps[i] EXCEPT !.is_dead = FALSE]]

\* on_round_playing_state_exited, then on_next_round_waiting_state_entered.
CloseRound ==
  /\ pc = "timers"
  /\ "close_round" \in timer
  /\ players' = Reset(Scored(players))
  /\ sends' = ToAll(players, <<Msg("round_over", Winner(players))>>)
  /\ fsm' = "next_round_waiting"
  /\ timer' = (timer \ {"close_round"}) \cup {"next_round"}
  /\ pc' = "update"
  /\ UNCHANGED <<sessions, newPlayers, explosions, is_game_ready, round_is_over, bonuses,
                 clientVars>>

\* Fault: the flag of the last round is not reset.
EnterRoundPlayingWithoutReset(before) ==
  /\ fsm' = "round_playing"
  /\ round_is_over' = round_is_over
  /\ bonuses' = Cells
  /\ sends' = ToAll(players, before \o <<Msg("bonus_map", Nobody), Msg("round_start", Nobody)>>)
  /\ exploded' = {}
  /\ granted' = [c \in Cells |-> 0]

\* on_round_playing_state_entered; the players' clients play again.
EnterRoundPlaying(before) ==
  /\ fsm' = "round_playing"
  /\ round_is_over' = FALSE
  /\ bonuses' = Cells
  /\ sends' = ToAll(players, before \o <<Msg("bonus_map", Nobody), Msg("round_start", Nobody)>>)
  /\ exploded' = {}
  /\ granted' = [c \in Cells |-> 0]

NextRound ==
  /\ pc = "timers"
  /\ "next_round" \in timer
  /\ timer' = timer \ {"next_round"}
  /\ EnterRoundPlaying(<<>>)
  /\ pc' = "update"
  /\ UNCHANGED <<sessions, newPlayers, explosions, players, is_game_ready, pressed>>

\* No hook is due yet.
EndTimers ==
  /\ pc = "timers"
  /\ pc' = "update"
  /\ sends' = Silence
  /\ UNCHANGED <<serverVars, clientVars>>

-----------------------------------------------------------------------------
(* finite_state_machine_update: on_state_updated of the current state.     *)

ReadyPlayers == {i \in DOMAIN players : players[i].is_ready}

\* The timer of the waiting state is due.  game_ready leaves that state, which
\* destroys the timer, its hooks and their list while the timer walks them.
\* What follows depends on what the memory holds by then: the walk ends, or
\* the process does.
GameReady ==
  /\ pc = "update"
  /\ fsm = "game_waiting"
  /\ "game_ready" \in timer
  /\ timer' = timer \ {"game_ready"}
  /\ EnterRoundPlaying(<<Msg("game_ready", Nobody)>>)
  /\ pc' \in {"flush", "aborted"}
  /\ UNCHANGED <<sessions, newPlayers, explosions, players, is_game_ready, pressed>>

WaitForGame ==
  /\ pc = "update"
  /\ fsm = "game_waiting"
  /\ Cardinality(ReadyPlayers) = ExpectedPlayers
  /\ ~is_game_ready
  /\ is_game_ready' = TRUE
  /\ timer' = timer \cup {"game_ready"}
  /\ pc' = "flush"
  /\ sends' = Silence
  /\ UNCHANGED <<sessions, newPlayers, explosions, players, fsm, round_is_over, bonuses,
                 clientVars>>

\* Fault: off by one in the number of survivors.
IsRoundOverTooSoon == Cardinality(Alive(players)) <= 2

\* is_round_over.
IsRoundOver == Cardinality(Alive(players)) <= 1

EndRound ==
  /\ pc = "update"
  /\ fsm = "round_playing"
  /\ ~round_is_over
  /\ IsRoundOver
  /\ round_is_over' = TRUE
  /\ timer' = timer \cup {"close_round"}
  /\ pc' = "flush"
  /\ sends' = Silence
  /\ UNCHANGED <<sessions, newPlayers, explosions, players, fsm, is_game_ready, bonuses,
                 clientVars>>

\* Nothing to do in the current state.
EndUpdate ==
  /\ pc = "update"
  /\ fsm = "game_waiting" => is_game_ready \/ Cardinality(ReadyPlayers) # ExpectedPlayers
  /\ fsm = "round_playing" => round_is_over \/ ~IsRoundOver
  /\ pc' = "flush"
  /\ sends' = Silence
  /\ UNCHANGED <<serverVars, clientVars>>

-----------------------------------------------------------------------------
(* update_network_timer.  A flush comes every few ticks, long before the    *)
(* next round; a message that cannot be sent is taken to meet it at once.  *)

\* The scores of the last ROUND_OVER are out of the range of its serialization.
ScoreOutOfRange == \E i \in DOMAIN players : players[i].score > MaxScore

EndTick ==
  /\ pc = "flush"
  /\ ~ScoreOutOfRange
  /\ pc' = "packets"
  /\ sends' = Silence
  /\ UNCHANGED <<serverVars, clientVars>>

\* Measuring that message fails an assertion.
AbortOnScore ==
  /\ pc = "flush"
  /\ ScoreOutOfRange
  /\ pc' = "aborted"
  /\ sends' = Silence
  /\ UNCHANGED <<serverVars, clientVars>>

-----------------------------------------------------------------------------
HandleMessage ==
  \E id \in Ids :
    \/ ClientReadies(id)
    \/ ClientExplodes(id)
    \/ HandlePlayerDropBomb(id)
    \/ HandlePlayerKickBomb(id)
    \/ HandlePing(id)
    \/ \E c \in Cells : HandlePlayerPickupBonus(id, c)

Tick ==
  \/ EndPackets
  \/ SpawnPlayer \/ EndSpawn
  \/ ExplodePlayer \/ EndExplode
  \/ CloseRound \/ NextRound \/ EndTimers
  \/ GameReady \/ WaitForGame \/ EndRound \/ EndUpdate
  \/ EndTick \/ AbortOnScore

Next ==
  \/ \E s \in Ids : OnPlayerSessionReady(s)
  \/ HandleMessage
  \/ Tick

Spec == Init /\ [][Next]_vars

\* The main loop calls the tick again and again.  A wait hook compares a clock
\* that only grows with a fixed date, so it is due after finitely many ticks.
\* Nothing is assumed of the players.
FairSpec ==
  /\ Spec
  /\ WF_vars(Tick)
  /\ SF_vars(GameReady)
  /\ SF_vars(CloseRound)
  /\ SF_vars(NextRound)

-----------------------------------------------------------------------------
(* Properties.                                                             *)

\* Every variable has its type; pending explosions are of players of the array.
TypeOK ==
  /\ sessions \subseteq Ids
  /\ newPlayers \in Seq(Ids)
  /\ players \in Seq(Player)
  /\ explosions \in Seq(DOMAIN players)
  /\ fsm \in States
  /\ is_game_ready \in BOOLEAN
  /\ round_is_over \in BOOLEAN
  /\ timer \subseteq Hooks
  /\ bonuses \subseteq Cells
  /\ pc \in TickParts
  /\ sends \in [Ids -> Seq(Message)]
  /\ pressed \subseteq Ids
  /\ exploded \subseteq Ids
  /\ granted \in [Cells -> Nat]

DeadIds == {players[i].id : i \in {j \in DOMAIN players : players[j].is_dead}}
ScoreOf(id) ==
  IF id \in IdsIn(players)
    THEN players[CHOOSE i \in DOMAIN players : players[i].id = id].score
    ELSE 0

ServerRounds == INSTANCE Rounds WITH
  Players <- Ids,
  stage <- [game_waiting |-> "lobby", round_playing |-> "playing",
            next_round_waiting |-> "pause"][fsm],
  alive <- Ids \ DeadIds,
  score <- [id \in Ids |-> ScoreOf(id)]

\* Seen by the players the server runs rounds: a round closes only when at most
\* one of all the expected players is alive, although the check was made two
\* seconds earlier and players kept exploding; its survivor, and nobody else,
\* scores; everyone is alive again when the pause begins.
ImplementsRounds == ServerRounds!Spec

\* The bonus of a cell is granted at most once per round, however many players
\* say that they picked it up.
BonusGrantedOnce == \A c \in Cells : granted[c] <= 1

\* The winner of a round is not a player whose EXPLODED was handled before the
\* round was closed, be it in the same tick: the events are consumed before the
\* timers are looked at.
NoDeadWinner ==
  [][fsm = "round_playing" /\ fsm' = "next_round_waiting"
       => Winner(players) \notin exploded]_vars

\* Once all the expected players have sent READY the game starts (unless the
\* process ends), in whichever tick and order their messages are handled.
GameStarts ==
  Cardinality(pressed) = ExpectedPlayers ~> (fsm = "round_playing" \/ pc = "aborted")

\* A round with at most one player alive is closed and the next one begins,
\* for ever or until the process ends.
RoundsGoOn ==
  /\ (fsm = "round_playing" /\ IsRoundOver) ~> (fsm = "next_round_waiting" \/ pc = "aborted")
  /\ fsm = "next_round_waiting" ~> (fsm = "round_playing" \/ pc = "aborted")

\* The second argument of the server is the number of round victories that wins
\* the game: no round is played once a player has won that many.
GameEndsWhenWon ==
  (\E i \in DOMAIN players : players[i].score >= RequiredRoundsToWin) => fsm # "round_playing"

\* The server forwards what a client reports to the other clients.
ForwardsExplosions ==
  [][\A id \in Ids : ClientExplodes(id) =>
       \A other \in IdsIn(players) \ {id} : sends'[other] = <<Msg("player_exploded", id)>>]_vars
=============================================================================
