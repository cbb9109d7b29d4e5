------------------------------ MODULE Interpolation ------------------------------
(***************************************************************************)
(* How a client shows a remote player: the positions that arrive are kept  *)
(* in a circular buffer with the time of their arrival, and the player is  *)
(* drawn where it was INTERPOLATION_TIME_MS ago, between the two positions *)
(* around that time.                                                       *)
(*                                                                         *)
(* Positions have one coordinate.  Those of a player who walks one way     *)
(* arrive in order, some are lost, and several may arrive in one frame.    *)
(***************************************************************************)
EXTENDS Integers, Sequences

CONSTANTS
  INTERPOLATION_STATES_COUNT,
  INTERPOLATION_TIME_MS,
  Steps,        \* what the timer may advance in a frame
  MaxElapsed,   \* bound: the time of the timer
  MaxPosition   \* bound: positions

ASSUME InterpolationAssumption ==
  /\ INTERPOLATION_STATES_COUNT \in Nat \ {0}
  /\ {INTERPOLATION_TIME_MS, MaxElapsed, MaxPosition} \subseteq Nat
  /\ Steps \subseteq Nat

VARIABLES
  elapsed,     \* elapsed_ms of the game timer
  phase,       \* "receive" while events are handled, "show" when all were
  ring,        \* circular_buffer_t: its array and the index it fills next
  latest,      \* history: the last position that arrived
  shown,       \* where the player is drawn
  direction    \* moving_direction: 1 when it walks, 0 when it stands

interpolationVars == <<elapsed, phase, ring, latest, shown, direction>>

\* An empty slot; the time of a state is not negative.
NoState == [time |-> -1, position |-> 0]

InterpolationInit ==
  /\ elapsed = 0 /\ phase = "show"
  /\ ring = [array |-> [i \in 0 .. INTERPOLATION_STATES_COUNT - 1 |-> NoState], index |-> 0]
  /\ latest = 0 /\ shown = 0 /\ direction = 0

\* tdd_timer_update at the start of a frame.
Frame ==
  /\ phase = "show"
  /\ \E d \in Steps : elapsed + d <= MaxElapsed /\ elapsed' = elapsed + d
  /\ phase' = "receive"
  /\ UNCHANGED <<ring, latest, shown, direction>>

\* circular_buffer_add: the item in the slot is destroyed.
AddState(s) ==
  ring' = [array |-> [ring.array EXCEPT ![ring.index] = s],
           index |-> (ring.index + 1) % INTERPOLATION_STATES_COUNT]

\* handle_player_update_position_event
ReceivePosition(p) ==
  /\ phase = "receive"
  /\ p >= latest
  /\ AddState([time |-> elapsed, position |-> p])
  /\ latest' = p
  /\ UNCHANGED <<elapsed, phase, shown, direction>>

Filled == {i \in DOMAIN ring.array : ring.array[i] # NoState}
TimeAt(i) == ring.array[i].time

\* Of some slots, the first in the array that is best.
FirstBest(slots, Better(_, _)) ==
  CHOOSE i \in slots :
    \A j \in slots : ~ Better(j, i) /\ (j < i => Better(i, j))

\* get_two_interpolation_states: the last state until the time that is shown,
\* and the first of those after it.
Before(time) == {i \in Filled : TimeAt(i) <= time}
State1(time) == FirstBest(Before(time), LAMBDA i, j : TimeAt(i) > TimeAt(j))
After(time) == {i \in Filled : TimeAt(i) > TimeAt(State1(time))}

\* Fault: the last state of all.
State2Last(time) == FirstBest(After(time), LAMBDA i, j : TimeAt(i) > TimeAt(j))
State2(time) == FirstBest(After(time), LAMBDA i, j : TimeAt(i) < TimeAt(j))

\* position_interpolation_entity_system.  Without two states nothing moves.
Show ==
  /\ phase = "receive"
  /\ phase' = "show"
  /\ LET time == elapsed - INTERPOLATION_TIME_MS
     IN IF time >= 0 /\ Before(time) # {} /\ After(time) # {}
        THEN LET s1 == ring.array[State1(time)]
                 s2 == ring.array[State2(time)]
                 moved == s2.position - s1.position
             IN /\ shown' = s1.position + (moved * (time - s1.time)) \div (s2.time - s1.time)
                /\ direction' = IF moved = 0 THEN 0 ELSE 1
        ELSE UNCHANGED <<shown, direction>>
  /\ UNCHANGED <<elapsed, ring, latest>>

InterpolationNext ==
  \/ Frame \/ Show
  \/ \E p \in 0 .. MaxPosition : ReceivePosition(p)

InterpolationSpec == InterpolationInit /\ [][InterpolationNext]_interpolationVars

-----------------------------------------------------------------------------
\* A player who walks one way is never drawn a step back, nor ahead of the last
\* position that arrived, however many positions share a frame and whatever the
\* buffer has overwritten (position_interpolation_entity_system.c).
ShownMovesForward ==
  [][shown <= shown' /\ shown' <= latest]_interpolationVars
=============================================================================
