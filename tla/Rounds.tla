--------------------------------- MODULE Rounds ---------------------------------
(***************************************************************************)
(* What the players of a game may expect of the server: rounds one after   *)
(* the other, each of which closes only when at most one of them is left   *)
(* alive and gives its survivor, if any, one point.  A player whose        *)
(* explosion is learnt of during the pause starts the next round dead.     *)
(***************************************************************************)
EXTENDS Naturals

CONSTANT Players

VARIABLES
  stage,  \* "lobby", "playing" or "pause"
  alive,
  score

vars == <<stage, alive, score>>

Init ==
  /\ stage = "lobby"
  /\ alive = Players
  /\ score = [p \in Players |-> 0]

Begin ==
  /\ stage # "playing"
  /\ stage' = "playing"
  /\ UNCHANGED <<alive, score>>

Die(p) ==
  /\ stage # "lobby"
  /\ alive' = alive \ {p}
  /\ UNCHANGED <<stage, score>>

Close ==
  /\ stage = "playing"
  /\ \A p, q \in alive : p = q
  /\ stage' = "pause"
  /\ score' = [p \in Players |-> IF p \in alive THEN score[p] + 1 ELSE score[p]]
  /\ alive' = Players

Next == Begin \/ Close \/ \E p \in Players : Die(p)

Spec == Init /\ [][Next]_vars
=============================================================================
