------------------------------ MODULE MCBombWorld ------------------------------
(* Maps for BombWorld. *)
EXTENDS BombWorld

\* Two free cells, with a destructible wall at the far end of the row and another
\* below the first cell.
MCGround == {<<1, 1>>, <<2, 1>>}
MCDestWalls == {<<3, 1>>, <<1, 2>>}
=============================================================================
