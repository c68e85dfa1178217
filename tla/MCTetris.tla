------------------------------ MODULE MCTetris ------------------------------
(***************************************************************************)
(* Instance of Tetris: an arena of 4 x 5, in which one I or two Os side by *)
(* side fill lines (adjacent ones, too), and an S or J leaves gaps.  The   *)
(* indices are those of the arrays in game.c.                              *)
(***************************************************************************)
EXTENDS Tetris

MCI == {4, 5, 6, 7}
MCO == {5, 6, 9, 10}
MCJ == {7, 9, 10, 11}
MCS == {6, 7, 9, 10}
MCTetrominoes == {MCI, MCO, MCJ, MCS}
=============================================================================
