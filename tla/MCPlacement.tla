---------------------------- MODULE MCPlacement ----------------------------
(* TLC instance of Placement.                                              *)
EXTENDS Placement

CONSTANTS w1, w2

MCWin == {w1, w2}
=============================================================================
