---------------------------- MODULE MCTargetOps ----------------------------
(* TLC instance of TargetOps.                                              *)
EXTENDS TargetOps

CONSTANTS m1, m2, t1, o1, o2, p1, p2

MCMain == {m1, m2}
MCTarget == {t1}
MCOverlay == {o1, o2}
MCPlace == {Zero, p1, p2}
=============================================================================
