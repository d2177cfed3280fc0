--------------------------- MODULE MCSharedConfig ---------------------------
(* TLC instance of SharedConfig.                                           *)
EXTENDS SharedConfig

CONSTANTS p1, p2, p3

MCProc == {p1, p2, p3}
=============================================================================
