----------------------------- MODULE MCMainView -----------------------------
(* TLC instance of MainView.                                               *)
EXTENDS MainView

CONSTANTS o1, o2

MCOthers == {o1, o2}
=============================================================================
