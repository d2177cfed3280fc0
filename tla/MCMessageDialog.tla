-------------------------- MODULE MCMessageDialog --------------------------
(* TLC instance of MessageDialog.                                          *)
EXTENDS MessageDialog

CONSTANTS d1, d2, d3, n1, n2

MCDialog == {d1, d2, d3}
MCName == {n1, n2}
=============================================================================
