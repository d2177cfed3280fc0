---------------------------- MODULE MCHighlight ----------------------------
(* TLC instance of Highlight.                                              *)
EXTENDS Highlight, TLC

CONSTANTS editor, f1, r1, r2

MCFinders == {UI, editor}
MCFinder == {UI}
MCFlashers == {f1}
MCRects == {r1, r2}

\* Nothing tells one rectangle from another; only safety is checked.
Symmetry == Permutations(MCRects)
=============================================================================
