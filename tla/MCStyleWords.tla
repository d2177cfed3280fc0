--------------------------- MODULE MCStyleWords ---------------------------
(* TLC instance of StyleWords.                                             *)
EXTENDS StyleWords

CONSTANTS w1, o1, m1, e1, Style

\* Beside the flag of layered windows one other, which is of the border and of those
\* that exclude each other.
MCToggles == {{Style}, {Layered}}
MCAlphas == {0, 238, Opaque}
=============================================================================
