--------------------------- MODULE NaturalDescent ---------------------------
(***************************************************************************)
(* Descent along the natural numbers, a law of temporal logic: what gets   *)
(* from each number to the one below, or to the goal, gets from any number *)
(* to 0, or to the goal.  It is true of every R and every Goal, by         *)
(* induction on n, but an induction over temporal formulas, which the      *)
(* prover cannot do; the theorems that use it name its instance as a       *)
(* hypothesis.                                                             *)
(***************************************************************************)
EXTENDS Naturals

Descent(R(_), Goal) ==
  []((\A n \in Nat : R(n + 1) ~> R(n) \/ Goal)
       => ((\E n \in Nat : R(n)) ~> R(0) \/ Goal))
=============================================================================
