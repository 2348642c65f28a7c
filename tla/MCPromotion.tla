----------------------------- MODULE MCPromotion -----------------------------
(***************************************************************************)
(* Small instances of Promotion for TLC.                                   *)
(***************************************************************************)
EXTENDS Promotion, TLC

CONSTANTS p1, p2

Symmetry == Permutations(Operators)
=============================================================================
