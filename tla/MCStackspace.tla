---------------------------- MODULE MCStackspace ----------------------------
(* Stackspace on a small instance. *)
EXTENDS Stackspace, TLC

Symmetry == Permutations(Work)
=============================================================================
