----------------------------- MODULE MCBrewSync -----------------------------
(* BrewSync on small instances. *)
EXTENDS BrewSync, TLC

Symmetry == Permutations(Machines)
=============================================================================
