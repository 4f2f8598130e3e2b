-------------------------- MODULE MCAccountSwitch --------------------------
(* AccountSwitch for TLC.                                                  *)
EXTENDS AccountSwitch, TLC

Symmetry == Permutations(Accounts)
=============================================================================
