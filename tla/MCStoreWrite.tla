---------------------------- MODULE MCStoreWrite ----------------------------
(* StoreWrite for TLC.  Processes that cannot crash are interchangeable.    *)
EXTENDS StoreWrite, TLC

Symmetry == Permutations(Procs \ (Crashable \cup Sleepers))
=============================================================================
