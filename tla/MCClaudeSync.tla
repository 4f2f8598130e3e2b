---------------------------- MODULE MCClaudeSync ----------------------------
EXTENDS ClaudeSync, TLC
CONSTANTS m1, m2, p1, p2
(* One process on each machine, which runs anything. *)
Alone == p1 :> m1 @@ p2 :> m2
Anything == [p \in {p1, p2} |-> Commands]
=============================================================================
