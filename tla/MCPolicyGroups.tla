--------------------------- MODULE MCPolicyGroups ----------------------------
(* Small instances of PolicyGroups. *)
EXTENDS PolicyGroups, TLC

CONSTANTS g1, g2, q1, q2

Sequential == q1 :> Operations
Overlapping == (q1 :> Operations) @@ (q2 :> {"delete", "unpool", "rule"})
Symmetry == Permutations(Custom)
=============================================================================
