----------------------------- MODULE MCSessions -----------------------------
(* Sessions over small sets, for TLC. *)
EXTENDS Sessions, TLC

CONSTANTS r1, r2, q1, q2

MCRuntimes == {r1, r2}
MCMain == r1
MCPaths == {"websocket", "alleycat"}
MCSlots == {q1, q2}
MCSteps == [p \in MCPaths |-> IF p = "websocket" THEN 4 ELSE 3]
MCSymmetry == Permutations(MCSlots)
=============================================================================
