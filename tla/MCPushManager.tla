---------------------------- MODULE MCPushManager ----------------------------
(***************************************************************************)
(* Small instances of PushManager for TLC.                                 *)
(***************************************************************************)
EXTENDS PushManager, TLC

CONSTANTS h1, t1, t2, k1, k2

Symmetric == Permutations(TurnIds) \cup Permutations(Tokens)
=============================================================================
