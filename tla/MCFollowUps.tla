----------------------------- MODULE MCFollowUps -----------------------------
(***************************************************************************)
(* Small instances of FollowUps for TLC.                                   *)
(***************************************************************************)
EXTENDS FollowUps, TLC

CONSTANTS m1, m2

Symmetric == Permutations(Messages)
=============================================================================
