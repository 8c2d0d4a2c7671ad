---------------------------- MODULE MCHostChannel ----------------------------
(***************************************************************************)
(* Small instances of HostChannel for TLC.                                 *)
(***************************************************************************)
EXTENDS HostChannel, TLC

CONSTANTS d1, d2, t1, e1, e2, k1, k2, s1, s2, n1, n2, n3, n4, r1, r2

MCEventTurn == [e \in Events |-> t1]

\* d1 subscribes, and again with a rotated token; d2 shares the turn.
G(i, d, k, from, to) == [nonce |-> i, device |-> d, turn |-> t1, token |-> k,
                         issuedAt |-> from, expiresAt |-> to]

OneDevice   == {G(1, d1, k1, 0, 3)}
LongGrant   == {G(1, d1, k1, 0, 6)}
Rotating    == {G(1, d1, k1, 0, 2), G(2, d1, k2, 1, 3)}
TwoDevices  == {G(1, d1, k1, 0, 4), G(2, d2, k1, 0, 4)}
MCLimits    == [b \in Buckets |-> 2]

Symmetric == Permutations(Nonces) \cup Permutations(SubIds) \cup Permutations(Reporters)
=============================================================================
