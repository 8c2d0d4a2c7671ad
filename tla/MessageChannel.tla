---------------------------- MODULE MessageChannel ----------------------------
(***************************************************************************)
(* What SlingshotStream promises to whoever writes JSON lines into it: the *)
(* other end processes the messages in the order they were written, each   *)
(* at most once, and skips none, except a message that the stream could    *)
(* not send in one piece.  Messages are numbered in the order of writing.  *)
(***************************************************************************)
EXTENDS Naturals

CONSTANTS
    N,          \* how many messages are written at most
    Fragile     \* the messages that may be lost

VARIABLES
    written,    \* messages 1 .. written have been written
    accepted,   \* the messages the other end has processed
    lost        \* the messages it will never process

vars == <<written, accepted, lost>>

Init == written = 0 /\ accepted = {} /\ lost = {}

Write ==
    /\ written < N
    /\ written' = written + 1
    /\ UNCHANGED <<accepted, lost>>

(* The next message is the first one that is neither processed nor lost.  *)
Accept(m) ==
    /\ m \notin accepted \cup lost
    /\ \A k \in 1..(m - 1) : k \in accepted \cup lost
    /\ accepted' = accepted \cup {m}
    /\ UNCHANGED <<written, lost>>

Lose(m) ==
    /\ m \in Fragile
    /\ m \notin accepted
    /\ lost' = lost \cup {m}
    /\ UNCHANGED <<written, accepted>>

Next ==
    \/ Write
    \/ \E m \in 1..written : Accept(m) \/ Lose(m)

Spec == Init /\ [][Next]_vars
=============================================================================
