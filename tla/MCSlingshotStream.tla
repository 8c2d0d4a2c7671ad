-------------------------- MODULE MCSlingshotStream --------------------------
(* Small instances of SlingshotStream.                                     *)
EXTENDS SlingshotStream

\* the lines written: in one segment, in two, or refused
Mixed == <<1, 2, 0, 1>>
Large == <<2, 1>>

\* the messages of the relay: two segments each, the second one garbled
OneGarbled == <<2, 2>>
NoFeed == <<>>
FeedOf(chunks) ==
    LET f[j \in 0..Len(chunks)] ==
            IF j = 0 THEN <<>> ELSE f[j - 1] \o [s \in 1..chunks[j] |-> <<j, s>>]
    IN  f[Len(chunks)]
FeedGarbled == FeedOf(OneGarbled)
=============================================================================
