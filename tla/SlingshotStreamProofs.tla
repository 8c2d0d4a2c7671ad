-------------------------- MODULE SlingshotStreamProofs --------------------------
(***************************************************************************)
(* Theorems about SlingshotStream, for any messages, any number of         *)
(* connections and any relay feed: its type invariant, that nothing needed *)
(* is forgotten, that the close comes last, and that it implements         *)
(* MessageChannel.                                                         *)
(***************************************************************************)
EXTENDS SlingshotStream, TLAPS

(* An envelope that is on its way to the relay, or has reached it.         *)
InNet(e) == \E i \in DOMAIN net : net[i] = e
AtRelay(e) == e \in parts \/ InNet(e)

(* Numbers are given in the order of the lines; only a shutdown takes one  *)
(* more.                                                                   *)
Numbering ==
    /\ nextSeq <= written + (IF pc = "closed" THEN 2 ELSE 1)
    /\ \A e \in queue \cup parts : e[1] < nextSeq /\ e[1] <= written
    /\ \A i \in DOMAIN net : /\ net[i][1] < nextSeq
                             /\ net[i][2] # 0 => net[i][1] <= written
    /\ \A m \in accepted \cup lost : m < nextSeq /\ m <= written
    /\ \A m \in accepted : m <= last
    /\ \A m \in 1..written : m < nextSeq /\ Chunks[m] = 0 => m \in lost

(* The loop over envelopes that is running.                                *)
LoopState ==
    /\ pc \in {"down", "loop"} => left = {}
    /\ pc = "replay" => left \subseteq queue
    /\ pc = "send" => /\ left # {}
                      /\ nextSeq <= written + 1
                      /\ left \subseteq Segments
                      /\ \A e \in left : /\ e[1] = nextSeq - 1
                                         /\ e \notin queue
                                         /\ ~AtRelay(e)
                      /\ nextSeq - 1 \notin Settled

(* The relay has settled everything up to last, a complete message is      *)
(* settled at once, and a lost one never becomes complete.                 *)
RelayState ==
    /\ \A m \in Messages : m <= last => m \in Settled
    /\ \A i \in DOMAIN inbound : inbound[i].kind = "ack" => inbound[i].n <= last
    /\ \A m \in Messages : Chunks[m] # 0 => ~(Envelopes(m) \subseteq parts)
    /\ \A m \in lost : Chunks[m] # 0 =>
           \E e \in Envelopes(m) : e \notin queue /\ ~AtRelay(e)
    /\ accepted \cap lost = {}

(* Before an envelope the connection carries whatever the relay still      *)
(* lacks of earlier messages ...                                           *)
NetOrdered ==
    \A i \in DOMAIN net : \A k \in Messages :
        k < net[i][1] /\ k \notin Settled =>
            \A e \in Envelopes(k) : e \in parts \/ \E j \in 1..(i - 1) : net[j] = e

(* ... since what the loop has replayed or sent has been on it.            *)
LinkCovers ==
    link = "up" /\ pc \in {"replay", "loop", "send"} =>
        \A e \in queue : \/ e[1] \in Settled
                         \/ AtRelay(e)
                         \/ pc = "replay" /\ e \in left

(* The close: behind every line, on the wire and at the relay.             *)
CloseState ==
    /\ \A i \in DOMAIN net : net[i][2] = 0 =>
           net[i][1] = written + 1 /\ shutdown /\ pc = "closed"
    /\ gone => shutdown /\ pc = "closed"
    /\ CloseIsLast

Inv ==
    /\ TypeOK /\ Numbering /\ LoopState /\ RelayState
    /\ NetOrdered /\ LinkCovers /\ NothingForgotten /\ CloseState

-----------------------------------------------------------------------------
(* Facts about the constants.                                              *)
LEMMA LinesNat ==
    Lines \in Nat /\ Messages = 1..Lines /\ \A m \in Messages : Chunks[m] \in Nat
BY ChunksAssumption DEF Lines, Messages

LEMMA EnvelopesAreSegments ==
    ASSUME NEW m \in Messages
    PROVE  /\ Envelopes(m) \subseteq Segments
           /\ \A e \in Envelopes(m) : e[1] = m
           /\ \A e \in Segments : e[1] = m => e \in Envelopes(m)
BY LinesNat DEF Envelopes, Segments

LEMMA FeedSegment ==
    ASSUME NEW p \in DOMAIN Feed
    PROVE  /\ Feed[p] \in FeedSegments
           /\ Feed[p][1] \in DOMAIN FeedChunks
           /\ p \in 1..Len(Feed)
BY FeedAssumption DEF FeedSegments

-----------------------------------------------------------------------------
(* Types.                                                                  *)
LEMMA TypeInit == Init => TypeOK
<1> SUFFICES ASSUME Init PROVE TypeOK
  OBVIOUS
<1>1. 0 \in 0..Lines /\ 1 \in 1..(Lines + 2) /\ 0 \in 0..Len(Feed)
  BY LinesNat, FeedAssumption
<1>2. <<>> \in Seq(DOMAIN FeedChunks) /\ net \in Seq(Segments \cup Closing)
      /\ inbound \in Seq(Inbound)
  BY DEF Init
<1> QED
  BY <1>1, <1>2 DEF Init, TypeOK

(* The wire with one more envelope.                                        *)
LEMMA TransmitType ==
    ASSUME TypeOK, NEW e \in Segments \cup Closing, Transmit(e)
    PROVE  /\ net' \in Seq(Segments \cup Closing)
           /\ link' = link /\ inbound' = inbound /\ links' = links
BY DEF TypeOK, Transmit

LEMMA HangUpType ==
    ASSUME TypeOK, HangUp
    PROVE  /\ pc' = "down" /\ left' = {} /\ link' = "none"
           /\ net' = <<>> /\ inbound' = <<>> /\ links' = links
           /\ net' \in Seq(Segments \cup Closing)
           /\ inbound' \in Seq(Inbound)
BY DEF HangUp

LEMMA TypeStep ==
    ASSUME TypeOK, [Next]_vars
    PROVE  TypeOK'
<1> USE LinesNat DEF TypeOK, writer, outgoing, incoming, wires, relay
<1>1. CASE Write
  BY <1>1 DEF Write
<1>2. CASE Shutdown
  BY <1>2 DEF Shutdown
<1>3. CASE Abort
  BY <1>3 DEF Abort
<1>4. CASE Connect
  <2>1. net' \in Seq(Segments \cup Closing) /\ inbound' \in Seq(Inbound)
    BY <1>4 DEF Connect
  <2> QED
    BY <1>4, <2>1 DEF Connect, ToReplay, Resume
<1>5. CASE Replay
  <2>1. PICK e \in left : Transmit(e) /\ left' = left \ {e}
    BY <1>5 DEF Replay
  <2> QED
    BY <1>5, <2>1, TransmitType DEF Replay
<1>6. CASE ReplayFails
  BY <1>6, HangUpType DEF ReplayFails
<1>7. CASE Replayed
  BY <1>7 DEF Replayed
<1>8. CASE Take
  <2>1. nextSeq \in Messages /\ nextSeq + 1 \in 1..(Lines + 2)
    BY <1>8 DEF Take
  <2> QED
    BY <1>8, <2>1, EnvelopesAreSegments DEF Take
<1>9. CASE Refuse
  <2>1. nextSeq \in Messages /\ nextSeq + 1 \in 1..(Lines + 2)
    BY <1>9 DEF Refuse
  <2> QED
    BY <1>9, <2>1, HangUpType DEF Refuse
<1>10. CASE Send
  <2>1. PICK e \in left : Transmit(e) /\ Queued(e) /\ left' = left \ {e}
    BY <1>10 DEF Send
  <2> QED
    BY <1>10, <2>1, TransmitType DEF Send, Queued
<1>11. CASE SendFails
  <2>1. PICK e \in left : /\ queue' = queue \cup {e}
                          /\ lost' = IF left = {e} THEN lost ELSE lost \cup {e[1]}
    BY <1>11 DEF SendFails, Queued
  <2>2. e[1] \in Messages
    BY <2>1 DEF Segments
  <2> QED
    BY <1>11, <2>1, <2>2, HangUpType DEF SendFails
<1>12. CASE Finish
  <2>1. <<nextSeq, 0>> \in Closing /\ nextSeq + 1 \in 1..(Lines + 2)
    BY <1>12 DEF Finish, ShutdownIsNext, Closing
  <2> QED
    BY <1>12, <2>1, TransmitType DEF Finish
<1>13. CASE ReceiveAck
  <2>1. inbound' \in Seq(Inbound)
    BY <1>13 DEF ReceiveAck
  <2> QED
    BY <1>13, <2>1 DEF ReceiveAck, Retained
<1>14. CASE ReceivePart
  <2>1. PICK p \in DOMAIN Feed :
            ReceiveSegment(p) \/ ReceiveLast(p) \/ ReceiveGarbled(p)
    BY <1>14 DEF ReceivePart
  <2>2. /\ Feed[p] \in FeedSegments
        /\ Feed[p][1] \in DOMAIN FeedChunks
        /\ p \in 0..Len(Feed)
    BY FeedSegment, FeedAssumption
  <2>3. Observed(p) \subseteq FeedSegments
    BY <2>2 DEF Observed
  <2>4. CASE ReceiveSegment(p)
    <3>1. inbound' \in Seq(Inbound)
      BY <2>4 DEF ReceiveSegment, TakePart
    <3> QED
      BY <2>2, <2>3, <2>4, <3>1 DEF ReceiveSegment, TakePart
  <2>5. CASE ReceiveLast(p)
    <3>1. inbound' \in Seq(Inbound) /\ delivered' \in Seq(DOMAIN FeedChunks)
      BY <2>2, <2>5 DEF ReceiveLast, TakePart
    <3> QED
      BY <2>2, <2>3, <2>5, <3>1 DEF ReceiveLast, TakePart
  <2>6. CASE ReceiveGarbled(p)
    BY <2>2, <2>3, <2>6, HangUpType DEF ReceiveGarbled, TakePart
  <2> QED
    BY <2>1, <2>4, <2>5, <2>6
<1>15. CASE Leave
  BY <1>15, HangUpType DEF Leave
<1>16. CASE Cut
  <2>1. PICK n \in 0..Len(inbound) : inbound' = SubSeq(inbound, 1, n)
    BY <1>16 DEF Cut
  <2>2. inbound' \in Seq(Inbound)
    BY <2>1
  <2> QED
    BY <1>16, <2>2 DEF Cut
<1>17. CASE RelayReceive
  <2>1. PICK e \in {net[i] : i \in DOMAIN net} :
            RelayCloses(e) \/ RelayDrops(e) \/ RelayKeeps(e) \/ RelayProcesses(e)
    BY <1>17 DEF RelayReceive
  <2>2. e \in Segments \cup Closing
    BY <2>1
  <2>3. RelayRead(e) => net' \in Seq(Segments \cup Closing)
    BY DEF RelayRead
  <2>4. e[2] # 0 => e \in Segments /\ e[1] \in Messages /\ e[1] \in Nat
    BY <2>2 DEF Closing, Segments
  <2>5. CASE RelayCloses(e)
    BY <2>3, <2>5 DEF RelayCloses, RelayRead
  <2>6. CASE RelayDrops(e)
    BY <2>3, <2>6 DEF RelayDrops, RelayRead
  <2>7. CASE RelayKeeps(e)
    BY <2>3, <2>4, <2>7 DEF RelayKeeps, RelayRead
  <2>8. CASE RelayProcesses(e)
    BY <2>3, <2>4, <2>8 DEF RelayProcesses, RelayRead
  <2> QED
    BY <2>1, <2>5, <2>6, <2>7, <2>8
<1>18. CASE RelayAck
  <2>1. [kind |-> "ack", n |-> last] \in Inbound
    BY DEF Inbound
  <2> QED
    BY <1>18, <2>1 DEF RelayAck
<1>19. CASE RelayFeed
  <2>1. feedPos + 1 \in DOMAIN Feed /\ feedPos + 1 \in 0..Len(Feed)
    BY <1>19, FeedAssumption DEF RelayFeed
  <2>2. [kind |-> "part", n |-> feedPos + 1] \in Inbound
    BY <2>1 DEF Inbound
  <2> QED
    BY <1>19, <2>1, <2>2 DEF RelayFeed
<1>20. CASE UNCHANGED vars
  BY <1>20 DEF vars
<1> QED
  BY <1>1, <1>2, <1>3, <1>4, <1>5, <1>6, <1>7, <1>8, <1>9, <1>10, <1>11, <1>12,
     <1>13, <1>14, <1>15, <1>16, <1>17, <1>18, <1>19, <1>20
  DEF Next, Owner, Loop, Environment

(* Every variable keeps its shape, for any lines, feed and bounds.         *)
THEOREM StreamTypeCorrect == Spec => []TypeOK
<1>1. Init => TypeOK
  BY TypeInit
<1>2. TypeOK /\ [Next]_vars => TypeOK'
  BY TypeStep
<1> QED
  BY <1>1, <1>2, PTL DEF Spec

-----------------------------------------------------------------------------
(* The invariant.                                                          *)
LEMMA InvInit == Init => Inv
<1> SUFFICES ASSUME Init PROVE Inv
  OBVIOUS
<1>1. TypeOK
  BY TypeInit
<1>2. Numbering /\ LoopState /\ NetOrdered /\ LinkCovers /\ NothingForgotten
  BY LinesNat DEF Init, Numbering, LoopState, NetOrdered, LinkCovers, NothingForgotten
<1>3. RelayState
  <2>1. \A m \in Messages : Chunks[m] # 0 => <<m, 1>> \in Envelopes(m)
    BY LinesNat DEF Envelopes
  <2>2. \A m \in Messages : Chunks[m] # 0 => ~(Envelopes(m) \subseteq parts)
    BY <2>1 DEF Init
  <2>3. \A m \in Messages : ~(m <= last)
    BY LinesNat DEF Init
  <2> QED
    BY <2>2, <2>3 DEF Init, RelayState
<1>4. CloseState
  BY DEF Init, CloseState, CloseIsLast, Settled
<1> QED
  BY <1>1, <1>2, <1>3, <1>4 DEF Inv

LEMMA NumbersAreNat ==
    ASSUME TypeOK
    PROVE  /\ \A e \in queue \cup parts : e[1] \in Nat
           /\ \A m \in accepted \cup lost : m \in Nat
           /\ \A i \in DOMAIN net : net[i][1] \in Nat
           /\ \A m \in Messages : m \in Nat
           /\ written \in Nat /\ nextSeq \in Nat /\ last \in Nat
BY LinesNat DEF TypeOK, Segments, Closing

(* Steps that touch neither a number, the queue, the wire to the relay nor *)
(* the relay's messages.                                                   *)
Kept == UNCHANGED <<written, pc, left, nextSeq, queue, lost, link, net,
                    last, parts, accepted>>

LEMMA KeptStep ==
    ASSUME Inv, TypeOK', Kept, gone' = gone, shutdown => shutdown',
           \A i \in DOMAIN inbound' : inbound'[i].kind = "ack" => inbound'[i].n <= last
    PROVE  Inv'
<1>1. Numbering' /\ LoopState' /\ NetOrdered' /\ LinkCovers' /\ NothingForgotten'
  BY DEF Inv, Kept, Numbering, LoopState, NetOrdered, LinkCovers, NothingForgotten,
         AtRelay, InNet, Settled, Pending
<1>2. RelayState'
  BY DEF Inv, Kept, RelayState, AtRelay, InNet, Settled
<1>3. CloseState'
  BY DEF Inv, Kept, CloseState, CloseIsLast, Settled
<1> QED
  BY <1>1, <1>2, <1>3 DEF Inv

LEMMA InvWrite == ASSUME Inv, TypeOK', Write PROVE Inv'
<1> USE LinesNat DEF Write, outgoing, incoming, wires, relay
<1>1. Numbering'
  <2>1. \A m \in 1..written' : m < nextSeq => m \in 1..written
    BY DEF Inv, TypeOK, Numbering
  <2>2. /\ \A e \in queue \cup parts : e[1] \in Nat
        /\ \A m \in accepted \cup lost : m \in Nat
        /\ \A i \in DOMAIN net : net[i][1] \in Nat
    BY NumbersAreNat DEF Inv
  <2>3. nextSeq' <= written' + (IF pc' = "closed" THEN 2 ELSE 1)
    BY DEF Inv, TypeOK, Numbering
  <2>4. \A k \in Nat : k <= written => k <= written'
    BY DEF Inv, TypeOK
  <2>5. \A m \in 1..written' : m < nextSeq' /\ Chunks[m] = 0 => m \in lost'
    BY <2>1 DEF Inv, Numbering
  <2> QED
    BY <2>2, <2>3, <2>4, <2>5 DEF Inv, Numbering
<1>2. LoopState'
  BY DEF Inv, TypeOK, LoopState, AtRelay, InNet, Settled
<1>3. RelayState' /\ NetOrdered' /\ LinkCovers' /\ NothingForgotten'
  BY DEF Inv, RelayState, NetOrdered, LinkCovers, NothingForgotten,
         AtRelay, InNet, Settled, Pending
<1>4. CloseState'
  BY DEF Inv, CloseState, CloseIsLast, Settled
<1> QED
  BY <1>1, <1>2, <1>3, <1>4 DEF Inv

LEMMA InvAbort == ASSUME Inv, TypeOK', Abort PROVE Inv'
<1> USE LinesNat DEF Abort, writer, outgoing, incoming, wires, relay
<1>1. Numbering'
  BY DEF Inv, TypeOK, Numbering
<1>2. LoopState' /\ LinkCovers' /\ NothingForgotten'
  BY DEF LoopState, LinkCovers, NothingForgotten
<1>3. RelayState' /\ NetOrdered'
  BY DEF Inv, RelayState, NetOrdered, AtRelay, InNet, Settled
<1>4. CloseState'
  BY DEF Inv, CloseState, CloseIsLast, Settled
<1> QED
  BY <1>1, <1>2, <1>3, <1>4 DEF Inv

(* The loop over a connection ends with nothing given up.                  *)
LEMMA InvHangUp ==
    ASSUME Inv, TypeOK', HangUp, pc # "send", pc # "closed",
           UNCHANGED <<writer, nextSeq, queue, lost, last, parts, gone, accepted>>
    PROVE  Inv'
<1> USE HangUpType, LinesNat DEF Inv, writer
<1>1. Numbering'
  BY DEF TypeOK, Numbering
<1>2. LoopState' /\ LinkCovers' /\ NetOrdered'
  BY DEF LoopState, LinkCovers, NetOrdered
<1>3. NothingForgotten'
  BY DEF NothingForgotten, Settled, Pending
<1>4. RelayState'
  BY DEF RelayState, AtRelay, InNet, Settled
<1>5. CloseState'
  BY DEF CloseState, CloseIsLast, Settled
<1> QED
  BY <1>1, <1>2, <1>3, <1>4, <1>5

LEMMA InvConnect == ASSUME Inv, TypeOK', Connect PROVE Inv'
<1> USE LinesNat DEF Connect, ToReplay, Inv, writer, incoming
<1>1. Numbering'
  BY DEF TypeOK, Numbering
<1>2. LoopState' /\ LinkCovers' /\ NetOrdered'
  BY DEF LoopState, LinkCovers, NetOrdered
<1>3. NothingForgotten'
  BY DEF NothingForgotten, Settled, Pending
<1>4. RelayState'
  BY DEF RelayState, AtRelay, InNet, Settled
<1>5. CloseState'
  BY DEF CloseState, CloseIsLast, Settled
<1> QED
  BY <1>1, <1>2, <1>3, <1>4, <1>5

LEMMA InvReplayed == ASSUME Inv, TypeOK', Replayed PROVE Inv'
<1> USE LinesNat DEF Replayed, Inv, writer, outgoing, incoming, wires, relay
<1>1. Numbering' /\ LoopState'
  BY DEF TypeOK, Numbering, LoopState
<1>2. LinkCovers' /\ NetOrdered'
  BY DEF LinkCovers, NetOrdered, AtRelay, InNet, Settled
<1>3. NothingForgotten'
  BY DEF NothingForgotten, Settled, Pending
<1>4. RelayState'
  BY DEF RelayState, AtRelay, InNet, Settled
<1>5. CloseState'
  BY DEF CloseState, CloseIsLast, Settled
<1> QED
  BY <1>1, <1>2, <1>3, <1>4, <1>5

LEMMA InvTake == ASSUME Inv, TypeOK', Take PROVE Inv'
<1> USE LinesNat DEF Take, Inv, writer, incoming, wires, relay
<1>0. nextSeq \in Messages /\ nextSeq' - 1 = nextSeq
  BY DEF TypeOK
<1>1. Numbering'
  <2>1. \A k \in Nat : k < nextSeq => k < nextSeq'
    BY DEF TypeOK
  <2>2. /\ \A e \in queue \cup parts : e[1] \in Nat
        /\ \A m \in accepted \cup lost : m \in Nat
        /\ \A i \in DOMAIN net : net[i][1] \in Nat
    BY NumbersAreNat
  <2>3. \A m \in 1..written : m < nextSeq' => m < nextSeq \/ m = nextSeq
    BY <1>0 DEF TypeOK
  <2>4. nextSeq' <= written' + (IF pc' = "closed" THEN 2 ELSE 1)
    BY DEF TypeOK
  <2> QED
    BY <2>1, <2>2, <2>3, <2>4 DEF Numbering
<1>2. LoopState'
  <2>1. Envelopes(nextSeq) # {}
    <3>1. <<nextSeq, 1>> \in Envelopes(nextSeq)
      BY <1>0 DEF Envelopes
    <3> QED
      BY <3>1
  <2>2. \A e \in Envelopes(nextSeq) : e[1] = nextSeq /\ e \notin queue \cup parts
    BY <1>0, EnvelopesAreSegments DEF Numbering, TypeOK
  <2>3. \A e \in Envelopes(nextSeq) : ~InNet(e)
    BY <1>0, <2>2 DEF Numbering, TypeOK, InNet
  <2>4. nextSeq \notin Settled
    BY <1>0 DEF Numbering, TypeOK, Settled
  <2>5. \A e \in Envelopes(nextSeq) : ~AtRelay(e)'
    BY <2>2, <2>3 DEF AtRelay, InNet
  <2>6. (nextSeq - 1 \notin Settled)'
    BY <2>4, <1>0 DEF Settled
  <2> QED
    BY <1>0, <2>1, <2>2, <2>5, <2>6, EnvelopesAreSegments DEF LoopState, TypeOK
<1>3. LinkCovers' /\ NetOrdered'
  BY DEF LinkCovers, NetOrdered, AtRelay, InNet, Settled
<1>4. NothingForgotten'
  <2>1. \A m \in Messages : m < nextSeq' => m < nextSeq \/ m = nextSeq
    BY <1>0 DEF TypeOK
  <2> QED
    BY <2>1, <1>0 DEF NothingForgotten, Settled, Pending
<1>5. RelayState'
  BY DEF RelayState, AtRelay, InNet, Settled
<1>6. CloseState'
  BY DEF CloseState, CloseIsLast, Settled
<1> QED
  BY <1>1, <1>2, <1>3, <1>4, <1>5, <1>6

LEMMA InvRefuse == ASSUME Inv, TypeOK', Refuse PROVE Inv'
<1> USE LinesNat, HangUpType DEF Refuse, Inv, writer, incoming, relay
<1>0. nextSeq \in Messages /\ nextSeq' - 1 = nextSeq /\ nextSeq \notin Settled
  BY DEF TypeOK, Numbering, Settled
<1>1. Numbering'
  <2>1. \A k \in Nat : k < nextSeq => k < nextSeq'
    BY DEF TypeOK
  <2>2. /\ \A e \in queue \cup parts : e[1] \in Nat
        /\ \A m \in accepted \cup lost : m \in Nat
    BY NumbersAreNat
  <2>3. \A m \in 1..written : m < nextSeq' => m < nextSeq \/ m = nextSeq
    BY <1>0 DEF TypeOK
  <2>4. /\ nextSeq' <= written' + (IF pc' = "closed" THEN 2 ELSE 1)
        /\ nextSeq < nextSeq'
    BY DEF TypeOK
  <2> QED
    BY <2>1, <2>2, <2>3, <2>4 DEF Numbering
<1>2. LoopState' /\ LinkCovers' /\ NetOrdered'
  BY DEF LoopState, LinkCovers, NetOrdered
<1>3. NothingForgotten'
  <2>1. \A m \in Messages : m < nextSeq' => m < nextSeq \/ m = nextSeq
    BY <1>0 DEF TypeOK
  <2> QED
    BY <2>1, <1>0 DEF NothingForgotten, Settled, Pending
<1>4. RelayState'
  BY <1>0 DEF RelayState, AtRelay, InNet, Settled
<1>5. CloseState'
  BY DEF CloseState, CloseIsLast, Settled
<1> QED
  BY <1>1, <1>2, <1>3, <1>4, <1>5

LEMMA InvReceiveAck == ASSUME Inv, TypeOK', ReceiveAck PROVE Inv'
<1> USE LinesNat DEF ReceiveAck, Inv, writer, incoming, relay
<1>0. /\ queue' \subseteq queue
      /\ \A e \in queue : e[1] \in Messages /\ (e \notin queue' => e[1] \in Settled)
  <2>1. 1 \in DOMAIN inbound /\ Head(inbound) = inbound[1]
        /\ inbound[1] \in Inbound
    BY DEF TypeOK
  <2>2. Head(inbound).n <= last /\ Head(inbound).n \in Nat
    BY <2>1 DEF RelayState, Inbound
  <2> QED
    BY <2>2 DEF Retained, RelayState, TypeOK, Segments
<1>1. Numbering'
  BY <1>0 DEF TypeOK, Numbering
<1>2. LoopState' /\ NetOrdered'
  BY DEF LoopState, NetOrdered, AtRelay, InNet, Settled
<1>3. LinkCovers'
  BY <1>0 DEF LinkCovers, AtRelay, InNet, Settled
<1>4. NothingForgotten'
  <2>1. \A m \in Messages : \A e \in Envelopes(m) : e[1] = m
    BY EnvelopesAreSegments
  <2> QED
    BY <1>0, <2>1 DEF NothingForgotten, Settled, Pending
<1>5. RelayState'
  <2>1. \A i \in DOMAIN inbound' : i + 1 \in DOMAIN inbound /\ inbound'[i] = inbound[i + 1]
    BY DEF TypeOK
  <2> QED
    BY <1>0, <2>1 DEF RelayState, AtRelay, InNet, Settled
<1>6. CloseState'
  BY DEF CloseState, CloseIsLast, Settled
<1> QED
  BY <1>1, <1>2, <1>3, <1>4, <1>5, <1>6

LEMMA InvCut == ASSUME Inv, TypeOK', Cut PROVE Inv'
<1> USE LinesNat DEF Cut, Inv, writer, outgoing, incoming, relay
<1>1. Numbering'
  BY DEF TypeOK, Numbering
<1>2. LoopState' /\ NetOrdered' /\ LinkCovers'
  BY DEF LoopState, NetOrdered, LinkCovers, AtRelay, InNet, Settled
<1>3. NothingForgotten'
  BY DEF NothingForgotten, Settled, Pending
<1>4. RelayState'
  <2>1. PICK n \in 0..Len(inbound) : inbound' = SubSeq(inbound, 1, n)
    OBVIOUS
  <2>2. \A i \in DOMAIN inbound' : i \in DOMAIN inbound /\ inbound'[i] = inbound[i]
    BY <2>1 DEF TypeOK
  <2> QED
    BY <2>2 DEF RelayState, AtRelay, InNet, Settled
<1>5. CloseState'
  BY DEF CloseState, CloseIsLast, Settled
<1> QED
  BY <1>1, <1>2, <1>3, <1>4, <1>5

(* One more envelope on the wire: it joins the end of net, or is lost with *)
(* a connection that is cut.                                               *)
LEMMA TransmitNet ==
    ASSUME TypeOK, NEW e, Transmit(e), parts' = parts
    PROVE  /\ \A i \in DOMAIN net' :
                  \/ i \in DOMAIN net /\ net'[i] = net[i]
                  \/ link = "up" /\ i = Len(net) + 1 /\ net'[i] = e
           /\ \A i \in DOMAIN net : i \in DOMAIN net' /\ net'[i] = net[i]
           /\ link' = link
           /\ \A f : AtRelay(f) => AtRelay(f)'
           /\ \A f : AtRelay(f)' => AtRelay(f) \/ f = e
           /\ link = "up" => AtRelay(e)'
<1>1. CASE link = "up"
  <2>1. net' = Append(net, e) /\ net \in Seq(Segments \cup Closing)
    BY <1>1 DEF Transmit, TypeOK
  <2>2. /\ Len(net') = Len(net) + 1 /\ Len(net) \in Nat
        /\ DOMAIN net' = 1..(Len(net) + 1) /\ DOMAIN net = 1..Len(net)
        /\ net'[Len(net) + 1] = e
        /\ \A i \in 1..Len(net) : net'[i] = net[i]
    BY <2>1
  <2>3. Len(net) + 1 \in DOMAIN net'
    BY <2>2
  <2>4. \A i \in DOMAIN net' : \/ i \in DOMAIN net /\ net'[i] = net[i]
                               \/ i = Len(net) + 1 /\ net'[i] = e
    BY <2>2
  <2>5. \A i \in DOMAIN net : i \in DOMAIN net' /\ net'[i] = net[i]
    BY <2>2
  <2>6. link' = link
    BY DEF Transmit
  <2> QED
    BY <1>1, <2>2, <2>3, <2>4, <2>5, <2>6 DEF AtRelay, InNet
<1>2. CASE link # "up"
  BY <1>2 DEF Transmit, AtRelay, InNet
<1> QED
  BY <1>1, <1>2

(* An envelope may follow on the wire when the relay has, or will have,    *)
(* all it lacks of earlier messages.                                       *)
LEMMA TransmitOrdered ==
    ASSUME TypeOK, NetOrdered, NEW e, Transmit(e), UNCHANGED <<parts, accepted, lost>>,
           link = "up" => \A k \in Messages : k < e[1] /\ k \notin Settled =>
                              \A f \in Envelopes(k) : AtRelay(f)
    PROVE  NetOrdered'
<1> SUFFICES ASSUME NEW i \in DOMAIN net', NEW k \in Messages,
                    k < net'[i][1], k \notin Settled', NEW f \in Envelopes(k)
             PROVE  f \in parts \/ \E j \in 1..(i - 1) : net'[j] = f
  BY DEF NetOrdered
<1>1. k \notin Settled
  BY DEF Settled
<1>2. CASE i \in DOMAIN net /\ net'[i] = net[i]
  <2>1. f \in parts \/ \E j \in 1..(i - 1) : net[j] = f
    BY <1>1, <1>2 DEF NetOrdered
  <2>2. \A j \in 1..(i - 1) : j \in DOMAIN net
    BY <1>2 DEF TypeOK
  <2> QED
    BY <2>1, <2>2, TransmitNet
<1>3. CASE link = "up" /\ i = Len(net) + 1 /\ net'[i] = e
  <2>1. f \in parts \/ \E j \in DOMAIN net : net[j] = f
    BY <1>1, <1>3 DEF AtRelay, InNet
  <2>2. \A j \in DOMAIN net : j \in 1..(i - 1)
    BY <1>3 DEF TypeOK
  <2> QED
    BY <2>1, <2>2, TransmitNet
<1> QED
  BY <1>2, <1>3, TransmitNet

LEMMA InvReplay == ASSUME Inv, TypeOK', Replay PROVE Inv'
<1> PICK e \in left : IsFirst(e, left) /\ Transmit(e) /\ left' = left \ {e}
  BY DEF Replay
<1> USE LinesNat DEF Replay, Inv, writer, incoming, relay
<1>0. e \in queue /\ e \in Segments /\ e[1] \in Messages
  BY DEF LoopState, TypeOK, Segments
<1>1. Numbering'
  <2>1. \A i \in DOMAIN net' : net'[i][1] < nextSeq /\ (net'[i][2] # 0 => net'[i][1] <= written)
    BY <1>0, TransmitNet DEF Numbering
  <2> QED
    BY <2>1 DEF Numbering
<1>2. LoopState'
  BY DEF LoopState
<1>3. NetOrdered'
  <2>1. ASSUME NEW k \in Messages, k < e[1], k \notin Settled, link = "up",
               NEW f \in Envelopes(k)
        PROVE  AtRelay(f)
    <3>1. k < nextSeq
      BY <1>0, <2>1, NumbersAreNat DEF Numbering
    <3>2. f \in queue /\ f[1] = k
      BY <3>1, <2>1, EnvelopesAreSegments DEF NothingForgotten, Pending
    <3>3. f \notin left
      BY <3>2, <2>1, <1>0, NumbersAreNat DEF IsFirst, Before
    <3> QED
      BY <3>2, <3>3, <2>1 DEF LinkCovers
  <2> QED
    BY <2>1, TransmitOrdered
<1>4. LinkCovers'
  BY TransmitNet DEF LinkCovers, Settled
<1>5. NothingForgotten'
  BY DEF NothingForgotten, Settled, Pending
<1>6. RelayState'
  <2>1. inbound' = inbound
    BY DEF Transmit
  <2> QED
    BY <1>0, <2>1, TransmitNet DEF RelayState, Settled
<1>7. CloseState'
  <2>1. \A i \in DOMAIN net' : net'[i][2] = 0 => i \in DOMAIN net /\ net'[i] = net[i]
    BY <1>0, TransmitNet DEF Segments
  <2> QED
    BY <2>1 DEF CloseState, CloseIsLast, Settled
<1> QED
  BY <1>1, <1>2, <1>3, <1>4, <1>5, <1>6, <1>7

LEMMA InvSend == ASSUME Inv, TypeOK', Send PROVE Inv'
<1> PICK e \in left : IsFirst(e, left) /\ Transmit(e) /\ Queued(e) /\ left' = left \ {e}
  BY DEF Send
<1> USE LinesNat DEF Send, Queued, Inv, writer, incoming, relay
<1>0. /\ e \in Segments /\ e[1] \in Messages /\ e[1] = nextSeq - 1
      /\ e[1] < nextSeq /\ e[1] <= written /\ nextSeq - 1 \notin Settled
      /\ pc' \in {"send", "loop"} /\ (pc' = "send" <=> left' # {})
  BY DEF LoopState, TypeOK, Segments
<1>1. Numbering'
  <2>1. \A i \in DOMAIN net' : net'[i][1] < nextSeq /\ (net'[i][2] # 0 => net'[i][1] <= written)
    BY <1>0, TransmitNet DEF Numbering
  <2>2. nextSeq <= written + 1
    BY DEF LoopState
  <2> QED
    BY <1>0, <2>1, <2>2 DEF Numbering
<1>2. LoopState'
  <2>1. \A f \in left' : /\ f[1] = nextSeq - 1
                         /\ f \notin queue'
                         /\ ~AtRelay(f)'
    BY TransmitNet DEF LoopState
  <2>2. left' \subseteq Segments /\ nextSeq <= written + 1
    BY DEF LoopState
  <2> QED
    BY <1>0, <2>1, <2>2 DEF LoopState, Settled
<1>3. NetOrdered'
  <2>1. ASSUME NEW k \in Messages, k < e[1], k \notin Settled, link = "up",
               NEW f \in Envelopes(k)
        PROVE  AtRelay(f)
    <3>1. k < nextSeq /\ k # nextSeq - 1
      BY <1>0, <2>1, NumbersAreNat DEF Numbering
    <3>2. f \in queue \cup left /\ f[1] = k
      BY <3>1, <2>1, EnvelopesAreSegments DEF NothingForgotten, Pending
    <3>3. f \notin left
      BY <3>1, <3>2 DEF LoopState
    <3> QED
      BY <3>2, <3>3, <2>1 DEF LinkCovers
  <2> QED
    BY <2>1, TransmitOrdered
<1>4. LinkCovers'
  BY <1>0, TransmitNet DEF LinkCovers, Settled
<1>5. NothingForgotten'
  <2>1. ASSUME NEW m \in Messages, m < nextSeq, m \notin Settled
        PROVE  Envelopes(m) \subseteq queue' \cup left'
    BY <2>1 DEF NothingForgotten, Pending
  <2> QED
    BY <1>0, <2>1 DEF NothingForgotten, Settled, Pending
<1>6. RelayState'
  <2>1. inbound' = inbound
    BY DEF Transmit
  <2>2. \A m \in lost : \A f \in Envelopes(m) : f # e
    <3>1. \A m \in lost : m \in Messages /\ m # e[1]
      BY <1>0 DEF Settled, TypeOK
    <3> QED
      BY <3>1, EnvelopesAreSegments
  <2> QED
    BY <1>0, <2>1, <2>2, TransmitNet DEF RelayState, Settled
<1>7. CloseState'
  <2>1. \A i \in DOMAIN net' : net'[i][2] = 0 => i \in DOMAIN net /\ net'[i] = net[i]
    BY <1>0, TransmitNet DEF Segments
  <2> QED
    BY <2>1 DEF CloseState, CloseIsLast, Settled
<1> QED
  BY <1>1, <1>2, <1>3, <1>4, <1>5, <1>6, <1>7

(* The one step that gives a message up: a later segment of it has neither *)
(* been queued nor sent.                                                   *)
LEMMA InvSendFails == ASSUME Inv, TypeOK', SendFails PROVE Inv'
<1> PICK e \in left : /\ IsFirst(e, left)
                      /\ queue' = queue \cup {e}
                      /\ lost' = IF left = {e} THEN lost ELSE lost \cup {e[1]}
  BY DEF SendFails, Queued
<1> USE LinesNat, HangUpType DEF SendFails, Inv, writer, incoming, relay
<1>0. /\ e \in Segments /\ e[1] \in Messages /\ e[1] = nextSeq - 1
      /\ e[1] < nextSeq /\ e[1] <= written /\ nextSeq - 1 \notin Settled
      /\ e \in Envelopes(e[1])
  BY EnvelopesAreSegments DEF LoopState, TypeOK, Segments
<1>1. Numbering'
  <2>1. nextSeq <= written + 1
    BY DEF LoopState
  <2> QED
    BY <1>0, <2>1 DEF Numbering
<1>2. LoopState' /\ NetOrdered' /\ LinkCovers'
  BY DEF LoopState, NetOrdered, LinkCovers
<1>3. NothingForgotten'
  <2>1. ASSUME NEW m \in Messages, m < nextSeq, m \notin Settled'
        PROVE  Envelopes(m) \subseteq queue'
    <3>1. m \notin Settled /\ Envelopes(m) \subseteq queue \cup left
      BY <2>1 DEF NothingForgotten, Pending, Settled
    <3>2. CASE m = e[1]
      BY <3>1, <3>2, <2>1 DEF Settled
    <3>3. CASE m # e[1]
      <4>1. \A f \in left : f \notin Envelopes(m)
        BY <1>0, <3>3, EnvelopesAreSegments DEF LoopState
      <4> QED
        BY <3>1, <4>1
    <3> QED
      BY <3>2, <3>3
  <2> QED
    BY <2>1 DEF NothingForgotten, Pending
<1>4. RelayState'
  <2>1. \A f : AtRelay(f)' => AtRelay(f)
    BY DEF AtRelay, InNet
  <2>2. ASSUME NEW m \in lost', Chunks[m] # 0
        PROVE  \E f \in Envelopes(m) : f \notin queue' /\ ~AtRelay(f)'
    <3>1. CASE m \in lost
      <4>1. PICK f \in Envelopes(m) : f \notin queue /\ ~AtRelay(f)
        BY <2>2, <3>1 DEF RelayState
      <4>2. f # e
        <5>1. m \in Messages /\ m # e[1]
          BY <1>0, <3>1 DEF Settled, TypeOK
        <5> QED
          BY <5>1, EnvelopesAreSegments
      <4> QED
        BY <4>1, <4>2, <2>1
    <3>2. CASE m \notin lost
      <4>1. m = e[1] /\ left # {e}
        BY <2>2, <3>2
      <4>2. PICK f \in left : f # e
        BY <4>1
      <4>3. f \in Envelopes(m) /\ f \notin queue /\ ~AtRelay(f)
        BY <1>0, <4>1, <4>2, EnvelopesAreSegments DEF LoopState
      <4> QED
        BY <4>2, <4>3, <2>1
    <3> QED
      BY <3>1, <3>2
  <2>3. (accepted \cap lost = {})' /\ \A m \in Messages : m <= last => m \in Settled'
    BY <1>0 DEF RelayState, Settled
  <2>4. \A i \in DOMAIN inbound' : FALSE
    OBVIOUS
  <2> QED
    BY <2>2, <2>3, <2>4 DEF RelayState
<1>5. CloseState'
  BY DEF CloseState, CloseIsLast, Settled
<1> QED
  BY <1>1, <1>2, <1>3, <1>4, <1>5

LEMMA InvFinish == ASSUME Inv, TypeOK', Finish PROVE Inv'
<1> DEFINE e == <<nextSeq, 0>>
<1> USE LinesNat DEF Finish, ShutdownIsNext, Inv, writer, incoming, relay
<1>0. Transmit(e) /\ e[1] = nextSeq /\ e[2] = 0 /\ nextSeq = written + 1
      /\ nextSeq' = nextSeq + 1
  OBVIOUS
<1> HIDE DEF e
<1>1. Numbering'
  <2>1. \A i \in DOMAIN net' : net'[i][1] < nextSeq' /\ (net'[i][2] # 0 => net'[i][1] <= written)
    BY <1>0, TransmitNet, NumbersAreNat DEF Numbering
  <2>2. /\ \A f \in queue \cup parts : f[1] < nextSeq'
        /\ \A m \in accepted \cup lost : m < nextSeq'
    BY NumbersAreNat DEF Numbering
  <2>3. nextSeq' <= written + 2
    BY NumbersAreNat
  <2>4. \A m \in 1..written : m < nextSeq
    BY NumbersAreNat
  <2> QED
    BY <2>1, <2>2, <2>3, <2>4 DEF Numbering
<1>2. LoopState' /\ LinkCovers' /\ NothingForgotten'
  BY DEF LoopState, LinkCovers, NothingForgotten
<1>3. NetOrdered'
  <2>1. ASSUME NEW k \in Messages, k < e[1], k \notin Settled, link = "up",
               NEW f \in Envelopes(k)
        PROVE  AtRelay(f)
    <3>1. f \in queue /\ f[1] = k
      BY <1>0, <2>1, EnvelopesAreSegments DEF NothingForgotten, Pending
    <3> QED
      BY <3>1, <2>1 DEF LinkCovers
  <2> QED
    BY <1>0, <2>1, TransmitOrdered
<1>4. RelayState'
  <2>1. inbound' = inbound
    BY <1>0 DEF Transmit
  <2>2. \A m \in lost : \A f \in Envelopes(m) : f # e
    BY <1>0, EnvelopesAreSegments DEF Segments, TypeOK
  <2> QED
    BY <1>0, <2>1, <2>2, TransmitNet DEF RelayState, Settled
<1>5. CloseState'
  <2>1. \A i \in DOMAIN net' : net'[i][2] = 0 => net'[i][1] = written + 1
    BY <1>0, TransmitNet DEF CloseState
  <2> QED
    BY <2>1 DEF CloseState, CloseIsLast, Settled
<1> QED
  BY <1>1, <1>2, <1>3, <1>4, <1>5

(* The relay reads the head of the wire.                                   *)
LEMMA ReadNet ==
    ASSUME TypeOK, NEW e, RelayRead(e)
    PROVE  /\ 1 \in DOMAIN net /\ net[1] = e /\ e \in Segments \cup Closing
           /\ \A i \in DOMAIN net' : i + 1 \in DOMAIN net /\ net'[i] = net[i + 1]
           /\ \A i \in DOMAIN net : i # 1 => i - 1 \in DOMAIN net' /\ net'[i - 1] = net[i]
           /\ \A f : InNet(f)' => InNet(f)
           /\ \A f : InNet(f) => f = e \/ InNet(f)'
<1>1. /\ net \in Seq(Segments \cup Closing) /\ net # <<>>
      /\ e = Head(net) /\ net' = Tail(net)
  BY DEF TypeOK, RelayRead
<1>2. /\ Len(net) \in Nat /\ Len(net) >= 1 /\ DOMAIN net = 1..Len(net)
      /\ DOMAIN net' = 1..(Len(net) - 1) /\ net[1] = e
      /\ \A i \in 1..(Len(net) - 1) : net'[i] = net[i + 1]
  BY <1>1
<1>3. 1 \in DOMAIN net /\ e \in Segments \cup Closing
  BY <1>1, <1>2
<1>4. \A i \in DOMAIN net' : i + 1 \in DOMAIN net /\ net'[i] = net[i + 1]
  BY <1>2
<1>5. \A i \in DOMAIN net : i # 1 => i - 1 \in DOMAIN net' /\ net'[i - 1] = net[i]
  <2>1. \A i \in 1..Len(net) : i # 1 => i - 1 \in 1..(Len(net) - 1) /\ (i - 1) + 1 = i
    BY <1>2
  <2> QED
    BY <1>2, <2>1
<1> QED
  BY <1>2, <1>3, <1>4, <1>5 DEF InNet

(* When an envelope reaches the relay, every earlier message is settled.   *)
LEMMA HeadSettles ==
    ASSUME Inv, NEW e, RelayRead(e)
    PROVE  \A k \in Messages : k < e[1] => k \in Settled
<1> SUFFICES ASSUME NEW k \in Messages, k < e[1], k \notin Settled PROVE FALSE
  OBVIOUS
<1> USE DEF Inv
<1>1. 1 \in DOMAIN net /\ net[1] = e /\ e \in Segments \cup Closing
  BY ReadNet
<1>2. Envelopes(k) \subseteq parts
  BY <1>1 DEF NetOrdered
<1>3. e[1] \in Nat /\ e[1] < nextSeq /\ e[1] <= written + 1
  BY <1>1, NumbersAreNat DEF Numbering, CloseState
<1>4. k \in 1..written /\ k < nextSeq
  BY <1>3, NumbersAreNat, LinesNat
<1>5. Chunks[k] # 0
  BY <1>4 DEF Numbering, Settled
<1> QED
  BY <1>2, <1>5 DEF RelayState

(* The order of the wire survives the reading of its head.                 *)
LEMMA ReadOrdered ==
    ASSUME TypeOK, NetOrdered, NEW e, RelayRead(e), Settled \subseteq Settled',
           \A k \in Messages : k \notin Settled' =>
               \A f \in Envelopes(k) : f \in parts \/ f = e => f \in parts'
    PROVE  NetOrdered'
<1> SUFFICES ASSUME NEW i \in DOMAIN net', NEW k \in Messages,
                    k < net'[i][1], k \notin Settled', NEW f \in Envelopes(k)
             PROVE  f \in parts' \/ \E j \in 1..(i - 1) : net'[j] = f
  BY DEF NetOrdered
<1>1. i + 1 \in DOMAIN net /\ net'[i] = net[i + 1] /\ k \notin Settled /\ i \in Nat
  BY ReadNet DEF TypeOK, RelayRead
<1>2. f \in parts \/ \E j \in 1..((i + 1) - 1) : net[j] = f
  BY <1>1 DEF NetOrdered
<1>3. CASE f \in parts
  BY <1>3
<1>4. CASE \E j \in 1..((i + 1) - 1) : net[j] = f
  <2>1. PICK j \in 1..((i + 1) - 1) : net[j] = f
    BY <1>4
  <2>2. CASE j = 1
    BY <2>1, <2>2, ReadNet
  <2>3. CASE j # 1
    <3>1. j \in DOMAIN net /\ j - 1 \in 1..(i - 1)
      BY <1>1, <2>3 DEF TypeOK
    <3> QED
      BY <2>1, <2>3, <3>1, ReadNet
  <2> QED
    BY <2>2, <2>3
<1> QED
  BY <1>2, <1>3, <1>4

(* What holds of the client's side whatever the relay reads.               *)
LEMMA ReadShrinks ==
    ASSUME Inv, NEW e, RelayRead(e), parts' \subseteq parts \cup {e}
    PROVE  \A f : AtRelay(f)' => AtRelay(f)
<1>1. InNet(e)
  BY ReadNet DEF Inv, InNet
<1> QED
  BY <1>1, ReadNet DEF Inv, AtRelay

LEMMA ReadQuiet ==
    ASSUME Inv, NEW e, RelayRead(e), parts' \subseteq parts \cup {e}
    PROVE  /\ \A f : AtRelay(f)' => AtRelay(f)
           /\ UNCHANGED <<written, shutdown, pc, left, nextSeq, queue, lost, link, inbound>>
<1>1. UNCHANGED <<written, shutdown, pc, left, nextSeq, queue, lost, link, inbound>>
  BY DEF RelayRead, writer, outgoing
<1> QED
  BY <1>1, ReadShrinks

LEMMA ReadNumbers ==
    ASSUME Inv, NEW e, RelayRead(e)
    PROVE  \A i \in DOMAIN net' : /\ net'[i][1] < nextSeq
                                  /\ net'[i][2] # 0 => net'[i][1] <= written
                                  /\ net'[i][2] = 0 => net'[i][1] = written + 1
                                  /\ net'[i][2] = 0 => shutdown /\ pc = "closed"
BY ReadNet DEF Inv, Numbering, CloseState

LEMMA ReadLost ==
    ASSUME Inv, NEW e, RelayRead(e), parts' \subseteq parts \cup {e}
    PROVE  \A m \in lost : Chunks[m] # 0 =>
               \E f \in Envelopes(m) : f \notin queue /\ ~AtRelay(f)'
BY ReadShrinks DEF Inv, RelayState

LEMMA SettledIsWritten ==
    ASSUME Inv
    PROVE  \A m \in Settled : m \in 1..written
BY NumbersAreNat, LinesNat DEF Inv, Settled, Numbering, TypeOK

LEMMA InvRelayCloses ==
    ASSUME Inv, TypeOK', NEW e, RelayCloses(e)
    PROVE  Inv'
<1> USE ReadQuiet, ReadNumbers, ReadLost, LinesNat DEF RelayCloses, Inv
<1>0. RelayRead(e) /\ e[1] = written + 1 /\ shutdown /\ pc = "closed"
  BY ReadNet DEF CloseState
<1>1. Numbering'
  BY <1>0 DEF Numbering
<1>2. LoopState' /\ LinkCovers' /\ NothingForgotten'
  BY <1>0 DEF LoopState, LinkCovers, NothingForgotten
<1>3. NetOrdered'
  <2>1. \A k \in Messages : \A f \in Envelopes(k) : f # e
    BY EnvelopesAreSegments DEF Segments
  <2> QED
    BY <1>0, <2>1, ReadOrdered DEF Settled
<1>4. RelayState'
  BY <1>0 DEF RelayState, Settled
<1>5. CloseState'
  <2>1. Settled = 1..written
    <3>1. \A k \in 1..written : k \in Messages /\ k < e[1]
      BY <1>0, NumbersAreNat DEF TypeOK
    <3>2. \A m \in Settled : m \in 1..written
      BY SettledIsWritten
    <3> QED
      BY <1>0, <3>1, <3>2, HeadSettles
  <2> QED
    BY <1>0, <2>1 DEF CloseState, CloseIsLast, Settled
<1> QED
  BY <1>1, <1>2, <1>3, <1>4, <1>5

LEMMA InvRelayDrops ==
    ASSUME Inv, TypeOK', NEW e, RelayDrops(e)
    PROVE  Inv'
<1> USE ReadQuiet, ReadNumbers, ReadLost, LinesNat DEF RelayDrops, Inv
<1>0. RelayRead(e) /\ e \in Segments /\ e[1] \in Messages /\ e[1] \in Settled
  BY ReadNet DEF RelayState, Closing, Segments
<1>1. Numbering'
  BY <1>0 DEF Numbering
<1>2. LoopState' /\ NothingForgotten'
  BY <1>0 DEF LoopState, NothingForgotten, Pending, Settled
<1>3. LinkCovers'
  BY <1>0, ReadNet DEF LinkCovers, AtRelay, Settled
<1>4. NetOrdered'
  <2>1. \A k \in Messages : k \notin Settled => \A f \in Envelopes(k) : f # e
    BY <1>0, EnvelopesAreSegments
  <2> QED
    BY <1>0, <2>1, ReadOrdered DEF Settled
<1>5. RelayState'
  BY <1>0 DEF RelayState, Settled
<1>6. CloseState'
  BY <1>0 DEF CloseState, CloseIsLast, Settled
<1> QED
  BY <1>1, <1>2, <1>3, <1>4, <1>5, <1>6

LEMMA InvRelayKeeps ==
    ASSUME Inv, TypeOK', NEW e, RelayKeeps(e)
    PROVE  Inv'
<1> USE ReadQuiet, ReadNumbers, ReadLost, LinesNat DEF RelayKeeps, Inv
<1>0. /\ RelayRead(e) /\ e \in Segments /\ e[1] \in Messages
      /\ e[1] < nextSeq /\ e[1] <= written
  BY ReadNet DEF Numbering, Closing, Segments
<1>1. Numbering'
  BY <1>0 DEF Numbering
<1>2. LoopState' /\ NothingForgotten'
  BY <1>0 DEF LoopState, NothingForgotten, Pending, Settled
<1>3. LinkCovers'
  BY <1>0, ReadNet DEF LinkCovers, AtRelay, Settled
<1>4. NetOrdered'
  BY <1>0, ReadOrdered DEF Settled
<1>5. RelayState'
  <2>1. \A m \in Messages : Chunks[m] # 0 => ~(Envelopes(m) \subseteq parts')
    BY EnvelopesAreSegments DEF RelayState
  <2> QED
    BY <1>0, <2>1 DEF RelayState, Settled
<1>6. CloseState'
  BY <1>0 DEF CloseState, CloseIsLast, Settled
<1> QED
  BY <1>1, <1>2, <1>3, <1>4, <1>5, <1>6

(* A message becomes complete: it is none that was given up, nor the one   *)
(* that is being sent, and every earlier one is settled.                   *)
LEMMA ProcessedMessage ==
    ASSUME Inv, NEW e, RelayProcesses(e)
    PROVE  /\ e \in Segments /\ e[1] \in Messages /\ e[1] \in 1..written
           /\ e[1] < nextSeq
           /\ e[1] \notin accepted /\ e[1] \notin lost
           /\ pc = "send" => e[1] # nextSeq - 1
           /\ \A k \in Messages : k < e[1] => k \in Settled
<1> USE LinesNat DEF RelayProcesses, Inv
<1>1. RelayRead(e)
  OBVIOUS
<1>2. /\ e \in Segments /\ e[1] \in Messages /\ e[1] \in Nat /\ Chunks[e[1]] # 0
      /\ e[1] < nextSeq /\ e[1] <= written /\ InNet(e)
  BY <1>1, ReadNet DEF Numbering, Closing, Segments, InNet
<1>3. \A f \in Envelopes(e[1]) : AtRelay(f)
  BY <1>2 DEF AtRelay
<1>4. e[1] \notin accepted
  BY <1>2, NumbersAreNat DEF Numbering
<1>5. e[1] \notin lost
  BY <1>2, <1>3 DEF RelayState
<1>6. pc = "send" => e[1] # nextSeq - 1
  <2>1. ASSUME pc = "send", e[1] = nextSeq - 1 PROVE FALSE
    <3>1. PICK f \in left : f \in Segments /\ f[1] = e[1] /\ ~AtRelay(f)
      BY <2>1 DEF LoopState
    <3> QED
      BY <1>2, <1>3, <3>1, EnvelopesAreSegments
  <2> QED
    BY <2>1
<1> QED
  BY <1>1, <1>2, <1>4, <1>5, <1>6, HeadSettles

LEMMA InvRelayProcesses ==
    ASSUME Inv, TypeOK', NEW e, RelayProcesses(e)
    PROVE  Inv'
<1> USE LinesNat DEF RelayProcesses, Inv
<1>0. /\ RelayRead(e) /\ parts' \subseteq parts \cup {e}
      /\ last' = e[1] /\ last < e[1] /\ e[1] \in Nat /\ last \in Nat
  BY ProcessedMessage DEF TypeOK
<1>1. Settled' = Settled \cup {e[1]}
  BY <1>0, ReadQuiet, ReadNumbers, ReadLost DEF Settled
<1>2. \A k \in Messages : k <= e[1] => k \in Settled'
  BY <1>0, <1>1, ProcessedMessage
<1>3. Numbering'
  <2>1. \A m \in accepted' : m <= last'
    BY <1>0, NumbersAreNat DEF Numbering
  <2> QED
    BY <1>0, <2>1, ReadQuiet, ReadNumbers, ReadLost, ProcessedMessage DEF Numbering
<1>4. LoopState'
  BY <1>0, <1>1, ReadQuiet, ReadNumbers, ReadLost, ProcessedMessage DEF LoopState
<1>5. NothingForgotten'
  BY <1>0, <1>1, ReadQuiet, ReadNumbers, ReadLost DEF NothingForgotten, Pending
<1>6. \A f \in Segments : f[1] \notin Settled' => f[1] > e[1]
  BY <1>0, <1>2 DEF Segments
<1>7. LinkCovers'
  <2>1. ASSUME NEW f \in queue, f[1] \notin Settled', AtRelay(f)
        PROVE  AtRelay(f)'
    <3>1. f \in Segments
      BY <2>1 DEF TypeOK
    <3>2. f[1] > e[1] /\ f # e
      <4> HIDE DEF RelayProcesses, Inv
      <4>1. f[1] > e[1]
        BY <2>1, <1>6, <3>1
      <4>2. f # e
        BY <1>0, <4>1
      <4> QED
        BY <4>1, <4>2
    <3> QED
      BY <2>1, <1>0, <3>2, ReadNet DEF AtRelay
  <2> QED
    BY <1>0, <1>1, <2>1, ReadQuiet, ReadNumbers, ReadLost DEF LinkCovers
<1>8. NetOrdered'
  <2>1. ASSUME NEW k \in Messages, k \notin Settled', NEW f \in Envelopes(k),
               f \in parts \/ f = e
        PROVE  f \in parts'
    <3>1. f \in Segments /\ f[1] = k /\ k > e[1]
      BY <2>1, <1>6, EnvelopesAreSegments
    <3> QED
      BY <2>1, <3>1, <1>0
  <2> QED
    BY <1>0, <1>1, <2>1, ReadOrdered
<1>9. RelayState'
  <2>1. \A m \in Messages : Chunks[m] # 0 => ~(Envelopes(m) \subseteq parts')
    BY DEF RelayState
  <2>2. (accepted \cap lost = {})'
    BY <1>0, ReadQuiet, ReadNumbers, ReadLost, ProcessedMessage DEF RelayState
  <2>3. \A i \in DOMAIN inbound : inbound[i].kind = "ack" => inbound[i].n <= last'
    <3>1. \A i \in DOMAIN inbound : inbound[i].kind = "ack" => inbound[i].n \in Nat
      <4>1. \A i \in DOMAIN inbound : inbound[i] \in Inbound
        BY DEF TypeOK
      <4> QED
        BY <4>1 DEF Inbound
    <3> QED
      BY <1>0, <3>1 DEF RelayState
  <2> QED
    BY <1>0, <1>2, <2>1, <2>2, <2>3, ReadQuiet, ReadNumbers, ReadLost DEF RelayState
<1>10. CloseState'
  <2>1. \A m \in Settled : m \in 1..written
    BY SettledIsWritten
  <2> QED
    BY <1>0, <1>1, <2>1, ReadQuiet, ReadNumbers, ReadLost, ProcessedMessage DEF CloseState, CloseIsLast
<1> QED
  BY <1>3, <1>4, <1>5, <1>7, <1>8, <1>9, <1>10

-----------------------------------------------------------------------------
LEMMA InvStep ==
    ASSUME Inv, [Next]_vars
    PROVE  Inv'
<1> USE DEF writer, outgoing, incoming, wires, relay
<1>0. TypeOK'
  BY TypeStep DEF Inv
<1>1. CASE Write
  BY <1>0, <1>1, InvWrite
<1>2. CASE Shutdown
  BY <1>0, <1>2, KeptStep DEF Shutdown, Kept, Inv, RelayState
<1>3. CASE Abort
  BY <1>0, <1>3, InvAbort
<1>4. CASE Connect
  BY <1>0, <1>4, InvConnect
<1>5. CASE Replay
  BY <1>0, <1>5, InvReplay
<1>6. CASE ReplayFails
  BY <1>0, <1>6, InvHangUp DEF ReplayFails
<1>7. CASE Replayed
  BY <1>0, <1>7, InvReplayed
<1>8. CASE Take
  BY <1>0, <1>8, InvTake
<1>9. CASE Refuse
  BY <1>0, <1>9, InvRefuse
<1>10. CASE Send
  BY <1>0, <1>10, InvSend
<1>11. CASE SendFails
  BY <1>0, <1>11, InvSendFails
<1>12. CASE Finish
  BY <1>0, <1>12, InvFinish
<1>13. CASE ReceiveAck
  BY <1>0, <1>13, InvReceiveAck
<1>14. CASE ReceivePart
  <2>1. PICK p \in DOMAIN Feed :
            ReceiveSegment(p) \/ ReceiveLast(p) \/ ReceiveGarbled(p)
    BY <1>14 DEF ReceivePart
  <2>2. CASE ReceiveGarbled(p)
    BY <1>0, <2>2, InvHangUp DEF ReceiveGarbled, TakePart
  <2>3. CASE ReceiveSegment(p) \/ ReceiveLast(p)
    <3>1. inbound' = Tail(inbound) /\ inbound # <<>>
      BY <2>3 DEF ReceiveSegment, ReceiveLast, TakePart
    <3>2. \A i \in DOMAIN inbound' : i + 1 \in DOMAIN inbound /\ inbound'[i] = inbound[i + 1]
      BY <3>1 DEF Inv, TypeOK
    <3>3. \A i \in DOMAIN inbound' : inbound'[i].kind = "ack" => inbound'[i].n <= last
      BY <3>2 DEF Inv, RelayState
    <3>4. Kept /\ gone' = gone /\ shutdown' = shutdown
      BY <2>3 DEF ReceiveSegment, ReceiveLast, TakePart, Kept
    <3> QED
      BY <1>0, <3>3, <3>4, KeptStep
  <2> QED
    BY <2>1, <2>2, <2>3
<1>15. CASE Leave
  BY <1>0, <1>15, InvHangUp DEF Leave
<1>16. CASE Cut
  BY <1>0, <1>16, InvCut
<1>17. CASE RelayReceive
  BY <1>0, <1>17, InvRelayCloses, InvRelayDrops, InvRelayKeeps, InvRelayProcesses
  DEF RelayReceive
<1>18. CASE RelayAck \/ RelayFeed
  <2>1. PICK x \in Inbound : inbound' = Append(inbound, x) /\ (x.kind = "ack" => x.n <= last)
    <3>1. CASE RelayAck
      <4>1. last \in Nat
        BY DEF Inv, TypeOK
      <4>2. [kind |-> "ack", n |-> last] \in Inbound
        BY <4>1 DEF Inbound
      <4> QED
        BY <3>1, <4>1, <4>2 DEF RelayAck
    <3>2. CASE RelayFeed
      <4>1. feedPos + 1 \in DOMAIN Feed
        BY <3>2, FeedAssumption DEF RelayFeed, Inv, TypeOK
      <4> QED
        BY <3>2, <4>1 DEF RelayFeed, Inbound
    <3> QED
      BY <1>18, <3>1, <3>2
  <2>2. \A i \in DOMAIN inbound' : \/ i \in DOMAIN inbound /\ inbound'[i] = inbound[i]
                                  \/ inbound'[i] = x
    BY <2>1 DEF Inv, TypeOK
  <2>3. \A i \in DOMAIN inbound' : inbound'[i].kind = "ack" => inbound'[i].n <= last
    BY <2>1, <2>2 DEF Inv, RelayState
  <2>4. Kept /\ gone' = gone /\ shutdown' = shutdown
    BY <1>18 DEF RelayAck, RelayFeed, Kept
  <2> QED
    BY <1>0, <2>3, <2>4, KeptStep
<1>19. CASE UNCHANGED vars
  BY <1>0, <1>19, KeptStep DEF vars, Kept, Inv, RelayState
<1> QED
  BY <1>1, <1>2, <1>3, <1>4, <1>5, <1>6, <1>7, <1>8, <1>9, <1>10, <1>11, <1>12,
     <1>13, <1>14, <1>15, <1>16, <1>17, <1>18, <1>19
  DEF Next, Owner, Loop, Environment

LEMMA Invariance == Spec => []Inv
<1>1. Inv /\ [Next]_vars => Inv'
  BY InvStep
<1> QED
  BY <1>1, InvInit, PTL DEF Spec

(* No acknowledgement and no reconnect loses a message the relay still     *)
(* needs: it stays in the replay queue, whole.                             *)
THEOREM StreamForgetsNothing == Spec => []NothingForgotten
<1>1. Inv => NothingForgotten
  BY DEF Inv
<1> QED
  BY <1>1, Invariance, PTL

(* The relay learns of the close after every line written before it.       *)
THEOREM StreamClosesLast == Spec => []CloseIsLast
<1>1. Inv => CloseIsLast
  BY DEF Inv, CloseState
<1> QED
  BY <1>1, Invariance, PTL

-----------------------------------------------------------------------------
(* Refinement.                                                             *)
LEMMA ChannelInit == Init => Channel!Init
BY DEF Init, Channel!Init

LEMMA ChannelStep ==
    ASSUME Inv, [Next]_vars
    PROVE  [Channel!Next]_(Channel!vars)
<1> USE DEF writer, outgoing, incoming, wires, relay
<1>1. CASE Write
  BY <1>1 DEF Write, Channel!Next, Channel!Write
<1>2. CASE Refuse
  <2>1. /\ nextSeq \in 1..written /\ nextSeq \in Messages /\ Chunks[nextSeq] = 0
        /\ nextSeq \notin accepted
        /\ lost' = lost \cup {nextSeq} /\ UNCHANGED <<written, accepted>>
    BY <1>2, NumbersAreNat, LinesNat DEF Refuse, Inv, TypeOK, Numbering
  <2>2. Channel!Lose(nextSeq)
    BY <2>1 DEF Channel!Lose
  <2> QED
    BY <2>1, <2>2 DEF Channel!Next
<1>3. CASE SendFails
  <2>1. PICK e \in left : lost' = IF left = {e} THEN lost ELSE lost \cup {e[1]}
    BY <1>3 DEF SendFails
  <2>2. UNCHANGED <<written, accepted>>
    BY <1>3 DEF SendFails
  <2>3. CASE left = {e}
    BY <2>1, <2>2, <2>3 DEF Channel!vars
  <2>4. CASE left # {e}
    <3>1. PICK f \in left : f # e
      BY <2>4
    <3>2. /\ e \in Segments /\ f \in Segments /\ e[1] = f[1]
          /\ e[1] = nextSeq - 1 /\ nextSeq <= written + 1 /\ e[1] \notin accepted
      BY <1>3, <3>1 DEF SendFails, Inv, LoopState, Settled
    <3>3. e[1] \in Messages /\ e[1] \in 1..written
      BY <3>2, NumbersAreNat, LinesNat DEF Inv, Segments
    <3>4. Chunks[e[1]] # 1
      <4>1. e \in Envelopes(e[1]) /\ f \in Envelopes(e[1])
        BY <3>2, <3>3, EnvelopesAreSegments
      <4>2. PICK s \in 1..Chunks[e[1]], t \in 1..Chunks[e[1]] :
                e = <<e[1], s>> /\ f = <<e[1], t>>
        BY <4>1 DEF Envelopes
      <4>3. s # t
        BY <3>1, <4>2
      <4> QED
        BY <4>2, <4>3, <3>3, LinesNat
    <3>5. Channel!Lose(e[1])
      BY <2>1, <2>2, <2>4, <3>2, <3>3, <3>4 DEF Channel!Lose
    <3> QED
      BY <3>3, <3>5 DEF Channel!Next
  <2> QED
    BY <2>3, <2>4
<1>4. CASE RelayReceive
  <2>1. PICK e : RelayCloses(e) \/ RelayDrops(e) \/ RelayKeeps(e) \/ RelayProcesses(e)
    BY <1>4 DEF RelayReceive
  <2>2. RelayRead(e) /\ UNCHANGED <<written, lost>>
    BY <2>1 DEF RelayCloses, RelayDrops, RelayKeeps, RelayProcesses, RelayRead
  <2>3. CASE RelayCloses(e) \/ RelayDrops(e) \/ RelayKeeps(e)
    BY <2>2, <2>3 DEF RelayCloses, RelayDrops, RelayKeeps, Channel!vars
  <2>4. CASE RelayProcesses(e)
    <3>1. \A k \in 1..(e[1] - 1) : k \in Messages /\ k < e[1]
      BY <2>4, ProcessedMessage, LinesNat
    <3>2. Channel!Accept(e[1])
      BY <2>2, <2>4, <3>1, ProcessedMessage DEF RelayProcesses, Channel!Accept, Settled
    <3> QED
      BY <2>4, <3>2, ProcessedMessage DEF Channel!Next
  <2> QED
    BY <2>1, <2>3, <2>4
<1>5. CASE \/ Shutdown \/ Abort \/ Connect \/ Replay \/ ReplayFails \/ Replayed
           \/ Take \/ Send \/ Finish \/ ReceiveAck \/ Leave
           \/ Cut \/ RelayAck \/ RelayFeed \/ UNCHANGED vars
  BY <1>5 DEF Shutdown, Abort, Connect, Replay, ReplayFails, Replayed, Take, Send,
              Finish, ReceiveAck, Leave, Cut, RelayAck, RelayFeed, vars, Channel!vars
<1>6. CASE ReceivePart
  BY <1>6 DEF ReceivePart, ReceiveSegment, ReceiveLast, ReceiveGarbled, TakePart,
              Channel!vars
<1> QED
  BY <1>1, <1>2, <1>3, <1>4, <1>5, <1>6 DEF Next, Owner, Loop, Environment

(* The stream is a channel that keeps the order, delivers at most once and *)
(* loses only what it could not send in one piece.                         *)
THEOREM StreamImplementsChannel == Spec => ImplementsChannel
<1>1. Inv /\ [Next]_vars => [Channel!Next]_(Channel!vars)
  BY ChannelStep
<1> QED
  BY <1>1, ChannelInit, Invariance, PTL DEF Spec, ImplementsChannel, Channel!Spec

-----------------------------------------------------------------------------
(***************************************************************************)
(* What the reader gets, for every feed of the relay and any number of     *)
(* connections: the messages up to the resume cursor.                      *)
(***************************************************************************)

(* The relay's envelopes up to a position, and the messages complete there *)
Upto(p) == {Feed[q] : q \in 1..p}
Whole(j, p) == FeedEnvelopes(j) \subseteq Upto(p)

IsPart(i) == inbound[i].kind = "part"

(* What is under way to the client is what follows the cursor, without a   *)
(* gap: a cut loses a suffix, a new connection resumes at the cursor.      *)
NoGap ==
    /\ \A i \in DOMAIN inbound : IsPart(i) =>
          /\ cursor < inbound[i].n
          /\ \A k \in 1..(i - 1) : IsPart(k) => inbound[k].n < inbound[i].n
          /\ \A p \in (cursor + 1)..(inbound[i].n - 1) :
                \E k \in 1..(i - 1) : IsPart(k) /\ inbound[k].n = p
    /\ link = "up" =>
          /\ cursor <= feedPos
          /\ \A i \in DOMAIN inbound : IsPart(i) => inbound[i].n <= feedPos
          /\ \A p \in (cursor + 1)..feedPos :
                \E i \in DOMAIN inbound : IsPart(i) /\ inbound[i].n = p

(* The assemblies hold what has come of the messages that are not whole.   *)
AssemblyMatches ==
    assembly = {e \in Upto(cursor) : ~Whole(e[1], cursor)}

ReaderInv == NoGap /\ AssemblyMatches /\ ReaderMatchesCursor

-----------------------------------------------------------------------------
(* The next envelope.                                                      *)
LEMMA NextIsNew ==
    ASSUME NEW p \in DOMAIN Feed
    PROVE  /\ Upto(p) = Upto(p - 1) \cup {Feed[p]}
           /\ Feed[p] \notin Upto(p - 1)
           /\ Feed[p] \in FeedEnvelopes(Feed[p][1])
           /\ \A e \in Upto(p - 1) : e[1] <= Feed[p][1]
<1>1. DOMAIN Feed = 1..Len(Feed) /\ Len(Feed) \in Nat /\ p \in Nat /\ 1 <= p
  BY FeedAssumption
<1>2. 1..p = 1..(p - 1) \cup {p}
  BY <1>1
<1>3. \A q \in 1..(p - 1) : q \in DOMAIN Feed /\ q < p
  BY <1>1
<1>4. Feed[p] \in Nat \X Nat /\ Feed[p][2] \in 1..FeedChunks[Feed[p][1]]
  BY FeedAssumption
<1>5. Feed[p] = <<Feed[p][1], Feed[p][2]>>
  BY <1>4
<1> QED
  BY <1>2, <1>3, <1>4, <1>5, FeedOrderAssumption DEF Upto, FeedEnvelopes

(* It makes at most its own message whole.                                 *)
LEMMA NextIsWhole ==
    ASSUME NEW p \in DOMAIN Feed
    PROVE  /\ \A j \in DOMAIN FeedChunks : j # Feed[p][1] => (Whole(j, p) <=> Whole(j, p - 1))
           /\ ~Whole(Feed[p][1], p - 1)
<1>1. \A j : \A e \in FeedEnvelopes(j) : e[1] = j
  BY DEF FeedEnvelopes
<1> QED
  BY <1>1, NextIsNew DEF Whole

(* Messages that are whole have been there before the next one.            *)
LEMMA WholeComesBefore ==
    ASSUME NEW p \in DOMAIN Feed, NEW j \in DOMAIN FeedChunks, Whole(j, p - 1)
    PROVE  j < Feed[p][1]
<1>1. <<j, 1>> \in FeedEnvelopes(j)
  BY FeedAssumption DEF FeedEnvelopes
<1>2. j <= Feed[p][1]
  BY <1>1, NextIsNew DEF Whole
<1>3. j # Feed[p][1]
  BY NextIsWhole
<1>4. j \in Nat /\ Feed[p][1] \in Nat
  BY FeedAssumption
<1> QED
  BY <1>2, <1>3, <1>4

LEMMA PartNumbers ==
    ASSUME TypeOK
    PROVE  /\ cursor \in Nat /\ feedPos \in Nat
           /\ \A i \in DOMAIN inbound : inbound[i].n \in Nat
           /\ \A i \in DOMAIN inbound : IsPart(i) => inbound[i].n \in DOMAIN Feed
<1>1. DOMAIN Feed = 1..Len(Feed) /\ Len(Feed) \in Nat
  BY FeedAssumption
<1>2. \A i \in DOMAIN inbound : inbound[i] \in Inbound
  BY DEF TypeOK
<1>3. \A x \in Inbound : x.n \in Nat /\ (x.kind = "part" => x.n \in DOMAIN Feed)
  BY <1>1 DEF Inbound
<1> QED
  BY <1>1, <1>2, <1>3 DEF TypeOK, IsPart

(* The first part under way is the one after the cursor.                   *)
LEMMA HeadIsNext ==
    ASSUME TypeOK, NoGap, inbound # <<>>, Head(inbound).kind = "part"
    PROVE  Head(inbound).n = cursor + 1
<1>1. 1 \in DOMAIN inbound /\ Head(inbound) = inbound[1] /\ inbound[1] \in Inbound
  BY DEF TypeOK
<1>2. inbound[1].n \in Nat /\ cursor \in Nat
  BY <1>1, PartNumbers
<1>3. cursor < inbound[1].n /\ (cursor + 1)..(inbound[1].n - 1) = {}
  BY <1>1 DEF NoGap, IsPart
<1> QED
  BY <1>1, <1>2, <1>3

(* Handling it: the assemblies and the reader, whatever becomes of it.     *)
LEMMA CompleteIsWhole ==
    ASSUME TypeOK, AssemblyMatches, NEW p \in DOMAIN Feed, p = cursor + 1
    PROVE  /\ Complete(Feed[p][1], Observed(p)) <=> Whole(Feed[p][1], p)
           /\ ~Whole(Feed[p][1], p) =>
                 Observed(p) = {e \in Upto(p) : ~Whole(e[1], p)}
           /\ Whole(Feed[p][1], p) =>
                 Observed(p) \ FeedEnvelopes(Feed[p][1]) = {e \in Upto(p) : ~Whole(e[1], p)}
<1> DEFINE j == Feed[p][1]
<1>1. cursor = p - 1
  BY DEF TypeOK
<1>2. assembly = {e \in Upto(p - 1) : ~Whole(e[1], p - 1)}
  BY <1>1 DEF AssemblyMatches
<1>3. /\ \A e \in Upto(p) : e[1] \in DOMAIN FeedChunks
      /\ \A e \in Upto(p) : e[1] = j => e \in FeedEnvelopes(j)
  <2>1. \A q \in 1..p : q \in DOMAIN Feed
    BY FeedAssumption
  <2>2. \A q \in 1..p : Feed[q] \in FeedEnvelopes(Feed[q][1])
    BY <2>1, NextIsNew
  <2>3. \A q \in 1..p : Feed[q][1] \in DOMAIN FeedChunks
    BY <2>1, FeedAssumption
  <2> QED
    BY <2>2, <2>3 DEF Upto
<1>4. \A e \in FeedEnvelopes(j) : e[1] = j
  BY DEF FeedEnvelopes
<1>5. /\ Upto(p) = Upto(p - 1) \cup {Feed[p]}
      /\ \A k \in DOMAIN FeedChunks : k # j => (Whole(k, p) <=> Whole(k, p - 1))
      /\ ~Whole(j, p - 1) /\ Feed[p] \in FeedEnvelopes(j)
  BY NextIsNew, NextIsWhole
<1>6. Complete(j, Observed(p)) <=> Whole(j, p)
  BY <1>2, <1>4, <1>5 DEF Complete, Observed, Whole
<1>7. ASSUME ~Whole(j, p) PROVE Observed(p) = {e \in Upto(p) : ~Whole(e[1], p)}
  BY <1>2, <1>3, <1>5, <1>7 DEF Observed
<1>8. ASSUME Whole(j, p)
      PROVE  Observed(p) \ FeedEnvelopes(j) = {e \in Upto(p) : ~Whole(e[1], p)}
  BY <1>2, <1>3, <1>4, <1>5, <1>8 DEF Observed
<1> QED
  BY <1>6, <1>7, <1>8

-----------------------------------------------------------------------------
(* The envelopes under way.                                                *)

LEMMA Narrower ==
    ASSUME NEW a \in Nat, NEW b \in Nat, a <= b, NEW m \in Nat, NEW p \in (b + 1)..(m - 1)
    PROVE  p \in (a + 1)..(m - 1) /\ p > b /\ p \in Nat
OBVIOUS

(* The loop takes the first one.                                           *)
LEMMA TailHasNoGap ==
    ASSUME TypeOK, NoGap, inbound # <<>>, inbound' = Tail(inbound),
           link' = link, feedPos' = feedPos,
           \/ Head(inbound).kind = "ack" /\ cursor' = cursor
           \/ Head(inbound).kind = "part" /\ cursor' = cursor + 1
    PROVE  NoGap'
<1>1. /\ inbound \in Seq(Inbound) /\ Len(inbound) \in Nat /\ Len(inbound) >= 1
      /\ DOMAIN inbound = 1..Len(inbound) /\ Head(inbound) = inbound[1]
      /\ DOMAIN inbound' = 1..(Len(inbound) - 1)
      /\ \A i \in DOMAIN inbound' : inbound'[i] = inbound[i + 1]
  BY DEF TypeOK
<1>2. /\ cursor \in Nat /\ feedPos \in Nat 
      /\ \A i \in DOMAIN inbound : inbound[i].n \in Nat
  BY PartNumbers
<1>n. PICK next \in Nat : cursor' = next /\ (next = cursor \/ next = cursor + 1)
  BY <1>2
<1>3. /\ cursor <= next
      /\ \A q \in Nat : q > cursor => q > next \/ (IsPart(1) /\ inbound[1].n = q)
      /\ \A q \in Nat : IsPart(1) /\ inbound[1].n = q => ~(q > next)
  BY <1>1, <1>2, <1>n, HeadIsNext DEF IsPart
<1>4. \A i \in DOMAIN inbound' : /\ i \in Nat /\ i + 1 \in DOMAIN inbound /\ 1 <= i
                                 /\ IsPart(i)' <=> IsPart(i + 1)
  BY <1>1 DEF IsPart
<1>5. ASSUME NEW i \in DOMAIN inbound', IsPart(i)'
      PROVE  /\ next < inbound'[i].n
             /\ \A k \in 1..(i - 1) : IsPart(k)' => inbound'[k].n < inbound'[i].n
             /\ \A p \in (next + 1)..(inbound'[i].n - 1) :
                   \E k \in 1..(i - 1) : IsPart(k)' /\ inbound'[k].n = p
  <2>1. /\ i + 1 \in DOMAIN inbound /\ IsPart(i + 1) /\ inbound'[i] = inbound[i + 1]
        /\ inbound[i + 1].n \in Nat /\ i \in Nat
        /\ 1 \in 1..i /\ (i + 1) - 1 = i
    BY <1>1, <1>2, <1>4, <1>5
  <2>2. /\ cursor < inbound[i + 1].n
        /\ \A k \in 1..i : IsPart(k) => inbound[k].n < inbound[i + 1].n
        /\ \A p \in (cursor + 1)..(inbound[i + 1].n - 1) :
              \E k \in 1..i : IsPart(k) /\ inbound[k].n = p
    BY <2>1 DEF NoGap
  <2>3. next < inbound'[i].n
    <3>1. CASE IsPart(1)
      BY <1>2, <1>3, <2>1, <2>2, <3>1
    <3>2. CASE ~IsPart(1)
      BY <1>2, <1>3, <2>1, <2>2, <3>2
    <3> QED
      BY <3>1, <3>2
  <2>4. ASSUME NEW k \in 1..(i - 1), IsPart(k)'
        PROVE  inbound'[k].n < inbound'[i].n
    <3>1. k \in DOMAIN inbound' /\ k + 1 \in 1..i
      BY <1>1, <2>1
    <3> QED
      BY <1>1, <1>4, <2>1, <2>2, <2>4, <3>1
  <2>5. ASSUME NEW p, p \in (next + 1)..(inbound'[i].n - 1)
        PROVE  \E k \in 1..(i - 1) : IsPart(k)' /\ inbound'[k].n = p
    <3>1. p \in (cursor + 1)..(inbound[i + 1].n - 1) /\ p > next /\ p \in Nat
      <4>1. p \in (next + 1)..(inbound[i + 1].n - 1)
        BY <2>1, <2>5
      <4> QED
        BY <1>2, <1>3, <2>1, <4>1, Narrower
    <3>2. PICK k \in 1..i : IsPart(k) /\ inbound[k].n = p
      BY <2>2, <3>1
    <3>3. k # 1
      BY <1>3, <3>1, <3>2
    <3>4. k - 1 \in 1..(i - 1) /\ k - 1 \in DOMAIN inbound' /\ (k - 1) + 1 = k
      BY <1>1, <2>1, <3>3
    <3> QED
      BY <1>1, <1>4, <3>2, <3>4
  <2> QED
    BY <2>3, <2>4, <2>5
<1>6. ASSUME link' = "up"
      PROVE  /\ next <= feedPos'
             /\ \A i \in DOMAIN inbound' : IsPart(i)' => inbound'[i].n <= feedPos'
             /\ \A p \in (next + 1)..feedPos' :
                   \E i \in DOMAIN inbound' : IsPart(i)' /\ inbound'[i].n = p
  <2>1. /\ cursor <= feedPos
        /\ \A i \in DOMAIN inbound : IsPart(i) => inbound[i].n <= feedPos
        /\ \A p \in (cursor + 1)..feedPos : \E i \in DOMAIN inbound : IsPart(i) /\ inbound[i].n = p
    BY <1>6 DEF NoGap
  <2>2. next <= feedPos
    <3>1. 1 \in DOMAIN inbound
      BY <1>1
    <3> QED
      BY <1>1, <1>2, <1>n, <2>1, <3>1, HeadIsNext DEF IsPart
  <2>3. \A i \in DOMAIN inbound' : IsPart(i)' => inbound'[i].n <= feedPos'
    BY <1>1, <1>4, <2>1
  <2>4. ASSUME NEW p \in (next + 1)..feedPos'
        PROVE  \E i \in DOMAIN inbound' : IsPart(i)' /\ inbound'[i].n = p
    <3>1. p \in (cursor + 1)..feedPos /\ p > next /\ p \in Nat
      BY <1>2, <1>3
    <3>2. PICK k \in DOMAIN inbound : IsPart(k) /\ inbound[k].n = p
      BY <2>1, <3>1
    <3>3. k # 1
      BY <1>3, <3>1, <3>2
    <3>4. k - 1 \in DOMAIN inbound' /\ (k - 1) + 1 = k
      BY <1>1, <3>3
    <3> QED
      BY <1>1, <1>4, <3>2, <3>4
  <2> QED
    BY <2>2, <2>3, <2>4
<1> QED
  BY <1>n, <1>5, <1>6 DEF NoGap

(* The relay adds one at the end.                                          *)
LEMMA AppendHasNoGap ==
    ASSUME TypeOK, NoGap, link = "up", UNCHANGED <<link, cursor>>, NEW x,
           inbound' = Append(inbound, x),
           \/ x.kind = "ack" /\ feedPos' = feedPos
           \/ x.kind = "part" /\ x.n = feedPos + 1 /\ feedPos' = feedPos + 1
    PROVE  NoGap'
<1>z. PICK z \in Nat : z = Len(inbound) + 1
  BY DEF TypeOK
<1>1. /\ Len(inbound) \in Nat /\ DOMAIN inbound = 1..Len(inbound)
      /\ z = Len(inbound) + 1 /\ DOMAIN inbound' = 1..z /\ inbound'[z] = x
      /\ \A i \in DOMAIN inbound : inbound'[i] = inbound[i]
  BY <1>z DEF TypeOK
<1>2. /\ cursor \in Nat /\ feedPos \in Nat /\ feedPos' \in Nat /\ feedPos <= feedPos'
      /\ \A i \in DOMAIN inbound : inbound[i].n \in Nat
  BY PartNumbers
<1>3. /\ \A i \in DOMAIN inbound : IsPart(i)' <=> IsPart(i)
      /\ IsPart(z)' => x.kind = "part"
      /\ x.kind = "part" => IsPart(z)'
  BY <1>1 DEF IsPart
<1>4. /\ cursor <= feedPos
      /\ \A i \in DOMAIN inbound : IsPart(i) => inbound[i].n <= feedPos
      /\ \A p \in (cursor + 1)..feedPos : \E i \in DOMAIN inbound : IsPart(i) /\ inbound[i].n = p
  BY DEF NoGap
<1>5. ASSUME NEW i \in DOMAIN inbound', IsPart(i)'
      PROVE  /\ cursor' < inbound'[i].n
             /\ \A k \in 1..(i - 1) : IsPart(k)' => inbound'[k].n < inbound'[i].n
             /\ \A p \in (cursor' + 1)..(inbound'[i].n - 1) :
                   \E k \in 1..(i - 1) : IsPart(k)' /\ inbound'[k].n = p
  <2>1. CASE i \in DOMAIN inbound
    <3>1. \A k \in 1..(i - 1) : k \in DOMAIN inbound
      BY <1>1, <2>1
    <3> QED
      BY <1>1, <1>3, <1>5, <2>1, <3>1 DEF NoGap
  <2>2. CASE i = z
    <3>1. x.kind = "part" /\ inbound'[i].n = feedPos + 1 /\ 1..(i - 1) = DOMAIN inbound
      BY <1>1, <1>3, <1>5, <2>2
    <3>2. ASSUME NEW k \in 1..(i - 1), IsPart(k)'
          PROVE  inbound'[k].n < inbound'[i].n
      <4>1. k \in DOMAIN inbound /\ inbound'[k] = inbound[k] /\ IsPart(k)
        BY <1>1, <1>3, <3>1, <3>2
      <4>2. inbound[k].n \in Nat /\ inbound[k].n <= feedPos
        BY <1>2, <1>4, <4>1
      <4> QED
        BY <1>2, <3>1, <4>1, <4>2
    <3>3. (cursor' + 1)..(inbound'[i].n - 1) = (cursor + 1)..feedPos
      BY <1>2, <3>1
    <3>4. \A p \in (cursor' + 1)..(inbound'[i].n - 1) :
             \E k \in 1..(i - 1) : IsPart(k)' /\ inbound'[k].n = p
      BY <1>1, <1>3, <1>4, <3>1, <3>3
    <3> QED
      BY <1>2, <1>4, <3>1, <3>2, <3>4
  <2> QED
    BY <1>1, <2>1, <2>2
<1>6. /\ cursor' <= feedPos'
      /\ \A i \in DOMAIN inbound' : IsPart(i)' => inbound'[i].n <= feedPos'
  <2>1. \A i \in DOMAIN inbound' : i \in DOMAIN inbound \/ i = z
    BY <1>1
  <2> QED
    BY <1>1, <1>2, <1>3, <1>4, <2>1
<1>7. ASSUME NEW p \in (cursor' + 1)..feedPos'
      PROVE  \E i \in DOMAIN inbound' : IsPart(i)' /\ inbound'[i].n = p
  <2>1. CASE p \in (cursor + 1)..feedPos
    <3>1. PICK i \in DOMAIN inbound : IsPart(i) /\ inbound[i].n = p
      BY <1>4, <2>1
    <3>2. i \in DOMAIN inbound'
      BY <1>1
    <3> QED
      BY <1>1, <1>3, <3>1, <3>2
  <2>2. CASE ~(p \in (cursor + 1)..feedPos)
    <3>1. p = feedPos + 1 /\ x.kind = "part" /\ x.n = p
      BY <1>2, <2>2
    <3>2. z \in DOMAIN inbound'
      BY <1>1
    <3> QED
      BY <1>1, <1>3, <3>1, <3>2
  <2> QED
    BY <2>1, <2>2
<1> QED
  BY <1>5, <1>6, <1>7 DEF NoGap

(* A cut leaves a prefix.                                                  *)
LEMMA PrefixHasNoGap ==
    ASSUME TypeOK, NoGap, NEW n \in 0..Len(inbound), inbound' = SubSeq(inbound, 1, n),
           link' # "up", cursor' = cursor
    PROVE  NoGap'
<1>1. /\ Len(inbound) \in Nat /\ DOMAIN inbound = 1..Len(inbound)
      /\ DOMAIN inbound' = 1..n /\ n \in Nat
      /\ \A i \in DOMAIN inbound' : inbound'[i] = inbound[i]
  BY DEF TypeOK
<1>2. ASSUME NEW i \in DOMAIN inbound', IsPart(i)'
      PROVE  /\ cursor' < inbound'[i].n
             /\ \A k \in 1..(i - 1) : IsPart(k)' => inbound'[k].n < inbound'[i].n
             /\ \A p \in (cursor' + 1)..(inbound'[i].n - 1) :
                   \E k \in 1..(i - 1) : IsPart(k)' /\ inbound'[k].n = p
  <2>1. /\ i \in DOMAIN inbound /\ IsPart(i)
        /\ \A k \in 1..(i - 1) : k \in DOMAIN inbound' /\ (IsPart(k)' <=> IsPart(k))
    BY <1>1, <1>2 DEF IsPart
  <2> QED
    BY <1>1, <2>1 DEF NoGap
<1> QED
  BY <1>2 DEF NoGap

LEMMA EmptyHasNoGap ==
    ASSUME TypeOK, inbound' = <<>>, cursor' \in Nat, link' = "up" => feedPos' = cursor'
    PROVE  NoGap'
<1>1. DOMAIN inbound' = {}
  OBVIOUS
<1>2. link' = "up" => (cursor' + 1)..feedPos' = {} /\ cursor' <= feedPos'
  OBVIOUS
<1> QED
  BY <1>1, <1>2 DEF NoGap

-----------------------------------------------------------------------------
(* The invariant.                                                          *)
LEMMA ReaderInit == Init => ReaderInv
<1> SUFFICES ASSUME Init PROVE ReaderInv
  OBVIOUS
<1>1. cursor = 0 /\ assembly = {} /\ delivered = <<>> /\ inbound = <<>> /\ link = "none"
  BY DEF Init
<1>2. Upto(0) = {}
  BY DEF Upto
<1>3. DOMAIN inbound = {} /\ DOMAIN delivered = {}
  BY <1>1
<1>4. NoGap
  BY <1>1, <1>3 DEF NoGap
<1>5. AssemblyMatches
  BY <1>1, <1>2 DEF AssemblyMatches
<1>6. \A j \in DOMAIN FeedChunks : ~EndsAt(j, 0)
  <2>1. \A j \in DOMAIN FeedChunks : <<j, 1>> \in FeedEnvelopes(j)
    BY FeedAssumption DEF FeedEnvelopes
  <2> QED
    BY <1>2, <2>1 DEF EndsAt, Upto
<1>7. ReaderMatchesCursor
  BY <1>1, <1>3, <1>6 DEF ReaderMatchesCursor
<1> QED
  BY <1>4, <1>5, <1>7 DEF ReaderInv

(* Steps that leave the reader's side alone, or only end the connection.   *)
LEMMA ReaderSame ==
    ASSUME TypeOK, ReaderInv, UNCHANGED incoming, NoGap'
    PROVE  ReaderInv'
BY DEF ReaderInv, AssemblyMatches, ReaderMatchesCursor, incoming, EndsAt, Upto, Whole

LEMMA GapSame ==
    ASSUME NoGap, UNCHANGED <<cursor, link, inbound, feedPos>>
    PROVE  NoGap'
BY DEF NoGap, IsPart

(* A part is taken: a gap cannot arise, and the reader has what is whole.  *)
LEMMA PartTaken ==
    ASSUME TypeOK, ReaderInv, NEW p \in DOMAIN Feed, TakePart(p),
           IF Complete(Feed[p][1], Observed(p))
           THEN /\ assembly' = Observed(p) \ FeedEnvelopes(Feed[p][1])
                /\ delivered' = IF Feed[p][1] \in Garbled THEN delivered
                                ELSE Append(delivered, Feed[p][1])
           ELSE assembly' = Observed(p) /\ delivered' = delivered,
           NoGap'
    PROVE  ReaderInv'
<1> DEFINE j == Feed[p][1]
<1>1. p = cursor + 1 /\ cursor' = p /\ cursor = p - 1 /\ p \in Nat
  BY PartNumbers, HeadIsNext DEF TakePart, ReaderInv, TypeOK
<1>2. j \in DOMAIN FeedChunks /\ DOMAIN FeedChunks \subseteq Nat
  BY FeedAssumption
<1>3. Complete(j, Observed(p)) <=> Whole(j, p)
  BY <1>1, CompleteIsWhole DEF ReaderInv
<1>4. AssemblyMatches'
  <2>1. assembly' = {e \in Upto(p) : ~Whole(e[1], p)}
    BY <1>1, <1>3, CompleteIsWhole DEF ReaderInv
  <2> QED
    BY <1>1, <2>1 DEF AssemblyMatches, Upto, Whole
<1>5. \A k : EndsAt(k, p) <=> Whole(k, p) /\ k \notin Garbled
  BY DEF EndsAt, Whole, Upto
<1>6. \A k : EndsAt(k, p - 1) <=> Whole(k, p - 1) /\ k \notin Garbled
  BY DEF EndsAt, Whole, Upto
<1>7. /\ \A k \in DOMAIN FeedChunks : k # j => (EndsAt(k, p) <=> EndsAt(k, p - 1))
      /\ ~EndsAt(j, p - 1)
  BY <1>5, <1>6, NextIsWhole
<1>8. delivered \in Seq(DOMAIN FeedChunks)
  BY DEF TypeOK
<1>9. /\ \A i, k \in DOMAIN delivered : i < k => delivered[i] < delivered[k]
      /\ {delivered[i] : i \in DOMAIN delivered} = {k \in DOMAIN FeedChunks : EndsAt(k, p - 1)}
  BY <1>1 DEF ReaderInv, ReaderMatchesCursor
<1>10. CASE delivered' = delivered /\ ~EndsAt(j, p)
  <2>1. {k \in DOMAIN FeedChunks : EndsAt(k, p)} = {k \in DOMAIN FeedChunks : EndsAt(k, p - 1)}
    BY <1>7, <1>10
  <2>2. ReaderMatchesCursor'
    BY <1>1, <1>9, <1>10, <2>1 DEF ReaderMatchesCursor, EndsAt
  <2> QED
    BY <1>4, <2>2 DEF ReaderInv
<1>11. CASE delivered' = Append(delivered, j) /\ EndsAt(j, p)
  <2>n. PICK n \in Nat : n = Len(delivered)
    BY <1>8
  <2>1. /\ DOMAIN delivered = 1..n /\ DOMAIN delivered' = 1..(n + 1)
        /\ \A i \in 1..n : delivered'[i] = delivered[i] /\ delivered[i] \in DOMAIN FeedChunks
        /\ delivered'[n + 1] = j
    BY <1>2, <1>8, <1>11, <2>n
  <2>2. \A i \in 1..n : EndsAt(delivered[i], p - 1)
    BY <1>9, <2>1
  <2>3. \A i \in 1..n : delivered[i] < j
    BY <1>6, <2>1, <2>2, WholeComesBefore
  <2>4. ASSUME NEW i \in DOMAIN delivered', NEW k \in DOMAIN delivered', i < k
        PROVE  delivered'[i] < delivered'[k]
    <3>1. i \in 1..n /\ (k \in 1..n \/ k = n + 1)
      BY <2>1, <2>4
    <3> QED
      BY <1>9, <2>1, <2>3, <2>4, <3>1
  <2>5. {delivered'[i] : i \in DOMAIN delivered'} = {delivered[i] : i \in DOMAIN delivered} \cup {j}
    <3>1. 1..(n + 1) = 1..n \cup {n + 1}
      OBVIOUS
    <3> QED
      BY <2>1, <3>1
  <2>6. {k \in DOMAIN FeedChunks : EndsAt(k, p)}
          = {k \in DOMAIN FeedChunks : EndsAt(k, p - 1)} \cup {j}
    BY <1>2, <1>7, <1>11
  <2>7. {delivered'[i] : i \in DOMAIN delivered'} = {k \in DOMAIN FeedChunks : EndsAt(k, p)}
    BY <1>9, <2>5, <2>6
  <2>8. ReaderMatchesCursor'
    BY <1>1, <2>4, <2>7 DEF ReaderMatchesCursor, EndsAt
  <2> QED
    BY <1>4, <2>8 DEF ReaderInv
<1> QED
  BY <1>3, <1>5, <1>10, <1>11

LEMMA ReaderStep == TypeOK /\ ReaderInv /\ [Next]_vars => ReaderInv'
<1> SUFFICES ASSUME TypeOK, ReaderInv, [Next]_vars PROVE ReaderInv'
  OBVIOUS
<1>g. NoGap /\ cursor \in Nat /\ feedPos \in Nat
  BY PartNumbers DEF ReaderInv
<1>1. CASE UNCHANGED <<incoming, link, inbound, feedPos>>
  BY <1>g, <1>1, GapSame, ReaderSame DEF incoming
<1>2. CASE HangUp /\ UNCHANGED incoming
  <2>1. inbound' = <<>> /\ link' # "up" /\ cursor' \in Nat
    BY <1>g, <1>2 DEF HangUp, incoming
  <2> QED
    BY <1>2, <2>1, EmptyHasNoGap, ReaderSame
<1>3. CASE Connect
  <2>1. inbound' = <<>> /\ feedPos' = cursor' /\ UNCHANGED incoming
    BY <1>3 DEF Connect, Resume, incoming
  <2>2. cursor' \in Nat
    BY <1>g, <2>1 DEF incoming
  <2> QED
    BY <2>1, <2>2, EmptyHasNoGap, ReaderSame
<1>4. CASE ReceiveAck
  <2>1. /\ inbound # <<>> /\ inbound' = Tail(inbound) /\ Head(inbound).kind = "ack"
        /\ link' = link /\ feedPos' = feedPos /\ cursor' = cursor /\ UNCHANGED incoming
    BY <1>4 DEF ReceiveAck, relay, incoming
  <2> QED
    BY <1>g, <2>1, TailHasNoGap, ReaderSame
<1>5. CASE ReceivePart
  <2>1. PICK p \in DOMAIN Feed : ReceiveSegment(p) \/ ReceiveLast(p) \/ ReceiveGarbled(p)
    BY <1>5 DEF ReceivePart
  <2>2. /\ TakePart(p) /\ inbound # <<>> /\ Head(inbound).kind = "part"
        /\ cursor' = cursor + 1 /\ cursor' \in Nat /\ feedPos' = feedPos
    <3>1. TakePart(p)
      BY <2>1 DEF ReceiveSegment, ReceiveLast, ReceiveGarbled
    <3>2. p \in Nat
      BY FeedAssumption
    <3> QED
      BY <1>g, <3>1, <3>2, HeadIsNext DEF TakePart, relay
  <2>3. CASE ReceiveSegment(p)
    <3>1. inbound' = Tail(inbound) /\ link' = link
      BY <2>3 DEF ReceiveSegment
    <3>2. NoGap'
      BY <1>g, <2>2, <3>1, TailHasNoGap
    <3> QED
      BY <2>2, <2>3, <3>2, PartTaken DEF ReceiveSegment
  <2>4. CASE ReceiveLast(p)
    <3>1. inbound' = Tail(inbound) /\ link' = link
      BY <2>4 DEF ReceiveLast
    <3>2. NoGap'
      BY <1>g, <2>2, <3>1, TailHasNoGap
    <3> QED
      BY <2>2, <2>4, <3>2, PartTaken DEF ReceiveLast
  <2>5. CASE ReceiveGarbled(p)
    <3>1. inbound' = <<>> /\ link' # "up"
      BY <2>5 DEF ReceiveGarbled, HangUp
    <3>2. NoGap'
      BY <2>2, <3>1, EmptyHasNoGap
    <3> QED
      BY <2>2, <2>5, <3>2, PartTaken DEF ReceiveGarbled
  <2> QED
    BY <2>1, <2>3, <2>4, <2>5
<1>6. CASE Cut
  <2>1. PICK n \in 0..Len(inbound) : inbound' = SubSeq(inbound, 1, n)
    BY <1>6 DEF Cut
  <2>2. link' # "up" /\ cursor' = cursor /\ UNCHANGED incoming
    BY <1>6 DEF Cut, incoming
  <2> QED
    BY <1>g, <2>1, <2>2, PrefixHasNoGap, ReaderSame
<1>7. CASE RelayAck \/ RelayFeed
  <2>1. /\ link = "up" /\ UNCHANGED <<link, cursor>> /\ UNCHANGED incoming
        /\ \E x : /\ inbound' = Append(inbound, x)
                  /\ \/ x.kind = "ack" /\ feedPos' = feedPos
                     \/ x.kind = "part" /\ x.n = feedPos + 1 /\ feedPos' = feedPos + 1
    BY <1>7 DEF RelayAck, RelayFeed, relay, incoming
  <2> QED
    BY <1>g, <2>1, AppendHasNoGap, ReaderSame
<1>8. CASE Owner
  BY <1>1, <1>8 DEF Owner, Write, Shutdown, Abort, wires, relay
<1>9. CASE Replay \/ Replayed \/ Take \/ Send \/ Finish
  BY <1>1, <1>9 DEF Replay, Replayed, Take, Send, Finish, Transmit, wires, relay
<1>10. CASE ReplayFails \/ Refuse \/ SendFails \/ Leave
  BY <1>2, <1>10 DEF ReplayFails, Refuse, SendFails, Leave
<1>11. CASE RelayReceive
  BY <1>1, <1>11 DEF RelayReceive, RelayCloses, RelayDrops, RelayKeeps, RelayProcesses, RelayRead
<1>12. CASE UNCHANGED vars
  BY <1>1, <1>12 DEF vars, wires, relay
<1> QED
  BY <1>3, <1>4, <1>5, <1>6, <1>7, <1>8, <1>9, <1>10, <1>11, <1>12 DEF Next, Loop, Environment

(* ReaderMatchesCursor: over any sequence of connections, cut anywhere,    *)
(* the reader has the messages that end at or before the cursor it resumes *)
(* from, in order and once each.                                           *)
THEOREM StreamReadsInOrder == Spec => []ReaderMatchesCursor
<1>1. Init => TypeOK /\ ReaderInv
  BY TypeInit, ReaderInit
<1>2. (TypeOK /\ ReaderInv) /\ [Next]_vars => (TypeOK /\ ReaderInv)'
  BY TypeStep, ReaderStep
<1>3. ReaderInv => ReaderMatchesCursor
  BY DEF ReaderInv
<1> QED
  BY <1>1, <1>2, <1>3, PTL DEF Spec
=============================================================================
