---------------------------- MODULE SlingshotStream ----------------------------
(***************************************************************************)
(* SlingshotJsonLineStream (codex-slingshot/src/stream.rs): one task, the  *)
(* control loop, carries JSON lines over a websocket that comes and goes.  *)
(* It numbers what it sends, keeps it until it is acknowledged and sends   *)
(* it again after a reconnect; it resumes what it receives from a cursor.  *)
(*                                                                         *)
(* A message is its number: the i-th line written is message i and gets    *)
(* seq_id i.  An envelope <<m, s>> is segment s of message m, and <<m, 0>> *)
(* the client_closed envelope with seq_id m.                               *)
(*                                                                         *)
(* The relay at the other end is external.  It is taken to drop an         *)
(* envelope whose seq_id it has already passed, to process a message when  *)
(* it has all its segments, to acknowledge cumulatively, and to resume its *)
(* own envelopes after the cursor the client names.                        *)
(***************************************************************************)
EXTENDS Naturals, Sequences, FiniteSets

CONSTANTS
    Chunks,      \* per message, its number of segments; 0: refused by the split
    Feed,        \* the relay's envelopes <<message, segment>> in order
    FeedChunks,  \* per message of the relay, its number of segments
    Garbled,     \* messages of the relay whose size is not the announced one
    MaxLinks,    \* bound: connections after which the network stays up
    MaxInbound   \* bound: envelopes on their way to the client

Messages == DOMAIN Chunks
Lines == Len(Chunks)
Envelopes(m) == {<<m, s>> : s \in 1..Chunks[m]}
FeedEnvelopes(j) == {<<j, s>> : s \in 1..FeedChunks[j]}

ASSUME ChunksAssumption == Chunks \in Seq(Nat)
ASSUME FeedAssumption ==
    /\ FeedChunks \in Seq(Nat \ {0})
    /\ Garbled \subseteq DOMAIN FeedChunks
    /\ Feed \in Seq(Nat \X Nat)
    /\ \A p \in DOMAIN Feed : /\ Feed[p][1] \in DOMAIN FeedChunks
                              /\ Feed[p][2] \in 1..FeedChunks[Feed[p][1]]
(* The relay sends each segment under one position, message after message. *)
ASSUME FeedOrderAssumption ==
    \A p, q \in DOMAIN Feed :
        p < q => Feed[p] # Feed[q] /\ Feed[p][1] <= Feed[q][1]
ASSUME BoundsAssumption == MaxLinks \in Nat /\ MaxInbound \in Nat

VARIABLES
    \* the writer's side of the stream
    written,    \* lines written: 1 .. written
    shutdown,   \* shutdown_sent
    \* the control loop
    pc,         \* "down", "replay", "loop", "send" or "closed"
    left,       \* what the running for loop over envelopes has still to send
    nextSeq,    \* next_sequence_id
    queue,      \* wire_replay_queue, ordered by (seq_id, segment)
    cursor,     \* current_subscribe_cursor, a position in Feed
    assembly,   \* chunk_assemblies
    delivered,  \* the relay's messages handed to the reader
    \* the connection
    link,       \* "up", "cut" (nobody has noticed) or "none"
    net,        \* envelopes on their way to the relay
    inbound,    \* envelopes on their way to the client
    links,      \* connections so far
    \* the relay
    last,       \* highest seq_id processed
    parts,      \* segments of messages that are not complete
    gone,       \* it has seen client_closed
    feedPos,    \* last envelope of Feed put on this connection
    \* history
    accepted,   \* messages the relay has processed
    lost        \* messages the client has given up

writer == <<written, shutdown>>
outgoing == <<left, nextSeq, queue, lost>>
incoming == <<cursor, assembly, delivered>>
wires == <<link, net, inbound, links>>
relay == <<last, parts, gone, feedPos, accepted>>
vars == <<writer, pc, outgoing, incoming, wires, relay>>

Before(e, f) == e[1] < f[1] \/ (e[1] = f[1] /\ e[2] < f[2])
IsFirst(e, es) == e \in es /\ \A f \in es : f = e \/ Before(e, f)

Init ==
    /\ written = 0 /\ shutdown = FALSE
    /\ pc = "down" /\ left = {} /\ nextSeq = 1 /\ queue = {} /\ lost = {}
    /\ cursor = 0 /\ assembly = {} /\ delivered = <<>>
    /\ link = "none" /\ net = <<>> /\ inbound = <<>> /\ links = 0
    /\ last = 0 /\ parts = {} /\ gone = FALSE /\ feedPos = 0 /\ accepted = {}

-----------------------------------------------------------------------------
(* The stream's owner.                                                     *)

(* poll_write of one JSON line: JsonLineWire writes a message and its      *)
(* newline; the line buffer outlives connections, so the two are one.      *)
Write ==
    /\ pc # "closed"
    /\ ~shutdown
    /\ written < Lines
    /\ written' = written + 1
    /\ UNCHANGED <<shutdown, pc, outgoing, incoming, wires, relay>>

(* poll_shutdown: the command joins the end of the channel.                *)
Shutdown ==
    /\ pc # "closed"
    /\ ~shutdown
    /\ shutdown' = TRUE
    /\ UNCHANGED <<written, pc, outgoing, incoming, wires, relay>>

(* Drop aborts the task at whichever await it has reached.                 *)
Abort ==
    /\ pc # "closed"
    /\ pc' = "closed"
    /\ UNCHANGED <<writer, outgoing, incoming, wires, relay>>

-----------------------------------------------------------------------------
(* The control loop.                                                       *)

(* A frame given to the socket: one that is cut may still take it.         *)
Transmit(e) ==
    /\ link \in {"up", "cut"}
    /\ net' = IF link = "up" THEN Append(net, e) ELSE net
    /\ UNCHANGED <<link, inbound, links>>

(* The loop over one connection ends and the task sleeps before the next.  *)
HangUp ==
    /\ pc' = "down"
    /\ left' = {}
    /\ link' = "none"
    /\ net' = <<>>
    /\ inbound' = <<>>
    /\ UNCHANGED links

(* What replay_unacked_wire walks through, and what the request asks for.  *)
ToReplayNone == {}
ToReplay == queue
ResumeSkipping == cursor + 1
ResumeFromStart == 0
Resume == cursor

(* Request, connect and handshake succeed; when one fails, the task sleeps *)
(* and tries again.                                                        *)
Connect ==
    /\ pc = "down"
    /\ pc' = "replay"
    /\ left' = ToReplay
    /\ link' = "up"
    /\ net' = <<>>
    /\ inbound' = <<>>
    /\ links' = links + 1
    /\ feedPos' = Resume
    /\ UNCHANGED <<writer, nextSeq, queue, lost, incoming,
                   last, parts, gone, accepted>>

(* replay_unacked_wire.                                                    *)
Replay ==
    /\ pc = "replay"
    /\ \E e \in left :
         /\ IsFirst(e, left)
         /\ Transmit(e)
         /\ left' = left \ {e}
    /\ UNCHANGED <<writer, pc, nextSeq, queue, lost, incoming, relay>>

ReplayFails ==
    /\ pc = "replay"
    /\ left # {}
    /\ link = "cut"
    /\ HangUp
    /\ UNCHANGED <<writer, nextSeq, queue, lost, incoming, relay>>

Replayed ==
    /\ pc = "replay"
    /\ left = {}
    /\ pc' = "loop"
    /\ UNCHANGED <<writer, outgoing, incoming, wires, relay>>

(* The next line: it gets its seq_id and is split into segments ...        *)
Take ==
    /\ pc = "loop"
    /\ nextSeq <= written
    /\ Chunks[nextSeq] # 0
    /\ pc' = "send"
    /\ left' = Envelopes(nextSeq)
    /\ nextSeq' = nextSeq + 1
    /\ UNCHANGED <<writer, queue, lost, incoming, wires, relay>>

(* ... or is refused: the line is gone, and so is the connection.          *)
Refuse ==
    /\ pc = "loop"
    /\ nextSeq <= written
    /\ Chunks[nextSeq] = 0
    /\ lost' = lost \cup {nextSeq}
    /\ nextSeq' = nextSeq + 1
    /\ HangUp
    /\ UNCHANGED <<writer, queue, incoming, relay>>

(* push_back: before the send, whatever becomes of it.                     *)
QueuedIfSent(e) == queue' = IF link = "up" THEN queue \cup {e} ELSE queue
Queued(e) == queue' = queue \cup {e}

(* A segment is queued for replay, then sent.                              *)
Send ==
    /\ pc = "send"
    /\ \E e \in left :
         /\ IsFirst(e, left)
         /\ Transmit(e)
         /\ Queued(e)
         /\ left' = left \ {e}
    /\ pc' = IF left' = {} THEN "loop" ELSE "send"
    /\ UNCHANGED <<writer, nextSeq, lost, incoming, relay>>

(* A send that fails leaves the message's later segments out of the queue. *)
SendFails ==
    /\ pc = "send"
    /\ link = "cut"
    /\ \E e \in left :
         /\ IsFirst(e, left)
         /\ Queued(e)
         /\ lost' = IF left = {e} THEN lost ELSE lost \cup {e[1]}
    /\ HangUp
    /\ UNCHANGED <<writer, nextSeq, incoming, relay>>

(* The commands come out of the channel in the order they went in.         *)
ShutdownOvertakes == shutdown
ShutdownIsNext == shutdown /\ nextSeq = written + 1

(* The shutdown command: client_closed, sent or not.                       *)
Finish ==
    /\ pc = "loop"
    /\ ShutdownIsNext
    /\ nextSeq' = nextSeq + 1
    /\ Transmit(<<nextSeq, 0>>)
    /\ pc' = "closed"
    /\ UNCHANGED <<writer, left, queue, lost, incoming, relay>>

(* An acknowledgement trims the replay queue.                              *)
RetainedAfterNext(acked) == {e \in queue : e[1] > acked + 1}
RetainedFrom(acked) == {e \in queue : e[1] >= acked}
Retained(acked) == {e \in queue : e[1] > acked}

ReceiveAck ==
    /\ pc = "loop"
    /\ inbound # <<>>
    /\ Head(inbound).kind = "ack"
    /\ queue' = Retained(Head(inbound).n)
    /\ inbound' = Tail(inbound)
    /\ UNCHANGED <<writer, pc, left, nextSeq, lost, incoming,
                   link, net, links, relay>>

(* An envelope of the relay: the cursor moves first and the segment joins  *)
(* its assembly, which is complete with it or not.                         *)
Complete(j, have) == FeedEnvelopes(j) \subseteq have
Observed(p) == assembly \cup {Feed[p]}

TakePart(p) ==
    /\ pc = "loop"
    /\ inbound # <<>>
    /\ Head(inbound).kind = "part"
    /\ Head(inbound).n = p
    /\ cursor' = p
    /\ UNCHANGED <<writer, nextSeq, queue, lost, relay>>

ReceiveSegment(p) ==
    /\ TakePart(p)
    /\ ~Complete(Feed[p][1], Observed(p))
    /\ assembly' = Observed(p)
    /\ inbound' = Tail(inbound)
    /\ UNCHANGED <<pc, left, delivered, link, net, links>>

(* A complete message goes to the reader; one that has not the size that   *)
(* was announced is dropped, and the connection with it.                   *)
ReceiveLast(p) ==
    /\ TakePart(p)
    /\ Complete(Feed[p][1], Observed(p))
    /\ Feed[p][1] \notin Garbled
    /\ assembly' = Observed(p) \ FeedEnvelopes(Feed[p][1])
    /\ delivered' = Append(delivered, Feed[p][1])
    /\ inbound' = Tail(inbound)
    /\ UNCHANGED <<pc, left, link, net, links>>

ReceiveGarbled(p) ==
    /\ TakePart(p)
    /\ Complete(Feed[p][1], Observed(p))
    /\ Feed[p][1] \in Garbled
    /\ assembly' = Observed(p) \ FeedEnvelopes(Feed[p][1])
    /\ HangUp
    /\ UNCHANGED delivered

ReceivePart ==
    \E p \in DOMAIN Feed :
        ReceiveSegment(p) \/ ReceiveLast(p) \/ ReceiveGarbled(p)

(* Pong deadline, failed ping, close frame, error or end of the stream:    *)
(* on a connection that is cut one of them comes, on another it may.       *)
Leave ==
    /\ pc = "loop"
    /\ link = "cut" \/ links < MaxLinks
    /\ HangUp
    /\ UNCHANGED <<writer, nextSeq, queue, lost, incoming, relay>>

-----------------------------------------------------------------------------
(* The network and the relay.                                              *)

(* The connection dies: what the relay has not read is lost, and a suffix  *)
(* of what the client has not read.                                        *)
Cut ==
    /\ link = "up"
    /\ links < MaxLinks
    /\ link' = "cut"
    /\ net' = <<>>
    /\ \E n \in 0..Len(inbound) : inbound' = SubSeq(inbound, 1, n)
    /\ UNCHANGED <<writer, pc, outgoing, incoming, links, relay>>

(* The relay reads an envelope: the close ...                              *)
RelayRead(e) ==
    /\ net # <<>>
    /\ e = Head(net)
    /\ net' = Tail(net)
    /\ UNCHANGED <<writer, pc, outgoing, incoming, link, inbound, links, feedPos>>

RelayCloses(e) ==
    /\ RelayRead(e)
    /\ e[2] = 0
    /\ gone' = TRUE
    /\ UNCHANGED <<last, parts, accepted>>

(* ... a duplicate ...                                                     *)
RelayDrops(e) ==
    /\ RelayRead(e)
    /\ e[2] # 0
    /\ e[1] <= last
    /\ UNCHANGED <<last, parts, gone, accepted>>

(* ... a segment of a message that is not complete with it ...             *)
RelayKeeps(e) ==
    /\ RelayRead(e)
    /\ e[2] # 0
    /\ e[1] > last
    /\ ~(Envelopes(e[1]) \subseteq parts \cup {e})
    /\ parts' = parts \cup {e}
    /\ UNCHANGED <<last, gone, accepted>>

(* ... or the one that makes its message complete.                         *)
RelayProcesses(e) ==
    /\ RelayRead(e)
    /\ e[2] # 0
    /\ e[1] > last
    /\ Envelopes(e[1]) \subseteq parts \cup {e}
    /\ accepted' = accepted \cup {e[1]}
    /\ last' = e[1]
    /\ parts' = {f \in parts : f[1] > e[1]}
    /\ UNCHANGED gone

RelayReceive ==
    \E e \in {net[i] : i \in DOMAIN net} :
        RelayCloses(e) \/ RelayDrops(e) \/ RelayKeeps(e) \/ RelayProcesses(e)

RelayAck ==
    /\ link = "up"
    /\ Len(inbound) < MaxInbound
    /\ inbound' = Append(inbound, [kind |-> "ack", n |-> last])
    /\ UNCHANGED <<writer, pc, outgoing, incoming, link, net, links, relay>>

RelayFeed ==
    /\ link = "up"
    /\ Len(inbound) < MaxInbound
    /\ feedPos < Len(Feed)
    /\ feedPos' = feedPos + 1
    /\ inbound' = Append(inbound, [kind |-> "part", n |-> feedPos + 1])
    /\ UNCHANGED <<writer, pc, outgoing, incoming, link, net, links,
                   last, parts, gone, accepted>>

-----------------------------------------------------------------------------
Owner == Write \/ Shutdown \/ Abort
Loop ==
    \/ Connect \/ Replay \/ ReplayFails \/ Replayed
    \/ Take \/ Refuse \/ Send \/ SendFails \/ Finish
    \/ ReceiveAck \/ ReceivePart \/ Leave
Environment == Cut \/ RelayReceive \/ RelayAck \/ RelayFeed

Next == Owner \/ Loop \/ Environment

Spec == Init /\ [][Next]_vars

(* The task runs, a socket call returns or fails, a dead connection is     *)
(* noticed (the pong deadline), select! starves no branch, and the relay   *)
(* works.  Nobody has to write, close or drop the stream.                  *)
Fairness ==
    /\ WF_vars(Connect) /\ WF_vars(Replay \/ ReplayFails \/ Replayed)
    /\ WF_vars(Take \/ Refuse) /\ WF_vars(Send \/ SendFails)
    /\ WF_vars(ReceiveAck \/ ReceivePart)
    /\ WF_vars(Leave /\ link = "cut")
    /\ WF_vars(RelayReceive) /\ WF_vars(RelayFeed)
    /\ WF_vars(RelayAck)

FairSpec == Spec /\ Fairness

-----------------------------------------------------------------------------
Segments == {e \in Messages \X Nat : e[2] \in 1..Chunks[e[1]]}
Closing == {<<m, 0>> : m \in 1..(Lines + 1)}
FeedSegments ==
    {e \in (DOMAIN FeedChunks) \X Nat : e[2] \in 1..FeedChunks[e[1]]}
Inbound == [kind : {"ack"}, n : Nat] \cup [kind : {"part"}, n : DOMAIN Feed]

(* Shape of the state: what every variable may hold.                       *)
TypeOK ==
    /\ written \in 0..Lines
    /\ shutdown \in BOOLEAN
    /\ pc \in {"down", "replay", "loop", "send", "closed"}
    /\ left \subseteq Segments
    /\ nextSeq \in 1..(Lines + 2)
    /\ queue \subseteq Segments
    /\ lost \subseteq Messages
    /\ cursor \in 0..Len(Feed)
    /\ assembly \subseteq FeedSegments
    /\ delivered \in Seq(DOMAIN FeedChunks)
    /\ link \in {"up", "cut", "none"}
    /\ net \in Seq(Segments \cup Closing)
    /\ inbound \in Seq(Inbound)
    /\ links \in Nat
    /\ last \in Nat
    /\ parts \subseteq Segments
    /\ gone \in BOOLEAN
    /\ feedPos \in 0..Len(Feed)
    /\ accepted \subseteq Messages

(* A message that has its number is, until the relay has processed it, in  *)
(* the replay queue with every segment, or still being handed over:        *)
(* acknowledgements never trim what a reconnect would need (stream.rs      *)
(* retain, push_back before send).                                         *)
Settled == accepted \cup lost
Pending(m) == Envelopes(m) \subseteq queue \cup (IF pc = "send" THEN left ELSE {})
NothingForgotten ==
    pc # "closed" =>
        \A m \in Messages : m < nextSeq /\ m \notin Settled => Pending(m)

(* The relay learns of the close only after it has processed every line    *)
(* that was written before it: Shutdown queues behind the lines, and a     *)
(* connection carries the replay first.                                    *)
CloseIsLast == gone => Settled = 1..written

(* Whatever reconnects happen between two segments, the reader has exactly *)
(* the messages that end at or before the resume cursor, in order and once *)
(* each: a cursor that moves past the segment in hand needs the assembly   *)
(* to survive the connection.                                              *)
EndsAt(j, p) == /\ FeedEnvelopes(j) \subseteq {Feed[q] : q \in 1..p}
                /\ j \notin Garbled
ReaderMatchesCursor ==
    /\ \A i, k \in DOMAIN delivered : i < k => delivered[i] < delivered[k]
    /\ {delivered[i] : i \in DOMAIN delivered} =
           {j \in DOMAIN FeedChunks : EndsAt(j, cursor)}

(* The stream implements MessageChannel: order, at most once, and only     *)
(* messages of several segments, or refused ones, can be lost.             *)
Channel == INSTANCE MessageChannel WITH
    N <- Lines, Fragile <- {m \in Messages : Chunks[m] # 1}
ImplementsChannel == Channel!Spec

(* What replay_unacked_wire says it does ("replaying unacked messages"): a *)
(* message of which anything is replayed is replayed with all its segments.*)
ReplaysWholeMessages ==
    pc = "replay" => \A e \in queue : Envelopes(e[1]) \subseteq queue

(* Every line that is written is processed, or given up, once the network  *)
(* stays up, unless the stream is closed.                                  *)
Arrives ==
    \A m \in Messages : m <= written ~> (m \in Settled \/ pc = "closed")

(* What the relay has processed leaves the replay queue in the end: the    *)
(* queue does not grow for ever.                                           *)
QueueDrains ==
    \A m \in Messages :
        m \in accepted ~> (pc = "closed" \/ \A e \in queue : e[1] # m)
=============================================================================
