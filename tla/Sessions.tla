------------------------------ MODULE Sessions ------------------------------
(***************************************************************************)
(* The phone's connection to one server: the sessions MobileClient makes   *)
(* for it, the worker that serves each of a session's runtimes and brings  *)
(* its connection back, the health the workers share, the reader that      *)
(* reports that health to the application store, and the marker by which   *)
(* the client remembers that a thread is subscribed on the live            *)
(* connection.                                                             *)
(*                                                                         *)
(* Health is a watch channel: a reader sees its latest value only.  What   *)
(* the readers report travels to the store in a queue, while attaching a   *)
(* session, a failed request and a failed connect write the store at once. *)
(***************************************************************************)
EXTENDS Integers, Sequences

CONSTANTS
    Runtimes,       \* the runtimes a multiplexed server offers
    Main,           \* the runtime that serves the thread and the probes
    Paths,          \* the ways the server may be reached
    Slots,          \* requests that may be outstanding at the same time
    MaxSessions,    \* bound: connects
    MaxSteps        \* bound, by path: connects, lost connections, opens and
                    \* connects that overlap, together

ASSUME SessionsAssumption ==
    /\ Main \in Runtimes
    /\ Paths \subseteq {"websocket", "alleycat"}
    /\ MaxSessions \in Nat
    /\ MaxSteps \in [Paths -> Nat]

VARIABLES
    path,           \* how this server is reached
    made,           \* connects begun so far; each numbers its session
    current,        \* the session in the client's map, 0 for none
    closed,         \* sessions told to shut down
    health,         \* per session: the value of the watch channel
    unseen,         \* per session: written since its reader last woke up
    worker,         \* per session and runtime: what the worker is doing
    link,           \* per session and runtime: its connection
    subscribed,     \* sessions whose live connection has the thread
    reader,         \* per session: its health reader
    connecting,     \* connects between replacing and attaching
    shown,          \* the server's health in the store
    stored,         \* the store holds the thread
    events,         \* health reports not applied to the store yet
    marker,         \* the thread's direct-resume marker
    resubs,         \* resubscribe tasks spawned and not begun
    call,           \* per slot: the request
    cuts,           \* connections lost so far
    opens,          \* times the thread was opened
    (* history *)
    said,           \* who wrote `shown` last, and about which session
    missed,         \* sessions whose reader has not seen Main's loss
    late,           \* the marker was set for a connection that is gone
    overlapped      \* two connectors were connecting at once

vars == << path, made, current, closed, health, unseen, worker, link,
           subscribed, reader, connecting, shown, stored, events,
           marker, resubs, call, cuts, opens, said, missed, late,
           overlapped >>

map == << made, current, closed, connecting, overlapped >>
watch == << health, unseen >>
net == << worker, link, subscribed, cuts >>
store == << shown, said >>
marks == << marker, late >>

Ids == 1 .. MaxSessions
Healths == {"connecting", "connected", "disconnected"}

Within ==
    made + cuts + opens + (IF overlapped THEN 1 ELSE 0) < MaxSteps[path]

Idle == [on |-> 0, st |-> "idle", old |-> FALSE]

\* The types, and that a worker handles the one request it took
\* (connection.rs:1616-1652).
TypeOK ==
    /\ path \in Paths
    /\ made \in 0 .. MaxSessions
    /\ current \in 0 .. made
    /\ closed \subseteq 1 .. made
    /\ health \in [Ids -> Healths]
    /\ unseen \in [Ids -> BOOLEAN]
    /\ worker \in [Ids -> [Runtimes ->
           {"none", "loop", "call", "retry", "recall", "idle", "gone"}]]
    /\ link \in [Ids -> [Runtimes -> {"up", "dead", "drained"}]]
    /\ subscribed \subseteq 1 .. made
    /\ reader \in [Ids -> [on : BOOLEAN, prev : BOOLEAN]]
    /\ connecting \subseteq 1 .. made
    /\ shown \in Healths \cup {"absent"}
    /\ stored \in BOOLEAN /\ marker \in BOOLEAN
    /\ events \in Seq([health : Healths, on : 1 .. made])
    /\ resubs \in Nat
    /\ call \in [Slots -> [on : 0 .. made, st : {"idle", "queued", "sent", "ok",
                                                   "refused", "failed"},
                           old : BOOLEAN]]
    /\ cuts \in 0 .. MaxSteps[path] /\ opens \in 0 .. MaxSteps[path]
    /\ said \in [by : {"nobody", "connect", "attach", "reader", "answer"},
                 on : 0 .. made]
    /\ missed \subseteq 1 .. made
    /\ late \in BOOLEAN /\ overlapped \in BOOLEAN
    /\ \A s \in Ids :
          LET held == {i \in Slots : call[i].on = s /\ call[i].st = "sent"} IN
          IF worker[s][Main] \in {"call", "retry", "recall"}
          THEN \E i \in Slots : held = {i}
          ELSE held = {}

Init ==
    /\ path \in Paths
    /\ made = 0 /\ current = 0
    /\ closed = {} /\ connecting = {}
    /\ health = [s \in Ids |-> "connecting"]
    /\ unseen = [s \in Ids |-> FALSE]
    /\ worker = [s \in Ids |-> [r \in Runtimes |-> "none"]]
    /\ link = [s \in Ids |-> [r \in Runtimes |-> "up"]]
    /\ subscribed = {}
    /\ reader = [s \in Ids |-> [on |-> FALSE, prev |-> TRUE]]
    /\ shown = "absent" /\ stored = FALSE
    /\ events = << >>
    /\ marker = FALSE /\ resubs = 0
    /\ call = [i \in Slots |-> Idle]
    /\ cuts = 0 /\ opens = 0
    /\ said = [by |-> "nobody", on |-> 0]
    /\ missed = {} /\ late = FALSE /\ overlapped = FALSE

-----------------------------------------------------------------------------
(* Writing the health, the store and the markers.                          *)

\* health_tx.send: every write wakes the reader, equal value or not.  What the
\* workers of a session that was shut down still write is read by nobody.
Tell(s, h) ==
    IF s \in closed THEN UNCHANGED << health, unseen >>
    ELSE /\ health' = [health EXCEPT ![s] = h]
         /\ unseen' = [unseen EXCEPT ![s] = TRUE]

\* A write to a server the store does not hold is dropped.
Show(h, by, s) ==
    IF shown = "absent" THEN UNCHANGED store
    ELSE shown' = h /\ said' = [by |-> by, on |-> s]

ClearMarkers == marker' = FALSE /\ late' = FALSE

\* mark_server_transport_disconnected
MarkDisconnected(s) == ClearMarkers /\ Show("disconnected", "answer", s)

Set(s, r, w) == worker' = [worker EXCEPT ![s][r] = w]

-----------------------------------------------------------------------------
(* Connecting and disconnecting.                                           *)

Serving(s) == {r \in Runtimes : worker[s][r] # "none"}

\* A connect leaves the current session alone: over a WebSocket unless its
\* health is Disconnected, over Alleycat only if it is Connected and no
\* runtime is missing from it.
Reusable ==
    /\ current # 0
    /\ IF path = "websocket" THEN health[current] # "disconnected"
       ELSE health[current] = "connected" /\ Serving(current) = Runtimes

\* disconnect_inner: the health, then Shutdown to every worker.
Shut(s) == Tell(s, "disconnected") /\ closed' = closed \cup {s}

Reuse == Reusable /\ UNCHANGED vars

\* Mutant of Connect: the session leaves the map and is not shut down.
ConnectDrops ==
    /\ ~Reusable
    /\ made < MaxSessions /\ Within
    /\ made' = made + 1
    /\ connecting' = connecting \cup {made'}
    /\ overlapped' = (overlapped \/ connecting # {})
    /\ current' = 0
    /\ ClearMarkers
    /\ IF path = "alleycat"
       THEN shown' = "connecting" /\ said' = [by |-> "connect", on |-> 0]
       ELSE UNCHANGED store
    /\ UNCHANGED << path, closed, watch, net, reader, stored, events, resubs,
                    opens, call, missed >>

\* replace_existing_session; Alleycat also shows the server as connecting.
Connect ==
    /\ ~Reusable
    /\ made < MaxSessions /\ Within
    /\ made' = made + 1
    /\ connecting' = connecting \cup {made'}
    /\ overlapped' = (overlapped \/ connecting # {})
    /\ current' = 0
    /\ IF current = 0 THEN UNCHANGED << health, unseen, closed >>
       ELSE Shut(current)
    /\ ClearMarkers
    /\ IF path = "alleycat"
       THEN shown' = "connecting" /\ said' = [by |-> "connect", on |-> 0]
       ELSE UNCHANGED store
    /\ UNCHANGED << path, net, reader, stored, events, resubs, opens,
                    call, missed >>

\* The new session: Connected in the store, in the map, with its readers.  It
\* has the runtimes whose stream opened, at least one.
Attach(s, kinds) ==
    /\ s \in connecting
    /\ connecting' = connecting \ {s}
    /\ IF path = "websocket" THEN kinds = {Main} ELSE kinds # {}
    /\ current' = s
    /\ Tell(s, "connected")
    /\ worker' = [worker EXCEPT ![s] =
                     [r \in Runtimes |-> IF r \in kinds THEN "loop" ELSE "none"]]
    /\ shown' = "connected" /\ said' = [by |-> "attach", on |-> s]
    /\ UNCHANGED << path, made, closed, link, subscribed, reader, stored,
                    events, marks, resubs, opens, call, cuts, missed, overlapped >>

\* The WebSocket path leaves the store as it was, Alleycat writes it.
ConnectFails(s) ==
    /\ s \in connecting
    /\ connecting' = connecting \ {s}
    /\ IF path = "alleycat" THEN Show("disconnected", "connect", 0)
       ELSE UNCHANGED store
    /\ UNCHANGED << path, made, current, closed, watch, net, reader,
                    stored, events, marks, resubs, opens, call, missed, overlapped >>

\* Mutant of Disconnect: the server stays in the store.
DisconnectKeepsServer ==
    /\ current' = 0
    /\ IF current = 0 THEN UNCHANGED << health, unseen, closed >>
       ELSE Shut(current)
    /\ ClearMarkers
    /\ UNCHANGED << path, made, connecting, overlapped, net, reader, store,
                    stored, events, resubs, opens, call, missed >>

\* disconnect_server; its detached task shuts the session down.
Disconnect ==
    /\ current' = 0
    /\ IF current = 0 THEN UNCHANGED << health, unseen, closed >>
       ELSE Shut(current)
    /\ ClearMarkers
    /\ shown' = "absent" /\ said' = [by |-> "nobody", on |-> 0]
    /\ stored' = FALSE
    /\ UNCHANGED << path, made, connecting, overlapped, net, reader, events,
                    resubs, opens, call, missed >>

-----------------------------------------------------------------------------
(* The health reader and the store's listener.                             *)

Report(s, h) == [health |-> h, on |-> s]

\* The reader of a session that was replaced ends: `current = s` fails for
\* good.  Another one reports the health it finds, after "connecting" when it
\* starts, and resubscribes when it found another health before.
Look(s, first) ==
    /\ current = s
    /\ LET up == health[s] = "connected" IN
       /\ events' = events \o first \o << Report(s, health[s]) >>
       /\ reader' = [reader EXCEPT ![s] = [on |-> TRUE, prev |-> up]]
       /\ resubs' = IF ~reader[s].prev /\ up THEN resubs + 1 ELSE resubs
       /\ missed' = IF up THEN missed ELSE missed \ {s}
    /\ UNCHANGED << path, map, health, net, store, stored, marks, opens,
                    call >>

ReaderStart(s) ==
    /\ ~reader[s].on
    /\ Look(s, << Report(s, "connecting") >>)
    /\ UNCHANGED unseen

\* Mutant of ReaderWakes: nothing is reported that the store already shows.
ReaderSkips(s) ==
    /\ reader[s].on /\ unseen[s]
    /\ unseen' = [unseen EXCEPT ![s] = FALSE]
    /\ IF health[s] = shown
       THEN UNCHANGED << path, map, health, net, reader, store, stored, events,
                         marks, resubs, opens, call, missed >>
       ELSE Look(s, << >>)

\* changed() returns at once if the value was written since it last did.
ReaderWakes(s) ==
    /\ reader[s].on /\ unseen[s]
    /\ unseen' = [unseen EXCEPT ![s] = FALSE]
    /\ Look(s, << >>)

\* ConnectionStateChanged reaches the store.
Apply ==
    /\ events # << >>
    /\ events' = Tail(events)
    /\ Show(Head(events).health, "reader", Head(events).on)
    /\ UNCHANGED << path, map, watch, net, reader, stored, marks, resubs, opens, call,
                    missed >>

-----------------------------------------------------------------------------
(* Requests.                                                               *)

\* request_client_for_runtime on session s: a missing runtime's requests go
\* to another one, which does not know the thread; a worker that has ended
\* no longer receives.
Requested(s) ==
    [on |-> s, old |-> FALSE,
     st |-> CASE worker[s][Main] = "none" -> "refused"
              [] worker[s][Main] = "gone" -> "failed"
              [] OTHER -> "queued"]

\* get_session marks the server Disconnected when there is no session.
Request ==
    IF current = 0 THEN Show("disconnected", "answer", 0) /\ UNCHANGED call
    ELSE /\ \E i \in Slots : /\ call[i] = Idle
                             /\ call' = [call EXCEPT ![i] = Requested(current)]
         /\ UNCHANGED store

\* The user opens the thread; with the marker set nothing is sent.
Open ==
    /\ Within /\ opens' = opens + 1
    /\ current = 0 \/ ~marker
    /\ Request
    /\ IF current = 0 THEN ClearMarkers ELSE UNCHANGED marks
    /\ UNCHANGED << path, map, watch, net, reader, stored, events, resubs,
                    missed >>

\* Mutant of Resubscribe: the marker is kept, so nothing is sent.
ResubscribeKeeps ==
    /\ resubs > 0
    /\ resubs' = resubs - 1
    /\ IF stored /\ ~marker THEN Request ELSE UNCHANGED << call, store >>
    /\ UNCHANGED << path, map, watch, net, reader, stored, events, marks, opens,
                    missed >>

\* run_post_reconnect_resubscribe
Resubscribe ==
    /\ resubs > 0
    /\ resubs' = resubs - 1
    /\ ClearMarkers
    /\ IF stored THEN Request ELSE UNCHANGED << call, store >>
    /\ UNCHANGED << path, map, watch, net, reader, stored, events, opens,
                    missed >>

Answered(i, st) == call' = [call EXCEPT ![i].st = st]

\* A worker that ends drops what is queued for it.
Dropped(s, r) ==
    call' = [i \in Slots |->
                IF r = Main /\ call[i].on = s /\ call[i].st = "queued"
                THEN [call[i] EXCEPT !.st = "failed"] ELSE call[i]]

\* A transport failure marks the server, whatever session it came from; a
\* resume that succeeded sets the marker, likewise.
Answer(i) ==
    /\ call[i].st \in {"ok", "refused", "failed"}
    /\ call' = [call EXCEPT ![i] = Idle]
    /\ CASE call[i].st = "failed" -> MarkDisconnected(call[i].on) /\ UNCHANGED stored
         [] call[i].st = "ok" ->
              /\ marker' = TRUE /\ stored' = TRUE
              /\ late' = (call[i].old \/ call[i].on # current)
              /\ UNCHANGED store
         [] OTHER -> UNCHANGED << store, stored, marks >>
    /\ UNCHANGED << path, map, watch, net, reader, events, resubs, opens, missed >>

-----------------------------------------------------------------------------
(* The runtime workers.  Requests go to Main's worker only.                *)

Queued(s) == {i \in Slots : call[i].on = s /\ call[i].st = "queued"}

Take(s, i) ==
    /\ worker[s][Main] = "loop" /\ i \in Queued(s)
    /\ Set(s, Main, "call")
    /\ Answered(i, "sent")
    /\ UNCHANGED << path, map, watch, link, subscribed, cuts, reader, store,
                    stored, events, marks, resubs, opens, missed >>

\* The server handles the request on the live connection.
Serve(s, i) ==
    /\ worker[s][Main] \in {"call", "recall"} /\ link[s][Main] = "up"
    /\ call[i].on = s /\ call[i].st = "sent"
    /\ Set(s, Main, "loop")
    /\ Answered(i, "ok")
    /\ subscribed' = subscribed \cup {s}
    /\ UNCHANGED << path, map, watch, link, cuts, reader, store, stored, events,
                    marks, resubs, opens, missed >>

\* The request fails with its connection: reconnect, and send it again.
Break(s) ==
    /\ worker[s][Main] = "call" /\ link[s][Main] # "up"
    /\ Set(s, Main, "retry")
    /\ Tell(s, "connecting")
    /\ UNCHANGED << path, map, link, subscribed, cuts, reader, store, stored,
                    events, marks, resubs, opens, call, missed >>

Retried(s) ==
    /\ worker[s][Main] = "retry"
    /\ Set(s, Main, "recall")
    /\ link' = [link EXCEPT ![s][Main] = "up"]
    /\ Tell(s, "connected")
    /\ UNCHANGED << path, map, subscribed, cuts, reader, store, stored, events,
                    marks, resubs, opens, call, missed >>

\* Mutant of RetryFails: the request is never answered.
RetryForgets(s, i) ==
    /\ worker[s][Main] = "retry"
    /\ call[i].on = s /\ call[i].st = "sent"
    /\ Set(s, Main, "loop")
    /\ Tell(s, "disconnected")
    /\ UNCHANGED << path, map, link, subscribed, cuts, reader, store, stored,
                    events, marks, resubs, opens, call, missed >>

RetryFails(s, i) ==
    /\ worker[s][Main] = "retry"
    /\ call[i].on = s /\ call[i].st = "sent"
    /\ Set(s, Main, "loop")
    /\ Answered(i, "failed")
    /\ Tell(s, "disconnected")
    /\ UNCHANGED << path, map, link, subscribed, cuts, reader, store, stored,
                    events, marks, resubs, opens, missed >>

\* The second failure is the answer; the loop will notice the connection.
BreakAgain(s, i) ==
    /\ worker[s][Main] = "recall" /\ link[s][Main] # "up"
    /\ call[i].on = s /\ call[i].st = "sent"
    /\ Set(s, Main, "loop")
    /\ Answered(i, "failed")
    /\ UNCHANGED << path, map, watch, link, subscribed, cuts, reader, store,
                    stored, events, marks, resubs, opens, missed >>

\* The loop learns of the loss from its event stream.
Notice(s, r) ==
    /\ worker[s][r] = "loop" /\ link[s][r] # "up"
    /\ Set(s, r, "idle")
    /\ Tell(s, "connecting")
    /\ UNCHANGED << path, map, link, subscribed, cuts, reader, store, stored,
                    events, marks, resubs, opens, call, missed >>

Revived(s, r) ==
    /\ worker[s][r] = "idle"
    /\ Set(s, r, "loop")
    /\ link' = [link EXCEPT ![s][r] = "up"]
    /\ Tell(s, "connected")
    /\ UNCHANGED << path, map, subscribed, cuts, reader, store, stored, events,
                    marks, resubs, opens, call, missed >>

\* Mutant of GivesUp: the worker ends without writing the health.
GivesUpQuietly(s, r) ==
    /\ worker[s][r] = "idle"
    /\ Set(s, r, "gone")
    /\ Dropped(s, r)
    /\ UNCHANGED << path, map, watch, link, subscribed, cuts, reader, store,
                    stored, events, marks, resubs, opens, missed >>

\* After a Disconnected event the loop goes on and finds its stream ended;
\* when the stream has ended the worker ends too.
GivesUp(s, r) ==
    /\ worker[s][r] = "idle"
    /\ Tell(s, "disconnected")
    /\ \/ /\ link[s][r] = "dead"
          /\ link' = [link EXCEPT ![s][r] = "drained"]
          /\ Set(s, r, "loop")
          /\ UNCHANGED call
       \/ /\ Set(s, r, "gone")
          /\ Dropped(s, r)
          /\ UNCHANGED link
    /\ UNCHANGED << path, map, subscribed, cuts, reader, store, stored, events,
                    marks, resubs, opens, missed >>

\* Shutdown is behind every request: none is made once the session left the map.
Stop(s, r) ==
    /\ s \in closed /\ worker[s][r] = "loop"
    /\ r = Main => Queued(s) = {}
    /\ Set(s, r, "gone")
    /\ link' = [link EXCEPT ![s][r] = "drained"]
    /\ subscribed' = IF r = Main THEN subscribed \ {s} ELSE subscribed
    /\ UNCHANGED << path, map, watch, cuts, reader, store, stored, events,
                    marks, resubs, opens, call, missed >>

\* A connection is lost, or abandoned after a long suspension; the server
\* forgets its subscriptions.
Cut(s, r) ==
    /\ Within
    /\ worker[s][r] \notin {"none", "gone"} /\ link[s][r] = "up"
    /\ cuts' = cuts + 1
    /\ link' = [link EXCEPT ![s][r] = "dead"]
    /\ IF r = Main
       THEN /\ subscribed' = subscribed \ {s}
            /\ missed' = missed \cup {s}
            /\ call' = [i \in Slots |->
                           IF call[i].on = s /\ call[i].st = "ok"
                           THEN [call[i] EXCEPT !.old = TRUE] ELSE call[i]]
       ELSE UNCHANGED << subscribed, missed, call >>
    /\ UNCHANGED << path, map, watch, worker, reader, store, stored, events,
                    marks, resubs, opens >>

-----------------------------------------------------------------------------

Next ==
    \/ Reuse
    \/ Connect
    \/ \E s \in Ids : \/ ConnectFails(s)
                      \/ \E kinds \in SUBSET Runtimes : Attach(s, kinds)
    \/ Disconnect
    \/ \E s \in Ids : ReaderStart(s) \/ ReaderWakes(s)
    \/ Apply
    \/ Open \/ Resubscribe
    \/ \E i \in Slots : Answer(i)
    \/ \E s \in Ids, i \in Slots : \/ Take(s, i) \/ Serve(s, i)
                                   \/ RetryFails(s, i) \/ BreakAgain(s, i)
    \/ \E s \in Ids : Break(s) \/ Retried(s)
    \/ \E s \in Ids, r \in Runtimes : \/ Notice(s, r) \/ Revived(s, r)
                                      \/ GivesUp(s, r) \/ Stop(s, r)
                                      \/ Cut(s, r)

Spec == Init /\ [][Next]_vars

-----------------------------------------------------------------------------
(* Properties.                                                             *)

Attached == {s \in Ids : Serving(s) # {}}

\* Nothing is on its way: every task that was started has run its course.
AtRest ==
    /\ connecting = {} /\ events = << >> /\ resubs = 0
    /\ \A i \in Slots : call[i] = Idle
    /\ current # 0 => reader[current].on /\ ~unseen[current]
    /\ \A s \in Ids : \A r \in Serving(s) :
          \/ worker[s][r] = "gone"
          \/ worker[s][r] = "loop" /\ link[s][r] = "up" /\ s \notin closed

\* The health several workers write over one another still means something
\* when they are done, in a session not shut down: Connected only if some
\* runtime is served, Disconnected only if some worker gave up, and never
\* Connecting (connection.rs:1247-1303, 1672-1713).
HealthSettles ==
    AtRest => \A s \in Attached \ closed :
        CASE health[s] = "connected" -> \E r \in Runtimes : worker[s][r] = "loop"
          [] health[s] = "disconnected" -> \E r \in Runtimes : worker[s][r] = "gone"
          [] OTHER -> FALSE

\* No health change is lost between the watch, the reader and the queue:
\* when the last word on the server is its current session's, the store
\* shows that session's health (event_loop.rs:194-240).
StoreCatchesUp ==
    AtRest /\ current # 0 /\ said.on = current /\ said.by # "answer"
        => shown = health[current]

\* A server shown Connected has a Connected session.  The exceptions are the
\* code's own: a report that an earlier session's reader left in the queue,
\* and a WebSocket connect that replaced a session and failed, which does not
\* write the store (mod.rs:1432-1451, 1883-1895, event_loop.rs:242-259).
ConnectedPill ==
    AtRest /\ shown = "connected" =>
        \/ current # 0 /\ health[current] = "connected"
        \/ said.by = "reader" /\ said.on # current
        \/ path = "websocket" /\ current = 0

\* The marker that suppresses a resume stands for a subscription on the
\* live connection, across lost connections, replaced sessions and the
\* answers of requests made before them (mod.rs:2670-2697, 3872-3893).  The
\* exceptions are the code's own: the reader saw Connected before and after
\* the loss, the answer came after the connection it speaks of was gone, or
\* two connects ran at once and the second put its session over the first's.
MarkerMeansSubscribed ==
    AtRest /\ marker /\ ~overlapped /\ current # 0 /\ health[current] = "connected"
        => current \in subscribed \/ current \in missed \/ late

\* A session that is not the current one is shut down, unless two connects
\* ran at once (mod.rs:1361-1369, 2413-2445).
NoLeak ==
    AtRest /\ ~overlapped => \A s \in Attached : s = current \/ s \in closed

=============================================================================
