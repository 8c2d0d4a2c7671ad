------------------------------ MODULE FollowUps ------------------------------
(***************************************************************************)
(* Queued follow-ups of one thread (codex-mobile-client).  A message sent  *)
(* while a turn runs is queued in the store; when the turn completes, the  *)
(* store listener claims the head of the queue and sends it with           *)
(* turn/start.  What can get in its way: the answer is lost, the events of *)
(* the turn are lost, other turns start, the user steers or deletes the    *)
(* draft, and authoritative refreshes replace the thread.                  *)
(*                                                                         *)
(* The composition: the store (store/reducer.rs), its listener with the    *)
(* autosend and the lag recovery (mobile_client/store_listener.rs), the    *)
(* user's calls (mobile_client/mod.rs), and the worker of the thread's     *)
(* runtime with its one retry (session/connection.rs).  The app-server and *)
(* the network are external.                                               *)
(*                                                                         *)
(* A segment of code without an await is one step, but for start_turn,     *)
(* which reads the thread long before it uses what it read.                *)
(***************************************************************************)
EXTENDS Integers, Sequences, FiniteSets

CONSTANTS
    Messages,        \* what the user sends, each once
    None,
    MaxPipe,         \* bound: events read and not yet applied
    MaxSteps         \* bound: turns of the thread, and cuts of the connection,
                     \* lags and repeated events, together

ASSUME NamesAssumption == None \notin Messages
ASSUME BoundsAssumption ==
    MaxSteps \in Nat \ {0} /\ MaxPipe \in Nat

VARIABLES
    \* ThreadSnapshot
    active,        \* active_turn_id, 0: none
    drafts,        \* queued_follow_up_drafts
    dispatch,      \* queued_follow_up_dispatch
    \* the app
    user,          \* per message: how far start_turn is with it
    pipe,          \* events between the worker and the store listener
    lag,           \* LagRecoveryState
    paginated,     \* supports_turn_pagination: refreshes exclude turns
    \* the worker and what callers wait for
    requests,      \* requests the worker has not taken
    worker,        \* its loop and the request it serves
    answers,       \* answers their callers have not handled
    \* network and server
    link,          \* "up" or "dead"
    sub,           \* the connection is subscribed to the thread
    wire,          \* events the worker has not read
    turns,         \* turns so far; a turn is its number
    running,       \* the last one is in progress
    faults,
    \* history
    taken,         \* per message: how often the server took it
    released,      \* drafts the user deleted or steered
    doubtful,      \* messages whose request was lost with a connection, or
                   \* that were steered while their autosend was under way
    displaced,     \* drafts dequeued by a turn that was not theirs
    stranded,      \* nothing will send the head of the queue by itself
    unrefreshed    \* a refresh failed, or older events came after it

thread == <<active, drafts, dispatch>>
refreshing == <<lag, paginated>>
rpc == <<requests, worker, answers>>
server == <<turns, running, taken>>
net == <<link, sub, wire>>
history == <<released, doubtful, displaced, stranded, unrefreshed>>
vars == <<thread, user, pipe, refreshing, rpc, net, server, faults, history>>

Turns == 1..MaxSteps
\* at: its place in the queue; a message is queued once.
Places == 1..Cardinality(Messages)
Draft == [id : Messages, kind : {"Message", "PendingSteer"}, at : Places]
Dispatch == [id : Messages, after : Turns, awaiting : BOOLEAN]
Event == [kind : {"started", "user", "completed"}, turn : Turns,
          msg : Messages \cup {None}]
\* via: "auto" the autosend, "direct" start_turn, "inject" its steer, "steer"
\* steer_queued_follow_up; "resume" and "probe" of a refresh, whose turn is
\* the connection it was made for, or 0 for a refresh of the lag recovery.
Via == {"auto", "direct", "inject", "steer", "resume", "probe"}
Request == [via : Via, msg : Messages \cup {None}, turn : Nat]
Result == {"ok", "rejected", "transport"}
\* None is no request and no dispatch.
ASSUME NoneAssumption == None \notin Dispatch \cup Request
Answer == [request : Request, result : Result, turn : 0..MaxSteps]
Loop == [pc |-> "loop", request |-> None, retried |-> FALSE, answer |-> None]
Gone == [Loop EXCEPT !.pc = "gone"]
Worker == {Loop, Gone}
    \cup [pc : {"asked"}, request : Request, retried : BOOLEAN, answer : {None}]
    \cup [pc : {"taken"}, request : Request, retried : BOOLEAN, answer : Answer]

TypeOK ==
    /\ active \in 0..MaxSteps
    /\ drafts \subseteq Draft
    /\ dispatch \in Dispatch \cup {None}
    /\ user \in [Messages -> {"new", "busy", "idle", "queued", "sent"}]
    /\ pipe \in Seq(Event) /\ wire \in Seq(Event)
    /\ lag \in [scheduled : BOOLEAN, pending : BOOLEAN, busy : BOOLEAN]
    /\ requests \subseteq Request
    /\ worker \in Worker
    /\ answers \subseteq Answer
    /\ link \in {"up", "dead"}
    /\ sub \in BOOLEAN
    /\ turns \in 0..MaxSteps /\ running \in BOOLEAN
    /\ faults \in 0..MaxSteps
    /\ taken \in [Messages -> Nat]
    /\ \A S \in {released, doubtful, displaced} : S \subseteq Messages
    /\ {stranded, unrefreshed, paginated} \subseteq BOOLEAN

\* The thread is open and subscribed, with a turn of another client.
Init ==
    /\ active = 1 /\ turns = 1 /\ running = TRUE
    /\ paginated = TRUE
    /\ drafts = {} /\ dispatch = None
    /\ user = [m \in Messages |-> "new"]
    /\ pipe = <<>> /\ wire = <<>>
    /\ lag = [scheduled |-> FALSE, pending |-> FALSE, busy |-> FALSE]
    /\ requests = {} /\ worker = Loop /\ answers = {}
    /\ link = "up" /\ sub = TRUE
    /\ faults = 0
    /\ taken = [m \in Messages |-> 0]
    /\ released = {} /\ doubtful = {} /\ displaced = {}
    /\ stranded = FALSE /\ unrefreshed = FALSE

-----------------------------------------------------------------------------
(* The user's calls.                                                       *)

Ask(via, m, n) == [via |-> via, msg |-> m, turn |-> n]
Queued(m) == \E d \in drafts : d.id = m
Without(m) == {d \in drafts : d.id # m}
ForDispatch(m) == dispatch # None /\ dispatch.id = m

\* start_turn reads the thread ...
UserSends(m) ==
    /\ user[m] = "new"
    /\ user' = [user EXCEPT ![m] = IF active # 0 THEN "busy" ELSE "idle"]
    /\ UNCHANGED <<thread, pipe, refreshing, rpc, net, server, faults, history>>
\* ... queues a message with text for the turn it saw ...
UserQueues(m) ==
    /\ user[m] = "busy"
    /\ \E p \in Places :
          /\ \A d \in drafts : d.at < p
          /\ p = 1 \/ \E d \in drafts : d.at = p - 1
          /\ drafts' = drafts \cup {[id |-> m, kind |-> "Message", at |-> p]}
    /\ user' = [user EXCEPT ![m] = "queued"]
    /\ stranded' = (stranded \/ active = 0)
    /\ UNCHANGED <<active, dispatch, pipe, refreshing, rpc, net, server, faults,
                   released, doubtful, displaced, unrefreshed>>
\* ... steers that turn with one that has none, and else starts a turn.
UserInjects(m) ==
    /\ user[m] = "busy"
    /\ \E n \in Turns : requests' = requests \cup {Ask("inject", m, n)}
                        /\ n <= turns /\ (active # 0 => n = active)
    /\ user' = [user EXCEPT ![m] = "sent"]
    /\ UNCHANGED <<thread, pipe, refreshing, worker, answers, net, server, faults, history>>
UserStarts(m) ==
    /\ user[m] = "idle"
    /\ requests' = requests \cup {Ask("direct", m, 0)}
    /\ user' = [user EXCEPT ![m] = "sent"]
    /\ UNCHANGED <<thread, pipe, refreshing, worker, answers, net, server, faults, history>>

\* A draft that was tapped before is left alone; without an active turn the
\* call fails, but the draft keeps its new kind.
UserSteers(m) ==
    /\ \E d \in drafts :
          /\ d.id = m /\ d.kind = "Message"
          /\ drafts' = (drafts \ {d}) \cup {[d EXCEPT !.kind = "PendingSteer"]}
    /\ requests' = IF active # 0 THEN requests \cup {Ask("steer", m, active)}
                   ELSE requests
    /\ released' = released \cup {m}
    /\ doubtful' = IF ForDispatch(m) /\ dispatch.awaiting
                   THEN doubtful \cup {m} ELSE doubtful
    /\ UNCHANGED <<active, dispatch, user, pipe, refreshing, worker, answers, net, server,
                   faults, displaced, stranded, unrefreshed>>

UserDeletes(m) ==
    /\ Queued(m)
    /\ drafts' = Without(m)
    /\ released' = released \cup {m}
    /\ UNCHANGED <<active, dispatch, user, pipe, refreshing, rpc, net, server, faults,
                   doubtful, displaced, stranded, unrefreshed>>

-----------------------------------------------------------------------------
(* The store listener.                                                     *)

\* dequeue_dispatched_follow_up: whatever turn it is that starts.
Dequeue(e) ==
    IF dispatch = None THEN UNCHANGED <<drafts, dispatch, displaced>>
    ELSE /\ dispatch' = [dispatch EXCEPT !.awaiting = FALSE]
         /\ drafts' = Without(dispatch.id)
         /\ displaced' = IF Queued(dispatch.id) /\ e.msg # dispatch.id
                         THEN displaced \cup {dispatch.id} ELSE displaced

ApplyStarted(e) ==
    /\ Dequeue(e)
    /\ active' = e.turn
    /\ UNCHANGED <<requests, stranded>>
\* The user message at the head of a turn.
ApplyUserMessage(e) ==
    /\ Dequeue(e)
    /\ UNCHANGED <<active, requests, stranded>>

\* A claim that does not look at the last dispatch, and one that never follows
\* another.
ClaimableAgain(queue, turn) == queue # {}
ClaimableOnce(queue, turn) == queue # {} /\ dispatch = None
\* claim_queued_follow_up_dispatch
First(d, queue) == d \in queue /\ \A e \in queue : d.at <= e.at
Claimable(queue, turn) ==
    /\ queue # {}
    /\ dispatch = None \/ (~dispatch.awaiting /\ dispatch.after # turn)
ApplyCompleted(e) ==
    LET queue == {d \in drafts : d.kind # "PendingSteer"}
    IN /\ active' = 0
       /\ drafts' = queue
       /\ IF Claimable(queue, e.turn)
          THEN \E d \in queue :
               /\ First(d, queue)
               /\ dispatch' = [id |-> d.id, after |-> e.turn, awaiting |-> TRUE]
               /\ requests' = requests \cup {Ask("auto", d.id, 0)}
               /\ stranded' = FALSE
          ELSE UNCHANGED <<dispatch, requests, stranded>>
       /\ UNCHANGED displaced

Listen ==
    /\ pipe # <<>>
    /\ pipe' = Tail(pipe)
    /\ LET e == Head(pipe)
       IN CASE e.kind = "started"   -> ApplyStarted(e)
            [] e.kind = "user"      -> ApplyUserMessage(e)
            [] e.kind = "completed" -> ApplyCompleted(e)
    /\ UNCHANGED <<user, refreshing, worker, answers, net, server, faults,
                   released, doubtful, unrefreshed>>

\* The listener lags: the oldest events are gone, and a recovery is triggered.
Lag ==
    /\ turns + faults < MaxSteps
    /\ \E k \in 1..Len(pipe) : pipe' = SubSeq(pipe, k + 1, Len(pipe))
    /\ stranded' = TRUE
    /\ lag' = [lag EXCEPT !.scheduled = TRUE, !.pending = TRUE]
    /\ faults' = faults + 1
    /\ UNCHANGED <<thread, user, paginated, rpc, net, server,
                   released, doubtful, displaced, unrefreshed>>

(* StoreLagRecovery::run, for this thread.                                 *)
LagRecover ==
    /\ lag.scheduled /\ ~lag.busy /\ lag.pending
    /\ lag' = [lag EXCEPT !.pending = FALSE, !.busy = TRUE]
    /\ requests' = requests \cup {Ask("resume", None, 0)}
    /\ UNCHANGED <<thread, user, pipe, paginated, worker, answers, net, server, faults, history>>
LagIdle ==
    /\ lag.scheduled /\ ~lag.busy /\ ~lag.pending
    /\ lag' = [lag EXCEPT !.scheduled = FALSE]
    /\ UNCHANGED <<thread, user, pipe, paginated, rpc, net, server, faults, history>>

-----------------------------------------------------------------------------
(* Answers, as their callers handle them.                                  *)

Handle(a) == a \in answers /\ answers' = answers \ {a}

\* complete_, release_ and mark_.._unconfirmed
AutoSent(a) ==
    /\ a.request.via = "auto" /\ a.result = "ok"
    /\ Handle(a)
    /\ dispatch' = IF ForDispatch(a.request.msg)
                   THEN [dispatch EXCEPT !.awaiting = FALSE] ELSE dispatch
    /\ drafts' = Without(a.request.msg)
    /\ UNCHANGED <<active, user, pipe, refreshing, requests, worker, net, server, faults, history>>
AutoRejected(a) ==
    /\ a.request.via = "auto" /\ a.result = "rejected"
    /\ Handle(a)
    /\ dispatch' = IF ForDispatch(a.request.msg) THEN None ELSE dispatch
    /\ stranded' = TRUE
    /\ UNCHANGED <<active, drafts, user, pipe, refreshing, requests, worker, net, server, faults,
                   released, doubtful, displaced, unrefreshed>>
\* Ones that dequeue the draft, and that go on awaiting the answer.
UnconfirmedDequeues(a) ==
    /\ a.request.via = "auto" /\ a.result = "transport"
    /\ Handle(a)
    /\ dispatch' = IF ForDispatch(a.request.msg)
                   THEN [dispatch EXCEPT !.awaiting = FALSE] ELSE dispatch
    /\ drafts' = Without(a.request.msg)
    /\ stranded' = TRUE
    /\ UNCHANGED <<active, user, pipe, refreshing, requests, worker, net, server, faults,
                   released, doubtful, displaced, unrefreshed>>
UnconfirmedWaits(a) ==
    /\ a.request.via = "auto" /\ a.result = "transport"
    /\ Handle(a)
    /\ stranded' = TRUE
    /\ UNCHANGED <<active, drafts, dispatch, user, pipe, refreshing, requests, worker, net, server, faults,
                   released, doubtful, displaced, unrefreshed>>
AutoUnconfirmed(a) ==
    /\ a.request.via = "auto" /\ a.result = "transport"
    /\ Handle(a)
    /\ dispatch' = IF ForDispatch(a.request.msg)
                   THEN [dispatch EXCEPT !.awaiting = FALSE] ELSE dispatch
    /\ stranded' = TRUE
    /\ UNCHANGED <<active, drafts, user, pipe, refreshing, requests, worker, net, server, faults,
                   released, doubtful, displaced, unrefreshed>>

\* start_turn falls back to turn/start when its steer fails.
Injected(a) ==
    /\ a.request.via = "inject"
    /\ Handle(a)
    /\ requests' = IF a.result # "ok"
                   THEN requests \cup {Ask("direct", a.request.msg, 0)} ELSE requests
    /\ UNCHANGED <<thread, user, pipe, refreshing, worker, net, server, faults, history>>

(* force_refresh_thread_authoritative: resume, and where it excludes turns *)
(* the probe of the turn list.                                             *)
RefreshEnds(a) == lag' = IF a.request.turn = 0 THEN [lag EXCEPT !.busy = FALSE] ELSE lag
\* One that keeps a turn the probe does not know.
ReconciledKeeps(via, n) == IF via = "probe" THEN active ELSE n
\* reconcile_active_turn, with the turn in progress or 0: a probe only clears
\* the active turn, a resume with the turns replaces it.
Reconciled(via, n) == IF via = "probe" /\ active # n THEN 0 ELSE n
Refresh(a) ==
    /\ active' = Reconciled(a.request.via, a.turn)
    /\ stranded' = (stranded \/ active' # active)
    /\ unrefreshed' = (unrefreshed \/ \E i \in DOMAIN pipe : pipe[i].kind = "started")
    /\ RefreshEnds(a)
Resumed(a) ==
    /\ a.request.via = "resume" /\ a.result = "ok"
    /\ Handle(a)
    /\ \/ /\ paginated
          /\ requests' = requests \cup {Ask("probe", None, a.request.turn)}
          /\ UNCHANGED <<active, refreshing, stranded, unrefreshed>>
       \/ /\ paginated' = FALSE
          /\ Refresh(a)
          /\ UNCHANGED requests
    /\ UNCHANGED <<drafts, dispatch, user, pipe, worker, net, server, faults,
                   released, doubtful, displaced>>
Probed(a) ==
    /\ a.request.via = "probe" /\ a.result = "ok"
    /\ Handle(a)
    /\ Refresh(a)
    /\ UNCHANGED <<paginated, drafts, dispatch, user, pipe, requests, worker, net, server, faults,
                   released, doubtful, displaced>>
\* It failed, or took longer than the recovery waits for it.
RefreshFails(a) ==
    /\ a.request.via \in {"resume", "probe"}
    /\ Handle(a)
    /\ RefreshEnds(a)
    /\ unrefreshed' = TRUE
    /\ UNCHANGED <<thread, user, pipe, paginated, requests, worker, net, server, faults,
                   released, doubtful, displaced, stranded>>

HandleAnswer ==
    \E a \in answers :
        \/ AutoSent(a) \/ AutoRejected(a) \/ AutoUnconfirmed(a)
        \/ Injected(a) \/ Resumed(a) \/ Probed(a) \/ RefreshFails(a)

-----------------------------------------------------------------------------
(* The worker of the runtime.                                              *)

\* A request that waits here may as well be one its caller has yet to send.
Take(r) ==
    /\ r \in requests
    /\ worker.pc = "loop"
    /\ requests' = requests \ {r}
    /\ worker' = [Loop EXCEPT !.pc = "asked", !.request = r]
    /\ UNCHANGED <<thread, user, pipe, refreshing, answers, net, server, faults, history>>

Failed(r) == [request |-> r, result |-> "transport", turn |-> 0]
\* The answers of direct and steer change nothing here.
Heard(a) == IF a.request.via \in {"direct", "steer"} THEN {} ELSE {a}
Reply ==
    /\ worker.pc = "taken" /\ link = "up"
    /\ answers' = answers \cup Heard(worker.answer)
    /\ worker' = Loop
    /\ UNCHANGED <<thread, user, pipe, refreshing, requests, net, server, faults, history>>

\* One event is read and passed on; not while a request is served.
Forward ==
    /\ worker.pc = "loop"
    /\ wire # <<>> /\ Len(pipe) < MaxPipe
    /\ pipe' = Append(pipe, Head(wire))
    /\ wire' = Tail(wire)
    /\ UNCHANGED <<thread, user, refreshing, rpc, link, sub, server, faults, history>>

InDoubt == IF worker.request = None THEN {} ELSE {worker.request.msg} \ {None}

\* reconnect_remote_client succeeds: the server does not know the connection,
\* what the old one had not delivered is gone, and the health reader asks for
\* the thread again.
Reconnected ==
    /\ link = "dead"
    /\ link' = "up"
    /\ sub' = FALSE
    /\ wire' = <<>>
    /\ stranded' = (stranded \/ wire # <<>>)
Resubscribe == {Ask("resume", None, 1)}
\* It found the connection dead between two requests, or while it served one,
\* which is then sent again.
ReconnectIdle ==
    /\ worker.pc = "loop" /\ wire = <<>>
    /\ Reconnected
    /\ requests' = requests \cup Resubscribe
    /\ UNCHANGED <<thread, user, pipe, refreshing, worker, answers, server, faults,
                   released, doubtful, displaced, unrefreshed>>
RetryKeepsAnswer ==
    /\ worker.pc \in {"asked", "taken"} /\ ~worker.retried
    /\ Reconnected
    /\ requests' = requests \cup Resubscribe
    /\ worker' = [worker EXCEPT !.pc = "asked", !.retried = TRUE]
    /\ doubtful' = doubtful \cup InDoubt
    /\ UNCHANGED <<thread, user, pipe, refreshing, answers, server, faults,
                   released, displaced, unrefreshed>>
ReconnectRetry ==
    /\ worker.pc \in {"asked", "taken"} /\ ~worker.retried
    /\ Reconnected
    /\ requests' = requests \cup Resubscribe
    /\ worker' = [worker EXCEPT !.pc = "asked", !.retried = TRUE, !.answer = None]
    /\ doubtful' = doubtful \cup InDoubt
    /\ UNCHANGED <<thread, user, pipe, refreshing, answers, server, faults,
                   released, displaced, unrefreshed>>
\* The retry failed too, or no attempt to reconnect succeeded: the request has
\* failed, and the loop goes on.
GiveUp ==
    /\ worker.pc \in {"asked", "taken"} /\ link = "dead"
    /\ answers' = answers \cup Heard(Failed(worker.request))
    /\ worker' = Loop
    /\ doubtful' = doubtful \cup InDoubt
    /\ UNCHANGED <<thread, user, pipe, refreshing, requests, net, server, faults,
                   released, displaced, stranded, unrefreshed>>
\* No attempt to reconnect between two requests succeeds: the worker ends.
ReconnectFails ==
    /\ worker.pc = "loop" /\ wire = <<>> /\ link = "dead"
    /\ worker' = Gone
    /\ UNCHANGED <<thread, user, pipe, refreshing, requests, answers, net, server, faults,
                   history>>
NobodyTakes(r) ==
    /\ r \in requests
    /\ worker.pc = "gone"
    /\ requests' = requests \ {r}
    /\ answers' = answers \cup Heard(Failed(r))
    /\ UNCHANGED <<thread, user, pipe, refreshing, worker, net, server, faults, history>>

WorkerStep ==
    \/ \E r \in requests : Take(r) \/ NobodyTakes(r)
    \/ Reply \/ Forward
    \/ ReconnectIdle \/ ReconnectRetry \/ GiveUp \/ ReconnectFails

-----------------------------------------------------------------------------
(* The app-server and the network.                                         *)

Emitted(events) ==
    LET delivered == sub /\ link = "up"
    IN /\ wire' = IF delivered THEN wire \o events ELSE wire
       /\ stranded' = (stranded \/ ~delivered)
Beginning(n, m) == <<[kind |-> "started", turn |-> n, msg |-> m],
                     [kind |-> "user", turn |-> n, msg |-> m]>>
Begin(m) ==
    /\ ~running /\ turns + faults < MaxSteps
    /\ turns' = turns + 1 /\ running' = TRUE
    /\ Emitted(Beginning(turns + 1, m))
Takes(m) == taken' = [taken EXCEPT ![m] = @ + 1]

Served == worker.pc = "asked" /\ link = "up"
AnswerIs(result, n) ==
    worker' = [worker EXCEPT !.pc = "taken",
                  !.answer = [request |-> worker.request, result |-> result, turn |-> n]]

\* A turn/start begins a turn, or joins the one in progress.
ServeStart ==
    /\ Served /\ worker.request.via \in {"auto", "direct"}
    /\ \/ Begin(worker.request.msg)
       \/ /\ running
          /\ Emitted(<<[kind |-> "user", turn |-> turns, msg |-> worker.request.msg]>>)
          /\ UNCHANGED <<turns, running>>
    /\ Takes(worker.request.msg)
    /\ AnswerIs("ok", 0)
    /\ UNCHANGED <<thread, user, pipe, refreshing, requests, answers, link, sub,
                   faults, released, doubtful, displaced, unrefreshed>>
ServeSteer ==
    /\ Served /\ worker.request.via \in {"inject", "steer"}
    /\ running /\ turns = worker.request.turn
    /\ Takes(worker.request.msg)
    /\ AnswerIs("ok", 0)
    /\ UNCHANGED <<thread, user, pipe, refreshing, requests, answers, net, turns, running,
                   faults, history>>
Reject ==
    /\ Served /\ worker.request.msg # None
    /\ AnswerIs("rejected", 0)
    /\ UNCHANGED <<thread, user, pipe, refreshing, requests, answers, net, server,
                   faults, history>>
\* thread/resume subscribes the connection.
ServeRefresh ==
    /\ Served /\ worker.request.via \in {"resume", "probe"}
    /\ sub' = (sub \/ worker.request.via = "resume")
    /\ AnswerIs("ok", IF running THEN turns ELSE 0)
    /\ UNCHANGED <<thread, user, pipe, refreshing, requests, answers, link, wire, server,
                   faults, history>>

TurnEnds ==
    /\ running
    /\ running' = FALSE
    /\ Emitted(<<[kind |-> "completed", turn |-> turns, msg |-> None]>>)
    /\ UNCHANGED <<thread, user, pipe, refreshing, rpc, link, sub, turns, taken,
                   faults,
                   released, doubtful, displaced, unrefreshed>>
\* Another client of the thread.
OthersStart ==
    /\ Begin(None)
    /\ UNCHANGED <<thread, user, pipe, refreshing, rpc, link, sub, taken,
                   faults, released, doubtful, displaced, unrefreshed>>
\* The connection dies; what is on its way is lost from some event on.
Cut ==
    /\ link = "up" /\ turns + faults < MaxSteps
    /\ link' = "dead"
    /\ faults' = faults + 1
    /\ \E k \in 0..Len(wire) :
          /\ wire' = SubSeq(wire, 1, k)
          /\ stranded' = (stranded \/ k < Len(wire))
    /\ UNCHANGED <<thread, user, pipe, refreshing, rpc, sub, server,
                   released, doubtful, displaced, unrefreshed>>
\* A completion comes twice.
Repeat ==
    /\ turns + faults < MaxSteps
    /\ wire # <<>> /\ Head(wire).kind = "completed"
    /\ wire' = <<Head(wire)>> \o wire
    /\ faults' = faults + 1
    /\ UNCHANGED <<thread, user, pipe, refreshing, rpc, link, sub, server, history>>

Environment ==
    \/ ServeStart \/ ServeSteer \/ Reject \/ ServeRefresh
    \/ TurnEnds \/ OthersStart \/ Cut \/ Repeat

\* start_turn awaits nothing between what it reads and what it does with it.
\* The store can change there, but there is no time for a round trip, and what
\* others do there they can as well do before or after it.
Synced == \A m \in Messages : user[m] \notin {"busy", "idle"}

UserStep ==
    \E m \in Messages :
        \/ UserSends(m) \/ UserQueues(m) \/ UserInjects(m) \/ UserStarts(m)
        \/ UserSteers(m) \/ UserDeletes(m)

Next ==
    \/ UserStep \/ Listen \/ HandleAnswer
    \/ Synced /\ (Lag \/ LagRecover \/ LagIdle \/ WorkerStep \/ Environment)

Spec == Init /\ [][Next]_vars

-----------------------------------------------------------------------------
\* Nothing is under way, and the connection delivers what the server emits.
AtRest ==
    /\ Synced
    /\ pipe = <<>> /\ wire = <<>>
    /\ requests = {} /\ answers = {} /\ worker = Loop
    /\ ~lag.scheduled
    /\ link = "up" /\ sub /\ ~running

UnderWay(m) ==
    \/ \E r \in requests : r.msg = m
    \/ worker # Loop /\ worker # Gone /\ worker.request.msg = m
    \/ \E a \in answers : a.request.msg = m

(* What the user queued, and neither deleted nor steered, is still queued, *)
(* or under way to the server, or the server has taken it.                 *)
NothingLost ==
    \A m \in Messages :
        user[m] = "queued" /\ m \notin released
        => Queued(m) \/ UnderWay(m) \/ taken[m] > 0

(* A draft leaves the queue once the server has taken it and no sooner:    *)
(* not for a rejected or lost request, an event of any order, a refresh or *)
(* a completion, unless the turn of somebody else dequeued it.             *)
QueueKept ==
    \A m \in Messages :
        user[m] = "queued" /\ m \notin released \cup displaced
        => Queued(m) \/ taken[m] > 0

(* The server takes a message once, whether it is queued, sent by itself,  *)
(* injected or steered, and also when completions come twice; excepted are *)
(* messages whose request was lost with its connection, or that the user   *)
(* steered while their autosend was under way.                             *)
SentOnce == \A m \in Messages \ doubtful : taken[m] <= 1

(* The queue does not stall: when nothing is under way, drafts wait only   *)
(* if an event of the thread was lost, an autosend failed, a refresh ended *)
(* the turn, or the draft was queued behind the end of its turn.           *)
QueueMoves ==
    AtRest /\ active = 0 /\ ~stranded => \A d \in drafts : d.kind # "Message"

(* No dispatch is left awaiting an answer that can not come any more: it   *)
(* would keep the drafts behind it for ever.                               *)
NoJam == AtRest => dispatch = None \/ ~dispatch.awaiting

(* Whatever events were lost, a thread at rest shows no turn in progress   *)
(* once it was refreshed with a probe of its turns.                        *)
NoGhostTurn == AtRest /\ paginated /\ ~unrefreshed => active = 0
=============================================================================
