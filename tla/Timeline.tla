------------------------------ MODULE Timeline ------------------------------
(***************************************************************************)
(* The timeline of one thread on its way from the app-server to the        *)
(* screen.  Events change the store, which broadcasts what changed; the    *)
(* phone's view model keeps a copy of the store by applying the            *)
(* broadcasts in order.  Beside that path there are two short cuts: an     *)
(* authoritative refresh writes the server's answer into the store, and    *)
(* the view model reads the store when it has to reload.                   *)
(*                                                                         *)
(* Composed: the store (store/reducer.rs, store/reconcile.rs), a refresh   *)
(* of the thread (mobile_client/mod.rs, store_listener.rs), the            *)
(* subscription (ffi/app_store.rs), and the view model of the iOS app      *)
(* (AppModel*.swift); Android's differs by not batching.  The app-server   *)
(* is external.                                                            *)
(*                                                                         *)
(* A mutation of the store and the broadcast it leads to are two steps:    *)
(* the lock is released in between, and the listener and a refresh run on  *)
(* threads of their own.                                                   *)
(***************************************************************************)
EXTENDS Integers, Sequences, FiniteSets, SequencesExt

CONSTANTS
    Items,           \* messages of the agent and commands of one turn
    Commands,        \* the commands among them
    Header,          \* the thread itself: its active turn and plan
    Scripts,         \* what the server may do: sequences of events
    Absent,
    Capacity,        \* of the broadcast channel
    MaxAhead,        \* bound: events on their way to the listener
    MaxFaults        \* bound: refreshes, losses and reloads nobody needed

Cells == Items \cup {Header}
Kinds == {"started", "delta", "completed", "plan", "end"}

ASSUME NamesAssumption ==
    Commands \subseteq Items /\ Header \notin Items /\ Absent \notin Cells
\* A plan and the end are about the thread, the rest about an item, which has
\* no more events once it is completed.
ASSUME ScriptAssumption ==
    \A s \in Scripts :
        /\ s \in Seq([kind : Kinds, x : Cells])
        /\ \A k \in DOMAIN s :
              /\ s[k].x = Header <=> s[k].kind \in {"plan", "end"}
              /\ s[k].kind = "completed" => \A j \in k + 1..Len(s) : s[j].x # s[k].x
\* Only commands are started, and once.
ASSUME StartAssumption ==
    \A s \in Scripts : \A k \in DOMAIN s : s[k].kind = "started" =>
        s[k].x \in Commands /\ \A j \in k + 1..Len(s) : s[j] # s[k]
ASSUME BoundsAssumption ==
    {Capacity, MaxAhead} \subseteq Nat \ {0} /\ MaxFaults \in Nat

VARIABLES
    script,        \* what it does
    made,          \* events of it that somebody has heard of
    paged,         \* supports_turn_pagination
    \* the store
    seen,          \* events the listener has passed
    store,         \* ThreadSnapshot: a value per cell
    cache,         \* last_thread_item_upserts, last_thread_state_updates
    todo,          \* what the listener has still to broadcast
    due,           \* a refresh somebody has to make: "lag", "cut", or "no"
    refresh,       \* the running refresh
    \* the subscription
    bus, lagged,
    \* the view model
    ui,            \* its copy of the thread
    batch,         \* pendingCommandRowMutations, pendingThreadStateEvents
    pulls,         \* reads of the store by the update loop and by the task of
                   \* scheduleThreadSnapshotRefresh
    faults,
    \* history
    missed,        \* items of which an event was lost
    raced,         \* cells a refresh wrote an older value to
    silent,        \* items the store changed without a word
    odd            \* cells of the copy that something overtook

server == <<script, made, paged>>
listener == <<seen, todo>>
subscription == <<bus, lagged>>
phone == <<ui, batch, pulls, odd>>
vars == <<server, listener, store, cache, due, refresh, subscription, phone,
          faults, missed, raced, silent>>

\* from: an item of a turn the server listed has an index an event leaves out.
Value == [text : Seq(Nat), state : {"bare", "named", "done"},
          from : {"event", "turns"}]
State == [turn : BOOLEAN, plan : Nat]
Thread == [Cells -> Value \cup State \cup {Absent}]
ASSUME AbsentAssumption == Absent \notin Value \cup State \cup Thread
Nothing == [t |-> "none", x |-> Header]
Idle == [stage |-> "idle", pc |-> "idle", got |-> <<>>, copy |-> Absent,
         crossed |-> {}, resync |-> FALSE]

TypeOK ==
    /\ script \in Scripts /\ made \in 0..Len(script) /\ seen \in 0..made
    /\ {paged, lagged} \subseteq BOOLEAN
    /\ \A f \in {store, ui} : f \in Thread /\ f[Header] \in State
    /\ \A f \in {cache, batch} : f \in Thread
    /\ todo.t \in {"none", "head", "item", "byId", "delta"} /\ todo.x \in Cells
    /\ due \in {"no", "cut", "lag"}
    /\ refresh.stage \in {"idle", "resume", "probe", "page", "end"}
    /\ refresh.pc \in {"idle", "ask", "answered", "copied", "written"}
    /\ DOMAIN refresh.got \subseteq Cells
    /\ refresh.copy \in Thread \cup {Absent}
    /\ Len(bus) <= Capacity
    /\ \A k \in DOMAIN bus :
          bus[k].t \in {"delta", "cell", "upsert", "reload", "resync"}
    /\ \A p \in {"loop", "side"} :
          pulls[p].due \in BOOLEAN /\ pulls[p].copy \in Thread \cup {Absent}
    /\ faults \in 0..MaxFaults
    /\ missed \cup silent \subseteq Items /\ raced \cup odd \subseteq Cells

Nowhere == [x \in Cells |-> Absent]
NoPull == [due |-> FALSE, copy |-> Absent, crossed |-> {}]

\* The thread is open, its turn has begun, and everybody knows.
Init ==
    /\ script \in Scripts
    /\ made = 0 /\ seen = 0 /\ paged \in BOOLEAN
    /\ store = [Nowhere EXCEPT ![Header] = [turn |-> TRUE, plan |-> 0]]
    /\ ui = store
    /\ cache = Nowhere /\ batch = Nowhere
    /\ todo = Nothing
    /\ due = "no" /\ refresh = Idle
    /\ bus = <<>> /\ lagged = FALSE
    /\ pulls = [loop |-> NoPull, side |-> NoPull]
    /\ faults = 0
    /\ missed = {} /\ raced = {} /\ silent = {} /\ odd = {}

-----------------------------------------------------------------------------
(* The server.                                                             *)

\* The number of the delta that event k is; the parts of an item's text.
Part(k) == Cardinality({j \in 1..k : script[j] = script[k]})
Parts(x) ==
    Cardinality({j \in DOMAIN script : script[j] = [kind |-> "delta", x |-> x]})
By(n, kind, x) == \E k \in 1..n : script[k] = [kind |-> kind, x |-> x]
Made(kind, x) == By(made, kind, x)
Running == ~Made("end", Header)

\* An item as item/completed, or a turn of the server's history, shows it.
Final(x, from) == [text |-> [n \in 1..Parts(x) |-> n], from |-> from,
                   state |-> IF x \in Commands THEN "done" ELSE "bare"]

\* What the user sees of a cell is the same.
Same(x, v, w) ==
    \/ v = w
    \/ /\ x # Header /\ Absent \notin {v, w}
       /\ v.text = w.text /\ v.state = w.state

\* What matters of an answer: without pagination a resume has everything;
\* else it has nothing, the probe tells whether the turn is running, and the
\* page has the turns.  Turns have the items that are completed.
Answer(stage, n) ==
    [x \in IF ~paged THEN Cells
           ELSE CASE stage = "resume" -> {}
                  [] stage = "probe" -> {Header}
                  [] stage = "page" -> Items |->
        IF x = Header THEN [turn |-> ~By(n, "end", Header), plan |-> 0]
        ELSE IF By(n, "completed", x) THEN Final(x, "turns") ELSE Absent]

\* The server makes an event when it is first heard of: by the listener or in
\* an answer, which may be ahead of the listener.
Hears(last) == made' = IF made < last THEN last ELSE made
Lead == {n \in made..seen + MaxAhead : n <= Len(script)}

-----------------------------------------------------------------------------
(* The store listener.                                                     *)

\* A mutation crosses a refresh that has not yet written what it has read:
\* the answer of the server, or the thread where the answer has no items.
Crossed(S) ==
    [refresh EXCEPT !.crossed =
        @ \cup IF refresh.pc = "copied" THEN S ELSE S \cap DOMAIN refresh.got]

\* classify_item_mutation: there is something to broadcast.
Tells(x, old, new) ==
    \/ old = Absent
    \/ /\ x \in Commands
       /\ \/ old.state = "bare" \/ old.from # new.from
          \/ IsPrefix(old.text, new.text) /\ old # new
    \/ x \notin Commands /\ old.text # new.text

\* item/started of a command (a message starts empty and is not converted)
\* and item/completed.
ApplyItem ==
    LET event == script[seen + 1]
        x == event.x
        new == IF event.kind = "completed" THEN Final(x, "event")
               ELSE [text |-> <<>>, state |-> "named", from |-> "event"]
        tells == Tells(x, store[x], new)
    IN  /\ event.kind \in {"started", "completed"}
        /\ store' = [store EXCEPT ![x] = new]
        /\ todo' = IF tells THEN [t |-> "item", x |-> x, v |-> new] ELSE Nothing
        /\ silent' = silent \cup {y \in {x} : ~tells /\ ~Same(x, store[x], new)}
        /\ refresh' = Crossed({x})
        /\ missed' = IF event.kind = "completed" THEN missed \ {x} ELSE missed
        /\ raced' = IF event.kind = "completed" THEN raced \ {x} ELSE raced

ApplyDelta ==
    LET x == script[seen + 1].x
        n == Part(seen + 1)
    IN  /\ script[seen + 1].kind = "delta"
        /\ IF store[x] = Absent
           THEN /\ store' = [store EXCEPT ![x] =
                       [text |-> <<n>>, state |-> "bare", from |-> "event"]]
                /\ todo' = [t |-> "byId", x |-> x]
           ELSE /\ store' = [store EXCEPT ![x].text = Append(@, n)]
                /\ todo' = [t |-> "delta", x |-> x, n |-> n]
        /\ refresh' = Crossed({x})
        /\ UNCHANGED <<missed, raced, silent>>

\* turn/plan/updated and turn/completed.
ApplyHeader ==
    LET ends == script[seen + 1].kind = "end" IN
    /\ script[seen + 1].kind \in {"plan", "end"}
    /\ store' = [store EXCEPT ![Header] =
                    IF ends THEN [turn |-> FALSE, plan |-> 0]
                    ELSE [@ EXCEPT !.plan = seen + 1]]
    /\ todo' = [t |-> "head", x |-> Header]
    /\ refresh' = Crossed({Header})
    /\ raced' = IF ends THEN raced \ {Header} ELSE raced
    /\ UNCHANGED <<missed, silent>>

\* apply_ui_event, up to the release of the lock.
Apply ==
    /\ todo = Nothing /\ seen < Len(script)
    /\ seen' = seen + 1 /\ Hears(seen + 1)
    /\ ApplyItem \/ ApplyDelta \/ ApplyHeader
    /\ UNCHANGED <<script, paged, cache, due, subscription, phone, faults>>

\* Mutant of Push: a channel that is never full.
PushUnbounded(m) == bus' = Append(bus, m) /\ UNCHANGED lagged

\* A full channel forgets its oldest message, and its receiver will notice.
Push(m) ==
    /\ bus' = Append(IF Len(bus) < Capacity THEN bus ELSE Tail(bus), m)
    /\ lagged' = (lagged \/ Len(bus) = Capacity)

\* emit_thread_item_changed, emit_thread_metadata_changed: nothing that the
\* cache says was the last broadcast.
EmitValue(x, v) ==
    IF cache[x] = v THEN UNCHANGED <<cache, bus, lagged, silent>>
    ELSE /\ cache' = [cache EXCEPT ![x] = v]
         /\ Push([t |-> "cell", x |-> x, v |-> v, fresh |-> Same(x, store[x], v)])
         /\ silent' = silent \ {x}

Emit ==
    /\ todo # Nothing
    /\ todo' = Nothing
    /\ \/ todo.t = "item" /\ EmitValue(todo.x, todo.v)
       \/ /\ todo.t \in {"byId", "head"}
          /\ IF store[todo.x] = Absent THEN UNCHANGED <<cache, bus, lagged, silent>>
             ELSE EmitValue(todo.x, store[todo.x])
       \/ /\ todo.t = "delta"
          /\ Push([t |-> "delta", x |-> todo.x, n |-> todo.n])
          /\ UNCHANGED <<cache, silent>>
    /\ UNCHANGED <<server, seen, store, due, refresh, phone, faults, missed, raced>>

\* Events are lost, because the listener lagged behind their channel or
\* because the connection was down; a refresh follows.
Lose(why) ==
    /\ faults < MaxFaults /\ faults' = faults + 1
    /\ todo = Nothing
    /\ \E last \in seen + 1..Len(script) :
          LET lost == {script[k].x : k \in seen + 1..last} IN
          /\ seen' = last /\ Hears(last)
          /\ missed' = missed \cup (lost \ {Header})
          /\ refresh' = Crossed(lost)
    /\ due' = IF due = "lag" THEN due ELSE why
    /\ UNCHANGED <<script, paged, todo, store, cache, subscription, phone, raced,
                   silent>>

-----------------------------------------------------------------------------
(* force_refresh_thread_authoritative: thread/resume, and on a server with *)
(* pagination a probe of its turns and, when the turn is over, a page.     *)

RefreshStarts ==
    /\ refresh = Idle
    /\ \/ due # "no" /\ UNCHANGED faults
       \/ due = "no" /\ faults < MaxFaults /\ faults' = faults + 1
    /\ \E n \in IF paged THEN {made} ELSE Lead :
          /\ Hears(n)
          /\ refresh' = [Idle EXCEPT !.stage = "resume", !.pc = "answered",
                 !.got = Answer("resume", n), !.resync = (due = "lag")]
    /\ due' = "no"
    /\ UNCHANGED <<script, paged, listener, store, cache, subscription, phone, missed,
                   raced, silent>>

ServerAnswers ==
    /\ refresh.pc = "ask"
    /\ \E n \in Lead :
          /\ Hears(n)
          /\ refresh' = [refresh EXCEPT !.pc = "answered",
                                       !.got = Answer(refresh.stage, n)]
    /\ UNCHANGED <<script, paged, listener, store, cache, due, subscription, phone,
                   faults, missed, raced, silent>>

\* The items of a page that the store does not have are added, unless the
\* store has other items of their turn.
MergePage(page) ==
    [x \in Cells |->
        IF x = Header THEN store[x]
        ELSE IF store[x] # Absent THEN (IF page[x] # Absent THEN page[x] ELSE store[x])
        ELSE IF \A i \in Items : store[i] = Absent THEN page[x] ELSE Absent]

\* Mutant of Target: the answer to the probe does not end the turn.
TargetOfDeafProbe ==
    CASE refresh.stage = "resume" /\ ~paged -> refresh.got
      [] refresh.stage = "page" -> MergePage(refresh.got)
      [] OTHER -> [store EXCEPT ![Header].plan = 0]

\* What is to be written is made of the answer and of the thread as it is
\* now: a resume without turns keeps the thread, the probe clears its turn.
Target ==
    LET answer == refresh.got
        known == store[Header].turn
        over == [store EXCEPT ![Header].turn = known /\ answer[Header].turn]
    IN  CASE refresh.stage = "resume" /\ paged ->
                 [store EXCEPT ![Header].plan = 0]
          [] refresh.stage = "resume" /\ ~paged -> answer
          [] refresh.stage = "probe" -> over
          [] refresh.stage = "page" -> MergePage(answer)

RefreshReads ==
    /\ refresh.pc = "answered"
    /\ refresh' = IF refresh.stage = "probe" /\ Target = store
                  THEN [refresh EXCEPT !.stage = "end", !.pc = "idle"]
                  ELSE [refresh EXCEPT !.pc = "copied", !.copy = Target, !.got = <<>>]
    /\ UNCHANGED <<server, listener, store, cache, due, subscription, phone,
                   faults, missed, raced, silent>>

Empty(thread) == \A x \in Items : thread[x] = Absent
\* Keep the items of the second thread when the first has none.
OrItems(thread, other) ==
    [x \in Cells |-> IF x # Header /\ Empty(thread) THEN other[x] ELSE thread[x]]

\* upsert_thread_snapshot up to the release of the lock.
RefreshWrites ==
    LET copy == refresh.copy
        plan == IF copy[Header].plan = 0 THEN store[Header].plan ELSE copy[Header].plan
        new == [OrItems(copy, store) EXCEPT ![Header].plan = plan]
        Right(x) == IF x = Header THEN new[x].turn = Running
                    ELSE Same(x, new[x], Final(x, "turns"))
    IN  /\ refresh.pc = "copied"
        /\ store' = new
        /\ refresh' = [refresh EXCEPT !.pc = "written", !.copy = Absent]
        /\ raced' = {x \in raced \cup refresh.crossed : ~Right(x)}
        /\ missed' = {x \in missed : ~Right(x)}
        /\ UNCHANGED <<server, listener, cache, due, subscription, phone, faults,
                       silent>>

\* emit_thread_upsert.  A delta that is in the thread and has still to be
\* broadcast will follow it.
RefreshEmits ==
    /\ refresh.pc = "written"
    /\ cache' = Nowhere
    /\ Push([t |-> "upsert", v |-> store,
             mixed |-> IF todo.t = "delta" THEN {todo.x} ELSE {}])
    /\ silent' = {}
    /\ refresh' = [refresh EXCEPT !.crossed = {},
          !.pc = IF paged /\ refresh.stage # "page" THEN "ask" ELSE "idle",
          !.stage = CASE refresh.stage = "resume" /\ paged -> "probe"
                      [] refresh.stage = "probe" -> "page"
                      [] OTHER -> "end"]
    /\ UNCHANGED <<server, listener, store, due, phone, faults, missed, raced>>

RefreshEnds ==
    /\ refresh.stage = "end"
    /\ refresh' = Idle
    /\ IF refresh.resync THEN Push([t |-> "resync"]) ELSE UNCHANGED subscription
    /\ UNCHANGED <<server, listener, store, cache, due, phone, faults, missed,
                   raced, silent>>

-----------------------------------------------------------------------------
(* The view model: one update at a time, and reads of the store beside it. *)

\* handleStoreUpdate waits for refreshSnapshot; the other reads do not stop it.
Waiting == pulls.loop.due \/ pulls.loop.copy # Absent

\* A change of cells of the copy crosses the reads that have their value.
Touched(S, ps) ==
    [p \in DOMAIN ps |->
        IF ps[p].copy = Absent THEN ps[p] ELSE [ps[p] EXCEPT !.crossed = @ \cup S]]
Wants(p) == [pulls EXCEPT ![p].due = TRUE]

Older(S) == {x \in S : batch[x] # Absent}

\* merge_app_update: updates of one kind and one cell become one.
Merge(a, b) ==
    \/ a.t = "delta" /\ b.t = "delta" /\ a.x = b.x
    \/ a.t = "upsert" /\ b.t = "upsert"
    \/ /\ a.t = "cell" /\ b.t = "cell" /\ a.x = b.x
       /\ a.x = Header \/ (a.v.state = "done") = (b.v.state = "done")
Run == CHOOSE k \in DOMAIN bus :
           /\ \A j \in 2..k : Merge(bus[1], bus[j])
           /\ k < Len(bus) => ~Merge(bus[1], bus[k + 1])
\* ... and a resync takes the update before it and all that follow with it;
\* two reloads are one.
Swallows ==
    \/ bus[1].t = "resync"
    \/ /\ Run < Len(bus)
       /\ \/ bus[Run + 1].t = "resync"
          \/ bus[1].t = "reload" /\ bus[2].t = "reload"

\* Mutant of ReceiveLagged: a lag is only logged.
ReceiveLaggedOnlyLogs ==
    /\ ~Waiting /\ lagged
    /\ lagged' = FALSE
    /\ UNCHANGED <<server, listener, store, cache, due, refresh, bus, phone,
                   faults, missed, raced, silent>>

\* next_update after a lag; what the channel still holds comes after it.
ReceiveLagged ==
    /\ ~Waiting /\ lagged
    /\ lagged' = FALSE
    /\ pulls' = Wants("loop")
    /\ UNCHANGED <<server, listener, store, cache, due, refresh, bus, ui, batch,
                   odd, faults, missed, raced, silent>>

\* A delta of an item the copy does not have makes it read the thread.
HandleDelta(m, n) ==
    LET text == [k \in 1..n |-> bus[k].n] IN
    /\ m.t = "delta"
    /\ IF ui[m.x] = Absent
       THEN /\ pulls' = Wants("side")
            /\ odd' = odd \cup {m.x} /\ UNCHANGED ui
       ELSE /\ ui' = [ui EXCEPT ![m.x].text = @ \o text]
            /\ pulls' = Touched({m.x}, pulls)
            /\ odd' = odd \cup Older({m.x})
    /\ UNCHANGED batch

\* While the turn is active, commands and the header wait for a flush.
HandleCell(m) ==
    LET late == ui[Header].turn /\ m.x \in Commands \cup {Header}
        wrong == ~m.fresh \/ (~late /\ batch[m.x] # Absent)
    IN  /\ m.t = "cell"
        /\ IF late THEN batch' = [batch EXCEPT ![m.x] = m.v] /\ UNCHANGED ui
           ELSE ui' = [ui EXCEPT ![m.x] = m.v] /\ UNCHANGED batch
        /\ pulls' = Touched({m.x}, pulls)
        /\ odd' = IF wrong THEN odd \cup {m.x} ELSE odd \ {m.x}

\* applyThreadUpsert; a message that is longer on the screen stays while the
\* turn is active (preserveStreamingText).
HandleUpsert(m) ==
    LET Longer(x) == /\ ui[Header].turn /\ x \in Items \ Commands
                     /\ ui[x] # Absent /\ m.v[x] # Absent
                     /\ ui[x].text # m.v[x].text /\ IsPrefix(m.v[x].text, ui[x].text)
        new == [x \in Cells |-> IF Longer(x) THEN ui[x] ELSE OrItems(m.v, ui)[x]]
    IN  /\ m.t = "upsert"
        /\ ui' = new
        /\ pulls' = Touched(Cells, pulls)
        /\ odd' = {x \in Cells : ~Same(x, new[x], m.v[x])} \cup m.mixed \cup Older(Cells)
        /\ UNCHANGED batch

Receive ==
    /\ ~Waiting /\ ~lagged /\ bus # <<>>
    /\ IF Swallows \/ bus[1].t = "reload"
       THEN /\ bus' = IF Swallows THEN <<>> ELSE Tail(bus)
            /\ pulls' = Wants("loop")
            /\ UNCHANGED <<ui, batch, odd>>
       ELSE /\ bus' = SubSeq(bus, Run + 1, Len(bus))
            /\ \/ HandleDelta(bus[Run], Run)
               \/ HandleCell(bus[Run])
               \/ HandleUpsert(bus[Run])
    /\ UNCHANGED <<server, listener, store, cache, due, refresh, lagged, faults,
                   missed, raced, silent>>

\* Other updates make the loop read the whole snapshot: approvals, terminals.
Reload ==
    /\ faults < MaxFaults /\ faults' = faults + 1
    /\ Push([t |-> "reload"])
    /\ UNCHANGED <<server, listener, store, cache, due, refresh, phone, missed,
                   raced, silent>>

\* Deltas that have still to come are in the value that is read.
PullReads(p) ==
    /\ pulls[p].due /\ pulls[p].copy = Absent
    /\ pulls' = [pulls EXCEPT ![p] = [due |-> FALSE, copy |-> store, crossed |->
           {x \in Items : \/ todo.t = "delta" /\ todo.x = x
                          \/ \E k \in DOMAIN bus : bus[k].t = "delta" /\ bus[k].x = x}]]
    /\ UNCHANGED <<server, listener, store, cache, due, refresh, subscription, ui,
                   batch, odd, faults, missed, raced, silent>>

\* applySnapshot, applyThreadSnapshot; updates that wait for a flush stay.
PullApplies(p) ==
    /\ pulls[p].copy # Absent
    /\ ui' = OrItems(pulls[p].copy, ui)
    /\ odd' = {x \in Cells : ui'[x] # pulls[p].copy[x]} \cup pulls[p].crossed
                  \cup Older(Cells)
    /\ pulls' = Touched(Cells, [pulls EXCEPT ![p].copy = Absent, ![p].crossed = {}])
    /\ UNCHANGED <<server, listener, store, cache, due, refresh, subscription,
                   batch, faults, missed, raced, silent>>

\* Either timer applies both kinds.
Flush ==
    /\ batch # Nowhere
    /\ ui' = [x \in Cells |-> IF batch[x] # Absent THEN batch[x] ELSE ui[x]]
    /\ batch' = Nowhere
    /\ pulls' = Touched({x \in Cells : batch[x] # Absent}, pulls)
    /\ UNCHANGED <<server, listener, store, cache, due, refresh, subscription, odd,
                   faults, missed, raced, silent>>

Next ==
    \/ Apply \/ Emit
    \/ Lose("lag") \/ Lose("cut")
    \/ RefreshStarts \/ ServerAnswers \/ RefreshReads \/ RefreshWrites
    \/ RefreshEmits \/ RefreshEnds
    \/ ReceiveLagged \/ Receive \/ Reload \/ Flush
    \/ \E p \in {"loop", "side"} : PullReads(p) \/ PullApplies(p)

Spec == Init /\ [][Next]_vars

-----------------------------------------------------------------------------
(* Properties.                                                             *)

StoreRests == /\ seen = made /\ todo = Nothing /\ due = "no" /\ refresh = Idle
AtRest == /\ StoreRests /\ bus = <<>> /\ ~lagged /\ batch = Nowhere
          /\ \A p \in DOMAIN pulls : ~pulls[p].due /\ pulls[p].copy = Absent

\* Whatever was lost, once the refresh is over the store has every item that
\* the server completed and knows whether the turn is running, but for values
\* the refresh itself put back.  On a server with pagination the items of
\* which events were lost are not covered (see RecoveryIsAuthoritative).
RecoveryRepairs ==
    StoreRests =>
        /\ Header \notin raced => store[Header].turn = Running
        /\ \A x \in Items \ (raced \cup IF paged THEN missed ELSE {}) :
              Made("completed", x) => Same(x, store[x], Final(x, "event"))

\* When nothing is under way the screen shows what the store holds, unless
\* a read or an older update overtook the update of a cell, or the store
\* changed an item without broadcasting it.
CopyAgrees ==
    AtRest => \A x \in Cells \ (odd \cup silent) : Same(x, ui[x], store[x])

\* The recovery after a lag "brings the store back to an authoritative state"
\* (store_listener.rs): no completed item is missing.
RecoveryIsAuthoritative ==
    StoreRests => \A x \in Items \ raced :
        Made("completed", x) => Same(x, store[x], Final(x, "event"))
=============================================================================
