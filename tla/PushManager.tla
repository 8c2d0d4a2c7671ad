----------------------------- MODULE PushManager -----------------------------
(***************************************************************************)
(* PushManager (codex-mobile-client/src/push/manager.rs, mod.rs): the part *)
(* of the phone that asks hosts to report the end of a turn by push.       *)
(*                                                                         *)
(* State changes are synchronous, under one lock, and return jobs.  Each   *)
(* call's jobs are spawned as a task of their own, which runs the jobs of  *)
(* one server in order behind that server's lock; a runner below is such a *)
(* task, for one server.  Two tasks may reach a lock in either order.      *)
(*                                                                         *)
(* The jobs of a batch carry ascending attempt numbers, and an             *)
(* unsubscribe of a turn that of the subscribe it precedes, so a batch is  *)
(* a set and NextJob reads its order.                                      *)
(*                                                                         *)
(* The hosts, which keep one subscription per turn, and the Worker, which  *)
(* refuses grants issued at or before a revocation, are external.          *)
(***************************************************************************)
EXTENDS Integers, FiniteSets

CONSTANTS
    Servers,              \* server ids of alleycat hosts
    TurnIds,              \* (thread, turn) ids
    Malformed,            \* the turns whose ids break the push id rules
    Tokens,               \* push registrations, told apart by their identity
    None,
    GRANT_LIFETIME, COMPLETED_RETENTION, MAX_TRACKED_SUBSCRIPTIONS,
    Slots,                \* bound: 1 .. the tasks a server has at a time
    MaxAttempts,          \* bound on next_attempt
    MaxTime               \* bound on the clock

TurnKeys == Servers \X TurnIds

ASSUME LimitsAssumption ==
    /\ GRANT_LIFETIME \in Nat \ {0}
    /\ COMPLETED_RETENTION \in Nat \ {0}
    /\ MAX_TRACKED_SUBSCRIPTIONS \in Nat
ASSUME BoundsAssumption ==
    /\ Slots \subseteq Nat
    /\ MaxAttempts \in Nat
    /\ MaxTime \in Nat
ASSUME FiniteAssumption == IsFiniteSet(Servers) /\ IsFiniteSet(TurnIds)
ASSUME NamesAssumption == None \notin Tokens /\ None \notin TurnKeys

VARIABLES
    \* PushState
    registration,  \* the push token registered, or None
    urlKnown,      \* registration or last_worker_base_url has a Worker URL
    hosts,         \* per server: "absent", "legacy" or "push" (push.v1)
    turns,         \* per turn: its entry, or None
    nextAttempt,   \* the number of attempts planned so far
    revokedAt,     \* per server: second of the last direct revoke, 0: none
    \* callers and tasks
    snapshot,      \* active_turns as a caller of PushManager has read them
    runner,        \* per server and slot: a task
    now,
    \* outside the manager
    phase,         \* per turn: "new", "active", "ended" (at the host), "done"
    held,          \* per turn: the host's subscription, or None
    revokeSent,    \* per server: second of the last revoke sent to the Worker
    \* history
    undone,        \* turns a host was asked to drop, in vain
    overtaken      \* servers whose lock a later task took before an earlier

state == <<registration, urlKnown, hosts, turns, nextAttempt, revokedAt>>
outside == <<phase, held, revokeSent, undone>>
vars == <<state, snapshot, runner, now, outside, overtaken>>

Status == {"Pending", "Subscribed", "Failed", "Unsupported"}
Entry == [status : Status, attempt : Nat, planned : Nat, completed : Nat]
Grant == [token : Tokens, issued : Nat, planned : Nat]
Job == [kind : {"subscribe", "unsubscribe", "all", "revoke"},
        turn : TurnKeys \cup {None}, attempt : Nat, url : BOOLEAN]
Runner == [pc : {"idle", "wait", "next", "sign", "call", "answer", "revoke"},
           jobs : SUBSET Job, grant : Grant \cup {None},
           outcome : Status \cup {None}, earlier : SUBSET Slots]
\* None stands for a turn without an entry, or without a subscription.
ASSUME NoEntryAssumption == None \notin Entry /\ None \notin Grant

Idle == [pc |-> "idle", jobs |-> {}, grant |-> None, outcome |-> None,
         earlier |-> {}]

TypeOK ==
    /\ registration \in Tokens \cup {None}
    /\ urlKnown \in BOOLEAN
    /\ hosts \in [Servers -> {"absent", "legacy", "push"}]
    /\ turns \in [TurnKeys -> Entry \cup {None}]
    /\ nextAttempt \in Nat
    /\ revokedAt \in [Servers -> Nat]
    /\ snapshot \in (SUBSET TurnKeys) \cup {None}
    /\ runner \in [Servers -> [Slots -> Runner]]
    /\ now \in Nat
    /\ phase \in [TurnKeys -> {"new", "active", "ended", "done"}]
    /\ held \in [TurnKeys -> Grant \cup {None}]
    /\ revokeSent \in [Servers -> Nat]
    /\ undone \subseteq TurnKeys
    /\ overtaken \subseteq Servers

\* The clock starts at 1: 0 stands for "never".
Init ==
    /\ registration = None
    /\ urlKnown = FALSE
    /\ hosts = [s \in Servers |-> "absent"]
    /\ turns = [t \in TurnKeys |-> None]
    /\ nextAttempt = 0
    /\ revokedAt = [s \in Servers |-> 0]
    /\ snapshot = None
    /\ runner = [s \in Servers |-> [k \in Slots |-> Idle]]
    /\ now = 1
    /\ phase = [t \in TurnKeys |-> "new"]
    /\ held = [t \in TurnKeys |-> None]
    /\ revokeSent = [s \in Servers |-> 0]
    /\ undone = {}
    /\ overtaken = {}

-----------------------------------------------------------------------------
(* Planning.                                                               *)

IsLivePending(e) == e # None /\ e.completed = 0 /\ e.status \in {"Pending", "Subscribed"}
IsLive(e) == e # None /\ e.completed = 0 /\ e.status # "Unsupported"
Live(ts, s) == Cardinality({t \in TurnKeys : t[1] = s /\ IsLive(ts[t])})

Stale(e) == \/ now - e.planned >= GRANT_LIFETIME
            \/ e.completed # 0 /\ now - e.completed >= COMPLETED_RETENTION
Pruned == [t \in TurnKeys |->
              IF turns[t] # None /\ Stale(turns[t]) THEN None ELSE turns[t]]
PrunedRevokesEarly == [s \in Servers |->
                          IF revokedAt[s] > now THEN revokedAt[s] ELSE 0]
PrunedRevokes == [s \in Servers |->
                     IF revokedAt[s] >= now THEN revokedAt[s] ELSE 0]

Eligible(reg, t) == hosts[t[1]] = "push" /\ reg # None
\* The turns of S that plan_subscribe gives an entry.
Plannable(ts, reg, S) == {t \in S : ts[t] = None /\ Eligible(reg, t)}

\* The orders in which the turns of S can come.
Orders(S) == {f \in [S -> 1..Cardinality(S)] :
                 \A t, u \in S : f[t] = f[u] => t = u}

\* The cap counts the turns of the server planned before t in the same call.
Refused(ts, fresh, order, t) ==
    \/ t \in Malformed
    \/ LET before == {u \in fresh \ Malformed :
                         u[1] = t[1] /\ order[u] < order[t]}
       IN Live(ts, t[1]) + Cardinality(before) >= MAX_TRACKED_SUBSCRIPTIONS

\* A renewed entry that keeps its attempt number.
PlannedSameAttempt(ts, again, fresh, order) ==
    [t \in TurnKeys |->
        CASE t \in again -> [ts[t] EXCEPT !.status = "Pending", !.planned = now]
          [] t \in fresh ->
               [status |-> IF Refused(ts, fresh, order, t)
                           THEN "Unsupported" ELSE "Pending",
                attempt |-> nextAttempt + order[t],
                planned |-> now, completed |-> 0]
          [] OTHER -> ts[t]]
\* The entries after `again` get a new attempt and `fresh` their first one.
Planned(ts, again, fresh, order) ==
    [t \in TurnKeys |->
        IF t \in again
        THEN [ts[t] EXCEPT !.status = "Pending", !.planned = now,
                           !.attempt = nextAttempt + order[t]]
        ELSE IF t \in fresh
        THEN [status |-> IF Refused(ts, fresh, order, t)
                         THEN "Unsupported" ELSE "Pending",
              attempt |-> nextAttempt + order[t],
              planned |-> now, completed |-> 0]
        ELSE ts[t]]

TurnJob(kind, t, n) == [kind |-> kind, turn |-> t, attempt |-> n, url |-> FALSE]
ServerJob(kind, url) == [kind |-> kind, turn |-> None, attempt |-> 0, url |-> url]
SubscribeJobs(ts, S) ==
    {TurnJob("subscribe", t, ts[t].attempt) : t \in {u \in S : ts[u].status = "Pending"}}

(* spawn_jobs: one task per server that has jobs, in its lowest free slot. *)
FirstFree(s, k) == /\ runner[s][k].pc = "idle"
                   /\ \A j \in Slots : j < k => runner[s][j].pc # "idle"
Waiting(s) == {k \in Slots : runner[s][k].pc = "wait"}
Task(s, jobs) == [Idle EXCEPT !.pc = "wait", !.jobs = jobs,
                              !.earlier = Waiting(s)]
Spawn(jobs) ==
    /\ \A s \in Servers : jobs[s] # {} => \E k \in Slots : runner[s][k].pc = "idle"
    /\ runner' = [s \in Servers |-> [k \in Slots |->
                     IF jobs[s] # {} /\ FirstFree(s, k)
                     THEN Task(s, jobs[s]) ELSE runner[s][k]]]
ByServer(jobs) == [s \in Servers |-> {j \in jobs : j.turn[1] = s}]

\* plan_subscribe or a retry for every turn of again and fresh; `drop` are
\* the turns whose host is told to drop the old subscription first.
Plan(ts, again, fresh, drop, order) ==
    LET all  == again \cup fresh
        next == Planned(ts, again, fresh, order)
    IN /\ nextAttempt + Cardinality(all) <= MaxAttempts
       /\ nextAttempt' = nextAttempt + Cardinality(all)
       /\ turns' = next
       /\ Spawn(ByServer(SubscribeJobs(next, all) \cup
                         {TurnJob("unsubscribe", t, next[t].attempt) : t \in drop}))

-----------------------------------------------------------------------------
(* State transitions.                                                      *)

HoldsNothing(s) == \A t \in TurnKeys : t[1] = s => held[t] = None

\* record_host.  A daemon is replaced by one without push.v1 only while it
\* holds nothing of this phone.
RecordHost(s, support) ==
    /\ support = "legacy" => /\ \A k \in Slots : runner[s][k].pc = "idle"
                             /\ HoldsNothing(s)
    /\ hosts' = [hosts EXCEPT ![s] = support]
    /\ UNCHANGED <<registration, urlKnown, turns, nextAttempt, revokedAt,
                   snapshot, runner, now, outside, overtaken>>

\* TurnStarted, after the store applied it; the event may come twice.
TurnStarted(t) ==
    /\ phase[t] \in {"new", "active"}
    /\ phase' = [phase EXCEPT ![t] = "active"]
    /\ revokedAt' = PrunedRevokes
    /\ LET fresh == Plannable(Pruned, registration, {t})
       IN \E order \in Orders(fresh) : Plan(Pruned, {}, fresh, {}, order)
    /\ UNCHANGED <<registration, urlKnown, hosts, snapshot, now, held,
                   revokeSent, undone, overtaken>>

\* A TurnStarted of a thread the store does not know: nothing is planned.
TurnMissed(t) ==
    /\ phase[t] = "new"
    /\ phase' = [phase EXCEPT ![t] = "active"]
    /\ UNCHANGED <<state, snapshot, runner, now, held, revokeSent, undone, overtaken>>

TurnCompleted(t) ==
    /\ phase[t] = "ended"
    /\ phase' = [phase EXCEPT ![t] = "done"]
    /\ turns' = [u \in TurnKeys |->
                    IF u = t /\ turns[t] # None /\ ~Stale(turns[t])
                    THEN [turns[t] EXCEPT !.completed = IF @ = 0 THEN now ELSE @]
                    ELSE Pruned[u]]
    /\ revokedAt' = PrunedRevokes
    /\ UNCHANGED <<registration, urlKnown, hosts, nextAttempt, snapshot, runner,
                   now, held, revokeSent, undone, overtaken>>

\* The callers read the store's active turns before they take the lock.
ReadActive ==
    /\ snapshot = None
    /\ snapshot' = {t \in TurnKeys : phase[t] \in {"active", "ended"}}
    /\ UNCHANGED <<state, runner, now, outside, overtaken>>

AppEnteredBackground ==
    /\ snapshot # None
    /\ LET again == {t \in snapshot : /\ Pruned[t] # None
                                      /\ Pruned[t].status = "Failed"
                                      /\ Pruned[t].completed = 0
                                      /\ Eligible(registration, t)}
           fresh == Plannable(Pruned, registration, snapshot)
       IN \E order \in Orders(again \cup fresh) :
             Plan(Pruned, again, fresh, {}, order)
    /\ revokedAt' = PrunedRevokes
    /\ snapshot' = None
    /\ UNCHANGED <<registration, urlKnown, hosts, now, outside, overtaken>>

\* Clearing that keeps the entries.
ClearKeepsTurns ==
    /\ snapshot # None
    /\ registration # None
    /\ registration' = None
    /\ turns' = Pruned
    /\ Spawn([s \in Servers |-> IF hosts[s] = "push"
                                THEN {ServerJob("all", TRUE)} ELSE {}])
    /\ revokedAt' = PrunedRevokes
    /\ snapshot' = None
    /\ UNCHANGED <<urlKnown, hosts, nextAttempt, now, outside, overtaken>>
\* set_registration(None) with a registration.
ClearRegistration ==
    /\ snapshot # None
    /\ registration # None
    /\ registration' = None
    /\ turns' = [t \in TurnKeys |-> None]
    /\ Spawn([s \in Servers |-> IF hosts[s] = "push"
                                THEN {ServerJob("all", TRUE)} ELSE {}])
    /\ revokedAt' = PrunedRevokes
    /\ snapshot' = None
    /\ UNCHANGED <<urlKnown, hosts, nextAttempt, now, outside, overtaken>>

\* set_registration(r): a token that differs from the one registered renews
\* the live entries, and drops those whose host has no push.v1 any more.
SetRegistration(r) ==
    /\ snapshot # None
    /\ LET live  == IF registration \in {None, r} THEN {}
                    ELSE {t \in TurnKeys : IsLive(Pruned[t])}
           again == {t \in live : hosts[t[1]] = "push"}
           kept  == [t \in TurnKeys |->
                        IF t \in live \ again THEN None ELSE Pruned[t]]
           fresh == Plannable(kept, r, snapshot)
       IN \E order \in Orders(again \cup fresh) :
             /\ \A t \in again, u \in fresh : order[t] < order[u]
             /\ Plan(kept, again, fresh, again, order)
    /\ registration' = r
    /\ urlKnown' = TRUE
    /\ revokedAt' = PrunedRevokes
    /\ snapshot' = None
    /\ UNCHANGED <<hosts, now, outside, overtaken>>

\* set_registration(None) without a registration, and turn_push_state.
PruneOnly ==
    /\ turns' = Pruned
    /\ revokedAt' = PrunedRevokes
    /\ snapshot' = None
    /\ UNCHANGED <<registration, urlKnown, hosts, nextAttempt, runner, now,
                   outside, overtaken>>

RemovalJobs(s) ==
    CASE hosts[s] = "push"               -> {ServerJob("all", urlKnown)}
      [] hosts[s] = "absent" /\ urlKnown -> {ServerJob("revoke", TRUE)}
      [] OTHER                           -> {}
ServerRemoved(s) ==
    /\ turns' = [t \in TurnKeys |-> IF t[1] = s THEN None ELSE turns[t]]
    /\ hosts' = [hosts EXCEPT ![s] = "absent"]
    /\ Spawn([q \in Servers |-> IF q = s THEN RemovalJobs(s) ELSE {}])
    /\ UNCHANGED <<registration, urlKnown, nextAttempt, revokedAt, snapshot, now,
                   outside, overtaken>>

-----------------------------------------------------------------------------
(* Job execution.                                                          *)

HasLock(s, k) == runner[s][k].pc \notin {"idle", "wait"}

\* run_jobs: lock.lock().await
Acquire(s, k) ==
    /\ runner[s][k].pc = "wait"
    /\ \A j \in Slots : ~HasLock(s, j)
    /\ runner' = [runner EXCEPT ![s] = [j \in Slots |->
                     IF j = k
                     THEN [runner[s][k] EXCEPT !.pc = "next", !.earlier = {}]
                     ELSE [runner[s][j] EXCEPT !.earlier = @ \ {k}]]]
    /\ overtaken' = IF runner[s][k].earlier = {} THEN overtaken
                    ELSE overtaken \cup {s}
    /\ UNCHANGED <<state, snapshot, now, outside>>

SubscribeFirst(s, k, j) ==
    /\ j \in runner[s][k].jobs
    /\ \A i \in runner[s][k].jobs :
          \/ i = j
          \/ i.attempt > j.attempt
          \/ i.attempt = j.attempt /\ j.kind = "subscribe"
NextJob(s, k, j) ==
    /\ j \in runner[s][k].jobs
    /\ \A i \in runner[s][k].jobs :
          \/ i = j
          \/ i.attempt > j.attempt
          \/ i.attempt = j.attempt /\ j.kind = "unsubscribe"
At(s, k, pc, kind, j) ==
    /\ runner[s][k].pc = pc
    /\ NextJob(s, k, j)
    /\ j.kind = kind

GoTo(s, k, r) == runner' = [runner EXCEPT ![s][k] = r]
\* The next job of the batch, or the end of the task and of its lock.
Finish(s, k, j) ==
    GoTo(s, k, IF runner[s][k].jobs = {j} THEN Idle
               ELSE [Idle EXCEPT !.pc = "next", !.jobs = runner[s][k].jobs \ {j}])

Wanted(j) ==
    /\ turns[j.turn] # None
    /\ turns[j.turn].attempt = j.attempt
    /\ turns[j.turn].status = "Pending"
    /\ turns[j.turn].completed = 0
    /\ registration # None

\* run_subscribe, first lock of the state.
SubscribeStart(s, k) ==
    \E j \in runner[s][k].jobs :
        /\ At(s, k, "next", "subscribe", j)
        /\ Wanted(j)
        /\ GoTo(s, k, [runner[s][k] EXCEPT
                          !.pc = "sign",
                          !.grant = [token |-> registration, issued |-> 0,
                                     planned |-> turns[j.turn].planned]])
        /\ UNCHANGED <<state, snapshot, now, outside, overtaken>>
SubscribeSkip(s, k) ==
    \E j \in runner[s][k].jobs :
        /\ At(s, k, "next", "subscribe", j)
        /\ ~Wanted(j)
        /\ Finish(s, k, j)
        /\ UNCHANGED <<state, snapshot, now, outside, overtaken>>

\* No device key, an unusable Worker URL, or a target that cannot be sealed.
UnsignedForgotten(s, k) ==
    /\ runner[s][k].pc = "sign"
    /\ GoTo(s, k, [runner[s][k] EXCEPT !.pc = "answer"])
    /\ UNCHANGED <<state, snapshot, now, outside, overtaken>>
SubscribeUnsigned(s, k) ==
    /\ runner[s][k].pc = "sign"
    /\ GoTo(s, k, [runner[s][k] EXCEPT !.pc = "answer", !.outcome = "Failed"])
    /\ UNCHANGED <<state, snapshot, now, outside, overtaken>>
GrantIssuedAt(s) == IF revokedAt[s] >= now THEN revokedAt[s] + 1 ELSE now
SubscribeSign(s, k) ==
    /\ runner[s][k].pc = "sign"
    /\ GoTo(s, k, [runner[s][k] EXCEPT !.pc = "call",
                                       !.grant.issued = GrantIssuedAt(s)])
    /\ UNCHANGED <<state, snapshot, now, outside, overtaken>>

\* What a host does with push_subscribe and what the phone hears: an answer
\* can be lost after the host applied the call.  A turn that has ended is
\* answered with its terminal state, and nothing is kept.  A daemon that does
\* not know the call holds nothing.
HostSubscribe(s, k) ==
    \E j \in runner[s][k].jobs, applied \in BOOLEAN,
       outcome \in {"Subscribed", "Failed", "Unsupported"} :
        /\ At(s, k, "call", "subscribe", j)
        /\ outcome = "Subscribed" => applied
        /\ outcome = "Unsupported" => ~applied /\ HoldsNothing(s)
        /\ held' = IF applied /\ phase[j.turn] = "active"
                   THEN [held EXCEPT ![j.turn] = runner[s][k].grant] ELSE held
        /\ undone' = IF applied THEN undone \ {j.turn} ELSE undone
        /\ GoTo(s, k, [runner[s][k] EXCEPT !.pc = "answer", !.outcome = outcome])
        /\ UNCHANGED <<state, snapshot, now, phase, revokeSent, overtaken>>

\* apply_attempt_result
SubscribeResult(s, k) ==
    \E j \in runner[s][k].jobs :
        /\ At(s, k, "answer", "subscribe", j)
        /\ turns' = IF turns[j.turn] # None /\ turns[j.turn].attempt = j.attempt
                    THEN [turns EXCEPT ![j.turn].status = runner[s][k].outcome]
                    ELSE turns
        /\ Finish(s, k, j)
        /\ UNCHANGED <<registration, urlKnown, hosts, nextAttempt, revokedAt,
                       snapshot, now, outside, overtaken>>

\* A host drops the subscriptions S, or does not.
HostDrops(S, applied) ==
    LET there == {t \in S : held[t] # None}
    IN /\ held' = IF applied THEN [t \in TurnKeys |-> IF t \in S THEN None ELSE held[t]]
                  ELSE held
       /\ undone' = IF applied THEN undone \ S ELSE undone \cup there
       /\ UNCHANGED <<phase, revokeSent>>

UnsubscribeTurn(s, k) ==
    \E j \in runner[s][k].jobs, applied \in BOOLEAN :
        /\ At(s, k, "next", "unsubscribe", j)
        /\ HostDrops({j.turn}, applied)
        /\ Finish(s, k, j)
        /\ UNCHANGED <<state, snapshot, now, overtaken>>

\* run_unsubscribe_all: without an answer the Worker is asked to revoke.
UnsubscribeAll(s, k) ==
    \E j \in runner[s][k].jobs, applied \in BOOLEAN, answered \in BOOLEAN :
        /\ At(s, k, "next", "all", j)
        /\ answered => applied
        /\ HostDrops({t \in TurnKeys : t[1] = s}, applied)
        /\ IF answered \/ ~j.url THEN Finish(s, k, j)
           ELSE GoTo(s, k, [runner[s][k] EXCEPT !.pc = "revoke"])
        /\ UNCHANGED <<state, snapshot, now, overtaken>>

\* run_direct_revoke: recorded, then sent; what the Worker answers is logged.
\* It sends nothing when the URL is unusable or there is no device key.
DirectRevoke(s, k) ==
    \E j \in runner[s][k].jobs, signed \in BOOLEAN :
        /\ At(s, k, "revoke", "all", j) \/ At(s, k, "next", "revoke", j)
        /\ IF signed
           THEN /\ revokedAt' = [revokedAt EXCEPT ![s] = IF @ > now THEN @ ELSE now]
                /\ revokeSent' = [revokeSent EXCEPT ![s] = now]
           ELSE UNCHANGED <<revokedAt, revokeSent>>
        /\ Finish(s, k, j)
        /\ UNCHANGED <<registration, urlKnown, hosts, turns, nextAttempt,
                       snapshot, now, phase, held, undone, overtaken>>

-----------------------------------------------------------------------------
(* The hosts and the clock.                                                *)

\* The turn ends: its host pushes the event and drops the subscription.
TurnEnds(t) ==
    /\ phase[t] = "active"
    /\ phase' = [phase EXCEPT ![t] = "ended"]
    /\ held' = [held EXCEPT ![t] = None]
    /\ undone' = undone \ {t}
    /\ UNCHANGED <<state, snapshot, runner, now, revokeSent, overtaken>>

HostExpires(t) ==
    /\ held[t] # None
    /\ now >= held[t].issued + GRANT_LIFETIME
    /\ held' = [held EXCEPT ![t] = None]
    /\ undone' = undone \ {t}
    /\ UNCHANGED <<state, snapshot, runner, now, phase, revokeSent, overtaken>>

\* A call that has read the active turns takes the lock within the second.
Tick ==
    /\ now < MaxTime
    /\ now' = now + 1
    /\ UNCHANGED <<state, snapshot, runner, outside, overtaken>>

-----------------------------------------------------------------------------
Run(s, k) ==
    \/ SubscribeStart(s, k) \/ SubscribeSkip(s, k)
    \/ SubscribeUnsigned(s, k) \/ SubscribeSign(s, k)
    \/ HostSubscribe(s, k) \/ SubscribeResult(s, k)
    \/ UnsubscribeTurn(s, k) \/ UnsubscribeAll(s, k) \/ DirectRevoke(s, k)

\* The calls that use a snapshot, and the steps that can make it stale.
Race ==
    \/ \E t \in TurnKeys : TurnStarted(t) \/ TurnMissed(t) \/ TurnCompleted(t)
    \/ AppEnteredBackground \/ ClearRegistration \/ PruneOnly
    \/ \E r \in Tokens : SetRegistration(r)
\* The other steps neither read nor change the active turns: those that come
\* between the reading and the call could as well have come before it.
Quietly ==
    \/ ReadActive
    \/ \E s \in Servers, support \in {"legacy", "push"} : RecordHost(s, support)
    \/ \E s \in Servers : ServerRemoved(s)
    \/ \E s \in Servers, k \in Slots : Acquire(s, k) \/ Run(s, k)
    \/ \E t \in TurnKeys : TurnEnds(t) \/ HostExpires(t)
    \/ Tick

Next == Race \/ (snapshot = None /\ Quietly)

Spec == Init /\ [][Next]_vars

-----------------------------------------------------------------------------
Quiet(s) == \A k \in Slots : runner[s][k].pc = "idle"

(* Once a server has no work left, its host pushes the end of a running    *)
(* turn to the registered token only, and to nobody when the registration  *)
(* is cleared or the server removed, and the phone counts the subscription *)
(* as live (the cap of a server bounds what its host holds): in-flight and *)
(* overtaken jobs leave nothing behind.  Excepted are subscriptions the    *)
(* host was asked to drop in vain, and grants so old that the phone has    *)
(* forgotten their entry.                                                  *)
HeldMatchesPhone ==
    \A t \in TurnKeys :
        /\ Quiet(t[1])
        /\ phase[t] = "active"
        /\ held[t] # None
        /\ t \notin undone
        /\ now - held[t].planned < GRANT_LIFETIME
        => /\ held[t].token = registration
           /\ hosts[t[1]] = "push"
           /\ turns[t] # None
           /\ turns[t].completed = 0 /\ turns[t].status # "Unsupported"

(* A running turn shown as Subscribed has its subscription at the host, or *)
(* a later batch of jobs took the server's lock before an earlier one.     *)
SubscribedIsHeld ==
    \A t \in TurnKeys :
        /\ Quiet(t[1])
        /\ t[1] \notin overtaken
        /\ phase[t] = "active"
        /\ turns[t] # None
        /\ turns[t].status = "Subscribed"
        /\ now - turns[t].planned < GRANT_LIFETIME
        => held[t] # None

(* The attempt whose answer will be applied carries the token registered   *)
(* now: work in flight for another token never sets the state of a turn.   *)
AttemptTokenCurrent ==
    \A s \in Servers, k \in Slots : \A j \in runner[s][k].jobs :
        /\ runner[s][k].pc \in {"sign", "call", "answer"}
        /\ NextJob(s, k, j)
        /\ turns[j.turn] # None
        /\ turns[j.turn].attempt = j.attempt
        /\ turns[j.turn].completed = 0
        => runner[s][k].grant.token = registration

(* A turn is Pending only while a task still has its subscribe to run: no  *)
(* early return of run_subscribe leaves it Pending for good.               *)
PendingHasJob ==
    \A t \in TurnKeys :
        turns[t] # None /\ turns[t].status = "Pending" /\ turns[t].completed = 0
        => \E k \in Slots : \E j \in runner[t[1]][k].jobs :
              /\ j.kind = "subscribe"
              /\ j.turn = t
              /\ j.attempt = turns[t].attempt

(* A grant sent to a host is younger than every revocation sent to the     *)
(* Worker before it, within the same second too and whether or not the     *)
(* revocation has landed yet.                                              *)
GrantOutlivesRevoke ==
    \A s \in Servers, k \in Slots :
        runner[s][k].pc = "call" => runner[s][k].grant.issued > revokeSent[s]
=============================================================================
