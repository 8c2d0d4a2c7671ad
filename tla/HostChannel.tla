----------------------------- MODULE HostChannel -----------------------------
(***************************************************************************)
(* The HostChannel Durable Object of services/push-proxy: one object per   *)
(* host computer.  It keeps the phones' subscriptions to turns, the        *)
(* delivery record of every (event, subscription) pair, the pending        *)
(* retries, the devices' revocation points and one alarm.                  *)
(*                                                                         *)
(* Requests are handled concurrently, but a handler yields only while it   *)
(* waits for the push provider: the runtime delivers no other event while  *)
(* a storage operation is in progress.  The variable gate is that input    *)
(* gate: while it names a process, only that process moves.  A crash can   *)
(* still fall between two writes of one handler: see CutShort.             *)
(*                                                                         *)
(* One time unit stands for one second; the millisecond clock of the code  *)
(* is always compared with multiples of 1000 and is not modelled apart.    *)
(***************************************************************************)
EXTENDS Integers, FiniteSets, Sequences

CONSTANTS
  Devices,      \* phones
  Turns,        \* (agent, threadId, turnId) triples
  Events,       \* event ids the host may report
  EventTurn,    \* the turn of each event
  Tokens,       \* push tokens (with their platform)
  Grants,       \* grants the phones sign; a grant stands for its own nonce
  SubIds,       \* subscription ids that randomHex may draw
  Nonces,       \* request nonces; bounds the number of admitted requests
  Reporters,    \* concurrent executions of the event handler
  Alarm,        \* the execution of the alarm handler
  None          \* an absent record

CONSTANTS
  MAX_GRANT_LIFETIME, HOST_NONCE_TTL, EVENT_RECORD_TTL, REVOCATION_TTL,
  RATE_WINDOW, RATE_LIMITS, MAX_UNSEEN_REVOCATIONS,
  MAX_DELIVERY_ATTEMPTS, RETRY_BASE, RETRY_MAX, RETRY_AFTER_MAX, SEND_LEASE,
  SIGNATURE_WINDOW,  \* clock skew the Worker entry accepts in a request
  EntryDelay,        \* longest time between the Worker entry's checks and the object
  RetryHints,        \* Retry-After values a provider may answer with
  SendMax,           \* longest time one sendTurnAlert takes
  AlarmDelay,        \* longest time the runtime lets a due alarm wait
  MaxRestarts,       \* bound: restarts of the object
  Horizon,           \* bound: no request arrives later
  MaxTime            \* bound: the clock stops here

Procs      == Reporters \cup {Alarm}
Buckets    == {"subscriptions", "events", "deletes", "revokes"}
States     == {"sent", "retrying", "invalid_token", "failed"}
Deliveries == Events \X SubIds
Keys       == Turns \X Devices

Grant == [nonce : Nat, device : Devices, turn : Turns, token : Tokens,
          issuedAt : Nat, expiresAt : Nat]

DeliveryRecord == [state : States, attempts : Nat, exp : Nat]
RetryRecord    == [attempts : Nat, nextAt : Nat]

\* A delivery a loop has still to reach, and one a process is sending: it holds
\* on to the grant the subscription had when the send began.
Pending == [event : Events, sub : SubIds, attempts : Nat]
Sending == [event : Events, sub : SubIds, attempts : Nat \ {0},
            grant : Grant, since : Nat]

ASSUME NoneAssumption ==
  /\ None \notin Nat
  /\ None \notin SubIds
  /\ None \notin Grant
  /\ None \notin Procs
  /\ None \notin DeliveryRecord
  /\ None \notin RetryRecord
  /\ None \notin Sending
  /\ Alarm \notin Reporters

ASSUME EventTurnAssumption == EventTurn \in [Events -> Turns]

\* What authorizeSubscription lets through: a positive lifetime of at most 48 h.
ASSUME GrantsAssumption ==
  /\ Grants \subseteq Grant
  /\ \A g \in Grants : /\ g.issuedAt < g.expiresAt
                       /\ g.expiresAt - g.issuedAt <= MAX_GRANT_LIFETIME

ASSUME TimesAssumption ==
  /\ MAX_GRANT_LIFETIME \in Nat /\ HOST_NONCE_TTL \in Nat /\ EVENT_RECORD_TTL \in Nat
  /\ REVOCATION_TTL \in Nat /\ RATE_WINDOW \in Nat /\ MAX_UNSEEN_REVOCATIONS \in Nat
  /\ RETRY_BASE \in Nat /\ RETRY_MAX \in Nat /\ RETRY_AFTER_MAX \in Nat
  /\ SEND_LEASE \in Nat /\ SIGNATURE_WINDOW \in Nat
  /\ EntryDelay \in Nat /\ SendMax \in Nat /\ AlarmDelay \in Nat
  /\ MaxRestarts \in Nat /\ Horizon \in Nat /\ MaxTime \in Nat
  /\ MAX_DELIVERY_ATTEMPTS \in Nat \ {0}
  /\ RetryHints \subseteq Nat
  /\ RATE_LIMITS \in [Buckets -> Nat]
  /\ MAX_GRANT_LIFETIME + EntryDelay <= REVOCATION_TTL
  /\ SIGNATURE_WINDOW + EntryDelay <= REVOCATION_TTL

\* The record of a delivery outlives the rate window, its lease and its send.
ASSUME LeaseAssumption ==
  /\ RATE_WINDOW <= EVENT_RECORD_TTL
  /\ SEND_LEASE <= EVENT_RECORD_TTL
  /\ SendMax < EVENT_RECORD_TTL

\* The powers in the backoff are numbers.
ASSUME PowerAssumption ==
  \A n \in 1..MAX_DELIVERY_ATTEMPTS : 2^(n-1) \in Nat

VARIABLES
  now,       \* Date.now(), in seconds
  \* storage: survives a restart
  sub,       \* sub:<id>    the grant the subscription currently holds
  idx,       \* idx:<turn>|<device>  the subscription id registered for it
  evt,       \* evt:<event>|<id>     delivery record
  retry,     \* retry:<event>|<id>   pending delivery
  used,      \* grant:<nonce>        grants already used
  revoked,   \* revoked:<device>     revocation point
  nonce,     \* nonce:<hex>, rnonce:<hex>  expiry of a remembered nonce
  rl,        \* rl:<bucket>          admission times
  alarm,     \* the time the alarm is set for
  \* memory: lost in a restart
  fired,     \* the time the running alarm was set for
  pc,        \* where each process is
  at,        \* the time a process read when it began
  todo,      \* the deliveries its loop has not reached yet
  cur,       \* the delivery it is sending
  gate,      \* the process that holds the input gate
  \* environment
  blocked,   \* the host is in BLOCKED_HOST_IDS
  restarts,
  drawn,     \* nonces already drawn by an admitted request
  \* history, never read by an action's guard except origin's freshness
  origin,    \* the grant each subscription was created from
  revPoint,  \* the latest revocation point each device ever set
  unarmed,   \* a crash came before the alarm was set for a record, no cleanup since
  torn       \* the deliveries a crash left without retry and without final state

storage == <<sub, idx, evt, retry, used, revoked, nonce, rl, alarm>>
memory  == <<fired, pc, at, todo, cur, gate>>
env     == <<blocked, restarts, drawn>>
history == <<origin, revPoint, unarmed, torn>>
vars    == <<now, storage, memory, env, history>>

-----------------------------------------------------------------------------
(***************************************************************************)
(* Records and helpers.                                                    *)
(***************************************************************************)
deliveryRecord(state, attempts) ==
  [state |-> state, attempts |-> attempts, exp |-> now + EVENT_RECORD_TTL]

indexKey(g) == <<g.turn, g.device>>

Key(m) == <<m.event, m.sub>>

Subs == {s \in SubIds : sub[s] # None}

Live(s, t) == sub[s] # None /\ t < sub[s].expiresAt

\* Faulty variant: an alarm that is set is never moved.
ensureAlarmOnce(a, t) == IF a = None THEN t ELSE a

\* The alarm only ever moves earlier.
ensureAlarm(a, t) == IF a = None \/ t < a THEN t ELSE a

\* The wait before the next attempt: exponential, or the provider's hint.
Backoff(n) == LET b == RETRY_BASE * 2^(n-1)
              IN  IF b < RETRY_MAX THEN b ELSE RETRY_MAX

RetryDelay(n, hint) ==
  LET h == IF hint < RETRY_AFTER_MAX THEN hint ELSE RETRY_AFTER_MAX
  IN  IF Backoff(n) < h THEN h ELSE Backoff(n)

\* Faulty variants: the index entries stay, the pending deliveries are not finalized.
idxKept(S) == idx
finalizedNever(S, state) == evt

idxWithout(S) ==
  [k \in Keys |-> IF \E s \in S \cap Subs : indexKey(sub[s]) = k /\ idx[k] = s
                  THEN None ELSE idx[k]]

retryWithout(S) == [d \in Deliveries |-> IF d[2] \in S THEN None ELSE retry[d]]

finalized(S, state) ==
  [d \in Deliveries |-> IF d[2] \in S /\ retry[d] # None
                        THEN deliveryRecord(state, retry[d].attempts) ELSE evt[d]]

deleteKeys(S) ==
  /\ sub'   = [s \in SubIds |-> IF s \in S THEN None ELSE sub[s]]
  /\ idx'   = idxWithout(S)
  /\ retry' = retryWithout(S)

\* Deletes the subscriptions S, their index entries and their pending retries;
\* a pending delivery is finalized with the given state.
removeSubscriptions(S, state) ==
  /\ deleteKeys(S)
  /\ evt' = finalized(S, state)

\* The stamps of a bucket that are still inside the sliding window.  Stamps are
\* appended in time order, so the ones that left it come first.
Window(b) ==
  LET left == Cardinality({i \in 1..Len(rl[b]) : RATE_WINDOW <= now - rl[b][i]})
  IN  SubSeq(rl[b], left + 1, Len(rl[b]))

consumeRate(b) ==
  /\ Len(Window(b)) < RATE_LIMITS[b]
  /\ rl' = [rl EXCEPT ![b] = Append(Window(b), now)]

\* A fresh nonce: a replay of a remembered one is refused and changes nothing.
rememberNonce(n) ==
  /\ n \notin drawn
  /\ nonce' = [nonce EXCEPT ![n] = now + HOST_NONCE_TTL]
  /\ drawn' = drawn \cup {n}

AdmitAlarm == ensureAlarm(ensureAlarm(alarm, now + RATE_WINDOW), now + HOST_NONCE_TTL)

\* What fetch writes for every host request that can change something.
Admitted(b, n) ==
  /\ gate = None
  /\ now <= Horizon
  /\ ~blocked
  /\ consumeRate(b)
  /\ rememberNonce(n)

Admit(b, n) == Admitted(b, n) /\ UNCHANGED <<now, fired, blocked, restarts, unarmed, torn>>

-----------------------------------------------------------------------------
Init ==
  /\ now = 0
  /\ sub = [s \in SubIds |-> None]
  /\ idx = [k \in Keys |-> None]
  /\ evt = [d \in Deliveries |-> None]
  /\ retry = [d \in Deliveries |-> None]
  /\ used = {}
  /\ revoked = [d \in Devices |-> None]
  /\ nonce = [n \in Nonces |-> None]
  /\ rl = [b \in Buckets |-> <<>>]
  /\ alarm = None
  /\ fired = None
  /\ pc = [p \in Procs |-> "idle"]
  /\ at = [p \in Procs |-> 0]
  /\ todo = [p \in Procs |-> {}]
  /\ cur = [p \in Procs |-> None]
  /\ gate = None
  /\ blocked = FALSE
  /\ restarts = 0
  /\ drawn = {}
  /\ origin = [s \in SubIds |-> None]
  /\ revPoint = [d \in Devices |-> None]
  /\ unarmed = FALSE
  /\ torn = {}

-----------------------------------------------------------------------------
(***************************************************************************)
(* POST /subscriptions.  The Worker entry has checked the grant, at most   *)
(* EntryDelay ago: it may have expired since.                              *)
(***************************************************************************)
\* Faulty variant: a grant of the very second of the revocation is let through.
RevokedEarlierGrant(g) == revoked[g.device] # None /\ g.issuedAt < revoked[g.device]

RevokedGrant(g) == revoked[g.device] # None /\ g.issuedAt <= revoked[g.device]

\* Faulty variant: the record of the grant's nonce is not read.
UsedNever(g) == FALSE

Used(g) == g \in used

\* The subscription registered under g's turn and device, if any.
Registered(g) == {s \in Subs : idx[indexKey(g)] = s}
Stale(g)      == {s \in Registered(g) : ~Live(s, now)}
Existing(g)   == Registered(g) \ Stale(g)
Same(g)       == \E s \in Existing(g) : sub[s].nonce = g.nonce

\* The Worker entry let the grant through, at most EntryDelay ago.
Checked(g) ==
  /\ g.issuedAt <= now + SIGNATURE_WINDOW
  /\ now < g.expiresAt + EntryDelay

SubscribeRequest(n, g) ==
  /\ Checked(g)
  /\ Admit("subscriptions", n)
  /\ UNCHANGED <<revoked, pc, at, todo, cur, gate, revPoint>>

\* The grant predates the device's revocation point.
SubscribeRevoked(n, g) ==
  /\ SubscribeRequest(n, g)
  /\ RevokedGrant(g)
  /\ alarm' = AdmitAlarm
  /\ UNCHANGED <<sub, idx, evt, retry, used, origin>>

\* The same grant again: an idempotent retry from the host's outbox.
SubscribeAgain(n, g) ==
  /\ SubscribeRequest(n, g)
  /\ ~RevokedGrant(g)
  /\ Same(g)
  /\ alarm' = AdmitAlarm
  /\ UNCHANGED <<sub, idx, evt, retry, used, origin>>

\* The grant was used before; an expired holder of the key goes all the same.
SubscribeReused(n, g) ==
  /\ SubscribeRequest(n, g)
  /\ ~RevokedGrant(g)
  /\ ~Same(g)
  /\ Used(g)
  /\ removeSubscriptions(Stale(g), "failed")
  /\ alarm' = AdmitAlarm
  /\ UNCHANGED <<used, origin>>

\* Another grant for the same turn and device: the subscription s keeps its id
\* and takes the grant over, unless the grant is older.
Held(g, s) == IF sub[s].issuedAt <= g.issuedAt THEN g ELSE sub[s]

FirstExpiry(g, s) ==
  IF Held(g, s).expiresAt < g.expiresAt THEN Held(g, s).expiresAt ELSE g.expiresAt

Refreshes(g, s) ==
  /\ ~RevokedGrant(g)
  /\ ~Same(g)
  /\ ~Used(g)
  /\ sub' = [sub EXCEPT ![s] = Held(g, s)]
  /\ used' = used \cup {g}
  /\ UNCHANGED <<idx, evt, retry, origin>>

SubscribeRefresh(n, g) ==
  /\ SubscribeRequest(n, g)
  /\ \E s \in Existing(g) : /\ Refreshes(g, s)
                           /\ alarm' = ensureAlarm(AdmitAlarm, FirstExpiry(g, s))

\* A new subscription, under an id never drawn before; an expired holder of
\* the key is removed first.
Registers(g) ==
  /\ ~RevokedGrant(g)
  /\ ~Used(g)
  /\ Existing(g) = {}
  /\ \E s \in SubIds :
       /\ origin[s] = None
       /\ sub' = [t \in SubIds |-> CASE t = s -> g
                                     [] t \in Stale(g) -> None
                                     [] OTHER -> sub[t]]
       /\ idx' = [idx EXCEPT ![indexKey(g)] = s]
       /\ origin' = [origin EXCEPT ![s] = g]
  /\ retry' = retryWithout(Stale(g))
  /\ evt' = finalized(Stale(g), "failed")
  /\ used' = used \cup {g}

SubscribeNew(n, g) ==
  /\ SubscribeRequest(n, g)
  /\ Registers(g)
  /\ alarm' = ensureAlarm(AdmitAlarm, g.expiresAt)

-----------------------------------------------------------------------------
(***************************************************************************)
(* DELETE /subscriptions/:id and POST /revoke.                             *)
(***************************************************************************)
Unsubscribe(n, s) ==
  /\ s \in Subs
  /\ Admit("deletes", n)
  /\ removeSubscriptions({s}, "failed")
  /\ alarm' = AdmitAlarm
  /\ UNCHANGED <<used, revoked, pc, at, todo, cur, gate, origin, revPoint>>

\* Faulty variant: a revocation leaves the registered subscriptions alone.
DeviceSubsNone(d) == {}

DeviceSubs(d) == {s \in Subs : sub[s].device = d}

\* Revocations of devices this object has never seen are capped.
TooManyUnseen(d) ==
  /\ revoked[d] = None
  /\ DeviceSubs(d) = {}
  /\ MAX_UNSEEN_REVOCATIONS <= Cardinality({e \in Devices : revoked[e] # None})

\* ts is the device's clock; the Worker entry accepts a bounded skew.  A
\* blocked host's devices may still revoke.
RevokeAdmitted(n, d, ts) ==
  /\ gate = None
  /\ now <= Horizon
  /\ n \notin drawn
  /\ ts - now <= SIGNATURE_WINDOW /\ now - ts <= SIGNATURE_WINDOW + EntryDelay
  /\ consumeRate("revokes")

RevokeRequest(n, d, ts) ==
  /\ RevokeAdmitted(n, d, ts)
  /\ UNCHANGED <<now, used, memory, blocked, restarts, origin, unarmed, torn>>

\* 429: the rate was consumed, nothing else was written.
RevokeRefused(n, d, ts) ==
  /\ RevokeRequest(n, d, ts)
  /\ TooManyUnseen(d)
  /\ alarm' = ensureAlarm(alarm, now + RATE_WINDOW)
  /\ UNCHANGED <<sub, idx, evt, retry, revoked, nonce, drawn, revPoint>>

RevocationPoint(d, ts) == IF revoked[d] # None /\ ts < revoked[d] THEN revoked[d] ELSE ts

Revokes(n, d, ts) ==
  /\ ~TooManyUnseen(d)
  /\ rememberNonce(n)
  /\ removeSubscriptions(DeviceSubs(d), "failed")
  /\ revoked' = [revoked EXCEPT ![d] = RevocationPoint(d, ts)]
  /\ revPoint' = [revPoint EXCEPT ![d] = IF @ # None /\ ts < @ THEN @ ELSE ts]

Revoke(n, d, ts) ==
  /\ RevokeRequest(n, d, ts)
  /\ Revokes(n, d, ts)
  /\ alarm' = ensureAlarm(AdmitAlarm, RevocationPoint(d, ts) + REVOCATION_TTL)

-----------------------------------------------------------------------------
(***************************************************************************)
(* deliver: the lease is written before the provider is called; the gate   *)
(* opens while the provider works.                                         *)
(***************************************************************************)
\* Faulty variant: the attempt is not counted.
AttemptUncounted(m) == m.attempts

Attempt(m) == m.attempts + 1

Lease(m) ==
  /\ evt'   = [evt EXCEPT ![Key(m)] = deliveryRecord("retrying", Attempt(m))]
  /\ retry' = [retry EXCEPT ![Key(m)] = [attempts |-> Attempt(m),
                                         nextAt |-> now + SEND_LEASE]]

StartSend(p, m) ==
  /\ Lease(m)
  /\ alarm' = ensureAlarm(alarm, now + SEND_LEASE)
  /\ todo'  = [todo EXCEPT ![p] = @ \ {m}]
  /\ cur'   = [cur EXCEPT ![p] = [event |-> m.event, sub |-> m.sub,
                                  attempts |-> Attempt(m),
                                  grant |-> sub[m.sub], since |-> now]]
  /\ pc'    = [pc EXCEPT ![p] = "sending"]
  /\ gate'  = None
  /\ UNCHANGED <<now, sub, idx, used, revoked, nonce, rl, fired, at, env, history>>

\* The provider answers p: p takes the gate back.
Answered(p) ==
  /\ pc[p] = "sending"
  /\ gate = None
  /\ gate' = p

\* A retryable answer (429, 5xx, network or credential error) before the last attempt.
RetryAt(p, hint) == now + RetryDelay(cur[p].attempts, hint)

Reschedules(p, hint) ==
  /\ cur[p].attempts < MAX_DELIVERY_ATTEMPTS
  /\ evt'   = [evt EXCEPT ![Key(cur[p])] = deliveryRecord("retrying", cur[p].attempts)]
  /\ retry' = [retry EXCEPT ![Key(cur[p])] = [attempts |-> cur[p].attempts,
                                              nextAt |-> RetryAt(p, hint)]]

SendRetrying(p, hint) ==
  /\ Answered(p)
  /\ Reschedules(p, hint)
  /\ alarm' = ensureAlarm(alarm, RetryAt(p, hint))
  /\ pc'  = [pc EXCEPT ![p] = "loop"]
  /\ cur' = [cur EXCEPT ![p] = None]
  /\ UNCHANGED <<now, sub, idx, used, revoked, nonce, rl, fired, at, todo, env, history>>

\* A final answer: sent, a permanent failure (or the last retryable one), or a dead token.
SendFinal(p, state) ==
  /\ Answered(p)
  /\ evt'   = [evt EXCEPT ![Key(cur[p])] = deliveryRecord(state, cur[p].attempts)]
  /\ retry' = [retry EXCEPT ![Key(cur[p])] = None]
  /\ pc'    = [pc EXCEPT ![p] = IF state = "invalid_token" THEN "dropToken" ELSE "dropSub"]
  /\ UNCHANGED <<now, sub, idx, used, revoked, nonce, rl, alarm, fired, at, todo, cur,
                 env, history>>

\* The turn's terminal event is done, or every subscription with the token goes.
DropAfterSend(p) ==
  /\ gate = p
  /\ \/ /\ pc[p] = "dropSub"
        /\ removeSubscriptions({cur[p].sub}, "failed")
     \/ /\ pc[p] = "dropToken"
        /\ removeSubscriptions({s \in Subs : sub[s].token = cur[p].grant.token},
                               "invalid_token")
  /\ pc'  = [pc EXCEPT ![p] = "loop"]
  /\ cur' = [cur EXCEPT ![p] = None]
  /\ UNCHANGED <<now, used, revoked, nonce, rl, alarm, fired, at, todo, gate, env, history>>

\* deliver throws: the lease stays.  The alarm's loop goes on with the next
\* retry, an event request answers 500 and leaves its other matches alone.
SendThrows(p) ==
  /\ pc[p] = "sending"
  /\ gate = None
  /\ cur' = [cur EXCEPT ![p] = None]
  /\ \/ /\ p = Alarm
        /\ pc' = [pc EXCEPT ![p] = "loop"]
        /\ gate' = p
        /\ UNCHANGED <<todo, at>>
     \/ /\ p \in Reporters
        /\ pc' = [pc EXCEPT ![p] = "idle"]
        /\ todo' = [todo EXCEPT ![p] = {}]
        /\ at' = [at EXCEPT ![p] = 0]
        /\ UNCHANGED gate
  /\ UNCHANGED <<now, storage, fired, env, history>>

-----------------------------------------------------------------------------
(***************************************************************************)
(* POST /events.                                                           *)
(***************************************************************************)
Matches(e) == {s \in SubIds : \E d \in Devices : idx[<<EventTurn[e], d>>] = s}
Seen(e)    == {s \in SubIds : evt[<<e, s>>] # None}

\* eventIsNoop is answered from reads alone.  Otherwise the matches and the
\* earlier deliveries are read once, before any provider is called.
Report(p, n, e) ==
  /\ pc[p] = "idle"
  /\ Matches(e) \cup Seen(e) # {}
  /\ Admit("events", n)
  /\ alarm' = AdmitAlarm
  /\ pc'   = [pc EXCEPT ![p] = "loop"]
  /\ at'   = [at EXCEPT ![p] = now]
  /\ todo' = [todo EXCEPT ![p] = [event : {e}, sub : Matches(e) \ Seen(e), attempts : {0}]]
  /\ gate' = p
  /\ UNCHANGED <<sub, idx, evt, retry, used, revoked, cur, history>>

Looping(p) == gate = p /\ pc[p] = "loop"

\* The subscription is gone or was expired when the request arrived.
ReportSkip(p, m) ==
  /\ Looping(p)
  /\ ~Live(m.sub, at[p])
  /\ todo' = [todo EXCEPT ![p] = @ \ {m}]
  /\ UNCHANGED <<now, storage, fired, pc, at, cur, gate, env, history>>

ReportSend(p, m) ==
  /\ Looping(p)
  /\ Live(m.sub, at[p])
  /\ StartSend(p, m)

ReportEnd(p) ==
  /\ Looping(p)
  /\ todo[p] = {}
  /\ pc' = [pc EXCEPT ![p] = "idle"]
  /\ at' = [at EXCEPT ![p] = 0]
  /\ gate' = None
  /\ UNCHANGED <<now, storage, fired, todo, cur, env, history>>

-----------------------------------------------------------------------------
(***************************************************************************)
(* alarm: processDueRetries, then cleanup.                                 *)
(***************************************************************************)
AlarmFire ==
  /\ gate = None
  /\ pc[Alarm] = "idle"
  /\ alarm # None /\ alarm <= now
  /\ fired' = alarm
  /\ alarm' = None
  /\ pc'   = [pc EXCEPT ![Alarm] = "loop"]
  /\ at'   = [at EXCEPT ![Alarm] = now]
  /\ todo' = [todo EXCEPT ![Alarm] =
       {m \in {[event |-> d[1], sub |-> d[2], attempts |-> retry[d].attempts] :
                 d \in {x \in Deliveries : retry[x] # None}} : retry[Key(m)].nextAt <= now}]
  /\ gate' = Alarm
  /\ UNCHANGED <<now, sub, idx, evt, retry, used, revoked, nonce, rl, cur, env, history>>

\* The subscription is gone, or was expired when the alarm fired.  (The code lets
\* the record expire EVENT_RECORD_TTL after the alarm fired, not after now.)
RetryOrphan(m) ==
  /\ Looping(Alarm)
  /\ ~Live(m.sub, at[Alarm])
  /\ evt'   = [evt EXCEPT ![Key(m)] = deliveryRecord("failed", m.attempts)]
  /\ retry' = [retry EXCEPT ![Key(m)] = None]
  /\ todo'  = [todo EXCEPT ![Alarm] = @ \ {m}]
  /\ UNCHANGED <<now, sub, idx, used, revoked, nonce, rl, alarm, fired, pc, at, cur, gate,
                 env, history>>

\* Blocking a host also stops its queued retries.
RetryBlocked(m) ==
  /\ Looping(Alarm)
  /\ Live(m.sub, at[Alarm])
  /\ blocked
  /\ removeSubscriptions({m.sub}, "failed")
  /\ todo' = [todo EXCEPT ![Alarm] = @ \ {m}]
  /\ UNCHANGED <<now, used, revoked, nonce, rl, alarm, fired, pc, at, cur, gate, env, history>>

RetrySend(m) ==
  /\ Looping(Alarm)
  /\ Live(m.sub, at[Alarm])
  /\ ~blocked
  /\ StartSend(Alarm, m)

\* Every time at which a stored record asks for the alarm.
Wakeups ==
  {sub[s].expiresAt : s \in Subs}
  \cup {retry[d].nextAt : d \in {x \in Deliveries : retry[x] # None}}
  \cup {evt[d].exp : d \in {x \in Deliveries : evt[x] # None}}
  \cup {g.expiresAt : g \in used}
  \cup {revoked[d] + REVOCATION_TTL : d \in {x \in Devices : revoked[x] # None}}
  \cup {nonce[n] : n \in {x \in Nonces : nonce[x] # None}}
  \cup {rl[b][Len(rl[b])] + RATE_WINDOW : b \in {x \in Buckets : rl[x] # <<>>}}

\* Faulty variant: a window that has emptied is kept.
ratesKept == rl

ratesPruned == [b \in Buckets |-> IF Window(b) = <<>> THEN <<>> ELSE rl[b]]

Earliest(T) == CHOOSE t \in T : \A u \in T : t <= u

\* Drops what has expired and re-arms the alarm for what is left.
Cleanup ==
  /\ Looping(Alarm)
  /\ todo[Alarm] = {}
  /\ sub' = [s \in SubIds |-> IF Live(s, now) THEN sub[s] ELSE None]
  /\ idx' = [k \in Keys |-> IF idx[k] # None /\ Live(idx[k], now) THEN idx[k] ELSE None]
  /\ evt' = [d \in Deliveries |-> IF evt[d] # None /\ evt[d].exp <= now THEN None ELSE evt[d]]
  /\ used' = {g \in used : now < g.expiresAt}
  /\ revoked' = [d \in Devices |-> IF revoked[d] # None /\ revoked[d] + REVOCATION_TTL <= now
                                   THEN None ELSE revoked[d]]
  /\ nonce' = [n \in Nonces |-> IF nonce[n] # None /\ nonce[n] <= now THEN None ELSE nonce[n]]
  /\ rl' = ratesPruned
  /\ UNCHANGED retry
  /\ alarm' = IF Wakeups' = {} THEN alarm ELSE ensureAlarm(alarm, Earliest(Wakeups'))
  /\ fired' = None
  /\ pc'   = [pc EXCEPT ![Alarm] = "idle"]
  /\ at'   = [at EXCEPT ![Alarm] = 0]
  /\ gate' = None
  /\ unarmed' = FALSE
  /\ UNCHANGED <<now, todo, cur, env, origin, revPoint, torn>>

-----------------------------------------------------------------------------
(***************************************************************************)
(* The environment: restarts (crash, eviction, deployment) and time.       *)
(***************************************************************************)
\* Faulty variant: an alarm whose handler was cut short is forgotten.
AlarmForgotten(a) == a

\* The runtime runs an alarm handler again until it has finished.
AlarmRerun(a) == IF fired # None THEN ensureAlarm(a, fired) ELSE a

\* Memory is lost, storage stays, an unfinished alarm is run again.  A
\* deployment may add the host to the block list.  The alarm was a when the
\* object died, and owed when the records written so far are asked.
Crash(a, owed) ==
  /\ restarts < MaxRestarts
  /\ restarts' = restarts + 1
  /\ blocked' \in {blocked, TRUE}
  /\ alarm' = AlarmRerun(a)
  /\ fired' = None
  /\ pc'   = [p \in Procs |-> "idle"]
  /\ at'   = [p \in Procs |-> 0]
  /\ todo' = [p \in Procs |-> {}]
  /\ cur'  = [p \in Procs |-> None]
  /\ gate' = None
  /\ unarmed' = (unarmed \/ a # owed)
  /\ UNCHANGED now

\* The object dies between two of the steps above.
Restart ==
  /\ Crash(alarm, alarm)
  /\ UNCHANGED <<sub, idx, evt, retry, used, revoked, nonce, rl, drawn, origin, revPoint, torn>>

\* The object dies in the middle of a step, between two writes of a handler: the
\* first ones are stored, the alarm may not have been set for them.
CutKeeps == UNCHANGED <<sub, idx, evt, retry, used, revoked, origin, revPoint, torn>>

\* A request that gets past the reads is in its admission.
Arriving(b) ==
  \/ b = "subscriptions" /\ ~blocked /\ \E g \in Grants : Checked(g)
  \/ b = "deletes"       /\ ~blocked /\ Subs # {}
  \/ b = "events"        /\ ~blocked /\ \E e \in Events : Matches(e) \cup Seen(e) # {}
  \/ b = "revokes"       /\ \E d \in Devices : ~TooManyUnseen(d)

CutAdmission(b, n) ==
  /\ gate = None
  /\ now <= Horizon
  /\ Arriving(b)
  /\ consumeRate(b)
  /\ LET rated == ensureAlarm(alarm, now + RATE_WINDOW)
     IN  \/ /\ \E a \in {alarm, rated} : Crash(a, rated)
            /\ UNCHANGED <<nonce, drawn>>
         \/ /\ rememberNonce(n)
            /\ \E a \in {rated, AdmitAlarm} : Crash(a, AdmitAlarm)
  /\ CutKeeps

CutSubscribe(n, g) ==
  /\ Checked(g)
  /\ Admitted("subscriptions", n)
  /\ \/ \E s \in Existing(g) :
          Refreshes(g, s) /\ Crash(AdmitAlarm, ensureAlarm(AdmitAlarm, FirstExpiry(g, s)))
     \/ Registers(g) /\ Crash(AdmitAlarm, ensureAlarm(AdmitAlarm, g.expiresAt))
  /\ UNCHANGED <<revoked, revPoint, torn>>

CutRevoke(n, d, ts) ==
  /\ RevokeAdmitted(n, d, ts)
  /\ Revokes(n, d, ts)
  /\ Crash(AdmitAlarm, ensureAlarm(AdmitAlarm, RevocationPoint(d, ts) + REVOCATION_TTL))
  /\ UNCHANGED <<used, origin, torn>>

\* Of the subscriptions a handler removes one by one, those of S are gone; the
\* object dies before or after the pending deliveries of the last one, s, are
\* finalized.
RemovalCut(S, s, state) ==
  /\ deleteKeys(S)
  /\ \/ evt' = finalized(S, state) /\ UNCHANGED torn
     \/ /\ evt' = finalized(S \ {s}, state)
        /\ torn' = torn \cup {d \in Deliveries : d[2] = s /\ retry[d] # None}
  /\ UNCHANGED <<used, revoked, origin, revPoint>>

CutRequestRemoval(n) ==
  /\ \/ /\ Admitted("deletes", n)
        /\ \E s \in Subs : RemovalCut({s}, s, "failed")
     \/ /\ Admitted("subscriptions", n)
        /\ \E g \in Grants : /\ Checked(g) /\ ~RevokedGrant(g)
                             /\ \E s \in Stale(g) : RemovalCut({s}, s, "failed")
     \/ \E d \in Devices, ts \in 0..(now + SIGNATURE_WINDOW) :
          /\ RevokeAdmitted(n, d, ts) /\ rememberNonce(n)
          /\ \E S \in SUBSET DeviceSubs(d) : \E s \in S : RemovalCut(S, s, "failed")
  /\ Crash(AdmitAlarm, AdmitAlarm)

CutRemoval(p) ==
  /\ gate = p
  /\ \/ pc[p] = "dropSub" /\ RemovalCut({cur[p].sub}, cur[p].sub, "failed")
     \/ /\ pc[p] = "dropToken"
        /\ \E S \in SUBSET {s \in Subs : sub[s].token = cur[p].grant.token} :
             \E s \in S : RemovalCut(S, s, "invalid_token")
     \/ /\ p = Alarm /\ Looping(p) /\ blocked
        /\ \E m \in todo[p] : Live(m.sub, at[p]) /\ RemovalCut({m.sub}, m.sub, "failed")
  /\ Crash(alarm, alarm)
  /\ UNCHANGED <<nonce, rl, drawn>>

\* deliver, before it calls the provider and after the answer; the first write of
\* a final answer and of an orphan leaves the retry record.
CutDelivery(p) ==
  /\ \/ /\ Looping(p) /\ (p = Alarm => ~blocked)
        /\ \E m \in todo[p] : Live(m.sub, at[p]) /\ Lease(m)
        /\ Crash(alarm, ensureAlarm(alarm, now + SEND_LEASE))
     \/ /\ pc[p] = "sending" /\ gate = None
        /\ \E hint \in RetryHints :
             Reschedules(p, hint) /\ Crash(alarm, ensureAlarm(alarm, RetryAt(p, hint)))
     \/ /\ pc[p] = "sending" /\ gate = None
        /\ \E state \in States \ {"retrying"} :
             evt' = [evt EXCEPT ![Key(cur[p])] = deliveryRecord(state, cur[p].attempts)]
        /\ UNCHANGED retry
        /\ Crash(alarm, alarm)
     \/ /\ p = Alarm /\ Looping(p)
        /\ \E m \in todo[p] :
             /\ ~Live(m.sub, at[p])
             /\ evt' = [evt EXCEPT ![Key(m)] = deliveryRecord("failed", m.attempts)]
        /\ UNCHANGED retry
        /\ Crash(alarm, alarm)
  /\ UNCHANGED <<sub, idx, used, revoked, nonce, rl, drawn, origin, revPoint, torn>>

CutShort ==
  \/ \E n \in Nonces :
       \/ \E b \in Buckets : CutAdmission(b, n)
       \/ \E g \in Grants : CutSubscribe(n, g)
       \/ \E d \in Devices, ts \in 0..(now + SIGNATURE_WINDOW) : CutRevoke(n, d, ts)
       \/ CutRequestRemoval(n)
  \/ \E p \in Procs : CutRemoval(p) \/ CutDelivery(p)

\* A send takes at most SendMax; a due alarm waits at most AlarmDelay while no
\* alarm handler runs.
Tick ==
  /\ now < MaxTime
  /\ gate = None
  /\ \A p \in Procs : pc[p] = "sending" => now < cur[p].since + SendMax
  /\ alarm # None /\ fired = None => now < alarm + AlarmDelay
  /\ now' = now + 1
  /\ UNCHANGED <<storage, memory, env, history>>

Subscribe(n, g) ==
  \/ SubscribeRevoked(n, g)
  \/ SubscribeAgain(n, g)
  \/ SubscribeReused(n, g)
  \/ SubscribeRefresh(n, g)
  \/ SubscribeNew(n, g)

HostRequest ==
  \E n \in Nonces :
    \/ \E g \in Grants : Subscribe(n, g)
    \/ \E s \in SubIds : Unsubscribe(n, s)
    \/ \E p \in Reporters, e \in Events : Report(p, n, e)

DeviceRevoke ==
  \E n \in Nonces, d \in Devices, ts \in 0..(now + SIGNATURE_WINDOW) :
    Revoke(n, d, ts) \/ RevokeRefused(n, d, ts)

ProviderAnswer(p) ==
  \/ \E hint \in RetryHints : SendRetrying(p, hint)
  \/ \E state \in States \ {"retrying"} : SendFinal(p, state)
  \/ SendThrows(p)

ReportStep(p) ==
  \/ \E m \in todo[p] : ReportSkip(p, m) \/ ReportSend(p, m)
  \/ ReportEnd(p)

AlarmStep ==
  \/ \E m \in todo[Alarm] : RetryOrphan(m) \/ RetryBlocked(m) \/ RetrySend(m)
  \/ Cleanup

\* A handler that was admitted goes on.
Progress ==
  \/ \E p \in Procs : ProviderAnswer(p) \/ DropAfterSend(p)
  \/ \E p \in Reporters : ReportStep(p)
  \/ AlarmStep

Next ==
  \/ HostRequest
  \/ DeviceRevoke
  \/ Progress
  \/ AlarmFire
  \/ Restart
  \/ CutShort
  \/ Tick

Spec == Init /\ [][Next]_vars

\* The runtime finishes handlers, fires a due alarm and lets time pass;
\* nobody has to send requests.
FairSpec == Spec /\ WF_vars(Progress) /\ WF_vars(AlarmFire) /\ WF_vars(Tick)

-----------------------------------------------------------------------------
(***************************************************************************)
(* Properties.                                                             *)
(***************************************************************************)
Times == Nat \cup {None}

\* Every record has the shape the code stores.
TypeOK ==
  /\ now \in Nat
  /\ sub \in [SubIds -> Grants \cup {None}]
  /\ idx \in [Keys -> SubIds \cup {None}]
  /\ evt \in [Deliveries -> DeliveryRecord \cup {None}]
  /\ retry \in [Deliveries -> RetryRecord \cup {None}]
  /\ used \subseteq Grants
  /\ revoked \in [Devices -> Times]
  /\ nonce \in [Nonces -> Times]
  /\ rl \in [Buckets -> Seq(Nat)]
  /\ alarm \in Times
  /\ fired \in Times
  /\ pc \in [Procs -> {"idle", "loop", "sending", "dropSub", "dropToken"}]
  /\ at \in [Procs -> Nat]
  /\ todo \in [Procs -> SUBSET Pending]
  /\ cur \in [Procs -> Sending \cup {None}]
  /\ gate \in Procs \cup {None}
  /\ blocked \in BOOLEAN
  /\ restarts \in Nat
  /\ drawn \subseteq Nonces
  /\ origin \in [SubIds -> Grants \cup {None}]
  /\ revPoint \in [Devices -> Times]
  /\ unarmed \in BOOLEAN
  /\ torn \subseteq Deliveries

\* The index and the subscriptions agree through every interleaving of
\* registration, removal, expiry and cleanup: a device has at most one
\* subscription to a turn, an event report finds each of them, and no index
\* entry dangles.
IndexSound ==
  /\ \A s \in Subs : idx[indexKey(sub[s])] = s
  /\ \A k \in Keys : idx[k] # None => sub[idx[k]] # None /\ indexKey(sub[idx[k]]) = k

\* While a grant is valid it creates at most one subscription, although the host
\* retries its registration, subscriptions are deleted once their turn has ended
\* and the record of the grant's nonce is dropped by the cleanup.  (A request
\* that was under way when the grant expired may create a second, expired one.)
GrantOnce ==
  \A s, t \in SubIds : origin[s] # None /\ origin[s] = origin[t] =>
                          s = t \/ origin[s].expiresAt <= now

\* After a device revoked, no subscription made from a grant issued at or
\* before its revocation point exists, even once the revocation record itself
\* has expired.
RevokedNeverLive ==
  \A s \in Subs : revPoint[sub[s].device] # None =>
                    revPoint[sub[s].device] < sub[s].issuedAt

\* No wake-up is lost: whatever a stored record waits for, the alarm is set for
\* that time or earlier, or the running alarm handler (which re-arms) was.  The
\* exception is a crash between the write of a record and ensureAlarm, and it
\* lasts until the next cleanup, which finds the record.
AlarmCovers ==
  \/ unarmed
  \/ \A t \in Wakeups : \/ alarm # None /\ alarm <= t
                        \/ fired # None /\ fired <= t

\* A delivery reported as "retrying" is really going to be retried: its retry
\* record exists, whatever removed, answered or crashed in between.  The exception
\* are the deliveries a crash caught in removeSubscription, after the retry was
\* deleted and before the delivery was finalized.
RetryingHasRetry ==
  \A d \in Deliveries \ torn :
    evt[d] # None /\ evt[d].state = "retrying" => retry[d] # None

\* No provider call begins for a device under a grant it has revoked, although
\* handlers hold lists of deliveries they read before other handlers ran.
NoSendAfterRevoke ==
  [][\A p \in Procs : pc[p] # "sending" /\ pc'[p] = "sending" =>
        LET g == cur'[p].grant
        IN  revPoint[g.device] # None => revPoint[g.device] < g.issuedAt]_vars

\* Every pending delivery is settled: its retry record goes away, whether the
\* provider accepts, refuses, keeps failing, or the object dies between any two
\* writes.
RetriesSettle == \A d \in Deliveries : retry[d] # None ~> retry[d] = None

\* Nothing leaks: once no more requests come the object becomes empty and
\* stops arming its alarm.  Only if a crash came before the alarm was set for a
\* record, and nothing sets the alarm afterwards, the record stays.
BecomesEmpty ==
  \/ <>[](Wakeups = {} /\ alarm = None /\ fired = None)
  \/ <>[](unarmed /\ alarm = None)

-----------------------------------------------------------------------------
(***************************************************************************)
(* What the documentation promises and the code does not keep.             *)
(***************************************************************************)
\* README: "A concurrent duplicate report sees it and does not send" - no two
\* handlers have the same delivery at the provider at the same time.
NoConcurrentSend ==
  \A p, q \in Procs : p # q /\ pc[p] = "sending" /\ pc[q] = "sending" =>
                        Key(cur[p]) # Key(cur[q])
=============================================================================
