# AgentBuddy: TLA+ models, checks and proofs

AgentBuddy lets a phone watch and steer coding agents that run on the user's own
computer.  This directory holds TLA+ models of the parts of it whose correctness
depends on interleavings, failures and time, the TLC configurations that check
them on small instances, and TLAPS proofs that hold for every instance.

Paths below are relative to the repository root (`src/` here).

## 1. Inventory

| Part | State it keeps | Operations | What is hard about it |
|---|---|---|---|
| **HostChannel** `services/push-proxy/src/host-channel.ts` | per host computer: subscriptions, their index, delivery records, pending retries, used grants, revocation points, nonces, rate windows, one alarm | subscribe, unsubscribe, event, revoke, alarm (retries, cleanup) | handlers interleave at every provider call; restarts between lease and answer; one alarm for all records; expiry of every record |
| **Worker entry v2** `services/push-proxy/src/v2.ts` | none | authenticate, check the grant, forward | its time checks are older than the object's |
| **Provider clients** `alerts.ts`, `fcm.ts`, `apns.ts`, `harmony*.ts` | token caches | send one alert | slow or missing answers; retryable against permanent failures |
| **RateLimiter**, **PushRegistration** `rate-limiter.ts`, `durable-object.ts` | a window of stamps; a legacy registration | check; register, deregister, alarm | an alarm pushed back by each request; a stale write after a provider call |
| **PushManager** `codex-mobile-client/src/push/manager.rs` | registration, host records, an entry per turn with status and attempt, revocation seconds | plan subscribe, jobs, results, unsubscribe turn/all, direct revoke | jobs run while turns complete, registrations change and the device revokes |
| **Slingshot stream** `codex-slingshot/src/stream.rs` | next sequence number, replay queue, subscribe cursor, chunk assemblies, line buffer | connect, replay, send, receive, acknowledge, shut down | replay after reconnect, chunks of one message under one number, a send that fails in the middle |
| **ServerSession and the session map** `session/connection.rs`, `mobile_client/mod.rs`, `event_loop.rs` | a worker per agent runtime, command queues, one health value per session; the sessions in use, a direct-resume marker per thread | connect, reuse, replace, attach, disconnect; request, reconnect, retry; report health, resubscribe | workers share the health value; a request is repeated after a reconnect; shutdown waits behind a request; answers and reports of a session outlive it |
| **Queued follow-ups** `store/reducer.rs`, `mobile_client/store_listener.rs`, `mobile_client/mod.rs` | per thread: drafts, the dispatch under way, the active turn | queue, autosend, steer, delete, refresh after lag | events, answers, refreshes and the user's taps meet in any order; an answer or an event may be lost |
| **Thread timeline** `store/`, `ffi/app_store.rs`, `apps/ios/.../AppModel*.swift` | the items of a thread, the last value broadcast of each; the subscription's channel; the view model's copy, its batches and reloads | apply an event, broadcast, refresh, coalesce, lag, reload, flush | four writers of one list on different threads; a bounded channel; two short cuts past it |
| **Reconnect planning** `reconnect.rs`, `ffi/reconnect.rs` | saved servers | plan, execute, probe, on-foreground | the plan is a pure choice; what it leads to is a connect of the session map |
| **Application store**, the rest `store/` | approvals, user input, overlays, terminals, voice, saved apps | reducer | – |
| **codex-ipc** | pending requests, reconnecting client | request, response, reconnect | used by the command-line debugger only |
| **Voice hand-off** | realtime session and the thread it speaks for | hand over, resolve | late transcripts |
| **Desktop app**, **content-reports**, **kittylitter**, **mobile UIs**, `vendor/` | – | – | operating-system I/O, stateless handlers, user interface, third-party code: not candidates |

How they interact: the phone's *PushManager* signs a grant per running turn and
hands it to the daemon on the host computer, which registers it with the Worker;
the *Worker entry* checks it and forwards it to the host's *HostChannel*.  When the
turn ends the daemon reports an event, and the HostChannel calls the *provider
clients* for each matching subscription.  A phone revokes directly at the Worker.
The phone talks to the agents through a *ServerSession* per server, over (among
others) the *Slingshot stream*.  The runtime workers of a session pass the server's
notifications to the *store listener*, which applies them to the *application
store*; the completion of a turn there makes it send the next *queued follow-up*, and
every change is broadcast to the *view model*, which draws the timeline from a copy.
A session that comes back from a lost connection resubscribes its threads, and a
listener that lagged refreshes them: both write the server's answer into the store
beside the events.

What makes each part correct, in a line each:

- HostChannel: the index finds exactly the stored subscriptions; a grant is used
  once; nothing is sent under a revoked grant; no wake-up is lost; every pending
  delivery settles; the object empties itself.
- PushManager: a result of an outdated attempt changes nothing; no turn keeps a
  subscription the user revoked; a grant is never issued inside the revoked second.
- Slingshot stream: the server receives the client's messages in order, each at
  least once, and none is lost by a reconnect.
- ServerSession and the session map: the health value tells the truth once things
  settle, and the store shows it; a session that was replaced is shut down; a resume
  is skipped only on a connection that has the thread; a request gets one answer.
- Queued follow-ups: a queued message stays queued until the server has taken it,
  the server takes it once, and the queue moves on.
- Thread timeline: after a recovery the store has what the server has; when nothing
  is under way, the screen shows what the store has.

The hazards these parts are exposed to are listed line by line in `PROJECT.json`.

## 2. Plan

Written so that what matters most comes first.

1. **HostChannel** (done): the object with its alarm, restarts and the provider;
   its theorems in `HostChannelProofs`, `HostChannelSafety` and `HostChannelAlarm`.
2. **SlingshotStream** (done): the stream with a connection that dies and a relay
   that acknowledges cumulatively; the abstract ordered channel `MessageChannel`
   that it implements; delivery under fairness; the theorems of
   `SlingshotStreamProofs`.
3. **PushManager** (done): attempts, jobs and the tasks that run them, with the
   hosts and the Worker outside; its theorems in `PushManagerProofs`.
4. **FollowUps** (done): the queue of a thread composed with the store listener, the
   worker's retry, the connection and the app-server; its theorems in `FollowUpsProofs`.
5. **Sessions** (done): the session map, its runtime workers, the health reader and
   the marker; its theorems in `SessionsProofs`.
6. **Timeline** (done): store, refresh, subscription and view model of one thread;
   its theorems in `TimelineProofs`.
7. Every invariant and every step property of a passing run is proved; the temporal ones
   under fairness stay with TLC.

A composition of PushManager with HostChannel was planned and given up: what the
phone relies on at the Worker is one comparison, that a grant issued at or before the
last revocation is refused.  Each side is proved on its own (`GrantAlwaysOutlivesRevoke`
here, `RevokedGrantsGone` there), and the host's outbox between them is not in the
repository.

## 3. HostChannel

### State and actions

| TLA+ | Code |
|---|---|
| `sub idx evt retry used revoked nonce rl alarm` | the storage keys `sub: idx: evt: retry: grant: revoked: nonce:/rnonce: rl:` and the object's alarm |
| `pc at todo cur fired` | where a running `event()` or `alarm()` handler is: the time it read first, the deliveries its loop has still to reach, the one at the provider |
| `gate` | the runtime's input gate: no other event is delivered while a handler waits for storage, only while it waits for the provider |
| `blocked restarts drawn` | environment |
| `origin revPoint unarmed torn` | history used by the properties; `unarmed`: a crash came between a record and its `ensureAlarm`, and no cleanup since; `torn`: the deliveries whose removal a crash cut in two |

`fetch` admits a request (`Admit`: replay check, rate window, nonce) and runs its
handler.  `subscribe` is split by its early returns into `SubscribeRevoked`,
`SubscribeAgain`, `SubscribeReused`, `SubscribeRefresh` and `SubscribeNew`; `revoke`
into `RevokeRefused` and `Revoke`.  `event` is `Report`, then `ReportSkip` /
`ReportSend` for each match, then `ReportEnd`; `deliver` is `StartSend` (lease
written, gate opened) and, when the provider answers, `SendRetrying`, `SendFinal`
followed by `DropAfterSend`, or `SendThrows`.  `alarm` is `AlarmFire` (due list
read), `RetryOrphan` / `RetryBlocked` / `RetrySend` for each entry, then `Cleanup`.
`Restart` loses the memory and keeps the storage; the runtime runs an unfinished
alarm handler again.

`CutShort` is a restart in the middle of such a step: between the rate window, the
nonce and their `ensureAlarm`s (`CutAdmission`), between the record a request writes
and its alarm (`CutSubscribe`, `CutRevoke`), between the removals of a loop and
between `deleteKeys` and `putAll` of one removal (`CutRequestRemoval`, `CutRemoval`),
between a lease, an answer or an orphan and what follows it (`CutDelivery`).

Requests that change nothing (an event without matches, an unknown id, a replayed
nonce, a full rate window) are stutters and have no action.

### Abstractions

- Times are seconds; all durations of the code are multiples of 1000 ms.  The
  configurations scale them down, keeping their order.
- A grant stands for its nonce; platform and APNs environment are part of the
  token; the kind, reason and time of an event, provider status codes and response
  bodies are left out.
- `nonce:` and `rnonce:` share one map: the nonces of the model are fresh.
- The order of a `for` loop over storage keys is arbitrary.
- The writes of one uninterrupted segment of a handler are one step for everybody
  but a crash: the input gate lets nobody see a state between them, and `CutShort`
  has the crashes that fall there.  (The removal that follows an answer's record is a
  step of its own, `DropAfterSend`.)
- The cleanup reads and deletes in pages of 128 keys; here it is one page, and a
  crash in it is one before or after it.
- `RetryOrphan` takes the time of its record from the clock, the code from the
  beginning of the alarm (host-channel.ts:418); the record expires that much earlier.
- The body of a forwarded request is there when the request is.
- The Worker's time checks are at most `EntryDelay` older than the object's: a
  grant may have expired on the way.

### Assumptions on the constants

`GrantsAssumption` is what `authorizeSubscription` lets through.  `TimesAssumption`
includes `MAX_GRANT_LIFETIME + EntryDelay <= REVOCATION_TTL`: the code keeps a
revocation for one hour longer than a grant lives (host-channel.ts:16-17), and that
hour is what `RevokedNeverLive` needs.  `LeaseAssumption` says that a delivery
record (48 h, host-channel.ts:14) outlives the rate window and the lease (60 s each)
and the longest call to a provider; `AlarmCovers` needs it.

### Runs

| Run | Instance | Checks |
|---|---|---|
| `Rotate` | one phone, two grants for one turn (the second with a new token), 4 requests, grants and the revocation record expire within the run | `TypeOK IndexSound GrantOnce RevokedNeverLive` |
| `Peers` | two phones with one token, two event handlers, the alarm, cap of one unseen revocation; nothing crashes | `AlarmCovers NoSendAfterRevoke` |
| `Live` | one phone, one event, requests within the first second, one crash between any two writes, blocking, bounded alarm delay | `AlarmCovers RetryingHasRetry RetriesSettle BecomesEmpty` |
| `Duplicate` | two phones, one event, two handlers | `NoConcurrentSend`, a statement of the service's README, violated (see below) |

Why the bounds are enough: each property speaks of at most two subscriptions, two
handlers and one delivery; four requests allow register, rotate or report, revoke
or unsubscribe, and register again.  `NoSendAfterRevoke` is about a list of which one
element is at the provider while the other waits, so it is checked in `Peers`, where
both handlers' lists have two; a crash only shortens lists.  The exceptions for crashes
are checked in `Live`: one crash is enough to reach each of its places, and
`BecomesEmpty` shows what is left of it.  In `Peers` nothing crashes, so `AlarmCovers`
is checked there without its exception.  `MAX_DELIVERY_ATTEMPTS = 2` distinguishes the
first, the last and a middle attempt; `MAX_UNSEEN_REVOCATIONS = 1` reaches the cap.
`Horizon` ends the requests, `MaxTime` the clock; in `Live` the clock runs long
enough after the last request for everything to expire.  Deadlock is not checked:
an object that is idle after the last request, or at `MaxTime`, is a legal end.

What a crash leaves behind, and the properties except:

- A record whose `ensureAlarm` did not run (`unarmed`) is covered again by the next
  cleanup, which finds every record (host-channel.ts:457-484).  Without another alarm
  it waits for the next request: `BecomesEmpty` has it as its second case.
- `removeSubscription` deletes the retries and then finalizes their deliveries
  (host-channel.ts:308-309).  A crash in between leaves a delivery that is recorded as
  retrying and never is (`torn`), until the record expires.

`FairSpec` assumes that the runtime continues admitted handlers, that the provider
call returns or throws, that a due alarm is run, and that time passes.  It does not
assume that anybody sends requests or that the provider ever accepts.  `Live`
bounds the wait of a due alarm (`AlarmDelay`) so that its clock is long enough; the
safety runs leave it unbounded.

### Where code and documentation differ

`services/push-proxy/README.md`, *Delivery semantics*, states three things the code
does not keep; all are harmless duplicates or retries for the user, since the
device merges alerts of a turn.

- `Duplicate`: "A concurrent duplicate report sees it and does not send."  Two
  concurrent reports of one event with two matches: the second handler reads the
  records while the first sends match one, and both later send match two.
- (no run) "Once it is `sent`, later reports ... return `duplicate`."  A send that
  outlasts its 60 s lease (the OAuth exchange in fcm.ts:40 has no timeout) is sent
  again by the alarm; its late answer overwrites `sent` (host-channel.ts:399).
- (no run) "at most 8 attempts, then `failed`."  The limit is applied to a retryable
  answer only (host-channel.ts:388); a lease left by the eighth attempt is sent again.

### Proofs

`HostChannelProofs` proves `Spec => []TypeOK` (`TypeCorrect`), one lemma per action.
`TypeOK` is inductive as it stands.  Its interesting parts are that the alarm is
re-armed with a time (the set of wake-ups has a minimum: `EarliestExists`), and
that every window of a rate bucket is a sequence again.

`HostChannelSafety` proves the three safety statements of `Rotate` beside `TypeOK`, and
`NoSendAfterRevoke`.  `StepKinds` sorts the steps into those that register a
subscription, those that revoke, the cleanup, and the quiet ones that only remove
subscriptions or leave them alone, each also cut short; each invariant then has one argument per kind.  None of them is inductive alone:

| Theorem | Property | What the invariant adds |
|---|---|---|
| `GrantsUsedOnce` | `GrantOnce` | `GrantRemembered`: a grant that has a subscription is in `used` or has expired, although the cleanup forgets it |
| `RevokedGrantsGone` | `RevokedNeverLive` | `PointRemembered`: the stored revocation point is the latest one, or that one is so old that every grant before it has expired.  `TimesAssumption` is used here, the hour the code adds |
| `RevokedGrantsSilent` | `NoSendAfterRevoke` | the previous one, and that a send begins only after the subscription was read again |
| `IndexAlwaysSound` | `IndexSound` | `OriginKnown`: an id in use has an origin, so an id drawn for a new subscription is in no index entry |

`HostChannelAlarm` proves `AlarmCovers` (`AlarmNeverMisses`) and `RetryingHasRetry`
(`RetryingAlwaysPending`), with the exceptions named above.  A delivery record is written with the expiry `now + 48 h`
but without a call of `ensureAlarm` of its own (host-channel.ts:374, 399, 406): the
alarm covers it only because something else does.  `AlarmInv` names what that is:

- `GateHeld`: a handler that holds the input gate is the only one to move, and the
  alarm handler runs exactly while `fired` remembers what the alarm was set for; what
  it writes is covered by `fired`.
- `SendsRecorded`: a delivery at the provider has a record that is covered, has not
  expired before the send ends and is no later than the one the answer writes.  So
  the answer's record is covered by what covered the lease's, even when the alarm
  handler has cleaned up in between.
- A request's records are covered by the alarm of its own admission (`AdmitArms`).

Every step of a request or of a handler is an `ArmedStep`: the clock stands, the alarm
only moves earlier (in a crash: an unfinished alarm handler is owed again, or the object
is `unarmed`), and each record is old or covered where the alarm is now.  The
alarm's firing, the cleanup (which takes the minimum of what is left), the restart and
the clock have a lemma each.

Liveness (`RetriesSettle`, `BecomesEmpty`) and everything that needs ENABLED stays
with TLC.

## 4. SlingshotStream

### State and actions

| TLA+ | Code (`codex-slingshot/src/stream.rs`) |
|---|---|
| `written shutdown` | what the owner put into the command channel: lines, then `OutboundCommand::Shutdown` (`shutdown_sent`) |
| `pc left` | where `control_loop` is: asleep before a connection, in `replay_unacked_wire`, in its `select!`, in the `for` loop of `handle_outbound_bytes_wire`, returned; the envelopes the running `for` loop has still to send |
| `nextSeq queue cursor assembly` | `next_sequence_id`, `wire_replay_queue`, `current_subscribe_cursor`, `chunk_assemblies` |
| `delivered` | the lines given to `inbound_tx` |
| `link net inbound links` | the websocket: up, dead without anybody having noticed, or none; what is on its way; how many there were |
| `last parts gone feedPos` | the relay (external) |
| `accepted lost` | history: messages processed, messages given up |

`Connect` is the head of the outer loop, `Replay` / `ReplayFails` / `Replayed` the
replay.  The `select!` branches are `Take` or `Refuse` (a line that can, or cannot, be
split), `Finish` (shutdown), `ReceiveAck` and `ReceivePart` (an envelope), and `Leave`
(every other way out of the inner loop: ping, pong deadline, close frame, error,
end).  After `Take` each envelope is a `Send` or the one `SendFails`.  `Abort` is
`Drop`, at any await.  `Cut` kills the connection; the frames given to the socket
after that are accepted and lost, until a send fails or the loop leaves.

### Abstractions

- A message is its number: line *i* gets `seq_id` *i*, also a line that is refused
  (`allocate_sequence_id` comes before the split).  Size is the number of segments,
  `Chunks`, 0 for a line that `split_client_wire_envelope_for_transport` refuses.
- A line and its newline are one write: the line buffer lives outside the outer loop,
  so where a connection ends between them makes no difference.
- The replay queue is a set, ordered by number and segment: `push_back` appends in
  that order and `retain` keeps it.
- Lines that are not JSON objects are left out: the one writer, `JsonLineWire`,
  serialises JSON-RPC messages.
- The relay's cursor is a position in its feed; each of its envelopes carries one.
- Ping and pong have no state of their own: their outcome is `Leave`.
- Left out: the HTTP functions (`send_envelope`, `replay_queue`, ...), which nothing
  in `control_loop` calls, and an envelope whose fields are out of range.

The relay is not in the repository.  It is taken to drop an envelope whose number it
has passed, to process a message once it has all its segments (in any number of
connections), to acknowledge the highest number processed, to resume its feed after
the client's cursor, and to read nothing more from a connection that the client has
left.  Gaps in the numbers are accepted.  Its own feed holds each segment once, one
message after the other (`FeedOrderAssumption`).

### Runs

| Run | Instance | Checks |
|---|---|---|
| `Reconnect` | four lines (one segment, two segments, refused, one segment); a relay feed of two two-segment messages, the second with a wrong size; shutdown and abort anywhere | `TypeOK NothingForgotten CloseIsLast ReaderMatchesCursor ImplementsChannel Arrives QueueDrains` |
| `Torn` | two lines, the first in two segments | `ReplaysWholeMessages`, violated |

Why the bounds are enough: loss and reordering concern two messages, of which one is
in several segments, on either side of a failure.  `MaxLinks = 3` allows two failures
wherever they fall, the second one during the replay that the first made necessary;
from the third connection on the network stays up, as the liveness properties
require, and only a refused line or a garbled message ends a connection.
`MaxInbound = 1` still lets an acknowledgement
wait at the client while the relay processes more: it is then out of date when
used.  Deadlock is not checked: a stream that is closed, or idle with nothing to
write, is a legal end.

`FairSpec` assumes that the task is scheduled, that a socket call returns or fails,
that a dead connection is noticed in the end (the 60 s pong deadline, or a failing
send), that no branch of `select!` starves (it polls them in random order), and that
the relay reads, feeds and acknowledges.  It does not assume that anybody writes,
shuts down or drops the stream.

### The abstract channel

`MessageChannel` says what the owner may rely on: messages are processed in the order
of writing, each at most once, and only a message in `Fragile` is ever skipped.
`Channel` maps `written`, `accepted` and `lost` to it, with `Fragile` the messages
that are not sent in one piece.  `Fragile` is not empty because of the next section.

### Where code and comment differ

`Torn`: `handle_outbound_bytes_wire` queues a segment and sends it, then the next.
When a send fails, the segments after it were never queued, and the line has been
drained from the buffer.  The reconnect replays the first segments only, and the
message is lost although the connection recovers; its writer sees no error.  Queuing
all segments before the first send would remove this.

### Proofs

`SlingshotStreamProofs` proves `TypeOK`, `NothingForgotten`, `CloseIsLast` and
`ImplementsChannel` from one inductive invariant, `Inv`, for every sequence of lines
and every feed, with no bound on the connections but `MaxLinks` itself.  Its parts:

- `Numbering`: whatever is queued, on the wire or at the relay has a number that has
  been given out; a refused line counts as lost.
- `LoopState`: what a running replay has left is in the queue; what a running
  hand-over has left is in none of queue, wire and relay.
- `RelayState`: everything up to `last` is settled, acknowledgements under way do not
  exceed it, and a message that was given up lacks a segment that is nowhere.
- `NetOrdered`: in front of an envelope the wire carries whatever the relay lacks of
  earlier messages.  This is the heart of the order property.
- `LinkCovers`: on a live connection, every queued envelope has been put on the wire,
  or is still to be replayed.  It is what makes `NetOrdered` survive a reconnect.
- `CloseState`: `client_closed` is behind every line.

One lemma per action shows that it keeps `Inv`; the refinement then follows action by
action: `RelayProcesses` is `Accept`, `Refuse` and `SendFails` are `Lose` or a
stutter, `Write` is `Write`, and the others stutter.

The last part proves `ReaderMatchesCursor` (`StreamReadsInOrder`) for every feed
that satisfies `FeedOrderAssumption`.  What the reader has got says nothing about what
comes next, so its invariant `ReaderInv` adds two parts: `NoGap`, what is under way
follows the cursor without a gap, because a cut loses a suffix and a new connection
resumes at the cursor; and `AssemblyMatches`, the assemblies hold exactly the segments
up to the cursor whose message is not whole there.  `PartTaken` puts them together: the
next part either extends an assembly or makes its message whole, and that message is
later than all that were whole before.

The two liveness properties, `Arrives` and `QueueDrains`, stay with TLC.

## 5. PushManager

### State and actions

| TLA+ | Code (`codex-mobile-client/src/push/manager.rs`, `mod.rs`) |
|---|---|
| `registration urlKnown hosts turns nextAttempt revokedAt` | `PushState`: the registration, whether a Worker URL is known, the host records, an entry per turn, the attempt counter, the second of the last direct revoke per server |
| `snapshot` | the store's active turns as a caller read them, before it took the lock |
| `runner` | per server and slot: a spawned task, its place in `run_jobs` and its grant |
| `now` | the clock, in seconds |
| `phase held revokeSent` | outside: how far each turn is, the subscription its host holds, the last revocation sent to the Worker |
| `undone overtaken` | history: subscriptions a host was asked to drop in vain; servers whose lock a later task took before an earlier one |

Each entry point of `PushState` is one action and spawns one task per server:
`TurnStarted` (`TurnMissed` when the store does not know the thread),
`TurnCompleted`, `AppEnteredBackground`, `SetRegistration`, `ClearRegistration`,
`PruneOnly`, `RecordHost`, `ServerRemoved`.  Three of them use active turns that were
read before (`ReadActive`).  A task takes the server's lock (`Acquire`) and runs its
jobs in order: `SubscribeStart` or `SubscribeSkip` (first lock of the state),
`SubscribeSign` or `SubscribeUnsigned`, `HostSubscribe` (the host applies the call or
not, the answer arrives or not), `SubscribeResult` (`apply_attempt_result`);
`UnsubscribeTurn`, `UnsubscribeAll`, `DirectRevoke`.  Outside, `TurnEnds`,
`HostExpires` and `Tick`.

### Abstractions

- The host keeps one subscription per turn and drops it when the turn ends or the
  grant expires; the Worker is only the second of the last revocation.  Both are
  external.
- Device keys, sealing and signing succeed or fail; a registration is a token.
- A batch of jobs is a set: its attempt numbers give its order (`NextJob`).
- A call takes the lock in the second in which it read the active turns.

### Run `Push`

One server, two turns, two tokens, a cap of one subscription, two tasks at a time,
two attempts, two seconds.  It checks `TypeOK HeldMatchesPhone SubscribedIsHeld
AttemptTokenCurrent PendingHasJob GrantOutlivesRevoke`.  Two tasks are what a race for
the lock needs, two tokens a rotation, two turns the order within a batch and the
cap; lifetimes of one second let everything expire in the run.  No fairness is
assumed: all six are invariants.  Turns and tokens are symmetric.  Deadlock is not
checked: all turns over and the clock at its bound is a legal end.

`SubscribedIsHeld` needs its exception: the order of batches is that of the lock's
queue, and two tasks may reach the lock in either order.  The comment at
manager.rs:8-11 promises the order within a batch only.

### Proofs

`PushManagerProofs` proves all six invariants of the run for every number of servers,
turns, tokens and tasks, from `LimitsAssumption`, `BoundsAssumption`,
`FiniteAssumption` (the counts and the orders of a batch need finite sets),
`NamesAssumption` and `NoEntryAssumption` (the value for "no entry" is neither an
entry nor a grant).  The inductive invariant `Inv` adds to the type:

- `Numbered`: every attempt number in use was given out, so the next one is fresh;
- `Once`: a subscribe is the job of one task;
- `Waits`: until its result is applied, the turn of a current attempt is Pending;
- `NobodyWaits`: without a registration no turn is Pending;
- `InFlight`: a current attempt that has been started carries the token registered
  now (every change of the token gives live turns a new attempt);
- `Mutex`: one task holds the lock of a server, which makes the second between
  signing and calling safe from a revocation;
- `Revokes`: `revokedAt` is at least `revokeSent`, unless that second has passed.

Steps are of three kinds: calls, steps of a task, quiet steps.  Each kind has one
argument per part.

`HeldMatchesPhone` speaks of a server at rest, so its invariant has to say what is
the case while tasks run.  `Follows`, proved on top of `Inv`, does:

- `HeldFollows`: a live subscription of a running turn agrees with the phone
  (`Good`), or a task that waits for the server or has its lock still carries a job
  that drops it (`Dropped`): a call that removes an entry or changes its token always
  queues such a job, and a task never loses one;
- `CallFollows`: the same of the grant in a call under way, where the job that drops
  it is in another task, since that one can only run after the call;
- `Unheard`: a host that answered Unsupported holds nothing until that is recorded;
- `Entries`: entries are planned no later than now, complete only when their turn is
  over, and are unsettled only on hosts with push.

At rest no task has a job, so what is left of `HeldFollows` is `HeldMatchesPhone`.

`SubscribedIsHeld` is the converse, and its enemy is an old job that runs late: a
dropped token's unsubscribe, a cleared registration's unsubscribe-all or an earlier
attempt's subscribe, any of which would take away or replace what the current attempt
(`Own`) has brought.  `Lasting` says of a server whose tasks took its lock in order
(`Reliable`):

- `Behind`: while the current attempt's subscribe is queued or running, every job that
  touches its turn is in the same batch and comes first there, or in a task that is
  earlier in the line for the lock, or in the one that has it.  A call that plans a
  new attempt spawns its jobs in one task, and at that moment all others are earlier;
- `Line`: a task that is not waiting has nobody before it.  With `Behind` and `Mutex`,
  the task that runs the current subscribe is alone with its turn (`Alone`);
- `Undisturbed`: so is a turn shown as Subscribed, since its subscribe was the last;
- `Present`: from the host's answer on (`Sent`), and not only once the phone has
  recorded it, the host has a grant that is no older than the entry; with the lifetime
  of the entry not over, the grant's is not over either;
- `Signed`: what the call under way carries is no older than the entry;
- `Begun`: nothing is planned for a turn that has not begun, so no host could have
  refused to keep a subscription for that reason.

The exception for overtaken servers is used once, where a task takes the lock and the
invariant needs that nobody was before it.

## 6. FollowUps

### State and actions

| TLA+ | Code (`codex-mobile-client`) |
|---|---|
| `active drafts dispatch` | the thread in the store: `active_turn_id`, `queued_follow_up_drafts`, `queued_follow_up_dispatch` |
| `user` | how far `start_turn` is with each message |
| `pipe lag paginated` | events on their way to the store listener, `LagRecoveryState`, `supports_turn_pagination` |
| `requests worker answers` | the runtime worker with its one retry (`session/connection.rs`), what waits for it, what it answered |
| `link sub wire turns running` | external: connection, subscription, events on the way, turns |
| `taken released doubtful displaced stranded unrefreshed` | history |

The user: `UserSends` (reads the thread), then `UserQueues`, `UserInjects` or
`UserStarts`; `UserSteers`, `UserDeletes`.  The listener: `Listen` applies a
TurnStarted, a user message or a TurnCompleted, which claims the next draft; `Lag`,
`LagRecover`, `LagIdle`.  The answers: `AutoSent`, `AutoRejected`, `AutoUnconfirmed`,
`Injected`, `Resumed`, `Probed`, `RefreshFails`.  The worker: `Take`, `Reply`,
`Forward`, `ReconnectIdle`, `ReconnectRetry`, `GiveUp`, `ReconnectFails`,
`NobodyTakes`.  The rest is the server, which may reject any message, and the network.

### Runs

`FollowUps`: two messages, and three turns, or two turns and a fault (a cut, a lag, a
repeated completion); one event in the pipe.  The first turn is somebody else's, so
three turns are one for each message.  It checks `TypeOK QueueKept SentOnce QueueMoves
NoJam NoGhostTurn`; no fairness, messages symmetric.  `QueueMoves` and `NoJam` are
invariants about states at rest: nothing that is under way could still help there.
Deadlock is not checked: a thread whose turns are used up is a legal end.

The exceptions the properties make are observations about the code:

- A completion that is lost leaves the queue standing until another turn ends: a
  refresh clears the active turn and claims nothing (`stranded`).
- An autosend whose request was lost with its connection may have been taken; the
  retry, or the next completion, sends it again (`doubtful`; reducer.rs:944-949).
- A draft that is steered while its autosend is unanswered is sent twice (`doubtful`).
- A steered draft leaves the queue when a turn completes, also when its steer failed
  (mod.rs:3345); the user released it, so no property speaks of it.
- On a server without turn pagination an older TurnStarted that is applied after a
  refresh leaves a turn that has ended (`NoGhostTurn` asks for pagination).

`Displaced`, violated, one message: `dequeue_dispatched_follow_up` is called when any
turn starts (reducer.rs:3638).  A turn of another client starts while an autosend is
unanswered; the draft leaves the queue; the server then rejects the autosend, and
the release finds no draft to retry.  `QueueKept` in the first run is the same
statement with exactly this case excepted.

The queue is a set of drafts, each with its place (`at`): a draft is queued behind the
last one, as `push` does, and `First` is the one a completion claims.  Left out: more
than one thread, and with it the cap of a lag recovery pass.

### Proofs

`FollowUpsProofs` proves, for every set of messages and every bound, from the
assumptions `NamesAssumption`, `BoundsAssumption` and `NoneAssumption` (`None` is not a
message, a request or a dispatch; the bounds are at least 1):

- `FollowUpsTypes` (`TypeOK`), from `Sound`: the types, the kinds of request each place
  may hold (`Shape`), and that an event names only a message the server has taken
  (`Streams`).
- `QueueAlwaysKept` (`QueueKept`), from `Kept`: an answer of success means that the
  server took the message (`Confirmed`), and a draft a completion may drop was released
  by the user (`Steered`).
- `NeverJams` (`NoJam`), from `Coming`: a dispatch that awaits its answer has an
  autosend on its way.
- `AlwaysSentOnce` (`SentOnce`), from `Once`: a message that is not doubtful is on its
  way in one place only; as long as a request for it is unserved the server has not
  taken it; and a draft that can be claimed is not on its way, or is the one dispatch
  that is awaited.
- `QueueAlwaysMoves` (`QueueMoves`), from `Moving`.  It speaks of `Stream`, the events
  that have been read and those on the wire as one sequence: they are in the order in
  which the server emits them, and the last dispatch was claimed at a completion before
  them (`Orderly`).  A dispatch that awaits an answer has that answer's failure, or an
  event that begins a turn, on its way (`Announced`).  Unless a turn runs, an autosend
  is unsettled or a loss was noted, the stream ends with a completion (`Closed`), and
  while there is a turn to end or a draft to claim the stream is not empty and its
  completion is later than the one of the last claim (`Owed`), so that the claim is not
  refused as a repetition.  `Derives` is what a loss or a repetition does to a stream,
  with its lemmas on `\o`, `Tail` and `SubSeq`.
- `NeverAGhostTurn` (`NoGhostTurn`), from `Seeing`: as long as a connection is dead, lacks
  its subscription or has lost events, a refresh is on its way whose probe has yet to
  reach the server (`ToProbe`, `Subbed`); what a live connection still carries ends with
  the end of the turn (`Wired`); and once no turn runs and nothing is left to probe,
  each turn that is shown and that no event will end has a probe answer that clears
  it (`Probing`).

## 7. Sessions

### State and actions

| TLA+ | Code (`session/connection.rs`, `mobile_client/mod.rs`, `event_loop.rs`) |
|---|---|
| `path made current connecting closed` | how the server is reached; the connects so far, the session in the map, those between replacing and attaching, those told to shut down |
| `health unseen` | the watch channel a session's workers share, and whether its reader has seen the last write |
| `worker link subscribed` | per session and runtime: where `run_remote_worker` is, and its connection; the sessions whose connection has the thread |
| `reader events shown` | the health reader, its reports on their way, the server's health in the store |
| `stored marker resubs call` | the thread in the store, its direct-resume marker, resubscriptions spawned, requests |
| `said missed late overlapped` | history |

`Connect` replaces the session unless `Reusable`; `Attach` or `ConnectFails` ends it;
`Disconnect`.  `ReaderStart` and `ReaderWakes` report health, `Apply` brings a report to
the store.  `Open` and `Resubscribe` send a resume, `Answer` is its caller.  The worker:
`Take`, `Serve`, `Break` with `Retried`, `RetryFails` and `BreakAgain`; between requests
`Notice` with `Revived` and `GivesUp`; `Stop`.  `Cut` is the network.

### Abstractions

- Replacing a session, and attaching one, is one step each; the detached task of a
  disconnect is part of it.  Two connects overlap all the same (`connecting`).
- A reader's wake-up and the look it takes are one step; all attempts of one
  reconnect are one.
- Requests go to `Main` and stand for thread/resume; a server's error or a missing
  runtime is "refused".  The marker always suppresses the resume.
- What workers of a closed session write to its health is read by nobody.
- Left out: in-process sessions, the SSH and Slingshot connects and their progress,
  account warm-up, port forwards, Notify, Resolve and Reject, lag of the UI's events.

### Run `Session`

Two runtimes, two requests at a time, two connects; connects, cuts, opens and one
overlap together at most four over a WebSocket and three over Alleycat.  That is
enough for a session to be replaced while a request of it is unanswered and a
connection is lost.  It checks `TypeOK HealthSettles StoreCatchesUp ConnectedPill
MarkerMeansSubscribed NoLeak`.  Requests are symmetric.  (A disconnect is always
possible, so the run says nothing about deadlocks.)

The exceptions the properties make are observations about the code:

- The watch channel keeps the last value: a reader that sees Connected before and
  after a loss does not resubscribe (`missed`; event_loop.rs:188-191).
- An answer to a resume sets the marker although its connection is gone (`late`;
  mod.rs:2672).
- Two connects at once leave the first one's session running, and its marker
  (`overlapped`).
- A transport error of a request made through a replaced session marks the new one's
  server Disconnected; a connect then reuses the session and writes nothing
  (`said.by = "answer"`).
- The workers share one health value: one runtime's reconnect says Connected while
  another's worker has ended, or the reverse (connection.rs:1247); `HealthSettles`
  therefore says *some* runtime.
- A WebSocket connect that replaces a session and fails leaves the store Connected
  until the next probe, and a report of the old session's reader may be applied after
  that (`ConnectedPill`).

### Proofs

`SessionsProofs` proves, for every set of runtimes, every bound and every number of
requests: `Typing` (the types the other proofs look up), `HealthSettles`
(`HealthAlwaysSettles`: before things settle, each value of the health has a worker
that justifies it, Connecting one that is reconnecting, Disconnected one that has
ended or has yet to notice that its connection is gone), `NoLeak`
(`NothingLeaks`: while connects do not overlap, at most one connect is under way and
none while a session is in the map) and `StoreCatchesUp` (`StoreAlwaysCatchesUp`: if the
store and the current session differ, then the reader has a wake-up or a report under
way).

Its second part proves the other three:

- `TypeOK` (`TypesHold`).  Its last part, that a worker handles the one request it
  took, is `OneAtATime`: a request leaves "sent" with the worker's step that answers
  it, and a session that is being attached has no request yet.
- `ConnectedPill` (`ConnectedMeansConnected`): `PillInv` keeps for each Connected in
  the store who said it and about which session; with `CatchInv` of `SessionsProofs`
  that is the session's health once things are at rest.
- `MarkerMeansSubscribed` (`MarkerAlwaysMeansSubscribed`): while the marker is set and
  its connection may have lost the subscription, somebody will still clear it: the
  reader has not seen the loss, or has seen the session down (`prev`), or has spawned
  the resubscribe (`Watched`).  It rests on what the reader remembers (`Remembers`),
  on an answer that is not old coming from a subscribed or a closed session
  (`Answers`), and on the current session never being closed (`Shutdowns`).

All six properties of the run `Session` are therefore proved.

## 8. Timeline

### State and actions

| TLA+ | Code |
|---|---|
| `script made paged` | external: what the server does, how much of it somebody has heard of, `supports_turn_pagination` |
| `seen todo` | the store listener: events applied, and the broadcast it has still to make |
| `store cache` | the thread in the store (`store/reducer.rs`) and what was broadcast last of each item |
| `due refresh` | a refresh somebody has to make, and the running one (`mobile_client/mod.rs`, `store_listener.rs`, `store/reconcile.rs`) |
| `bus lagged` | the subscription (`ffi/app_store.rs`): the broadcast channel and its lag |
| `ui batch pulls` | the iOS view model (`AppModel*.swift`): its copy, the updates that wait for a flush, its reads of the store |
| `missed raced silent odd` | history |

`Apply` is `apply_ui_event` up to the release of the lock, by kind (`ApplyItem`,
`ApplyDelta`, `ApplyHeader`), and `Emit` the broadcast that follows it.  `Lose` drops
events (a lag, a cut).  A refresh is `RefreshStarts`, `ServerAnswers`, `RefreshReads`,
`RefreshWrites`, `RefreshEmits` for each of its requests (resume, probe, page), and
`RefreshEnds`.  The subscription and the view model are `ReceiveLagged` and `Receive`
(coalescing in `Run`, `Merge`, `Swallows`; then `HandleDelta`, `HandleCell`,
`HandleUpsert`), `Reload`, `PullReads`, `PullApplies` and `Flush`.

### Abstractions

- The server makes an event when it is first heard of; an answer is at most
  `MaxAhead` events ahead of the listener.  Its turns show completed items only.
- Text is the sequence of its deltas.  Agent messages and commands stand for the
  kinds of item; phase and whitespace, order of items, session summaries, the 128 KB
  limit and the pruning of replayed spans are left out.
- One turn, one refresh at a time, and its requests succeed; one read of the view
  model beside its loop.  A broadcast's read of the store and its send are one step.
- The update the subscription holds back counts as part of the channel.
- Android's view model does not batch; its behaviours are those in which every flush
  comes at once.

### Runs

`Timeline`: three scripts of five events (a command with two pieces of output; an
interrupted turn with a two-part message; a command heard of when it is over, a plan
and a short message), with and without pagination, a channel of two, one fault (a
loss, an unneeded refresh, a reload) anywhere.  It checks `TypeOK RecoveryRepairs
CopyAgrees`.  A channel of two lags as soon as the view model waits; the deltas, the
completion and the end of one item are all the orders the code tells apart.
Simulation with three faults and a channel of three found nothing further.  Deadlock
is not checked: a screen that is up to date is a legal end.

The exceptions of the two properties are observations about the code:

- A read of the store while deltas are still in the channel contains their text, and
  they are appended to it; the completed item that would repair it equals the last
  broadcast and is not sent (`crossed`).
- A value the view model has read is applied after newer updates; a batched item or
  header is flushed after a newer read or a newer direct change (`odd`).
- Output of a command in the store that is not a prefix of the completed output is
  replaced without a broadcast (`silent`; `classify_item_mutation`, reducer.rs).
- A change and its broadcast may have another writer's upsert between them
  (`fresh`, `mixed`), and a refresh may put back a value older than an event
  (`raced`).
- While the turn is active a message that is longer on the screen stays
  (`preserveStreamingText`).

`Recovery`, violated: on a server with pagination a resume excludes turns and the
probe lists them without items; a page is loaded only if the probe ends the active
turn (mod.rs:2999), and it leaves out items of a turn the store knows in part.  A
command whose events were lost while its turn goes on is never loaded, against the
recovery's own comment (store_listener.rs:104-108).  `RecoveryRepairs` is the same
statement without the items of which events were lost on such a server.

### Assumptions on the constants

`ScriptAssumption` is what the listener relies on: `turn/plan/updated` and
`turn/completed` are about the thread and every other event about an item, and an
item has no event after its `item/completed`.  `StartAssumption`, used for
`CopyAgrees` only: of the items only commands have an `item/started` (the listener
turns a message that starts empty into nothing), and each has one.  Scripts may have
any length and any order of events beyond that.  `AbsentAssumption` and
`NamesAssumption` keep the value for "not there" and the thread's name apart from
everything else.

### Proofs

`TimelineProofs` proves `TypeOK` (`AlwaysTyped`), `RecoveryRepairs`
(`RecoveryAlwaysRepairs`) and `CopyAgrees` (`CopyAlwaysAgrees`) for any items,
scripts, capacity and number of faults.

`Types` is what makes `TypeOK` inductive: a message of the subscription has the
fields of its kind, an answer has the cells of its stage (`Holds`), and a run of
deltas that became one update is a run of one item (`RunIsRun`, `RunOfDeltas`).

`RecoveryRepairs` speaks of rest; `Mended` says what is true on the way there:

- `Kept`: an item whose completion the listener passed is whole in the store, unless
  an event of it was lost or a refresh raced it.
- `Answered`: an answer has what the listener had passed when it was given, and
  still has it for every cell no event crossed since.
- `Copied`: so has the thread that is about to be written.
- `Whole`: without pagination a lost item is in the store, or a refresh is due, or
  the running one has an answer.
- `EndsOnly`: store, answer and copy show no end of a turn the server has not made.
- `Stopped`: once the listener has passed the end the store shows it, or a refresh
  is due, or the running one has still to ask for the turn or to write its answer
  (`Pending`).

The step that carries the proof is `RefreshWrites`: what it writes is the copy for a
cell that nothing crossed, and a cell that was crossed counts as `raced` unless the
value happens to be right.  An event that crosses a request before its answer is
given does no harm, because the answer is then newer.

`CopyAgrees` speaks of rest, too; `Follows` says what connects the copy with the store
while broadcasts are on their way.  It has two parts.

`Paths`: for each cell there is a chain of values, one before and one after each
message in the channel (`Chain`).  A message about another cell keeps the value, a
run of deltas appends its text, an upsert or a fresh cell sets it; a message that
another writer overtook (`fresh`, `mixed`) makes no claim about what follows it.  The
chain begins with what the user sees or will after the flush (`Held`), or with the
thread that the one read under way has brought (`Begins`).  It claims nothing while a
lag or a read is pending or the cell is in `odd`.  It ends with the store's value,
but for the delta the listener has still to send, unless a whole value has still to be
sent (`Ends`, `Waits`).  A push prolongs the chain (`AppendChain`; `ShiftChain` when a
full channel loses its oldest message), receiving shortens it (`DropChain`), and a
read restarts it with the store's value (`ReadChain`), which is why deltas that are
still in the channel must not be in that value (`crossed`).

`Remembers`: the broadcasts that the store does not repeat are no news.  The cache is
what the store has or older (`Cached`), so a completed item that equals it
leaves the store as it was (`NotHeldBack`).  That needs how the values came about:
`Knows` counts the pieces of a message and says that a named command has been started
and a finished one completed, `Carries` that an item on its way is one of the two.
`StartAssumption` is used there: a command that starts again would be what the cache
has, and its reset would not be broadcast.

## 9. Not modelled

`PROJECT.json` has the whole table of components.  The reasons, in short:

- **RateLimiter** checks and writes one window without an await in between, so
  nothing interleaves; its alarm is pushed back by every request (rate-limiter.ts:22),
  which only delays the cleanup.  **PushRegistration** is the interface HostChannel
  replaces: its one hazard is that the alarm writes back the record it read before
  the provider call (durable-object.ts:94).
- **codex-ipc** serves the command-line debugger only.
- **Reconnect planning** chooses among transports by saved fields; the connects it
  leads to are in Sessions.
- **Voice hand-off** is a queue whose decisions depend on the realtime API, which is
  not in the repository.
- The rest of the **application store** (approvals, user input, overlays, terminals,
  saved apps) has one writer per field or is a value per event.
- **Desktop app**, **content reports**, **kittylitter**, the **mobile user interfaces**,
  **signing and sealing**, parsing and third-party code are operating-system I/O,
  stateless handlers, presentation or pure conversions.

Some places where the code can surprise have no property and are not in the hazard
list: the body of a forwarded request is read after its admission
(host-channel.ts:165); the cap on unseen revocations counts every record
(host-channel.ts:273); invalid_token of an old token ends a record after a rotation
(host-channel.ts:409); a direct revoke that the Worker does not answer is only logged
(`run_direct_revoke`, push/manager.rs).

Everything temporal beyond invariants and action properties (liveness under fairness)
is checked by TLC only; so are the values of recursive data, which the prover cannot
induct over.
