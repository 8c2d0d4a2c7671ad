-------------------------- MODULE PushManagerProofs --------------------------
(***************************************************************************)
(* Proofs about PushManager, for every number of servers, turns, tokens,   *)
(* tasks and attempts, and for every lifetime and cap.                     *)
(***************************************************************************)
EXTENDS PushManager, FiniteSetTheorems, TLAPS

LEMMA SlotsOrdered ==
  ASSUME NEW S \in SUBSET Slots, S # {}
  PROVE  \E k \in S : \A j \in S : ~(j < k)
<1>1. IsWellFoundedOn(OpToRel(<, Nat), Nat) /\ S \subseteq Nat
  BY NatLessThanWellFounded, BoundsAssumption
<1>2. PICK k \in S : \A j \in S : ~(<<j, k>> \in OpToRel(<, Nat))
  BY <1>1, WFMin
<1>3. ASSUME NEW j \in S PROVE ~(j < k)
  BY <1>1, <1>2 DEF OpToRel
<1> QED
  BY <1>3

LEMMA Finite ==
  ASSUME NEW S \in SUBSET TurnKeys
  PROVE  Cardinality(S) \in Nat
<1>1. IsFiniteSet(TurnKeys)
  BY FiniteAssumption, FS_Product DEF TurnKeys
<1> QED
  BY <1>1, FS_Subset, FS_CardinalityType

-----------------------------------------------------------------------------
(* The inductive invariant of the jobs and the entries.                    *)

Signing == {"sign", "call", "answer"}
OfTurn(j) == j.kind \in {"subscribe", "unsubscribe"}
Matches(j) == turns[j.turn] # None /\ turns[j.turn].attempt = j.attempt
\* The jobs that take the subscription of a turn from its host.
Drops(j, t) == j.kind = "all" \/ (j.kind = "unsubscribe" /\ j.turn = t)

\* Attempt numbers are fresh when they are given out.
Numbered ==
    /\ \A t \in TurnKeys : turns[t] # None => turns[t].attempt <= nextAttempt
    /\ \A s \in Servers, k \in Slots : \A j \in runner[s][k].jobs :
          OfTurn(j) => /\ j.turn \in TurnKeys /\ j.turn[1] = s /\ j.url = FALSE
                       /\ j.attempt <= nextAttempt

\* A subscribe is the job of one task.
Once ==
    \A s \in Servers, k, l \in Slots :
        \A i \in runner[s][k].jobs, j \in runner[s][l].jobs :
            /\ i.kind = "subscribe" /\ j.kind = "subscribe"
            /\ i.turn = j.turn /\ i.attempt = j.attempt
            => k = l

\* Until it has its answer, its turn is Pending.
Waits ==
    \A s \in Servers, k \in Slots : \A j \in runner[s][k].jobs :
        j.kind = "subscribe" /\ Matches(j) => turns[j.turn].status = "Pending"

Unsettled(t) ==
    turns[t] # None /\ turns[t].status = "Pending" /\ turns[t].completed = 0

NobodyWaits == registration = None => \A t \in TurnKeys : ~Unsettled(t)

Subscribing(s, k) ==
    /\ runner[s][k].grant \in Grant
    /\ \E j \in runner[s][k].jobs : NextJob(s, k, j) /\ j.kind = "subscribe"
    /\ \A j \in runner[s][k].jobs :
          j.kind = "subscribe" /\ Matches(j) /\ turns[j.turn].completed = 0
          => runner[s][k].grant.token = registration

InFlight ==
    \A s \in Servers, k \in Slots :
        /\ runner[s][k].pc = "idle" => runner[s][k].jobs = {}
        /\ runner[s][k].pc \in Signing => Subscribing(s, k)
        /\ runner[s][k].pc = "answer" => runner[s][k].outcome \in Status \ {"Pending"}

Mutex ==
    \A s \in Servers, j, k \in Slots : HasLock(s, j) /\ HasLock(s, k) => j = k

Revokes ==
    \A s \in Servers : /\ revokeSent[s] < now \/ revokeSent[s] <= revokedAt[s]
                       /\ revokeSent[s] <= now

Inv == /\ TypeOK /\ Numbered /\ Once /\ Waits /\ PendingHasJob /\ NobodyWaits
       /\ InFlight /\ Mutex /\ Revokes /\ GrantOutlivesRevoke

-----------------------------------------------------------------------------
(* The calls.  What they do to the turns and to the jobs, as far as the    *)
(* invariant goes.                                                         *)

\* An entry goes, stays (perhaps completed), or is planned anew.
Kept(t) == /\ turns[t] # None
           /\ turns'[t].attempt = turns[t].attempt
           /\ turns'[t].status = turns[t].status
           /\ turns'[t].completed = 0 => turns[t].completed = 0
New(t, jobs) == /\ turns'[t].attempt \in nextAttempt + 1 .. nextAttempt'
                /\ turns'[t].status = "Pending" =>
                      TurnJob("subscribe", t, turns'[t].attempt) \in jobs[t[1]]

Call(jobs) ==
    /\ turns' \in [TurnKeys -> Entry \cup {None}]
    /\ jobs \in [Servers -> SUBSET Job]
    /\ nextAttempt' \in Nat /\ nextAttempt <= nextAttempt'
    /\ \A t \in TurnKeys : turns'[t] = None \/ Kept(t) \/ New(t, jobs)
    /\ \A s \in Servers : \A j \in jobs[s] :
          OfTurn(j) => /\ j.turn \in TurnKeys /\ j.turn[1] = s /\ j.url = FALSE
                       /\ j.attempt \in nextAttempt + 1 .. nextAttempt'
                       /\ j.kind = "subscribe" /\ Matches(j)' =>
                             turns'[j.turn].status = "Pending"
    /\ registration' # registration =>
          \A t \in TurnKeys : Unsettled(t)' => New(t, jobs)
    /\ registration' = None =>
          \A t \in TurnKeys : turns'[t] # None => registration = None /\ Kept(t)
    /\ revokedAt' = PrunedRevokes \/ revokedAt' = revokedAt
    /\ Spawn(jobs)
    /\ now' = now /\ revokeSent' = revokeSent

LEMMA SpawnEffect ==
  ASSUME TypeOK, NEW jobs \in [Servers -> SUBSET Job], Spawn(jobs),
         NEW s \in Servers
  PROVE  /\ \A k \in Slots :
               \/ runner'[s][k] = runner[s][k]
               \/ /\ runner[s][k].pc = "idle"
                  /\ \A j \in Slots : j < k => runner[s][j].pc # "idle"
                  /\ runner'[s][k] = Task(s, jobs[s])
         /\ jobs[s] # {} => \E k \in Slots : /\ runner[s][k].pc = "idle"
                                             /\ runner'[s][k] = Task(s, jobs[s])
<1>1. \A k \in Slots :
         runner'[s][k] = IF jobs[s] # {} /\ FirstFree(s, k)
                         THEN Task(s, jobs[s]) ELSE runner[s][k]
  BY DEF Spawn
<1>2. ASSUME jobs[s] # {} PROVE \E k \in Slots : FirstFree(s, k)
  <2> DEFINE free == {k \in Slots : runner[s][k].pc = "idle"}
  <2>1. free # {} /\ free \subseteq Slots
    BY <1>2 DEF Spawn
  <2>2. PICK k \in free : \A j \in free : ~(j < k)
    BY <2>1, SlotsOrdered
  <2> QED
    BY <2>2 DEF FirstFree
<1> QED
  BY <1>1, <1>2 DEF FirstFree

LEMMA TaskShape ==
  ASSUME NEW s \in Servers, NEW J \in SUBSET Job
  PROVE  /\ Task(s, J) \in Runner
         /\ Task(s, J).pc = "wait" /\ Task(s, J).jobs = J
         /\ Task(s, J).grant = None /\ Task(s, J).outcome = None
BY DEF Task, Idle, Runner, Waiting

LEMMA CallJobs ==
  ASSUME Inv, NEW jobs, Call(jobs), NEW s \in Servers, NEW k \in Slots
  PROVE  \/ runner'[s][k] = runner[s][k]
         \/ /\ runner[s][k].pc = "idle" /\ runner[s][k].jobs = {}
            /\ runner'[s][k].pc = "wait" /\ runner'[s][k].jobs = jobs[s]
<1>1. TypeOK /\ jobs \in [Servers -> SUBSET Job] /\ Spawn(jobs)
  BY DEF Call, Inv
<1>2. \/ runner'[s][k] = runner[s][k]
      \/ runner[s][k].pc = "idle" /\ runner'[s][k] = Task(s, jobs[s])
  BY <1>1, SpawnEffect
<1>3. runner[s][k].pc = "idle" => runner[s][k].jobs = {}
  BY DEF Inv, InFlight
<1> QED
  BY <1>1, <1>2, <1>3, TaskShape

LEMMA CallRunner ==
  ASSUME Inv, NEW jobs, Call(jobs)
  PROVE  runner' \in [Servers -> [Slots -> Runner]]
<1>1. TypeOK /\ jobs \in [Servers -> SUBSET Job] /\ Spawn(jobs)
  BY DEF Call, Inv
<1>2. runner' = [s \in Servers |-> [k \in Slots |->
                     IF jobs[s] # {} /\ FirstFree(s, k)
                     THEN Task(s, jobs[s]) ELSE runner[s][k]]]
  BY <1>1 DEF Spawn
<1>3. \A s \in Servers : Task(s, jobs[s]) \in Runner
  BY <1>1, TaskShape
<1>4. runner \in [Servers -> [Slots -> Runner]]
  BY <1>1 DEF TypeOK
<1>5. \A s \in Servers : \A k \in Slots : runner'[s][k] \in Runner
  BY <1>2, <1>3, <1>4
<1> QED
  BY <1>2, <1>5

\* The job of a task there was before matches an entry only if it is kept.
LEMMA OldJobs ==
  ASSUME Inv, NEW jobs, Call(jobs), NEW s \in Servers, NEW k \in Slots,
         NEW j \in runner[s][k].jobs, OfTurn(j), Matches(j)'
  PROVE  Kept(j.turn) /\ Matches(j) /\ j.turn \in TurnKeys
<1>1. j.turn \in TurnKeys /\ j.attempt <= nextAttempt
  BY DEF Inv, Numbered
<1>2. turns'[j.turn] # None /\ turns'[j.turn].attempt = j.attempt
  BY DEF Matches
<1>3. nextAttempt \in Nat /\ j.attempt \in Nat
  BY DEF Inv, TypeOK, Runner, Job
<1>4. ~New(j.turn, jobs)
  BY <1>1, <1>2, <1>3 DEF New
<1>5. Kept(j.turn)
  BY <1>1, <1>2, <1>4 DEF Call
<1> QED
  BY <1>1, <1>2, <1>5 DEF Kept, Matches

LEMMA CallNumbered ==
  ASSUME Inv, NEW jobs, Call(jobs)
  PROVE  Numbered'
<1>1. nextAttempt \in Nat /\ nextAttempt' \in Nat /\ nextAttempt <= nextAttempt'
  BY DEF Inv, TypeOK, Call
<1>2. ASSUME NEW t \in TurnKeys, turns'[t] # None
      PROVE  turns'[t].attempt <= nextAttempt'
  <2>1. CASE Kept(t)
    <3>1. turns[t].attempt \in Nat /\ turns[t].attempt <= nextAttempt
      BY <2>1 DEF Kept, Inv, TypeOK, Entry, Numbered
    <3> QED
      BY <1>1, <2>1, <3>1 DEF Kept
  <2>2. CASE New(t, jobs)
    BY <1>1, <2>2 DEF New
  <2> QED
    BY <1>2, <2>1, <2>2 DEF Call
<1>3. ASSUME NEW s \in Servers, NEW k \in Slots, NEW j \in runner'[s][k].jobs,
             OfTurn(j)
      PROVE  /\ j.turn \in TurnKeys /\ j.turn[1] = s /\ j.url = FALSE
             /\ j.attempt <= nextAttempt'
  <2>1. CASE j \in jobs[s]
    BY <1>1, <1>3, <2>1 DEF Call
  <2>2. CASE j \in runner[s][k].jobs
    <3>1. j.attempt \in Nat
      BY <2>2 DEF Inv, TypeOK, Runner, Job
    <3> QED
      BY <1>1, <1>3, <2>2, <3>1 DEF Inv, Numbered
  <2>3. j \in jobs[s] \/ j \in runner[s][k].jobs
    BY <1>3, CallJobs
  <2> QED
    BY <2>1, <2>2, <2>3
<1> QED
  BY <1>2, <1>3 DEF Numbered, OfTurn

LEMMA CallOnce ==
  ASSUME Inv, NEW jobs, Call(jobs)
  PROVE  Once'
<1> SUFFICES ASSUME NEW s \in Servers, NEW k \in Slots, NEW l \in Slots,
                    NEW i \in runner'[s][k].jobs, NEW j \in runner'[s][l].jobs,
                    i.kind = "subscribe", j.kind = "subscribe",
                    i.turn = j.turn, i.attempt = j.attempt
             PROVE  k = l
  BY DEF Once
<1>1. TypeOK /\ jobs \in [Servers -> SUBSET Job] /\ Spawn(jobs) /\ nextAttempt \in Nat
  BY DEF Call, Inv, TypeOK
<1>2. \A m \in Slots : \/ runner'[s][m] = runner[s][m]
                       \/ /\ runner[s][m].pc = "idle"
                          /\ \A q \in Slots : q < m => runner[s][q].pc # "idle"
                          /\ runner'[s][m].jobs = jobs[s]
  BY <1>1, SpawnEffect, TaskShape
<1>3. \A m \in Slots : \A q \in runner[s][m].jobs :
         q.kind = "subscribe" => q.attempt \in Nat /\ q.attempt <= nextAttempt
  BY DEF Inv, TypeOK, Runner, Job, Numbered, OfTurn
<1>4. \A q \in jobs[s] : q.kind = "subscribe" => q.attempt \in Nat /\ nextAttempt < q.attempt
  BY <1>1 DEF Call, OfTurn, Job
<1>5. CASE runner'[s][k] = runner[s][k] /\ runner'[s][l] = runner[s][l]
  BY <1>5 DEF Inv, Once
<1>6. CASE runner'[s][k] = runner[s][k] /\ runner'[s][l].jobs = jobs[s]
  BY <1>1, <1>3, <1>4, <1>6
<1>7. CASE runner'[s][k].jobs = jobs[s] /\ runner'[s][l] = runner[s][l]
  BY <1>1, <1>3, <1>4, <1>7
<1>8. CASE /\ runner[s][k].pc = "idle" /\ runner[s][l].pc = "idle"
           /\ \A q \in Slots : q < k => runner[s][q].pc # "idle"
           /\ \A q \in Slots : q < l => runner[s][q].pc # "idle"
  BY <1>8, BoundsAssumption
<1> QED
  BY <1>2, <1>5, <1>6, <1>7, <1>8

LEMMA CallWaits ==
  ASSUME Inv, NEW jobs, Call(jobs)
  PROVE  Waits'
<1> SUFFICES ASSUME NEW s \in Servers, NEW k \in Slots, NEW j \in runner'[s][k].jobs,
                    j.kind = "subscribe", Matches(j)'
             PROVE  turns'[j.turn].status = "Pending"
  BY DEF Waits
<1>1. CASE j \in jobs[s]
  BY <1>1 DEF Call, OfTurn
<1>2. CASE j \in runner[s][k].jobs
  <2>1. Kept(j.turn) /\ Matches(j)
    BY <1>2, OldJobs DEF OfTurn
  <2> QED
    BY <1>2, <2>1 DEF Kept, Inv, Waits
<1> QED
  BY <1>1, <1>2, CallJobs

LEMMA CallPending ==
  ASSUME Inv, NEW jobs, Call(jobs)
  PROVE  PendingHasJob'
<1> SUFFICES ASSUME NEW t \in TurnKeys, Unsettled(t)'
             PROVE  \E k \in Slots : \E j \in runner'[t[1]][k].jobs :
                       /\ j.kind = "subscribe" /\ j.turn = t
                       /\ j.attempt = turns'[t].attempt
  BY DEF PendingHasJob, Unsettled
<1>1. t[1] \in Servers
  BY DEF TurnKeys
<1>2. CASE Kept(t)
  <2>1. Unsettled(t) /\ turns'[t].attempt = turns[t].attempt
    BY <1>2 DEF Kept, Unsettled
  <2>2. PICK k \in Slots : \E j \in runner[t[1]][k].jobs :
               j.kind = "subscribe" /\ j.turn = t /\ j.attempt = turns[t].attempt
    BY <2>1 DEF Inv, PendingHasJob, Unsettled
  <2>3. runner'[t[1]][k] = runner[t[1]][k]
    BY <1>1, <2>2, CallJobs
  <2> QED
    BY <2>1, <2>2, <2>3
<1>3. CASE New(t, jobs)
  <2> DEFINE j == TurnJob("subscribe", t, turns'[t].attempt)
  <2>1. j \in jobs[t[1]]
    BY <1>3 DEF New, Unsettled
  <2>2. TypeOK /\ jobs \in [Servers -> SUBSET Job] /\ Spawn(jobs)
    BY DEF Call, Inv
  <2>3. PICK k \in Slots : runner'[t[1]][k] = Task(t[1], jobs[t[1]])
    BY <1>1, <2>1, <2>2, SpawnEffect
  <2>4. j \in runner'[t[1]][k].jobs
    BY <1>1, <2>1, <2>2, <2>3, TaskShape
  <2>5. j.kind = "subscribe" /\ j.turn = t /\ j.attempt = turns'[t].attempt
    BY DEF TurnJob
  <2> QED
    BY <2>4, <2>5
<1> QED
  BY <1>2, <1>3 DEF Call, Unsettled

LEMMA CallNobody ==
  ASSUME Inv, NEW jobs, Call(jobs)
  PROVE  NobodyWaits'
<1> SUFFICES ASSUME registration' = None, NEW t \in TurnKeys, Unsettled(t)'
             PROVE  FALSE
  BY DEF NobodyWaits
<1>1. registration = None /\ Kept(t)
  BY DEF Call, Unsettled
<1>2. Unsettled(t)
  BY <1>1 DEF Kept, Unsettled
<1> QED
  BY <1>1, <1>2 DEF Inv, NobodyWaits

LEMMA CallInFlight ==
  ASSUME Inv, NEW jobs, Call(jobs)
  PROVE  InFlight'
<1> SUFFICES ASSUME NEW s \in Servers, NEW k \in Slots
             PROVE  /\ runner'[s][k].pc = "idle" => runner'[s][k].jobs = {}
                    /\ runner'[s][k].pc \in Signing => Subscribing(s, k)'
                    /\ runner'[s][k].pc = "answer" =>
                          runner'[s][k].outcome \in Status \ {"Pending"}
  BY DEF InFlight
<1>1. CASE runner'[s][k].pc = "wait"
  BY <1>1 DEF Signing
<1>2. CASE runner'[s][k] = runner[s][k]
  <2>1. ASSUME runner[s][k].pc \in Signing PROVE Subscribing(s, k)'
    <3>1. Subscribing(s, k)
      BY <2>1 DEF Inv, InFlight
    <3>2. ASSUME NEW j \in runner[s][k].jobs, j.kind = "subscribe", Matches(j)',
                 turns'[j.turn].completed = 0
          PROVE  runner[s][k].grant.token = registration'
      <4>1. Kept(j.turn) /\ Matches(j) /\ j.turn \in TurnKeys
        BY <3>2, OldJobs DEF OfTurn
      <4>2. runner[s][k].grant.token = registration
        BY <3>1, <3>2, <4>1 DEF Kept, Subscribing
      <4>3. Unsettled(j.turn)'
        BY <3>2, <4>1 DEF Inv, Waits, Kept, Matches, Unsettled
      <4>4. ~New(j.turn, jobs)
        <5>1. j.attempt \in Nat /\ nextAttempt \in Nat /\ j.attempt <= nextAttempt
          BY <3>2 DEF Inv, Numbered, TypeOK, Runner, Job, OfTurn
        <5>2. turns'[j.turn].attempt = j.attempt
          BY <3>2 DEF Matches
        <5> QED
          BY <5>1, <5>2 DEF New
      <4> QED
        BY <4>1, <4>2, <4>3, <4>4 DEF Call
    <3> QED
      BY <1>2, <3>1, <3>2 DEF Subscribing, NextJob
  <2> QED
    BY <1>2, <2>1 DEF Inv, InFlight
<1> QED
  BY <1>1, <1>2, CallJobs

LEMMA CallClock ==
  ASSUME Inv, NEW jobs, Call(jobs)
  PROVE  Mutex' /\ Revokes' /\ GrantOutlivesRevoke'
<1>1. \A s \in Servers, k \in Slots :
         runner'[s][k] = runner[s][k] \/ runner'[s][k].pc = "wait"
  BY CallJobs
<1>2. Mutex'
  BY <1>1 DEF Inv, Mutex, HasLock
<1>3. GrantOutlivesRevoke'
  BY <1>1 DEF Inv, GrantOutlivesRevoke, Call
<1>4. Revokes'
  BY DEF Inv, Revokes, Call, PrunedRevokes, TypeOK
<1> QED
  BY <1>2, <1>3, <1>4

LEMMA CallStep ==
  ASSUME Inv, TypeOK', NEW jobs, Call(jobs)
  PROVE  Inv'
BY CallNumbered, CallOnce, CallWaits, CallPending, CallNobody, CallInFlight,
   CallClock DEF Inv

LEMMA OrderNumbers ==
  ASSUME NEW S \in SUBSET TurnKeys, NEW order \in Orders(S), NEW t \in S
  PROVE  Cardinality(S) \in Nat /\ order[t] \in 1 .. Cardinality(S)
BY Finite DEF Orders

LEMMA TurnJobShape ==
  ASSUME NEW kind \in {"subscribe", "unsubscribe"}, NEW t \in TurnKeys, NEW n \in Nat
  PROVE  /\ TurnJob(kind, t, n) \in Job
         /\ TurnJob(kind, t, n).kind = kind /\ TurnJob(kind, t, n).turn = t
         /\ TurnJob(kind, t, n).attempt = n /\ TurnJob(kind, t, n).url = FALSE
BY DEF TurnJob, Job

\* The entries that plan_subscribe and the retries give out.
LEMMA PlanEntries ==
  ASSUME Inv, NEW ts \in [TurnKeys -> Entry \cup {None}],
         NEW again \in SUBSET TurnKeys, NEW fresh \in SUBSET TurnKeys, NEW drop,
         \A t \in again : ts[t] # None,
         NEW order \in Orders(again \cup fresh),
         Plan(ts, again, fresh, drop, order),
         NEW t \in again \cup fresh
  PROVE  /\ turns'[t] \in Entry
         /\ turns'[t].attempt \in nextAttempt + 1 .. nextAttempt'
         /\ turns'[t].planned = now
         /\ t \in again => /\ turns'[t].status = "Pending"
                           /\ turns'[t].completed = ts[t].completed
         /\ t \notin again => turns'[t].completed = 0
<1> DEFINE all == again \cup fresh
<1>1. /\ turns' = Planned(ts, again, fresh, order)
      /\ nextAttempt' = nextAttempt + Cardinality(all)
  BY DEF Plan
<1>2. nextAttempt \in Nat /\ now \in Nat /\ Cardinality(all) \in Nat
  BY Finite DEF Inv, TypeOK
<1>3. order[t] \in 1 .. Cardinality(all)
  BY OrderNumbers
<1>4. nextAttempt + order[t] \in nextAttempt + 1 .. nextAttempt'
  BY <1>1, <1>2, <1>3
<1>5. CASE t \in again
  <2>1. ts[t] \in Entry
    BY <1>5
  <2>2. turns'[t] = [ts[t] EXCEPT !.status = "Pending", !.planned = now,
                                  !.attempt = nextAttempt + order[t]]
    BY <1>1, <1>5 DEF Planned
  <2>3. turns'[t] = [status |-> "Pending", attempt |-> nextAttempt + order[t],
                     planned |-> now, completed |-> ts[t].completed]
    BY <2>1, <2>2 DEF Entry
  <2> QED
    BY <1>2, <1>3, <1>4, <1>5, <2>1, <2>3 DEF Entry, Status
<1>6. CASE t \notin again
  <2>1. turns'[t] = [status |-> IF Refused(ts, fresh, order, t)
                               THEN "Unsupported" ELSE "Pending",
                     attempt |-> nextAttempt + order[t],
                     planned |-> now, completed |-> 0]
    BY <1>1, <1>6 DEF Planned
  <2> QED
    BY <1>2, <1>3, <1>4, <1>6, <2>1 DEF Entry, Status
<1> QED
  BY <1>5, <1>6

\* plan_subscribe and the retries, for a call that trimmed the turns to ts.
LEMMA PlanCall ==
  ASSUME Inv, NEW ts \in [TurnKeys -> Entry \cup {None}],
         \A t \in TurnKeys : ts[t] = None \/ ts[t] = turns[t],
         NEW again \in SUBSET TurnKeys, NEW fresh \in SUBSET TurnKeys,
         NEW drop \in SUBSET again,
         \A t \in again : ts[t] # None,
         NEW order \in Orders(again \cup fresh),
         Plan(ts, again, fresh, drop, order),
         registration' # registration =>
             \A t \in TurnKeys \ (again \cup fresh) :
                 ~(ts[t] # None /\ ts[t].status = "Pending" /\ ts[t].completed = 0),
         registration' = None => registration = None /\ again \cup fresh = {},
         revokedAt' = PrunedRevokes, now' = now, revokeSent' = revokeSent
  PROVE  \E jobs : /\ Call(jobs)
                   /\ \A t \in drop : \E j \in jobs[t[1]] : Drops(j, t)
<1> DEFINE all == again \cup fresh
           next == Planned(ts, again, fresh, order)
           jobs == ByServer(SubscribeJobs(next, all) \cup
                            {TurnJob("unsubscribe", t, next[t].attempt) : t \in drop})
<1>1. /\ turns' = next /\ nextAttempt' = nextAttempt + Cardinality(all)
      /\ Spawn(jobs)
  BY DEF Plan
<1>2. nextAttempt \in Nat /\ now \in Nat /\ Cardinality(all) \in Nat
  BY Finite DEF Inv, TypeOK
<1>3. ASSUME NEW t \in all
      PROVE  /\ next[t] \in Entry
             /\ next[t].attempt \in nextAttempt + 1 .. nextAttempt'
             /\ next[t].attempt \in Nat
  <2>1. /\ turns'[t] \in Entry
        /\ turns'[t].attempt \in nextAttempt + 1 .. nextAttempt'
    BY PlanEntries
  <2> QED
    BY <1>1, <2>1 DEF Entry
<1>4. \A t \in TurnKeys \ all : next[t] = ts[t]
  BY DEF Planned
<1>5. turns' \in [TurnKeys -> Entry \cup {None}]
  <2>1. DOMAIN next = TurnKeys /\ next = [t \in TurnKeys |-> next[t]]
    BY DEF Planned
  <2>2. \A t \in TurnKeys : next[t] \in Entry \cup {None}
    BY <1>3, <1>4
  <2> QED
    BY <1>1, <2>1, <2>2
<1>6. ASSUME NEW s \in Servers, NEW j \in jobs[s]
      PROVE  /\ j \in Job
             /\ j.turn \in all /\ j.turn[1] = s /\ j.url = FALSE
             /\ j.attempt = next[j.turn].attempt
             /\ j.kind = "subscribe" => next[j.turn].status = "Pending"
  <2>1. \/ j \in SubscribeJobs(next, all)
        \/ j \in {TurnJob("unsubscribe", t, next[t].attempt) : t \in drop}
    BY DEF ByServer
  <2>2. j.turn[1] = s
    BY DEF ByServer
  <2>3. CASE j \in SubscribeJobs(next, all)
    <3>1. PICK t \in all : /\ j = TurnJob("subscribe", t, next[t].attempt)
                           /\ next[t].status = "Pending"
      BY <2>3 DEF SubscribeJobs
    <3>2. t \in TurnKeys /\ next[t].attempt \in Nat
      BY <1>3
    <3>3. /\ j \in Job /\ j.kind = "subscribe" /\ j.turn = t
          /\ j.attempt = next[t].attempt /\ j.url = FALSE
      BY <3>1, <3>2 DEF TurnJob, Job
    <3> QED
      BY <2>2, <3>1, <3>3
  <2>4. CASE j \in {TurnJob("unsubscribe", t, next[t].attempt) : t \in drop}
    <3>1. PICK t \in drop : j = TurnJob("unsubscribe", t, next[t].attempt)
      BY <2>4
    <3>2. t \in all /\ t \in TurnKeys /\ next[t].attempt \in Nat
      BY <1>3
    <3>3. /\ j \in Job /\ j.kind = "unsubscribe" /\ j.turn = t
          /\ j.attempt = next[t].attempt /\ j.url = FALSE
      BY <3>1, <3>2 DEF TurnJob, Job
    <3> QED
      BY <2>2, <3>2, <3>3
  <2> QED
    BY <2>1, <2>3, <2>4
<1>7. jobs \in [Servers -> SUBSET Job]
  BY <1>6 DEF ByServer
<1>8. ASSUME NEW t \in all PROVE New(t, jobs)
  <2>1. t \in TurnKeys /\ t[1] \in Servers
    BY DEF TurnKeys
  <2>2. ASSUME next[t].status = "Pending"
        PROVE  TurnJob("subscribe", t, next[t].attempt) \in jobs[t[1]]
    <3>1. TurnJob("subscribe", t, next[t].attempt) \in SubscribeJobs(next, all)
      BY <2>2 DEF SubscribeJobs
    <3>2. TurnJob("subscribe", t, next[t].attempt).turn = t
      BY DEF TurnJob
    <3> QED
      BY <2>1, <3>1, <3>2 DEF ByServer
  <2> QED
    BY <1>1, <1>3, <2>2 DEF New
<1>9. ASSUME NEW t \in TurnKeys PROVE turns'[t] = None \/ Kept(t) \/ New(t, jobs)
  <2>1. CASE t \in all
    BY <1>8, <2>1
  <2>2. CASE t \notin all
    BY <1>1, <1>4, <2>2 DEF Kept
  <2> QED
    BY <2>1, <2>2
<1>10. registration' # registration => \A t \in TurnKeys : Unsettled(t)' => New(t, jobs)
  BY <1>1, <1>4, <1>8 DEF Unsettled
<1>11. registration' = None =>
          \A t \in TurnKeys : turns'[t] # None => registration = None /\ Kept(t)
  BY <1>1, <1>4 DEF Kept
<1>12. \A s \in Servers : \A j \in jobs[s] :
          OfTurn(j) => /\ j.turn \in TurnKeys /\ j.turn[1] = s /\ j.url = FALSE
                       /\ j.attempt \in nextAttempt + 1 .. nextAttempt'
                       /\ j.kind = "subscribe" /\ Matches(j)' =>
                             turns'[j.turn].status = "Pending"
  <2> SUFFICES ASSUME NEW s \in Servers, NEW j \in jobs[s]
               PROVE  /\ j.turn \in TurnKeys /\ j.turn[1] = s /\ j.url = FALSE
                      /\ j.attempt \in nextAttempt + 1 .. nextAttempt'
                      /\ j.kind = "subscribe" => turns'[j.turn].status = "Pending"
    OBVIOUS
  <2>1. j.turn \in all
    BY <1>6
  <2>2. next[j.turn].attempt \in nextAttempt + 1 .. nextAttempt'
    BY <1>3, <2>1
  <2> QED
    BY <1>1, <1>6, <2>1, <2>2
<1>13. nextAttempt' \in Nat /\ nextAttempt <= nextAttempt'
  BY <1>1, <1>2
<1>14. ASSUME NEW t \in drop PROVE \E j \in jobs[t[1]] : Drops(j, t)
  <2> DEFINE j == TurnJob("unsubscribe", t, next[t].attempt)
  <2>1. j.kind = "unsubscribe" /\ j.turn = t
    BY DEF TurnJob
  <2>2. t[1] \in Servers
    BY DEF TurnKeys
  <2>3. j \in jobs[t[1]]
    BY <2>1, <2>2 DEF ByServer
  <2> QED
    BY <2>1, <2>3 DEF Drops
<1> HIDE DEF jobs, next, all
<1>15. Call(jobs)
  BY <1>1, <1>5, <1>7, <1>9, <1>10, <1>11, <1>12, <1>13 DEF Call
<1> QED
  BY <1>14, <1>15

\* A call that plans nothing: entries go or stay, server jobs are spawned.
LEMMA TrimCall ==
  ASSUME Inv, turns' \in [TurnKeys -> Entry \cup {None}],
         \A t \in TurnKeys : turns'[t] = None \/ Kept(t),
         NEW jobs \in [Servers -> SUBSET Job],
         \A s \in Servers : \A j \in jobs[s] : ~OfTurn(j),
         Spawn(jobs),
         registration' # registration => \A t \in TurnKeys : turns'[t] = None,
         nextAttempt' = nextAttempt,
         revokedAt' = PrunedRevokes \/ revokedAt' = revokedAt,
         now' = now, revokeSent' = revokeSent
  PROVE  Call(jobs)
<1>1. nextAttempt \in Nat
  BY DEF Inv, TypeOK
<1> QED
  BY <1>1 DEF Call, Unsettled

LEMMA NoJobs ==
  ASSUME TypeOK, runner' = runner
  PROVE  /\ [s \in Servers |-> {}] \in [Servers -> SUBSET Job]
         /\ Spawn([s \in Servers |-> {}])
<1>1. runner = [s \in Servers |-> [k \in Slots |-> runner[s][k]]]
  BY DEF TypeOK
<1> QED
  BY <1>1 DEF Spawn

-----------------------------------------------------------------------------
(* Each call is such a step.                                               *)

LEMMA PrunedShape ==
  ASSUME TypeOK
  PROVE  /\ Pruned \in [TurnKeys -> Entry \cup {None}]
         /\ \A t \in TurnKeys : Pruned[t] = None \/ Pruned[t] = turns[t]
         /\ PrunedRevokes \in [Servers -> Nat]
BY DEF TypeOK, Pruned, PrunedRevokes

LEMMA CallType ==
  ASSUME Inv, NEW jobs, Call(jobs),
         registration' \in Tokens \cup {None}, urlKnown' \in BOOLEAN,
         hosts' \in [Servers -> {"absent", "legacy", "push"}],
         snapshot' \in (SUBSET TurnKeys) \cup {None},
         phase' \in [TurnKeys -> {"new", "active", "ended", "done"}],
         held' = held, undone' = undone, overtaken' = overtaken
  PROVE  TypeOK'
<1>1. TypeOK
  BY DEF Inv
<1>2. revokedAt' \in [Servers -> Nat]
  BY <1>1, PrunedShape DEF Call, TypeOK
<1>3. runner' \in [Servers -> [Slots -> Runner]]
  BY CallRunner
<1> QED
  BY <1>1, <1>2, <1>3 DEF Call, TypeOK

LEMMA StepTurnStarted ==
  ASSUME Inv, NEW t \in TurnKeys, TurnStarted(t)
  PROVE  Inv'
<1> DEFINE fresh == Plannable(Pruned, registration, {t})
<1>1. PICK order \in Orders(fresh) : Plan(Pruned, {}, fresh, {}, order)
  BY DEF TurnStarted
<1>2. TypeOK
  BY DEF Inv
<1>3. fresh \in SUBSET TurnKeys /\ (registration = None => fresh = {})
  BY DEF Plannable, Eligible
<1>4. /\ {} \in SUBSET TurnKeys /\ {} \in SUBSET {} /\ {} \cup fresh = fresh
      /\ registration' = registration /\ revokedAt' = PrunedRevokes
      /\ now' = now /\ revokeSent' = revokeSent
  BY DEF TurnStarted
<1> HIDE DEF fresh
<1>5. PICK jobs : Call(jobs)
  BY <1>1, <1>2, <1>3, <1>4, PrunedShape, PlanCall
<1>6. TypeOK'
  BY <1>2, <1>5, CallType DEF TurnStarted, TypeOK
<1> QED
  BY <1>5, <1>6, CallStep

LEMMA StepBackground ==
  ASSUME Inv, AppEnteredBackground
  PROVE  Inv'
<1> DEFINE again == {t \in snapshot : /\ Pruned[t] # None
                                      /\ Pruned[t].status = "Failed"
                                      /\ Pruned[t].completed = 0
                                      /\ Eligible(registration, t)}
           fresh == Plannable(Pruned, registration, snapshot)
<1>1. PICK order \in Orders(again \cup fresh) : Plan(Pruned, again, fresh, {}, order)
  BY DEF AppEnteredBackground
<1>2. TypeOK
  BY DEF Inv
<1>3. snapshot \in SUBSET TurnKeys
  BY <1>2 DEF AppEnteredBackground, TypeOK
<1>4. /\ again \in SUBSET TurnKeys /\ fresh \in SUBSET TurnKeys
      /\ registration = None => again \cup fresh = {}
      /\ \A t \in again : Pruned[t] # None
  BY <1>3 DEF Plannable, Eligible
<1>5. /\ {} \in SUBSET again
      /\ registration' = registration /\ revokedAt' = PrunedRevokes
      /\ now' = now /\ revokeSent' = revokeSent
  BY DEF AppEnteredBackground, outside
<1> HIDE DEF again, fresh
<1>6. PICK jobs : Call(jobs)
  BY <1>1, <1>2, <1>4, <1>5, PrunedShape, PlanCall
<1>7. TypeOK'
  BY <1>2, <1>6, CallType DEF AppEnteredBackground, TypeOK, outside
<1> QED
  BY <1>6, <1>7, CallStep

LEMMA StepSetRegistration ==
  ASSUME Inv, NEW r \in Tokens, SetRegistration(r)
  PROVE  Inv'
<1> DEFINE live  == IF registration \in {None, r} THEN {}
                    ELSE {t \in TurnKeys : IsLive(Pruned[t])}
           again == {t \in live : hosts[t[1]] = "push"}
           kept  == [t \in TurnKeys |->
                        IF t \in live \ again THEN None ELSE Pruned[t]]
           fresh == Plannable(kept, r, snapshot)
<1>1. PICK order \in Orders(again \cup fresh) : Plan(kept, again, fresh, again, order)
  BY DEF SetRegistration
<1>2. TypeOK
  BY DEF Inv
<1>3. snapshot \in SUBSET TurnKeys
  BY <1>2 DEF SetRegistration, TypeOK
<1>4. /\ again \in SUBSET TurnKeys /\ fresh \in SUBSET TurnKeys
      /\ again \in SUBSET again
  BY <1>3 DEF Plannable
<1>5. /\ kept \in [TurnKeys -> Entry \cup {None}]
      /\ \A t \in TurnKeys : kept[t] = None \/ kept[t] = turns[t]
  BY <1>2, PrunedShape
<1>6. \A t \in again : kept[t] # None
  BY DEF IsLive
<1>7. /\ registration' = r /\ r # None /\ revokedAt' = PrunedRevokes
      /\ now' = now /\ revokeSent' = revokeSent
  BY NamesAssumption DEF SetRegistration, outside
<1>8. ASSUME registration # r, NEW t \in TurnKeys \ (again \cup fresh),
             kept[t] # None, kept[t].status = "Pending", kept[t].completed = 0
      PROVE  FALSE
  <2>1. t \notin live \ again /\ kept[t] = Pruned[t] /\ Pruned[t] = turns[t]
    BY <1>2, <1>8, PrunedShape
  <2>2. CASE registration = None
    BY <1>8, <2>1, <2>2 DEF Inv, NobodyWaits, Unsettled
  <2>3. CASE registration # None
    BY <1>8, <2>1, <2>3 DEF IsLive
  <2> QED
    BY <2>2, <2>3
<1> HIDE DEF live, again, kept, fresh
<1>9. PICK jobs : Call(jobs)
  BY <1>1, <1>2, <1>4, <1>5, <1>6, <1>7, <1>8, PlanCall
<1>10. TypeOK'
  BY <1>2, <1>9, CallType DEF SetRegistration, TypeOK, outside
<1> QED
  BY <1>9, <1>10, CallStep

LEMMA ServerJobShape ==
  ASSUME NEW kind \in {"all", "revoke"}, NEW url \in BOOLEAN
  PROVE  ServerJob(kind, url) \in Job /\ ~OfTurn(ServerJob(kind, url))
BY DEF ServerJob, Job, OfTurn

LEMMA StepClear ==
  ASSUME Inv, ClearRegistration
  PROVE  Inv'
<1> DEFINE jobs == [s \in Servers |-> IF hosts[s] = "push"
                                      THEN {ServerJob("all", TRUE)} ELSE {}]
<1>1. TypeOK
  BY DEF Inv
<1>2. turns' = [t \in TurnKeys |-> None] /\ Spawn(jobs)
  BY DEF ClearRegistration
<1>3. /\ jobs \in [Servers -> SUBSET Job]
      /\ \A s \in Servers : \A j \in jobs[s] : ~OfTurn(j)
  BY ServerJobShape
<1>4. /\ turns' \in [TurnKeys -> Entry \cup {None}]
      /\ \A t \in TurnKeys : turns'[t] = None
  BY <1>2
<1>5. /\ nextAttempt' = nextAttempt /\ revokedAt' = PrunedRevokes
      /\ now' = now /\ revokeSent' = revokeSent
  BY DEF ClearRegistration, outside
<1> HIDE DEF jobs
<1>6. Call(jobs)
  BY <1>2, <1>3, <1>4, <1>5, TrimCall
<1>7. TypeOK'
  BY <1>1, <1>6, CallType DEF ClearRegistration, TypeOK, outside
<1> QED
  BY <1>6, <1>7, CallStep

LEMMA StepPrune ==
  ASSUME Inv, PruneOnly
  PROVE  Inv'
<1> DEFINE none == [s \in Servers |-> {}]
<1>1. TypeOK
  BY DEF Inv
<1>2. none \in [Servers -> SUBSET Job] /\ Spawn(none)
  BY <1>1, NoJobs DEF PruneOnly
<1>3. \A s \in Servers : \A j \in none[s] : ~OfTurn(j)
  OBVIOUS
<1>4. /\ turns' \in [TurnKeys -> Entry \cup {None}]
      /\ \A t \in TurnKeys : turns'[t] = None \/ Kept(t)
  BY <1>1, PrunedShape DEF PruneOnly, Kept
<1>5. /\ nextAttempt' = nextAttempt /\ revokedAt' = PrunedRevokes
      /\ registration' = registration /\ now' = now /\ revokeSent' = revokeSent
  BY DEF PruneOnly, outside
<1> HIDE DEF none
<1>6. Call(none)
  BY <1>2, <1>3, <1>4, <1>5, TrimCall
<1>7. TypeOK'
  BY <1>1, <1>6, CallType DEF PruneOnly, TypeOK, outside
<1> QED
  BY <1>6, <1>7, CallStep

LEMMA StepCompleted ==
  ASSUME Inv, NEW t \in TurnKeys, TurnCompleted(t)
  PROVE  Inv'
<1> DEFINE none == [s \in Servers |-> {}]
<1>1. TypeOK
  BY DEF Inv
<1>2. none \in [Servers -> SUBSET Job] /\ Spawn(none)
  BY <1>1, NoJobs DEF TurnCompleted
<1>3. \A s \in Servers : \A j \in none[s] : ~OfTurn(j)
  OBVIOUS
<1>4. ASSUME NEW u \in TurnKeys
      PROVE  /\ turns'[u] \in Entry \cup {None}
             /\ turns'[u] = None \/ Kept(u)
  <2>1. CASE u = t /\ turns[t] # None /\ ~Stale(turns[t])
    <3>1. turns[t] \in Entry /\ now \in Nat
      BY <1>1, <2>1 DEF TypeOK
    <3>2. turns'[t] = [turns[t] EXCEPT !.completed = IF @ = 0 THEN now ELSE @]
      BY <2>1 DEF TurnCompleted
    <3>3. now # 0 \/ turns[t].completed = turns[t].completed
      OBVIOUS
    <3> QED
      BY <2>1, <3>1, <3>2 DEF Entry, Kept
  <2>2. CASE ~(u = t /\ turns[t] # None /\ ~Stale(turns[t]))
    <3>1. turns'[u] = Pruned[u]
      BY <2>2 DEF TurnCompleted
    <3> QED
      BY <1>1, <3>1, PrunedShape DEF Kept
  <2> QED
    BY <2>1, <2>2
<1>5. turns' \in [TurnKeys -> Entry \cup {None}]
  <2>1. turns' = [u \in TurnKeys |-> turns'[u]]
    BY DEF TurnCompleted
  <2> QED
    BY <1>4, <2>1
<1>6. /\ nextAttempt' = nextAttempt /\ revokedAt' = PrunedRevokes
      /\ registration' = registration /\ now' = now /\ revokeSent' = revokeSent
  BY DEF TurnCompleted
<1> HIDE DEF none
<1>7. Call(none)
  BY <1>2, <1>3, <1>4, <1>5, <1>6, TrimCall
<1>8. TypeOK'
  BY <1>1, <1>7, CallType DEF TurnCompleted, TypeOK
<1> QED
  BY <1>7, <1>8, CallStep

LEMMA StepRemoved ==
  ASSUME Inv, NEW s \in Servers, ServerRemoved(s)
  PROVE  Inv'
<1> DEFINE jobs == [q \in Servers |-> IF q = s THEN RemovalJobs(s) ELSE {}]
<1>1. TypeOK
  BY DEF Inv
<1>2. turns' = [t \in TurnKeys |-> IF t[1] = s THEN None ELSE turns[t]] /\ Spawn(jobs)
  BY DEF ServerRemoved
<1>3. \A j \in RemovalJobs(s) : j \in Job /\ ~OfTurn(j)
  <2>1. urlKnown \in BOOLEAN /\ hosts[s] \in {"absent", "legacy", "push"}
    BY <1>1 DEF TypeOK
  <2>2. CASE hosts[s] = "push"
    BY <2>1, <2>2, ServerJobShape DEF RemovalJobs
  <2>3. CASE hosts[s] # "push"
    BY <2>1, <2>3, ServerJobShape DEF RemovalJobs
  <2> QED
    BY <2>2, <2>3
<1>4. /\ jobs \in [Servers -> SUBSET Job]
      /\ \A q \in Servers : \A j \in jobs[q] : ~OfTurn(j)
  BY <1>3
<1>5. /\ turns' \in [TurnKeys -> Entry \cup {None}]
      /\ \A t \in TurnKeys : turns'[t] = None \/ Kept(t)
  BY <1>1, <1>2 DEF TypeOK, Kept
<1>6. /\ nextAttempt' = nextAttempt /\ revokedAt' = revokedAt
      /\ registration' = registration /\ now' = now /\ revokeSent' = revokeSent
  BY DEF ServerRemoved, outside
<1> HIDE DEF jobs
<1>7. Call(jobs)
  BY <1>2, <1>4, <1>5, <1>6, TrimCall
<1>8. TypeOK'
  BY <1>1, <1>7, CallType DEF ServerRemoved, TypeOK, outside
<1> QED
  BY <1>7, <1>8, CallStep

-----------------------------------------------------------------------------
(* The tasks.                                                              *)

LEMMA QuietStep ==
  ASSUME Inv, TypeOK',
         UNCHANGED <<registration, turns, nextAttempt, revokedAt, runner, revokeSent>>,
         now <= now'
  PROVE  Inv'
<1>1. \A s \in Servers : revokeSent[s] \in Nat /\ now \in Nat /\ now' \in Nat
  BY DEF Inv, TypeOK
<1>2. Revokes'
  BY <1>1 DEF Inv, Revokes
<1>3. Numbered' /\ Once' /\ Waits'
  BY DEF Inv, Numbered, Once, Waits, Matches
<1>4. PendingHasJob' /\ NobodyWaits'
  BY DEF Inv, PendingHasJob, NobodyWaits, Unsettled
<1>5. InFlight' /\ Mutex' /\ GrantOutlivesRevoke'
  BY DEF Inv, InFlight, Subscribing, NextJob, Matches, Mutex, HasLock, GrantOutlivesRevoke
<1> QED
  BY <1>2, <1>3, <1>4, <1>5 DEF Inv

\* A task's step that leaves the turns alone: the subscribe jobs it drops are
\* those nobody waits for.
LEMMA TaskStep ==
  ASSUME Inv, TypeOK', NEW s \in Servers, NEW k \in Slots, HasLock(s, k),
         UNCHANGED <<registration, turns, nextAttempt, now>>,
         NEW r \in Runner, GoTo(s, k, r),
         r.pc # "wait", r.jobs \subseteq runner[s][k].jobs,
         \A j \in runner[s][k].jobs \ r.jobs :
             j.kind = "subscribe" => ~(Matches(j) /\ Unsettled(j.turn)),
         r.pc = "idle" => r.jobs = {},
         r.pc \in Signing => Subscribing(s, k)',
         r.pc = "answer" => r.outcome \in Status \ {"Pending"},
         r.pc = "call" => r.grant.issued > revokeSent'[s],
         Revokes', \A q \in Servers : q # s => revokeSent'[q] = revokeSent[q]
  PROVE  Inv'
<1>1. /\ runner'[s][k] = r
      /\ \A q \in Servers, l \in Slots :
            q # s \/ l # k => runner'[q][l] = runner[q][l]
  BY DEF GoTo, Inv, TypeOK
<1>2. \A q \in Servers, l \in Slots : runner'[q][l].jobs \subseteq runner[q][l].jobs
  BY <1>1
<1>3. Numbered' /\ Once' /\ Waits'
  <2>1. Numbered'
    BY <1>2 DEF Inv, Numbered
  <2>2. Once'
    BY <1>2 DEF Inv, Once
  <2>3. Waits'
    BY <1>2 DEF Inv, Waits, Matches
  <2> QED
    BY <2>1, <2>2, <2>3
<1>4. PendingHasJob'
  <2> SUFFICES ASSUME NEW t \in TurnKeys, Unsettled(t)
               PROVE  \E l \in Slots : \E j \in runner'[t[1]][l].jobs :
                         /\ j.kind = "subscribe" /\ j.turn = t
                         /\ j.attempt = turns[t].attempt
    BY DEF PendingHasJob, Unsettled
  <2>1. PICK l \in Slots : \E j \in runner[t[1]][l].jobs :
               j.kind = "subscribe" /\ j.turn = t /\ j.attempt = turns[t].attempt
    BY DEF Inv, PendingHasJob, Unsettled
  <2>2. PICK j \in runner[t[1]][l].jobs :
               j.kind = "subscribe" /\ j.turn = t /\ j.attempt = turns[t].attempt
    BY <2>1
  <2>3. Matches(j)
    BY <2>2 DEF Matches, Unsettled
  <2>4. t[1] \in Servers
    BY DEF TurnKeys
  <2>5. j \in runner'[t[1]][l].jobs
    BY <1>1, <2>2, <2>3, <2>4
  <2> QED
    BY <2>2, <2>5
<1>5. NobodyWaits'
  BY DEF Inv, NobodyWaits, Unsettled
<1>6. InFlight'
  <2> SUFFICES ASSUME NEW q \in Servers, NEW l \in Slots
               PROVE  /\ runner'[q][l].pc = "idle" => runner'[q][l].jobs = {}
                      /\ runner'[q][l].pc \in Signing => Subscribing(q, l)'
                      /\ runner'[q][l].pc = "answer" =>
                            runner'[q][l].outcome \in Status \ {"Pending"}
    BY DEF InFlight
  <2>1. CASE q = s /\ l = k
    BY <1>1, <2>1
  <2>2. CASE q # s \/ l # k
    <3>1. runner'[q][l] = runner[q][l]
      BY <1>1, <2>2
    <3>2. Subscribing(q, l) => Subscribing(q, l)'
      BY <3>1 DEF Subscribing, NextJob, Matches
    <3> QED
      BY <3>1, <3>2 DEF Inv, InFlight
  <2> QED
    BY <2>1, <2>2
<1>7. Mutex'
  <2>1. \A q \in Servers, l \in Slots : HasLock(q, l)' => HasLock(q, l)
    BY <1>1 DEF HasLock
  <2> QED
    BY <2>1 DEF Inv, Mutex
<1>8. GrantOutlivesRevoke'
  <2> SUFFICES ASSUME NEW q \in Servers, NEW l \in Slots, runner'[q][l].pc = "call"
               PROVE  runner'[q][l].grant.issued > revokeSent'[q]
    BY DEF GrantOutlivesRevoke
  <2>1. CASE q = s /\ l = k
    BY <1>1, <2>1
  <2>2. CASE q = s /\ l # k
    <3>1. runner[s][l].pc = "call"
      BY <1>1, <2>2
    <3> QED
      BY <2>2, <3>1 DEF Inv, Mutex, HasLock
  <2>3. CASE q # s
    BY <1>1, <2>3 DEF Inv, GrantOutlivesRevoke
  <2> QED
    BY <2>1, <2>2, <2>3
<1> QED
  BY <1>3, <1>4, <1>5, <1>6, <1>7, <1>8 DEF Inv

LEMMA FinishShape ==
  ASSUME TypeOK, NEW s \in Servers, NEW k \in Slots, NEW j \in runner[s][k].jobs,
         Finish(s, k, j)
  PROVE  \E r \in Runner : /\ GoTo(s, k, r)
                           /\ r.jobs = runner[s][k].jobs \ {j}
                           /\ r.pc \in {"idle", "next"}
                           /\ r.pc = "idle" => r.jobs = {}
                           /\ r.earlier = {}
<1> DEFINE r == IF runner[s][k].jobs = {j} THEN Idle
                ELSE [Idle EXCEPT !.pc = "next", !.jobs = runner[s][k].jobs \ {j}]
<1>1. GoTo(s, k, r)
  BY DEF Finish
<1>2. runner[s][k].jobs \subseteq Job
  BY DEF TypeOK, Runner
<1>3. CASE runner[s][k].jobs = {j}
  <2>1. r = Idle
    BY <1>3
  <2>2. r \in Runner /\ r.pc = "idle" /\ r.jobs = {} /\ r.earlier = {}
    BY <2>1 DEF Idle, Runner
  <2> QED
    BY <1>1, <1>3, <2>2
<1>4. CASE runner[s][k].jobs # {j}
  <2>1. r = [Idle EXCEPT !.pc = "next", !.jobs = runner[s][k].jobs \ {j}]
    BY <1>4
  <2>2. /\ r \in Runner /\ r.pc = "next" /\ r.jobs = runner[s][k].jobs \ {j}
        /\ r.earlier = {}
    BY <1>2, <2>1 DEF Idle, Runner
  <2> QED
    BY <1>1, <2>2
<1> QED
  BY <1>3, <1>4

LEMMA GoToType ==
  ASSUME TypeOK, NEW s \in Servers, NEW k \in Slots, NEW r \in Runner, GoTo(s, k, r)
  PROVE  /\ runner' \in [Servers -> [Slots -> Runner]]
         /\ runner'[s][k] = r
BY DEF TypeOK, GoTo

\* The task's current job, when it is in the middle of a subscribe.
LEMMA OneNext ==
  ASSUME Inv, NEW s \in Servers, NEW k \in Slots, runner[s][k].pc \in Signing,
         NEW j \in runner[s][k].jobs, NextJob(s, k, j)
  PROVE  j.kind = "subscribe"
<1>1. PICK i \in runner[s][k].jobs : NextJob(s, k, i) /\ i.kind = "subscribe"
  BY DEF Inv, InFlight, Subscribing
<1>2. i.attempt \in Nat /\ j.attempt \in Nat
  BY DEF Inv, TypeOK, Runner, Job
<1> QED
  BY <1>1, <1>2 DEF NextJob

LEMMA SameRevokes ==
  ASSUME Inv, UNCHANGED <<revokedAt, revokeSent, now>>
  PROVE  Revokes'
BY DEF Inv, Revokes

LEMMA StepSubscribeStart ==
  ASSUME Inv, NEW s \in Servers, NEW k \in Slots, SubscribeStart(s, k)
  PROVE  Inv'
<1>1. PICK j \in runner[s][k].jobs :
         /\ At(s, k, "next", "subscribe", j)
         /\ Wanted(j)
         /\ GoTo(s, k, [runner[s][k] EXCEPT
                          !.pc = "sign",
                          !.grant = [token |-> registration, issued |-> 0,
                                     planned |-> turns[j.turn].planned]])
  BY DEF SubscribeStart
<1>2. UNCHANGED <<state, snapshot, now, outside, overtaken>> /\ TypeOK
  BY DEF SubscribeStart, Inv
<1> DEFINE g == [token |-> registration, issued |-> 0, planned |-> turns[j.turn].planned]
           r == [runner[s][k] EXCEPT !.pc = "sign", !.grant = g]
<1>3. runner[s][k] \in Runner /\ runner[s][k].pc = "next"
  BY <1>1, <1>2 DEF TypeOK, At
<1>4. j.turn \in TurnKeys /\ turns[j.turn] \in Entry
  BY <1>1, <1>2 DEF At, OfTurn, Wanted, Inv, Numbered, TypeOK
<1>5. g \in Grant /\ g.token = registration
  BY <1>1, <1>2, <1>4 DEF Wanted, TypeOK, Grant, Entry
<1> HIDE DEF g
<1>6. r \in Runner /\ r.pc = "sign" /\ r.jobs = runner[s][k].jobs /\ r.grant = g
  BY <1>3, <1>5 DEF Runner
<1>7. GoTo(s, k, r)
  BY <1>1 DEF g
<1> HIDE DEF r
<1>8. TypeOK'
  BY <1>2, <1>6, <1>7, GoToType DEF TypeOK, state, outside
<1>9. Subscribing(s, k)'
  <2>1. runner'[s][k] = r
    BY <1>2, <1>6, <1>7, GoToType
  <2> QED
    BY <1>1, <1>2, <1>5, <1>6, <2>1 DEF Subscribing, NextJob, At, state
<1> QED
  BY <1>2, <1>3, <1>6, <1>7, <1>8, <1>9, TaskStep, SameRevokes DEF HasLock, state, outside

LEMMA StepSubscribeSkip ==
  ASSUME Inv, NEW s \in Servers, NEW k \in Slots, SubscribeSkip(s, k)
  PROVE  Inv'
<1>1. PICK j \in runner[s][k].jobs :
         At(s, k, "next", "subscribe", j) /\ ~Wanted(j) /\ Finish(s, k, j)
  BY DEF SubscribeSkip
<1>2. UNCHANGED <<state, snapshot, now, outside, overtaken>> /\ TypeOK
  BY DEF SubscribeSkip, Inv
<1>3. PICK r \in Runner : /\ GoTo(s, k, r) /\ r.jobs = runner[s][k].jobs \ {j}
                          /\ r.pc \in {"idle", "next"}
                          /\ r.pc = "idle" => r.jobs = {}
  BY <1>1, <1>2, FinishShape
<1>4. TypeOK'
  BY <1>2, <1>3, GoToType DEF TypeOK, state, outside
<1>5. ~(Matches(j) /\ Unsettled(j.turn))
  BY <1>1 DEF Wanted, Matches, Unsettled, Inv, NobodyWaits, Numbered, At, OfTurn
<1> QED
  BY <1>1, <1>2, <1>3, <1>4, <1>5, TaskStep, SameRevokes DEF HasLock, At, state, outside, Signing

LEMMA StepSign ==
  ASSUME Inv, NEW s \in Servers, NEW k \in Slots,
         SubscribeUnsigned(s, k) \/ SubscribeSign(s, k)
  PROVE  Inv'
<1>1. /\ UNCHANGED <<state, snapshot, now, outside, overtaken>> /\ TypeOK
      /\ runner[s][k].pc = "sign"
  BY DEF SubscribeUnsigned, SubscribeSign, Inv
<1>2. /\ runner[s][k] \in Runner /\ runner[s][k].grant \in Grant
      /\ Subscribing(s, k)
  BY <1>1 DEF TypeOK, Inv, InFlight, Signing, Subscribing
<1>3. revokedAt[s] \in Nat /\ now \in Nat /\ revokeSent[s] \in Nat
  BY <1>1 DEF TypeOK
<1>4. GrantIssuedAt(s) \in Nat /\ GrantIssuedAt(s) > revokeSent[s]
  BY <1>3 DEF GrantIssuedAt, Inv, Revokes
<1>5. ASSUME NEW r \in Runner, GoTo(s, k, r), r.pc \in {"answer", "call"},
             r.jobs = runner[s][k].jobs, r.grant \in Grant,
             r.grant.token = runner[s][k].grant.token,
             r.pc = "answer" => r.outcome \in Status \ {"Pending"},
             r.pc = "call" => r.grant.issued > revokeSent[s]
      PROVE  Inv'
  <2>1. TypeOK' /\ runner'[s][k] = r
    BY <1>1, <1>5, GoToType DEF TypeOK, state, outside
  <2>2. Subscribing(s, k)'
    BY <1>1, <1>2, <1>5, <2>1 DEF Subscribing, NextJob, state, Matches
  <2> QED
    BY <1>1, <1>5, <2>1, <2>2, TaskStep, SameRevokes DEF HasLock, state, outside
<1>6. CASE SubscribeUnsigned(s, k)
  <2> DEFINE r == [runner[s][k] EXCEPT !.pc = "answer", !.outcome = "Failed"]
  <2>1. /\ r \in Runner /\ r.pc = "answer" /\ r.jobs = runner[s][k].jobs
        /\ r.grant = runner[s][k].grant /\ r.outcome = "Failed"
    BY <1>2 DEF Runner, Status
  <2>2. GoTo(s, k, r)
    BY <1>6 DEF SubscribeUnsigned
  <2> HIDE DEF r
  <2> QED
    BY <1>2, <1>5, <2>1, <2>2 DEF Status
<1>7. CASE SubscribeSign(s, k)
  <2> DEFINE g == [runner[s][k].grant EXCEPT !.issued = GrantIssuedAt(s)]
             r == [runner[s][k] EXCEPT !.pc = "call", !.grant.issued = GrantIssuedAt(s)]
  <2>1. /\ g \in Grant /\ g.issued = GrantIssuedAt(s)
        /\ g.token = runner[s][k].grant.token
    BY <1>2, <1>4 DEF Grant
  <2>2. /\ r \in Runner /\ r.pc = "call" /\ r.jobs = runner[s][k].jobs
        /\ r.grant = g
    BY <1>2, <2>1 DEF Runner
  <2>3. GoTo(s, k, r)
    BY <1>7 DEF SubscribeSign
  <2> HIDE DEF r, g
  <2> QED
    BY <1>4, <1>5, <2>1, <2>2, <2>3
<1> QED
  BY <1>6, <1>7

LEMMA StepHostSubscribe ==
  ASSUME Inv, NEW s \in Servers, NEW k \in Slots, HostSubscribe(s, k)
  PROVE  Inv'
<1>1. PICK j \in runner[s][k].jobs, applied \in BOOLEAN,
           outcome \in {"Subscribed", "Failed", "Unsupported"} :
        /\ At(s, k, "call", "subscribe", j)
        /\ held' = IF applied /\ phase[j.turn] = "active"
                   THEN [held EXCEPT ![j.turn] = runner[s][k].grant] ELSE held
        /\ undone' = IF applied THEN undone \ {j.turn} ELSE undone
        /\ GoTo(s, k, [runner[s][k] EXCEPT !.pc = "answer", !.outcome = outcome])
        /\ UNCHANGED <<state, snapshot, now, phase, revokeSent, overtaken>>
  BY DEF HostSubscribe
<1> DEFINE r == [runner[s][k] EXCEPT !.pc = "answer", !.outcome = outcome]
<1>2. /\ runner[s][k] \in Runner /\ runner[s][k].grant \in Grant
      /\ Subscribing(s, k) /\ TypeOK
  BY <1>1 DEF TypeOK, Inv, InFlight, Signing, Subscribing, At
<1>3. /\ r \in Runner /\ r.pc = "answer" /\ r.jobs = runner[s][k].jobs
      /\ r.grant = runner[s][k].grant /\ r.outcome = outcome
  BY <1>2 DEF Runner, Status
<1>4. GoTo(s, k, r)
  BY <1>1
<1> HIDE DEF r
<1>5. held' \in [TurnKeys -> Grant \cup {None}]
  <2>1. held \in [TurnKeys -> Grant \cup {None}]
    BY <1>2 DEF TypeOK
  <2>2. held' = held \/ held' = [held EXCEPT ![j.turn] = runner[s][k].grant]
    BY <1>1
  <2> QED
    BY <1>2, <2>1, <2>2
<1>6. TypeOK' /\ runner'[s][k] = r
  BY <1>1, <1>2, <1>3, <1>4, <1>5, GoToType DEF TypeOK, state
<1>7. Subscribing(s, k)'
  BY <1>1, <1>2, <1>3, <1>6 DEF Subscribing, NextJob, state, Matches
<1>8. /\ HasLock(s, k)
      /\ UNCHANGED <<registration, turns, nextAttempt, revokedAt, now, revokeSent>>
      /\ r.outcome \in Status \ {"Pending"}
  BY <1>1, <1>3 DEF HasLock, At, state, Status
<1> QED
  BY <1>3, <1>4, <1>6, <1>7, <1>8, TaskStep, SameRevokes

LEMMA StepDrop ==
  ASSUME Inv, NEW s \in Servers, NEW k \in Slots,
         UnsubscribeTurn(s, k) \/ UnsubscribeAll(s, k)
  PROVE  Inv'
<1>1. TypeOK /\ UNCHANGED <<state, snapshot, now, phase, revokeSent, overtaken>>
  BY DEF UnsubscribeTurn, UnsubscribeAll, HostDrops, Inv
<1>2. ASSUME NEW S \in SUBSET TurnKeys, NEW applied \in BOOLEAN, HostDrops(S, applied)
      PROVE  held' \in [TurnKeys -> Grant \cup {None}] /\ undone' \subseteq TurnKeys
  BY <1>1, <1>2 DEF HostDrops, TypeOK
<1>3. ASSUME NEW r \in Runner, GoTo(s, k, r), r.pc \in {"idle", "next", "revoke"},
             r.jobs \subseteq runner[s][k].jobs, r.pc = "idle" => r.jobs = {},
             \A j \in runner[s][k].jobs \ r.jobs : j.kind # "subscribe",
             runner[s][k].pc = "next",
             held' \in [TurnKeys -> Grant \cup {None}], undone' \subseteq TurnKeys
      PROVE  Inv'
  <2>1. TypeOK'
    BY <1>1, <1>3, GoToType DEF TypeOK, state
  <2> QED
    BY <1>1, <1>3, <2>1, TaskStep, SameRevokes DEF HasLock, state, Signing
<1>4. CASE UnsubscribeTurn(s, k)
  <2>1. PICK j \in runner[s][k].jobs, applied \in BOOLEAN :
           At(s, k, "next", "unsubscribe", j) /\ HostDrops({j.turn}, applied)
           /\ Finish(s, k, j)
    BY <1>4 DEF UnsubscribeTurn
  <2>2. {j.turn} \in SUBSET TurnKeys
    BY <2>1 DEF At, Inv, Numbered, OfTurn
  <2>3. PICK r \in Runner : /\ GoTo(s, k, r) /\ r.jobs = runner[s][k].jobs \ {j}
                            /\ r.pc \in {"idle", "next"}
                            /\ r.pc = "idle" => r.jobs = {}
    BY <1>1, <2>1, FinishShape
  <2>4. held' \in [TurnKeys -> Grant \cup {None}] /\ undone' \subseteq TurnKeys
    BY <1>2, <2>1, <2>2
  <2> QED
    BY <1>3, <2>1, <2>3, <2>4 DEF At
<1>5. CASE UnsubscribeAll(s, k)
  <2>1. PICK j \in runner[s][k].jobs, applied \in BOOLEAN, answered \in BOOLEAN :
        /\ At(s, k, "next", "all", j)
        /\ HostDrops({t \in TurnKeys : t[1] = s}, applied)
        /\ IF answered \/ ~j.url THEN Finish(s, k, j)
           ELSE GoTo(s, k, [runner[s][k] EXCEPT !.pc = "revoke"])
    BY <1>5 DEF UnsubscribeAll
  <2>2. held' \in [TurnKeys -> Grant \cup {None}] /\ undone' \subseteq TurnKeys
    BY <1>2, <2>1
  <2>3. CASE Finish(s, k, j)
    <3>1. PICK r \in Runner : /\ GoTo(s, k, r) /\ r.jobs = runner[s][k].jobs \ {j}
                              /\ r.pc \in {"idle", "next"}
                              /\ r.pc = "idle" => r.jobs = {}
      BY <1>1, <2>3, FinishShape
    <3> QED
      BY <1>3, <2>1, <2>2, <3>1 DEF At
  <2>4. CASE GoTo(s, k, [runner[s][k] EXCEPT !.pc = "revoke"])
    <3> DEFINE r == [runner[s][k] EXCEPT !.pc = "revoke"]
    <3>0. runner[s][k] \in Runner
      BY <1>1 DEF TypeOK
    <3>1. r \in Runner /\ r.pc = "revoke" /\ r.jobs = runner[s][k].jobs
      BY <3>0 DEF Runner
    <3>2. GoTo(s, k, r)
      BY <2>4
    <3> HIDE DEF r
    <3> QED
      BY <1>3, <2>1, <2>2, <3>1, <3>2 DEF At
  <2> QED
    BY <2>1, <2>3, <2>4
<1> QED
  BY <1>4, <1>5

LEMMA StepRevoke ==
  ASSUME Inv, NEW s \in Servers, NEW k \in Slots, DirectRevoke(s, k)
  PROVE  Inv'
<1>1. PICK j \in runner[s][k].jobs, signed \in BOOLEAN :
        /\ At(s, k, "revoke", "all", j) \/ At(s, k, "next", "revoke", j)
        /\ IF signed
           THEN /\ revokedAt' = [revokedAt EXCEPT ![s] = IF @ > now THEN @ ELSE now]
                /\ revokeSent' = [revokeSent EXCEPT ![s] = now]
           ELSE UNCHANGED <<revokedAt, revokeSent>>
        /\ Finish(s, k, j)
        /\ UNCHANGED <<registration, urlKnown, hosts, turns, nextAttempt,
                       snapshot, now, phase, held, undone, overtaken>>
  BY DEF DirectRevoke
<1>2. TypeOK
  BY DEF Inv
<1>3. PICK r \in Runner : /\ GoTo(s, k, r) /\ r.jobs = runner[s][k].jobs \ {j}
                          /\ r.pc \in {"idle", "next"}
                          /\ r.pc = "idle" => r.jobs = {}
  BY <1>1, <1>2, FinishShape
<1>4. /\ revokedAt' \in [Servers -> Nat] /\ revokeSent' \in [Servers -> Nat]
      /\ Revokes' /\ \A q \in Servers : q # s => revokeSent'[q] = revokeSent[q]
  <2>0. /\ now \in Nat /\ now' = now
        /\ revokedAt \in [Servers -> Nat] /\ revokeSent \in [Servers -> Nat]
    BY <1>1, <1>2 DEF TypeOK
  <2>1. CASE signed
    <3>1. /\ revokedAt' \in [Servers -> Nat] /\ revokeSent' \in [Servers -> Nat]
          /\ revokeSent'[s] = now /\ now <= revokedAt'[s]
          /\ \A q \in Servers : q # s => revokeSent'[q] = revokeSent[q]
                                       /\ revokedAt'[q] = revokedAt[q]
      BY <1>1, <2>0, <2>1
    <3> QED
      BY <2>0, <3>1 DEF Inv, Revokes
  <2>2. CASE ~signed
    BY <1>1, <1>2, <2>2 DEF TypeOK, Inv, Revokes
  <2> QED
    BY <2>1, <2>2
<1>5. TypeOK'
  BY <1>1, <1>2, <1>3, <1>4, GoToType DEF TypeOK
<1> QED
  BY <1>1, <1>3, <1>4, <1>5, TaskStep DEF HasLock, At, Signing

\* apply_attempt_result: nobody else has the job, and nobody waits any more.
LEMMA StepResult ==
  ASSUME Inv, NEW s \in Servers, NEW k \in Slots, SubscribeResult(s, k)
  PROVE  Inv'
<1>1. PICK j \in runner[s][k].jobs :
        /\ At(s, k, "answer", "subscribe", j)
        /\ turns' = IF turns[j.turn] # None /\ turns[j.turn].attempt = j.attempt
                    THEN [turns EXCEPT ![j.turn].status = runner[s][k].outcome]
                    ELSE turns
        /\ Finish(s, k, j)
        /\ UNCHANGED <<registration, urlKnown, hosts, nextAttempt, revokedAt,
                       snapshot, now, outside, overtaken>>
  BY DEF SubscribeResult
<1>2. /\ TypeOK /\ j.kind = "subscribe" /\ j.turn \in TurnKeys /\ j.turn[1] = s
      /\ HasLock(s, k)
      /\ runner[s][k].outcome \in Status \ {"Pending"}
  BY <1>1 DEF Inv, At, Numbered, OfTurn, InFlight, HasLock
<1>3. PICK r \in Runner : /\ GoTo(s, k, r) /\ r.jobs = runner[s][k].jobs \ {j}
                          /\ r.pc \in {"idle", "next"}
                          /\ r.pc = "idle" => r.jobs = {}
  BY <1>1, <1>2, FinishShape
<1>4. \A t \in TurnKeys :
         \/ turns'[t] = turns[t]
         \/ /\ t = j.turn /\ Matches(j) /\ turns[t] \in Entry /\ turns'[t] \in Entry
            /\ turns'[t] = [turns[t] EXCEPT !.status = runner[s][k].outcome]
  <2>1. CASE Matches(j)
    <3>1. turns' = [turns EXCEPT ![j.turn].status = runner[s][k].outcome]
      BY <1>1, <2>1 DEF Matches
    <3>2. turns[j.turn] \in Entry
      BY <1>2, <2>1 DEF TypeOK, Matches
    <3>3. [turns[j.turn] EXCEPT !.status = runner[s][k].outcome] \in Entry
      BY <1>2, <3>2 DEF Entry
    <3> QED
      BY <1>2, <2>1, <3>1, <3>2, <3>3 DEF TypeOK
  <2>2. CASE ~Matches(j)
    BY <1>1, <2>2 DEF Matches
  <2> QED
    BY <2>1, <2>2
<1>5. turns' \in [TurnKeys -> Entry \cup {None}]
  <2>1. turns' = [t \in TurnKeys |-> turns'[t]]
    BY <1>1, <1>2 DEF TypeOK
  <2>2. \A t \in TurnKeys : turns'[t] \in Entry \cup {None}
    BY <1>2, <1>4 DEF TypeOK
  <2> QED
    BY <2>1, <2>2
<1>6. TypeOK'
  BY <1>1, <1>2, <1>3, <1>5, GoToType DEF TypeOK, outside
<1>7. \A t \in TurnKeys :
         turns'[t] # None =>
            /\ turns[t] # None /\ turns'[t].attempt = turns[t].attempt
            /\ turns'[t].completed = turns[t].completed
            /\ \/ turns'[t].status = turns[t].status
               \/ t = j.turn /\ Matches(j) /\ turns'[t].status # "Pending"
  <2> SUFFICES ASSUME NEW t \in TurnKeys, turns'[t] # None
               PROVE  /\ turns[t] # None /\ turns'[t].attempt = turns[t].attempt
                      /\ turns'[t].completed = turns[t].completed
                      /\ \/ turns'[t].status = turns[t].status
                         \/ t = j.turn /\ Matches(j) /\ turns'[t].status # "Pending"
    OBVIOUS
  <2>1. CASE turns'[t] = turns[t]
    BY <2>1
  <2>2. CASE /\ t = j.turn /\ Matches(j) /\ turns[t] \in Entry
             /\ turns'[t] = [turns[t] EXCEPT !.status = runner[s][k].outcome]
    BY <1>2, <2>2 DEF Entry, Matches
  <2> QED
    BY <1>4, <2>1, <2>2
<1>8. /\ runner'[s][k] = r
      /\ \A q \in Servers, l \in Slots :
            q # s \/ l # k => runner'[q][l] = runner[q][l]
  BY <1>2, <1>3 DEF GoTo, TypeOK
<1>9. \A q \in Servers, l \in Slots : runner'[q][l].jobs \subseteq runner[q][l].jobs
  BY <1>3, <1>8
<1>10. ASSUME NEW q \in Servers, NEW l \in Slots, NEW i \in runner'[q][l].jobs,
              i.kind = "subscribe", Matches(i)'
       PROVE  /\ i.turn \in TurnKeys /\ Matches(i)
              /\ turns'[i.turn].status = turns[i.turn].status
              /\ turns'[i.turn].completed = turns[i.turn].completed
  <2>1. i \in runner[q][l].jobs
    BY <1>9, <1>10
  <2>2. i.turn \in TurnKeys /\ i.turn[1] = q /\ i.url = FALSE /\ j.url = FALSE
    BY <1>1, <1>2, <1>10, <2>1 DEF Inv, Numbered, OfTurn
  <2>3. Matches(i)
    BY <1>7, <1>10, <2>2 DEF Matches
  <2>4. ~(i.turn = j.turn /\ Matches(j))
    <3> SUFFICES ASSUME i.turn = j.turn, Matches(j) PROVE FALSE
      OBVIOUS
    <3>1. i.attempt = j.attempt /\ q = s
      BY <1>2, <2>2, <2>3 DEF Matches
    <3>2. l = k
      BY <1>1, <1>2, <1>10, <2>1, <3>1 DEF Inv, Once
    <3>3. i \in Job /\ j \in Job
      BY <1>1, <1>2, <2>1 DEF TypeOK, Runner
    <3>4. i = j
      BY <1>2, <1>10, <2>2, <3>1, <3>3 DEF Job
    <3> QED
      BY <1>3, <1>8, <1>10, <3>1, <3>2, <3>4
  <2> QED
    BY <1>7, <1>10, <2>2, <2>3, <2>4 DEF Matches
<1>11. Numbered'
  <2>1. \A t \in TurnKeys : turns'[t] # None => turns'[t].attempt <= nextAttempt'
    BY <1>1, <1>7 DEF Inv, Numbered
  <2> QED
    BY <1>1, <1>9, <2>1 DEF Inv, Numbered
<1>12. Once'
  BY <1>9 DEF Inv, Once
<1>13. Waits'
  <2> SUFFICES ASSUME NEW q \in Servers, NEW l \in Slots, NEW i \in runner'[q][l].jobs,
                      i.kind = "subscribe", Matches(i)'
               PROVE  turns'[i.turn].status = "Pending"
    BY DEF Waits
  <2> QED
    BY <1>9, <1>10 DEF Inv, Waits
<1>14. PendingHasJob'
  <2> SUFFICES ASSUME NEW t \in TurnKeys, Unsettled(t)'
               PROVE  \E l \in Slots : \E i \in runner'[t[1]][l].jobs :
                         /\ i.kind = "subscribe" /\ i.turn = t
                         /\ i.attempt = turns'[t].attempt
    BY DEF PendingHasJob, Unsettled
  <2>1. /\ Unsettled(t) /\ turns'[t].attempt = turns[t].attempt
        /\ ~(t = j.turn /\ Matches(j))
    <3>1. turns'[t] # None /\ turns'[t].status = "Pending" /\ turns'[t].completed = 0
      BY DEF Unsettled
    <3>2. CASE turns'[t].status = turns[t].status
      <4>1. Unsettled(t) /\ turns'[t].attempt = turns[t].attempt
        BY <1>7, <3>1, <3>2 DEF Unsettled
      <4>2. ASSUME t = j.turn, Matches(j) PROVE FALSE
        <5>1. turns' = [turns EXCEPT ![j.turn].status = runner[s][k].outcome]
          BY <1>1, <4>2 DEF Matches
        <5>2. turns[t] \in Entry
          BY <1>2, <4>1 DEF TypeOK, Unsettled
        <5>3. turns'[t].status = runner[s][k].outcome
          BY <1>2, <4>2, <5>1, <5>2 DEF TypeOK, Entry
        <5> QED
          BY <1>2, <3>1, <5>3
      <4> QED
        BY <4>1, <4>2
    <3> QED
      BY <1>7, <3>1, <3>2
  <2>2. PICK l \in Slots : \E i \in runner[t[1]][l].jobs :
               i.kind = "subscribe" /\ i.turn = t /\ i.attempt = turns[t].attempt
    BY <2>1 DEF Inv, PendingHasJob, Unsettled
  <2>3. PICK i \in runner[t[1]][l].jobs :
               i.kind = "subscribe" /\ i.turn = t /\ i.attempt = turns[t].attempt
    BY <2>2
  <2>4. i # j
    BY <2>1, <2>3 DEF Matches, Unsettled
  <2>5. i \in runner'[t[1]][l].jobs
    BY <1>3, <1>8, <2>3, <2>4 DEF TurnKeys
  <2> QED
    BY <2>1, <2>3, <2>5
<1>15. NobodyWaits'
  BY <1>1, <1>7 DEF Inv, NobodyWaits, Unsettled
<1>16. InFlight'
  <2> SUFFICES ASSUME NEW q \in Servers, NEW l \in Slots
               PROVE  /\ runner'[q][l].pc = "idle" => runner'[q][l].jobs = {}
                      /\ runner'[q][l].pc \in Signing => Subscribing(q, l)'
                      /\ runner'[q][l].pc = "answer" =>
                            runner'[q][l].outcome \in Status \ {"Pending"}
    BY DEF InFlight
  <2>1. CASE q = s /\ l = k
    BY <1>3, <1>8, <2>1 DEF Signing
  <2>2. CASE q # s \/ l # k
    <3>1. runner'[q][l] = runner[q][l]
      BY <1>8, <2>2
    <3>2. ASSUME Subscribing(q, l) PROVE Subscribing(q, l)'
      <4>1. ASSUME NEW i \in runner'[q][l].jobs, i.kind = "subscribe", Matches(i)',
                   turns'[i.turn].completed = 0
            PROVE  runner'[q][l].grant.token = registration'
        BY <1>1, <1>10, <3>1, <3>2, <4>1 DEF Subscribing
      <4> QED
        BY <3>1, <3>2, <4>1 DEF Subscribing, NextJob
    <3> QED
      BY <3>1, <3>2 DEF Inv, InFlight
  <2> QED
    BY <2>1, <2>2
<1>17. Mutex'
  <2>1. \A q \in Servers, l \in Slots : HasLock(q, l)' => HasLock(q, l)
    BY <1>2, <1>8 DEF HasLock
  <2> QED
    BY <2>1 DEF Inv, Mutex
<1>18. GrantOutlivesRevoke'
  <2> SUFFICES ASSUME NEW q \in Servers, NEW l \in Slots, runner'[q][l].pc = "call"
               PROVE  runner'[q][l].grant.issued > revokeSent'[q]
    BY DEF GrantOutlivesRevoke
  <2>1. runner'[q][l] = runner[q][l]
    BY <1>3, <1>8
  <2> QED
    BY <1>1, <2>1 DEF Inv, GrantOutlivesRevoke, outside
<1>19. Revokes'
  BY <1>1, SameRevokes DEF outside
<1> QED
  BY <1>6, <1>11, <1>12, <1>13, <1>14, <1>15, <1>16, <1>17, <1>18, <1>19 DEF Inv

LEMMA AcquireShape ==
  ASSUME TypeOK, NEW s \in Servers, NEW k \in Slots, Acquire(s, k)
  PROVE  /\ runner' \in [Servers -> [Slots -> Runner]]
         /\ \A q \in Servers, l \in Slots :
               /\ runner'[q][l].jobs = runner[q][l].jobs
               /\ \/ q = s /\ l = k /\ runner'[q][l].pc = "next"
                  \/ /\ runner'[q][l].pc = runner[q][l].pc
                     /\ runner'[q][l].grant = runner[q][l].grant
                     /\ runner'[q][l].outcome = runner[q][l].outcome
<1> DEFINE mine == [runner[s][k] EXCEPT !.pc = "next", !.earlier = {}]
           others(l) == [runner[s][l] EXCEPT !.earlier = @ \ {k}]
           row == [l \in Slots |-> IF l = k THEN mine ELSE others(l)]
<1>1. runner' = [runner EXCEPT ![s] = row]
  BY DEF Acquire
<1>0. \A l \in Slots : runner[s][l] \in Runner
  BY DEF TypeOK
<1>2. /\ mine \in Runner /\ mine.jobs = runner[s][k].jobs /\ mine.pc = "next"
  <2>1. runner[s][k] \in Runner
    BY <1>0
  <2> QED
    BY <2>1 DEF Runner
<1>3. \A l \in Slots : /\ others(l) \in Runner /\ others(l).jobs = runner[s][l].jobs
                       /\ others(l).pc = runner[s][l].pc
                       /\ others(l).grant = runner[s][l].grant
                       /\ others(l).outcome = runner[s][l].outcome
  BY <1>0 DEF Runner
<1> HIDE DEF mine, others
<1>4. row \in [Slots -> Runner] /\ row[k] = mine /\ \A l \in Slots : l # k => row[l] = others(l)
  BY <1>2, <1>3
<1> HIDE DEF row
<1>5. /\ runner' \in [Servers -> [Slots -> Runner]]
      /\ runner'[s] = row /\ \A q \in Servers : q # s => runner'[q] = runner[q]
  BY <1>1, <1>4 DEF TypeOK
<1> QED
  BY <1>2, <1>3, <1>4, <1>5

LEMMA StepAcquire ==
  ASSUME Inv, NEW s \in Servers, NEW k \in Slots, Acquire(s, k)
  PROVE  Inv'
<1>1. TypeOK /\ UNCHANGED <<state, snapshot, now, outside>>
  BY DEF Inv, Acquire
<1>2. /\ runner' \in [Servers -> [Slots -> Runner]]
      /\ \A q \in Servers, l \in Slots :
            /\ runner'[q][l].jobs = runner[q][l].jobs
            /\ \/ q = s /\ l = k /\ runner'[q][l].pc = "next"
               \/ /\ runner'[q][l].pc = runner[q][l].pc
                  /\ runner'[q][l].grant = runner[q][l].grant
                  /\ runner'[q][l].outcome = runner[q][l].outcome
  BY <1>1, AcquireShape
<1>3. TypeOK'
  <2>1. overtaken' \subseteq Servers
    BY <1>1 DEF Acquire, TypeOK
  <2> QED
    BY <1>1, <1>2, <2>1 DEF TypeOK, state, outside
<1>4. Numbered' /\ Once' /\ Waits' /\ PendingHasJob' /\ NobodyWaits'
  <2>1. Numbered'
    BY <1>1, <1>2 DEF Inv, Numbered, state
  <2>2. Once'
    <3>1. \A q \in Servers, l \in Slots : runner'[q][l].jobs = runner[q][l].jobs
      BY <1>2
    <3> QED
      BY <3>1 DEF Inv, Once
  <2>3. Waits'
    BY <1>1, <1>2 DEF Inv, Waits, Matches, state
  <2>4. PendingHasJob'
    BY <1>1, <1>2 DEF Inv, PendingHasJob, state, TurnKeys
  <2>5. NobodyWaits'
    BY <1>1 DEF Inv, NobodyWaits, Unsettled, state
  <2> QED
    BY <2>1, <2>2, <2>3, <2>4, <2>5
<1>5. InFlight'
  <2> SUFFICES ASSUME NEW q \in Servers, NEW l \in Slots
               PROVE  /\ runner'[q][l].pc = "idle" => runner'[q][l].jobs = {}
                      /\ runner'[q][l].pc \in Signing => Subscribing(q, l)'
                      /\ runner'[q][l].pc = "answer" =>
                            runner'[q][l].outcome \in Status \ {"Pending"}
    BY DEF InFlight
  <2>1. CASE runner'[q][l].pc = "next"
    BY <2>1 DEF Signing
  <2>2. CASE /\ runner'[q][l].pc = runner[q][l].pc
             /\ runner'[q][l].grant = runner[q][l].grant
             /\ runner'[q][l].outcome = runner[q][l].outcome
    <3>1. Subscribing(q, l) => Subscribing(q, l)'
      BY <1>1, <1>2, <2>2 DEF Subscribing, NextJob, Matches, state
    <3> QED
      BY <1>2, <2>2, <3>1 DEF Inv, InFlight
  <2> QED
    BY <1>2, <2>1, <2>2
<1>6. Mutex'
  <2>1. \A l \in Slots : ~HasLock(s, l)
    BY DEF Acquire
  <2>2. \A q \in Servers, l \in Slots :
           q # s \/ l # k => (HasLock(q, l)' <=> HasLock(q, l))
    BY <1>2 DEF HasLock
  <2> QED
    BY <2>1, <2>2 DEF Inv, Mutex
<1>7. GrantOutlivesRevoke'
  BY <1>1, <1>2 DEF Inv, GrantOutlivesRevoke, outside
<1>8. Revokes'
  BY <1>1, SameRevokes DEF state, outside
<1> QED
  BY <1>3, <1>4, <1>5, <1>6, <1>7, <1>8 DEF Inv

-----------------------------------------------------------------------------

LEMMA InvInit == Init => Inv
<1> SUFFICES ASSUME Init PROVE Inv
  OBVIOUS
<1>1. Idle \in Runner /\ Idle.pc = "idle" /\ Idle.jobs = {}
  BY DEF Idle, Runner
<1>2. TypeOK
  BY <1>1 DEF Init, TypeOK
<1>3. Numbered /\ Once /\ Waits /\ PendingHasJob /\ NobodyWaits
  BY <1>1 DEF Init, Numbered, Once, Waits, PendingHasJob, NobodyWaits, Unsettled
<1>4. InFlight /\ Mutex /\ Revokes /\ GrantOutlivesRevoke
  BY <1>1 DEF Init, InFlight, Mutex, HasLock, Revokes, GrantOutlivesRevoke, Signing
<1> QED
  BY <1>2, <1>3, <1>4 DEF Inv

LEMMA StepOutside ==
  ASSUME Inv,
         \/ \E t \in TurnKeys : TurnMissed(t) \/ TurnEnds(t) \/ HostExpires(t)
         \/ ReadActive \/ Tick
         \/ \E s \in Servers, support \in {"legacy", "push"} : RecordHost(s, support)
  PROVE  Inv'
<1>1. TypeOK
  BY DEF Inv
<1>2. /\ UNCHANGED <<registration, turns, nextAttempt, revokedAt, runner, revokeSent>>
      /\ now <= now'
  BY <1>1 DEF TypeOK, TurnMissed, TurnEnds, HostExpires, ReadActive, Tick, RecordHost,
     state, outside
<1>3. TypeOK'
  <2>1. ASSUME NEW t \in TurnKeys, TurnMissed(t) PROVE TypeOK'
    BY <1>1, <2>1 DEF TypeOK, TurnMissed, state
  <2>2. ASSUME NEW t \in TurnKeys, TurnEnds(t) PROVE TypeOK'
    BY <1>1, <2>2 DEF TypeOK, TurnEnds, state
  <2>3. ASSUME NEW t \in TurnKeys, HostExpires(t) PROVE TypeOK'
    BY <1>1, <2>3 DEF TypeOK, HostExpires, state
  <2>4. CASE ReadActive
    BY <1>1, <2>4 DEF TypeOK, ReadActive, state, outside
  <2>5. CASE Tick
    BY <1>1, <2>5 DEF TypeOK, Tick, state, outside
  <2>6. ASSUME NEW s \in Servers, NEW support \in {"legacy", "push"}, RecordHost(s, support)
        PROVE  TypeOK'
    BY <1>1, <2>6 DEF TypeOK, RecordHost, outside
  <2> QED
    BY <2>1, <2>2, <2>3, <2>4, <2>5, <2>6
<1> QED
  BY <1>2, <1>3, QuietStep

LEMMA InvStep == Inv /\ [Next]_vars => Inv'
<1> SUFFICES ASSUME Inv, [Next]_vars PROVE Inv'
  OBVIOUS
<1>1. CASE UNCHANGED vars
  <2>1. TypeOK' /\ now <= now'
    BY <1>1 DEF Inv, TypeOK, vars, state, outside
  <2> QED
    BY <1>1, <2>1, QuietStep DEF vars, state, outside
<1>2. CASE Race
  BY <1>2, StepTurnStarted, StepOutside, StepCompleted, StepBackground, StepClear,
     StepPrune, StepSetRegistration DEF Race
<1>3. CASE Quietly
  <2>1. ASSUME NEW s \in Servers, NEW k \in Slots, Run(s, k) PROVE Inv'
    BY <2>1, StepSubscribeStart, StepSubscribeSkip, StepSign, StepHostSubscribe,
       StepResult, StepDrop, StepRevoke DEF Run
  <2>2. ASSUME NEW s \in Servers, NEW k \in Slots, Acquire(s, k) PROVE Inv'
    BY <2>2, StepAcquire
  <2>3. ASSUME NEW s \in Servers, ServerRemoved(s) PROVE Inv'
    BY <2>3, StepRemoved
  <2> QED
    BY <1>3, <2>1, <2>2, <2>3, StepOutside DEF Quietly
<1> QED
  BY <1>1, <1>2, <1>3 DEF Next

\* The inductive invariant holds in every reachable state: every transition of
\* PushState, every step of a task and every call to a host keeps it.
THEOREM InvHolds == Spec => []Inv
BY InvInit, InvStep, PTL DEF Spec

\* Every variable of PushManager keeps its type.
THEOREM PushTypeCorrect == Spec => []TypeOK
<1>1. Inv => TypeOK
  BY DEF Inv
<1> QED
  BY <1>1, InvHolds, PTL

\* PendingHasJob: whatever calls, tasks and answers interleave, no turn stays
\* Pending without a task that will settle it.
THEOREM PendingAlwaysHasJob == Spec => []PendingHasJob
<1>1. Inv => PendingHasJob
  BY DEF Inv
<1> QED
  BY <1>1, InvHolds, PTL

\* AttemptTokenCurrent: an answer for a token that is no longer registered is
\* never applied to a turn, however often the token changed meanwhile.
THEOREM AttemptTokenAlwaysCurrent == Spec => []AttemptTokenCurrent
<1>1. Inv => AttemptTokenCurrent
  <2> SUFFICES ASSUME Inv, NEW s \in Servers, NEW k \in Slots,
                      NEW j \in runner[s][k].jobs,
                      runner[s][k].pc \in Signing, NextJob(s, k, j), Matches(j),
                      turns[j.turn].completed = 0
               PROVE  runner[s][k].grant.token = registration
    BY DEF AttemptTokenCurrent, Signing, Matches
  <2>1. j.kind = "subscribe"
    BY OneNext
  <2>2. Subscribing(s, k)
    BY DEF Inv, InFlight
  <2> QED
    BY <2>1, <2>2 DEF Subscribing
<1> QED
  BY <1>1, InvHolds, PTL

\* GrantOutlivesRevoke: the Worker never refuses a grant for a revocation the
\* phone itself sent before it.
THEOREM GrantAlwaysOutlivesRevoke == Spec => []GrantOutlivesRevoke
<1>1. Inv => GrantOutlivesRevoke
  BY DEF Inv
<1> QED
  BY <1>1, InvHolds, PTL

-----------------------------------------------------------------------------
(* What a host holds for a running turn.  A good grant agrees with the     *)
(* phone; any other is about to be dropped by a job that waits for its     *)
(* server or has it to itself.                                             *)

Going(t) == phase[t] \in {"new", "active"}
Young(g) == now - g.planned < GRANT_LIFETIME
Good(t, g) ==
    /\ g.token = registration
    /\ hosts[t[1]] = "push"
    /\ turns[t] # None
    /\ turns[t].completed = 0 /\ turns[t].status # "Unsupported"
    /\ g.planned <= turns[t].planned
\* An unsubscribe_all that is revoking has asked the host already.
Dropped(t, k) ==
    /\ runner[t[1]][k].pc # "revoke"
    /\ \E j \in runner[t[1]][k].jobs : Drops(j, t)

Due(t) == /\ Going(t)
          /\ held[t] # None /\ t \notin undone /\ Young(held[t])
HeldFollows ==
    \A t \in TurnKeys : Due(t) => Good(t, held[t]) \/ \E k \in Slots : Dropped(t, k)

\* The same of the grant a call under way is about to leave there.
CallFollows ==
    \A s \in Servers, k \in Slots : \A j \in runner[s][k].jobs :
        /\ runner[s][k].pc \in {"sign", "call"}
        /\ NextJob(s, k, j)
        /\ Going(j.turn)
        /\ Young(runner[s][k].grant)
        => \/ Good(j.turn, runner[s][k].grant)
           \/ \E l \in Slots \ {k} : Dropped(j.turn, l)

\* A host that does not know the call holds nothing until that is recorded.
Unheard ==
    \A s \in Servers, k \in Slots :
        runner[s][k].pc = "answer" /\ runner[s][k].outcome = "Unsupported"
        => HoldsNothing(s)

Entries ==
    \A t \in TurnKeys :
        /\ turns[t] # None => /\ turns[t].planned <= now
                              /\ turns[t].completed # 0 => phase[t] = "done"
        /\ Unsettled(t) => hosts[t[1]] = "push"
        /\ phase[t] = "new" => held[t] = None

Follows == HeldFollows /\ CallFollows /\ Unheard /\ Entries

\* A call changes no host.  It leaves an entry that agrees with the grant, or
\* spawns the job that will drop the grant.
LEMMA CallFollow ==
  ASSUME Inv, Follows, NEW jobs, Call(jobs),
         held' = held, undone' = undone,
         \A t \in TurnKeys : Going(t)' => Going(t),
         \A t \in TurnKeys, g \in Grant :
             Going(t) /\ Going(t)' /\ Young(g) /\ Good(t, g)
             => Good(t, g)' \/ \E j \in jobs[t[1]] : Drops(j, t)
  PROVE  HeldFollows' /\ CallFollows' /\ Unheard'
<1>1. \A s \in Servers, k \in Slots :
         \/ runner'[s][k] = runner[s][k]
         \/ /\ runner[s][k].pc = "idle" /\ runner[s][k].jobs = {}
            /\ runner'[s][k].pc = "wait" /\ runner'[s][k].jobs = jobs[s]
  BY CallJobs
<1>2. TypeOK /\ jobs \in [Servers -> SUBSET Job] /\ Spawn(jobs) /\ now' = now
  BY DEF Call, Inv
<1>3. ASSUME NEW t \in TurnKeys, NEW k \in Slots, Dropped(t, k)
      PROVE  Dropped(t, k)' /\ runner[t[1]][k].pc # "idle"
  <2>1. t[1] \in Servers
    BY DEF TurnKeys
  <2>2. runner'[t[1]][k] = runner[t[1]][k] /\ runner[t[1]][k].jobs # {}
    BY <1>1, <1>3, <2>1 DEF Dropped
  <2> QED
    BY <1>3, <2>1, <2>2 DEF Dropped, Inv, InFlight
<1>4. ASSUME NEW t \in TurnKeys, NEW g \in Grant,
             Going(t), Going(t)', Young(g), Good(t, g)
      PROVE  Good(t, g)' \/ \E k \in Slots : Dropped(t, k)' /\ runner[t[1]][k].pc = "idle"
  <2>1. t[1] \in Servers
    BY DEF TurnKeys
  <2>2. ASSUME NEW j \in jobs[t[1]], Drops(j, t)
        PROVE  \E k \in Slots : Dropped(t, k)' /\ runner[t[1]][k].pc = "idle"
    <3>1. PICK k \in Slots : /\ runner[t[1]][k].pc = "idle"
                             /\ runner'[t[1]][k] = Task(t[1], jobs[t[1]])
      BY <1>2, <2>1, <2>2, SpawnEffect
    <3>2. runner'[t[1]][k].pc = "wait" /\ runner'[t[1]][k].jobs = jobs[t[1]]
      BY <1>2, <2>1, <3>1, TaskShape
    <3> QED
      BY <2>2, <3>1, <3>2 DEF Dropped, Drops
  <2> QED
    BY <1>4, <2>2
<1>5. HeldFollows'
  <2> SUFFICES ASSUME NEW t \in TurnKeys, Due(t)'
               PROVE  Good(t, held[t])' \/ \E k \in Slots : Dropped(t, k)'
    BY DEF HeldFollows
  <2>1. Due(t) /\ Going(t) /\ Going(t)' /\ Young(held[t]) /\ held[t] \in Grant
    BY <1>2 DEF Due, Young, TypeOK
  <2>2. Good(t, held[t]) \/ \E k \in Slots : Dropped(t, k)
    BY <2>1 DEF Follows, HeldFollows
  <2>3. CASE Good(t, held[t])
    <3>1. PICK g \in Grant : g = held[t]
      BY <2>1
    <3>2. Good(t, g)' \/ \E k \in Slots : Dropped(t, k)'
      BY <1>4, <2>1, <2>3, <3>1
    <3>3. Good(t, g)' => Good(t, held[t])'
      BY <3>1 DEF Good
    <3> QED
      BY <3>2, <3>3
  <2>4. CASE \E k \in Slots : Dropped(t, k)
    BY <1>3, <2>4
  <2> QED
    BY <2>2, <2>3, <2>4
<1>6. CallFollows'
  <2> SUFFICES ASSUME NEW s \in Servers, NEW k \in Slots, NEW j \in runner'[s][k].jobs,
                      runner'[s][k].pc \in {"sign", "call"}, NextJob(s, k, j)',
                      Going(j.turn)', Young(runner[s][k].grant)'
               PROVE  \/ Good(j.turn, runner[s][k].grant)'
                      \/ \E l \in Slots \ {k} : Dropped(j.turn, l)'
    BY DEF CallFollows
  <2>1. runner'[s][k] = runner[s][k]
    BY <1>1
  <2>2. NextJob(s, k, j) /\ j \in runner[s][k].jobs /\ runner[s][k].pc \in Signing
    BY <2>1 DEF NextJob, Signing
  <2>3. j.turn \in TurnKeys /\ j.turn[1] = s
    <3>1. j.kind = "subscribe"
      BY <2>2, OneNext
    <3> QED
      BY <2>2, <3>1 DEF Inv, Numbered, OfTurn
  <2> DEFINE g == runner[s][k].grant
  <2>4. g \in Grant /\ Young(g)
    BY <1>2, <2>1, <2>2 DEF Inv, InFlight, Subscribing, Young
  <2>5. Going(j.turn)
    BY <2>3
  <2>6. Good(j.turn, g) \/ \E l \in Slots \ {k} : Dropped(j.turn, l)
    BY <2>1, <2>2, <2>4, <2>5 DEF Follows, CallFollows
  <2>7. CASE \E l \in Slots \ {k} : Dropped(j.turn, l)
    BY <1>3, <2>3, <2>7
  <2>8. CASE Good(j.turn, g)
    <3> HIDE DEF g
    <3>1. PICK h : h = g
      OBVIOUS
    <3>2. \/ Good(j.turn, h)'
          \/ \E l \in Slots : Dropped(j.turn, l)' /\ runner[s][l].pc = "idle"
      BY <1>4, <2>3, <2>4, <2>5, <2>8, <3>1
    <3>3. Good(j.turn, h)' => Good(j.turn, runner[s][k].grant)'
      BY <2>1, <3>1 DEF Good, g
    <3>4. \A l \in Slots : runner[s][l].pc = "idle" => l # k
      BY <2>2 DEF Signing
    <3> QED
      BY <3>2, <3>3, <3>4
  <2> QED
    BY <2>6, <2>7, <2>8
<1>7. Unheard'
  <2> SUFFICES ASSUME NEW s \in Servers, NEW k \in Slots, runner'[s][k].pc = "answer",
                      runner'[s][k].outcome = "Unsupported"
               PROVE  HoldsNothing(s)'
    BY DEF Unheard
  <2>1. runner'[s][k] = runner[s][k]
    BY <1>1
  <2> QED
    BY <2>1 DEF Follows, Unheard, HoldsNothing
<1> QED
  BY <1>5, <1>6, <1>7

LEMMA PrunedGood ==
  ASSUME Inv, Entries, NEW t \in TurnKeys
  PROVE  /\ \A g \in Grant : Young(g) /\ Good(t, g) => Pruned[t] = turns[t]
         /\ Pruned[t] # None => Pruned[t] = turns[t]
<1>1. ASSUME NEW g \in Grant, Young(g), Good(t, g) PROVE ~Stale(turns[t])
  <2>1. turns[t] \in Entry /\ now \in Nat /\ GRANT_LIFETIME \in Nat
    BY <1>1, LimitsAssumption DEF Inv, TypeOK, Good
  <2>2. g.planned \in Nat /\ turns[t].planned \in Nat
    BY <2>1 DEF Grant, Entry
  <2> QED
    BY <1>1, <2>1, <2>2 DEF Good, Young, Stale
<1> QED
  BY <1>1 DEF Pruned

LEMMA PlanFollow ==
  ASSUME Inv, Follows, NEW ts \in [TurnKeys -> Entry \cup {None}],
         \A t \in TurnKeys : ts[t] = None \/ ts[t] = turns[t],
         NEW again \in SUBSET TurnKeys, NEW fresh \in SUBSET TurnKeys,
         NEW drop \in SUBSET again,
         \A t \in again : ts[t] # None /\ ts[t].completed = 0 /\ hosts[t[1]] = "push",
         \A t \in fresh : ts[t] = None /\ hosts[t[1]] = "push",
         NEW order \in Orders(again \cup fresh),
         Plan(ts, again, fresh, drop, order),
         NEW jobs, Call(jobs), \A t \in drop : \E j \in jobs[t[1]] : Drops(j, t),
         hosts' = hosts, held' = held, undone' = undone,
         \A t \in TurnKeys : /\ Going(t)' => Going(t)
                             /\ phase'[t] = "new" => phase[t] = "new"
                             /\ phase[t] = "done" => phase'[t] = "done",
         \A t \in TurnKeys \ drop, g \in Grant :
             Young(g) /\ Good(t, g) => registration' = g.token /\ ts[t] = turns[t]
  PROVE  Follows'
<1>1. now' = now /\ now \in Nat
  BY DEF Call, Inv, TypeOK
<1>2. ASSUME NEW t \in again \cup fresh
      PROVE  /\ turns'[t] \in Entry /\ turns'[t] # None
             /\ turns'[t].planned = now /\ turns'[t].completed = 0
             /\ hosts[t[1]] = "push"
             /\ t \in again => turns'[t].status = "Pending"
  <2>1. /\ turns'[t] \in Entry /\ turns'[t].planned = now
        /\ t \in again => /\ turns'[t].status = "Pending"
                          /\ turns'[t].completed = ts[t].completed
        /\ t \notin again => turns'[t].completed = 0
    BY PlanEntries
  <2> QED
    BY <2>1, NoEntryAssumption
<1>3. \A t \in TurnKeys \ (again \cup fresh) : turns'[t] = ts[t]
  BY DEF Plan, Planned
<1>4. Entries'
  <2> SUFFICES ASSUME NEW t \in TurnKeys
               PROVE  /\ turns'[t] # None =>
                            /\ turns'[t].planned <= now'
                            /\ turns'[t].completed # 0 => phase'[t] = "done"
                      /\ Unsettled(t)' => hosts'[t[1]] = "push"
                      /\ phase'[t] = "new" => held'[t] = None
    BY DEF Entries
  <2>1. CASE t \in again \cup fresh
    BY <1>1, <1>2, <2>1 DEF Follows, Entries
  <2>2. CASE turns'[t] = ts[t]
    BY <1>1, <2>2 DEF Follows, Entries, Unsettled
  <2> QED
    BY <1>3, <2>1, <2>2
<1>5. ASSUME NEW t \in TurnKeys, NEW g \in Grant, Young(g), Good(t, g)
      PROVE  Good(t, g)' \/ \E j \in jobs[t[1]] : Drops(j, t)
  <2>1. CASE t \in drop
    BY <2>1
  <2>2. CASE t \notin drop
    <3>1. registration' = g.token /\ ts[t] = turns[t] /\ ts[t] # None
      BY <1>5, <2>2 DEF Good
    <3>2. CASE t \in again
      <4>1. turns[t] \in Entry /\ g.planned \in Nat
        BY <3>1 DEF Grant
      <4>2. g.planned <= turns[t].planned /\ turns[t].planned <= now
        BY <1>5, <3>1 DEF Good, Follows, Entries
      <4>3. g.planned <= now
        BY <1>1, <4>1, <4>2 DEF Entry
      <4> QED
        BY <1>2, <3>1, <3>2, <4>3 DEF Good
    <3>3. CASE t \notin again
      <4>1. turns'[t] = turns[t]
        BY <1>3, <3>1, <3>3
      <4> QED
        BY <1>5, <3>1, <4>1 DEF Good
    <3> QED
      BY <3>2, <3>3
  <2> QED
    BY <2>1, <2>2
<1>6. HeldFollows' /\ CallFollows' /\ Unheard'
  BY <1>5, CallFollow
<1> QED
  BY <1>4, <1>6 DEF Follows

LEMMA FollowTurnStarted ==
  ASSUME Inv, Follows, NEW t \in TurnKeys, TurnStarted(t)
  PROVE  Follows'
<1> DEFINE fresh == Plannable(Pruned, registration, {t})
           none == {}
<1>0. none \cup fresh = fresh
  OBVIOUS
<1>1. PICK order \in Orders(none \cup fresh) : Plan(Pruned, none, fresh, none, order)
  BY <1>0 DEF TurnStarted
<1>2. TypeOK /\ Entries
  BY DEF Inv, Follows
<1>3. /\ fresh \in SUBSET TurnKeys /\ (registration = None => fresh = {})
      /\ \A u \in fresh : Pruned[u] = None /\ hosts[u[1]] = "push"
  BY DEF Plannable, Eligible
<1>4. /\ none \in SUBSET TurnKeys /\ none \in SUBSET none
      /\ registration = None => none \cup fresh = {}
      /\ \A u \in none : Pruned[u] # None
      /\ registration' = registration /\ revokedAt' = PrunedRevokes
      /\ now' = now /\ revokeSent' = revokeSent
      /\ hosts' = hosts /\ held' = held /\ undone' = undone
  BY <1>3 DEF TurnStarted
<1>5. \A u \in TurnKeys : /\ Going(u)' => Going(u)
                          /\ phase'[u] = "new" => phase[u] = "new"
                          /\ phase[u] = "done" => phase'[u] = "done"
  BY <1>2 DEF TurnStarted, TypeOK, Going
<1>6. PICK jobs : Call(jobs)
  <2> HIDE DEF fresh, none
  <2> QED
    BY <1>1, <1>2, <1>3, <1>4, PrunedShape, PlanCall
<1>7. \A u \in TurnKeys \ none, g \in Grant :
         Young(g) /\ Good(u, g) => registration' = g.token /\ Pruned[u] = turns[u]
  BY <1>2, <1>4, PrunedGood DEF Good
<1>8. /\ \A u \in none : Pruned[u] # None /\ Pruned[u].completed = 0 /\ hosts[u[1]] = "push"
      /\ \A u \in none : \E j \in jobs[u[1]] : Drops(j, u)
  OBVIOUS
<1>9. /\ Pruned \in [TurnKeys -> Entry \cup {None}]
      /\ \A u \in TurnKeys : Pruned[u] = None \/ Pruned[u] = turns[u]
  BY <1>2, PrunedShape
<1> HIDE DEF fresh, none
<1> QED
  BY <1>1, <1>3, <1>4, <1>5, <1>6, <1>7, <1>8, <1>9, PlanFollow

LEMMA FollowBackground ==
  ASSUME Inv, Follows, AppEnteredBackground
  PROVE  Follows'
<1> DEFINE again == {t \in snapshot : /\ Pruned[t] # None
                                      /\ Pruned[t].status = "Failed"
                                      /\ Pruned[t].completed = 0
                                      /\ Eligible(registration, t)}
           fresh == Plannable(Pruned, registration, snapshot)
<1>1. PICK order \in Orders(again \cup fresh) : Plan(Pruned, again, fresh, {}, order)
  BY DEF AppEnteredBackground
<1>2. TypeOK /\ Entries
  BY DEF Inv, Follows
<1>3. snapshot \in SUBSET TurnKeys
  BY <1>2 DEF AppEnteredBackground, TypeOK
<1>4. /\ again \in SUBSET TurnKeys /\ fresh \in SUBSET TurnKeys
      /\ registration = None => again \cup fresh = {}
      /\ \A t \in again : Pruned[t] # None /\ Pruned[t].completed = 0 /\ hosts[t[1]] = "push"
      /\ \A t \in fresh : Pruned[t] = None /\ hosts[t[1]] = "push"
  BY <1>3 DEF Plannable, Eligible
<1>5. /\ {} \in SUBSET again
      /\ registration' = registration /\ revokedAt' = PrunedRevokes
      /\ now' = now /\ revokeSent' = revokeSent /\ phase' = phase
      /\ hosts' = hosts /\ held' = held /\ undone' = undone
  BY DEF AppEnteredBackground, outside
<1> HIDE DEF again, fresh
<1>6. PICK jobs : Call(jobs)
  BY <1>1, <1>2, <1>4, <1>5, PrunedShape, PlanCall
<1>7. \A t \in TurnKeys \ {}, g \in Grant :
         Young(g) /\ Good(t, g) => registration' = g.token /\ Pruned[t] = turns[t]
  BY <1>2, <1>5, PrunedGood DEF Good
<1>8. /\ \A t \in TurnKeys : Going(t)' => Going(t)
      /\ \A t \in {} : \E j \in jobs[t[1]] : Drops(j, t)
  BY <1>5 DEF Going
<1>9. /\ Pruned \in [TurnKeys -> Entry \cup {None}]
      /\ \A u \in TurnKeys : Pruned[u] = None \/ Pruned[u] = turns[u]
  BY <1>2, PrunedShape
<1> QED
  BY <1>1, <1>4, <1>5, <1>6, <1>7, <1>8, <1>9, PlanFollow

\* A live entry whose host is told to drop the old token is planned again.
LEMMA FollowSetRegistration ==
  ASSUME Inv, Follows, NEW r \in Tokens, SetRegistration(r)
  PROVE  Follows'
<1> DEFINE live  == IF registration \in {None, r} THEN {}
                    ELSE {t \in TurnKeys : IsLive(Pruned[t])}
           again == {t \in live : hosts[t[1]] = "push"}
           kept  == [t \in TurnKeys |->
                        IF t \in live \ again THEN None ELSE Pruned[t]]
           fresh == Plannable(kept, r, snapshot)
<1>1. PICK order \in Orders(again \cup fresh) : Plan(kept, again, fresh, again, order)
  BY DEF SetRegistration
<1>2. TypeOK /\ Entries
  BY DEF Inv, Follows
<1>3. snapshot \in SUBSET TurnKeys
  BY <1>2 DEF SetRegistration, TypeOK
<1>4. /\ again \in SUBSET TurnKeys /\ fresh \in SUBSET TurnKeys
      /\ again \in SUBSET again
      /\ \A t \in again : hosts[t[1]] = "push"
      /\ \A t \in fresh : kept[t] = None /\ hosts[t[1]] = "push"
  BY <1>3 DEF Plannable, Eligible
<1>5. /\ kept \in [TurnKeys -> Entry \cup {None}]
      /\ \A t \in TurnKeys : kept[t] = None \/ kept[t] = turns[t]
  BY <1>2, PrunedShape
<1>6. \A t \in again : kept[t] # None /\ kept[t].completed = 0
  BY DEF IsLive
<1>7. /\ registration' = r /\ r # None /\ revokedAt' = PrunedRevokes
      /\ now' = now /\ revokeSent' = revokeSent /\ phase' = phase
      /\ hosts' = hosts /\ held' = held /\ undone' = undone
  BY NamesAssumption DEF SetRegistration, outside
<1>8. ASSUME registration # r, NEW t \in TurnKeys \ (again \cup fresh),
             kept[t] # None, kept[t].status = "Pending", kept[t].completed = 0
      PROVE  FALSE
  <2>1. t \notin live \ again /\ kept[t] = Pruned[t] /\ Pruned[t] = turns[t]
    BY <1>2, <1>8, PrunedShape
  <2>2. CASE registration = None
    BY <1>8, <2>1, <2>2 DEF Inv, NobodyWaits, Unsettled
  <2>3. CASE registration # None
    BY <1>8, <2>1, <2>3 DEF IsLive
  <2> QED
    BY <2>2, <2>3
<1>9. ASSUME NEW t \in TurnKeys \ again, NEW g \in Grant, Young(g), Good(t, g)
      PROVE  registration' = g.token /\ kept[t] = turns[t]
  <2>1. /\ Pruned[t] = turns[t] /\ registration = g.token /\ IsLive(turns[t])
        /\ hosts[t[1]] = "push" /\ registration \in Tokens
    BY <1>2, <1>9, PrunedGood DEF Good, IsLive, Grant
  <2>2. registration = r
    BY <1>9, <2>1, NamesAssumption
  <2> QED
    BY <1>7, <2>1, <2>2
<1> HIDE DEF live, again, kept, fresh
<1>10. PICK jobs : Call(jobs) /\ \A t \in again : \E j \in jobs[t[1]] : Drops(j, t)
  BY <1>1, <1>2, <1>4, <1>5, <1>6, <1>7, <1>8, PlanCall
<1>11. \A t \in TurnKeys : Going(t)' => Going(t)
  BY <1>7 DEF Going
<1> QED
  BY <1>1, <1>4, <1>5, <1>6, <1>7, <1>9, <1>10, <1>11, PlanFollow

LEMMA FollowClear ==
  ASSUME Inv, Follows, ClearRegistration
  PROVE  Follows'
<1> DEFINE jobs == [s \in Servers |-> IF hosts[s] = "push"
                                      THEN {ServerJob("all", TRUE)} ELSE {}]
<1>1. TypeOK /\ Entries
  BY DEF Inv, Follows
<1>2. turns' = [t \in TurnKeys |-> None] /\ Spawn(jobs)
  BY DEF ClearRegistration
<1>3. /\ jobs \in [Servers -> SUBSET Job]
      /\ \A s \in Servers : \A j \in jobs[s] : ~OfTurn(j)
  BY ServerJobShape
<1>4. /\ turns' \in [TurnKeys -> Entry \cup {None}]
      /\ \A t \in TurnKeys : turns'[t] = None
  BY <1>2
<1>5. /\ nextAttempt' = nextAttempt /\ revokedAt' = PrunedRevokes
      /\ now' = now /\ revokeSent' = revokeSent
      /\ phase' = phase /\ held' = held /\ undone' = undone
  BY DEF ClearRegistration, outside
<1>6. ASSUME NEW t \in TurnKeys, NEW g \in Grant, Good(t, g)
      PROVE  \E j \in jobs[t[1]] : Drops(j, t)
  <2>1. t[1] \in Servers /\ hosts[t[1]] = "push"
    BY <1>6 DEF TurnKeys, Good
  <2>2. ServerJob("all", TRUE) \in jobs[t[1]]
    BY <2>1
  <2>3. Drops(ServerJob("all", TRUE), t)
    BY DEF Drops, ServerJob
  <2> QED
    BY <2>2, <2>3
<1> HIDE DEF jobs
<1>7. Call(jobs)
  BY <1>2, <1>3, <1>4, <1>5, TrimCall
<1>8. HeldFollows' /\ CallFollows' /\ Unheard'
  BY <1>5, <1>6, <1>7, CallFollow DEF Going
<1>9. Entries'
  BY <1>1, <1>4, <1>5 DEF Entries, Unsettled
<1> QED
  BY <1>8, <1>9 DEF Follows

\* A call that only removes or completes entries.
LEMMA TrimFollow ==
  ASSUME Inv, Follows, turns' \in [TurnKeys -> Entry \cup {None}],
         UNCHANGED <<registration, hosts, runner, held, undone, now, revokeSent,
                     nextAttempt>>,
         revokedAt' = PrunedRevokes,
         \A t \in TurnKeys : turns'[t] = None \/ Kept(t),
         \A t \in TurnKeys : /\ turns'[t] # None => turns'[t].planned = turns[t].planned
                             /\ phase'[t] = "new" => phase[t] = "new"
                             /\ Going(t)' => Going(t)
                             /\ phase[t] = "done" => phase'[t] = "done"
                             /\ turns'[t] # None /\ turns'[t].completed # 0
                                => phase'[t] = "done",
         \A t \in TurnKeys, g \in Grant :
             Going(t)' /\ Young(g) /\ Good(t, g) => turns'[t] = turns[t]
  PROVE  Follows'
<1> DEFINE none == [s \in Servers |-> {}]
<1>1. TypeOK /\ Entries
  BY DEF Inv, Follows
<1>2. none \in [Servers -> SUBSET Job] /\ Spawn(none)
  BY <1>1, NoJobs
<1>3. \A s \in Servers : \A j \in none[s] : ~OfTurn(j)
  OBVIOUS
<1>4. Call(none)
  <2> HIDE DEF none
  <2> QED
    BY <1>2, <1>3, TrimCall
<1> HIDE DEF none
<1>5. \A t \in TurnKeys, g \in Grant :
         Going(t) /\ Going(t)' /\ Young(g) /\ Good(t, g)
         => Good(t, g)' \/ \E j \in none[t[1]] : Drops(j, t)
  BY DEF Good
<1>6. HeldFollows' /\ CallFollows' /\ Unheard'
  BY <1>4, <1>5, CallFollow
<1>7. Entries'
  BY <1>1 DEF Entries, Unsettled, Kept
<1> QED
  BY <1>6, <1>7 DEF Follows

LEMMA FollowPrune ==
  ASSUME Inv, Follows, PruneOnly
  PROVE  Follows'
<1>1. TypeOK /\ Entries
  BY DEF Inv, Follows
<1>2. /\ UNCHANGED <<registration, hosts, runner, held, undone, now, revokeSent,
                     nextAttempt, phase>>
      /\ turns' = Pruned /\ revokedAt' = PrunedRevokes
  BY DEF PruneOnly, outside
<1>3. /\ Pruned \in [TurnKeys -> Entry \cup {None}]
      /\ \A t \in TurnKeys : Pruned[t] = None \/ Pruned[t] = turns[t]
  BY <1>1, PrunedShape
<1>4. \A t \in TurnKeys, g \in Grant :
         Going(t)' /\ Young(g) /\ Good(t, g) => turns'[t] = turns[t]
  BY <1>1, <1>2, PrunedGood
<1>5. \A t \in TurnKeys : turns'[t] = None \/ (Kept(t) /\ turns'[t] = turns[t])
  BY <1>2, <1>3 DEF Kept
<1>6. \A t \in TurnKeys : Going(t)' => Going(t)
  BY <1>2 DEF Going
<1> QED
  BY <1>1, <1>2, <1>3, <1>4, <1>5, <1>6, TrimFollow DEF Entries

LEMMA FollowCompleted ==
  ASSUME Inv, Follows, NEW t \in TurnKeys, TurnCompleted(t)
  PROVE  Follows'
<1>1. TypeOK /\ Entries
  BY DEF Inv, Follows
<1>2. /\ UNCHANGED <<registration, hosts, runner, held, undone, now, revokeSent,
                     nextAttempt>>
      /\ revokedAt' = PrunedRevokes
      /\ phase[t] = "ended" /\ phase' = [phase EXCEPT ![t] = "done"]
  BY DEF TurnCompleted
<1>3. /\ Pruned \in [TurnKeys -> Entry \cup {None}]
      /\ \A u \in TurnKeys : Pruned[u] = None \/ Pruned[u] = turns[u]
  BY <1>1, PrunedShape
<1>4. \A u \in TurnKeys :
         /\ u # t => phase'[u] = phase[u] /\ turns'[u] = Pruned[u]
         /\ phase'[t] = "done"
  BY <1>1, <1>2 DEF TurnCompleted, TypeOK
<1>5. /\ turns'[t] \in Entry \cup {None}
      /\ turns'[t] = None \/ Kept(t)
      /\ turns'[t] # None => turns'[t].planned = turns[t].planned
  <2>1. CASE turns[t] # None /\ ~Stale(turns[t])
    <3>1. turns[t] \in Entry /\ now \in Nat
      BY <1>1, <2>1 DEF TypeOK
    <3>2. turns'[t] = [turns[t] EXCEPT !.completed = IF @ = 0 THEN now ELSE @]
      BY <2>1 DEF TurnCompleted
    <3> QED
      BY <2>1, <3>1, <3>2 DEF Entry, Kept
  <2>2. CASE ~(turns[t] # None /\ ~Stale(turns[t]))
    <3>1. turns'[t] = Pruned[t]
      BY <2>2 DEF TurnCompleted
    <3> QED
      BY <1>3, <3>1 DEF Kept
  <2> QED
    BY <2>1, <2>2
<1>6. turns' \in [TurnKeys -> Entry \cup {None}]
  <2>1. turns' = [u \in TurnKeys |-> turns'[u]]
    BY DEF TurnCompleted
  <2>2. \A u \in TurnKeys : turns'[u] \in Entry \cup {None}
    BY <1>3, <1>4, <1>5
  <2> QED
    BY <2>1, <2>2
<1>7. ASSUME NEW u \in TurnKeys
      PROVE  /\ turns'[u] = None \/ Kept(u)
             /\ turns'[u] # None => turns'[u].planned = turns[u].planned
             /\ phase'[u] = "new" => phase[u] = "new"
             /\ Going(u)' => Going(u) /\ u # t
             /\ phase[u] = "done" => phase'[u] = "done"
             /\ turns'[u] # None /\ turns'[u].completed # 0 => phase'[u] = "done"
  <2>1. CASE u = t
    BY <1>4, <1>5, <2>1 DEF Going
  <2>2. CASE u # t
    BY <1>1, <1>3, <1>4, <2>2 DEF Going, Kept, Entries
  <2> QED
    BY <2>1, <2>2
<1>8. \A u \in TurnKeys, g \in Grant :
         Going(u)' /\ Young(g) /\ Good(u, g) => turns'[u] = turns[u]
  BY <1>1, <1>4, <1>7, PrunedGood
<1> QED
  BY <1>2, <1>6, <1>7, <1>8, TrimFollow

\* A removed server with push.v1 is told to drop everything.
LEMMA FollowRemoved ==
  ASSUME Inv, Follows, NEW s \in Servers, ServerRemoved(s)
  PROVE  Follows'
<1> DEFINE jobs == [q \in Servers |-> IF q = s THEN RemovalJobs(s) ELSE {}]
<1>1. TypeOK /\ Entries
  BY DEF Inv, Follows
<1>2. /\ turns' = [t \in TurnKeys |-> IF t[1] = s THEN None ELSE turns[t]] /\ Spawn(jobs)
      /\ hosts' = [hosts EXCEPT ![s] = "absent"]
  BY DEF ServerRemoved
<1>3. \A j \in RemovalJobs(s) : j \in Job /\ ~OfTurn(j)
  <2>1. urlKnown \in BOOLEAN /\ hosts[s] \in {"absent", "legacy", "push"}
    BY <1>1 DEF TypeOK
  <2>2. CASE hosts[s] = "push"
    BY <2>1, <2>2, ServerJobShape DEF RemovalJobs
  <2>3. CASE hosts[s] # "push"
    BY <2>1, <2>3, ServerJobShape DEF RemovalJobs
  <2> QED
    BY <2>2, <2>3
<1>4. /\ jobs \in [Servers -> SUBSET Job]
      /\ \A q \in Servers : \A j \in jobs[q] : ~OfTurn(j)
  BY <1>3
<1>5. /\ turns' \in [TurnKeys -> Entry \cup {None}]
      /\ \A t \in TurnKeys : turns'[t] = None \/ Kept(t)
      /\ \A t \in TurnKeys : /\ t[1] = s => turns'[t] = None
                             /\ t[1] # s => /\ turns'[t] = turns[t]
                                            /\ hosts'[t[1]] = hosts[t[1]]
  BY <1>1, <1>2 DEF TypeOK, Kept, TurnKeys
<1>6. /\ nextAttempt' = nextAttempt /\ revokedAt' = revokedAt
      /\ registration' = registration /\ now' = now /\ revokeSent' = revokeSent
      /\ phase' = phase /\ held' = held /\ undone' = undone
  BY DEF ServerRemoved, outside
<1>7. ASSUME NEW t \in TurnKeys, NEW g \in Grant, Good(t, g)
      PROVE  Good(t, g)' \/ \E j \in jobs[t[1]] : Drops(j, t)
  <2>1. CASE t[1] = s
    <3>1. ServerJob("all", urlKnown) \in RemovalJobs(s)
      BY <1>7, <2>1 DEF Good, RemovalJobs
    <3>2. Drops(ServerJob("all", urlKnown), t)
      BY DEF Drops, ServerJob
    <3> QED
      BY <2>1, <3>1, <3>2
  <2>2. CASE t[1] # s
    BY <1>5, <1>6, <1>7, <2>2 DEF Good
  <2> QED
    BY <2>1, <2>2
<1> HIDE DEF jobs
<1>8. Call(jobs)
  BY <1>2, <1>4, <1>5, <1>6, TrimCall
<1>9. HeldFollows' /\ CallFollows' /\ Unheard'
  BY <1>6, <1>7, <1>8, CallFollow DEF Going
<1>10. Entries'
  BY <1>1, <1>5, <1>6 DEF Entries, Unsettled
<1> QED
  BY <1>9, <1>10 DEF Follows

\* A task's step touches its own server's turns; while it has the lock, no
\* other task of the server is at a call.
LEMMA TaskFollow ==
  ASSUME Inv, Inv', Follows, NEW s \in Servers, NEW k \in Slots, HasLock(s, k),
         UNCHANGED <<registration, hosts, phase, now>>,
         NEW r \in Runner, GoTo(s, k, r),
         \A t \in TurnKeys : t[1] # s => /\ held'[t] = held[t] /\ turns'[t] = turns[t]
                                         /\ t \in undone' <=> t \in undone,
         \A t \in TurnKeys : t[1] = s /\ Due(t)' =>
             Good(t, held[t])' \/ \E l \in Slots : Dropped(t, l)',
         r.pc \in {"sign", "call"} =>
             \A j \in r.jobs :
                 NextJob(s, k, j)' /\ Going(j.turn) /\ Young(r.grant)
                 => Good(j.turn, r.grant)' \/ \E l \in Slots \ {k} : Dropped(j.turn, l)',
         r.pc = "answer" /\ r.outcome = "Unsupported" => HoldsNothing(s)'
  PROVE  HeldFollows' /\ CallFollows' /\ Unheard'
<1>1. /\ runner'[s][k] = r
      /\ \A q \in Servers, l \in Slots :
            q # s \/ l # k => runner'[q][l] = runner[q][l]
  BY DEF GoTo, Inv, TypeOK
<1>2. \A t \in TurnKeys : t[1] \in Servers
  BY DEF TurnKeys
<1>3. \A t \in TurnKeys : t[1] # s => \A l \in Slots : Dropped(t, l) => Dropped(t, l)'
  BY <1>1, <1>2 DEF Dropped
<1>4. HeldFollows'
  <2> SUFFICES ASSUME NEW t \in TurnKeys, Due(t)'
               PROVE  Good(t, held[t])' \/ \E l \in Slots : Dropped(t, l)'
    BY DEF HeldFollows
  <2>1. CASE t[1] # s
    <3>1. Due(t)
      BY <2>1 DEF Due, Going, Young
    <3>2. Good(t, held[t]) \/ \E l \in Slots : Dropped(t, l)
      BY <3>1 DEF Follows, HeldFollows
    <3>3. Good(t, held[t]) => Good(t, held[t])'
      BY <2>1 DEF Good
    <3> QED
      BY <1>3, <2>1, <3>2, <3>3
  <2> QED
    BY <2>1
<1>5. ASSUME NEW q \in Servers, NEW l \in Slots, HasLock(q, l)', q # s \/ l # k
      PROVE  q # s /\ runner'[q][l] = runner[q][l]
  <2>1. runner'[q][l] = runner[q][l]
    BY <1>1, <1>5
  <2>2. q = s => l = k
    BY <1>5, <2>1 DEF HasLock, Inv, Mutex
  <2> QED
    BY <1>5, <2>1, <2>2
<1>6. CallFollows'
  <2> SUFFICES ASSUME NEW q \in Servers, NEW l \in Slots, NEW j \in runner'[q][l].jobs,
                      runner'[q][l].pc \in {"sign", "call"}, NextJob(q, l, j)',
                      Going(j.turn)', Young(runner[q][l].grant)'
               PROVE  \/ Good(j.turn, runner[q][l].grant)'
                      \/ \E i \in Slots \ {l} : Dropped(j.turn, i)'
    BY DEF CallFollows
  <2>1. CASE q = s /\ l = k
    <3>1. Going(j.turn) /\ Young(r.grant) /\ NextJob(s, k, j)' /\ j \in r.jobs
      BY <1>1, <2>1 DEF Going, Young
    <3>2. Good(j.turn, r.grant)' \/ \E i \in Slots \ {k} : Dropped(j.turn, i)'
      BY <1>1, <2>1, <3>1
    <3>3. Good(j.turn, r.grant)' => Good(j.turn, runner[q][l].grant)'
      BY <1>1, <2>1 DEF Good
    <3> QED
      BY <2>1, <3>2, <3>3
  <2>2. CASE q # s \/ l # k
    <3>1. q # s /\ runner'[q][l] = runner[q][l]
      BY <1>5, <2>2 DEF HasLock
    <3>2. runner[q][l].pc \in Signing /\ j \in runner[q][l].jobs /\ NextJob(q, l, j)
      BY <3>1 DEF NextJob, Signing
    <3>3. j.kind = "subscribe"
      BY <3>2, OneNext
    <3>4. j.turn \in TurnKeys /\ j.turn[1] = q
      BY <3>2, <3>3 DEF Inv, Numbered, OfTurn
    <3>5. Going(j.turn) /\ Young(runner[q][l].grant)
      BY <3>1 DEF Going, Young
    <3>6. \/ Good(j.turn, runner[q][l].grant)
          \/ \E i \in Slots \ {l} : Dropped(j.turn, i)
      BY <3>1, <3>2, <3>5 DEF Follows, CallFollows
    <3>7. Good(j.turn, runner[q][l].grant) => Good(j.turn, runner[q][l].grant)'
      BY <3>1, <3>4 DEF Good
    <3> QED
      BY <1>3, <3>1, <3>4, <3>6, <3>7
  <2> QED
    BY <2>1, <2>2
<1>7. Unheard'
  <2> SUFFICES ASSUME NEW q \in Servers, NEW l \in Slots, runner'[q][l].pc = "answer",
                      runner'[q][l].outcome = "Unsupported"
               PROVE  HoldsNothing(q)'
    BY DEF Unheard
  <2>1. CASE q = s /\ l = k
    BY <1>1, <2>1
  <2>2. CASE q # s \/ l # k
    <3>1. q # s /\ runner'[q][l] = runner[q][l]
      BY <1>5, <2>2 DEF HasLock
    <3> QED
      BY <3>1 DEF Follows, Unheard, HoldsNothing
  <2> QED
    BY <2>1, <2>2
<1> QED
  BY <1>4, <1>6, <1>7

\* Where a step leaves the turn and its subscription alone, the grant stays
\* good, and any job that drops it stays unless this step ran it.
LEMMA DueStays ==
  ASSUME Inv, Follows, NEW s \in Servers, NEW k \in Slots,
         UNCHANGED <<registration, hosts, phase, now>>,
         NEW r \in Runner, GoTo(s, k, r),
         NEW t \in TurnKeys, t[1] = s, Due(t)',
         held'[t] = held[t], t \notin undone,
         Good(t, held[t]) => Good(t, held[t])',
         Dropped(t, k) => r.pc # "revoke" /\ \E j \in r.jobs : Drops(j, t)
  PROVE  Good(t, held[t])' \/ \E l \in Slots : Dropped(t, l)'
<1>1. /\ runner'[s][k] = r
      /\ \A l \in Slots : l # k => runner'[s][l] = runner[s][l]
  BY DEF GoTo, Inv, TypeOK
<1>2. Due(t)
  BY DEF Due, Going, Young
<1>3. Good(t, held[t]) \/ \E l \in Slots : Dropped(t, l)
  BY <1>2 DEF Follows, HeldFollows
<1>4. \A l \in Slots : Dropped(t, l) => Dropped(t, l)'
  BY <1>1 DEF Dropped
<1> QED
  BY <1>3, <1>4

LEMMA SameEntries ==
  ASSUME Inv, Follows, UNCHANGED <<turns, hosts, phase, now>>,
         \A t \in TurnKeys : phase[t] = "new" => held'[t] = None
  PROVE  Entries'
BY DEF Follows, Entries, Unsettled

LEMMA FollowStart ==
  ASSUME Inv, Inv', Follows, NEW s \in Servers, NEW k \in Slots, SubscribeStart(s, k)
  PROVE  Follows'
<1>1. PICK j \in runner[s][k].jobs :
         /\ At(s, k, "next", "subscribe", j)
         /\ Wanted(j)
         /\ GoTo(s, k, [runner[s][k] EXCEPT
                          !.pc = "sign",
                          !.grant = [token |-> registration, issued |-> 0,
                                     planned |-> turns[j.turn].planned]])
  BY DEF SubscribeStart
<1>2. TypeOK /\ UNCHANGED <<registration, hosts, turns, now, phase, held, undone>>
  BY DEF SubscribeStart, Inv, state, outside
<1> DEFINE g == [token |-> registration, issued |-> 0, planned |-> turns[j.turn].planned]
           task == [runner[s][k] EXCEPT !.pc = "sign", !.grant = g]
<1>3. runner[s][k] \in Runner /\ runner[s][k].pc = "next"
  BY <1>1, <1>2 DEF TypeOK, At
<1>4. j.turn \in TurnKeys /\ turns[j.turn] \in Entry
  BY <1>1, <1>2 DEF At, OfTurn, Wanted, Inv, Numbered, TypeOK
<1>5. g \in Grant /\ g.token = registration /\ g.planned = turns[j.turn].planned
  BY <1>1, <1>2, <1>4 DEF Wanted, TypeOK, Grant, Entry
<1> HIDE DEF g
<1>6. /\ task \in Runner /\ task.pc = "sign" /\ task.jobs = runner[s][k].jobs
      /\ task.grant = g
  BY <1>3, <1>5 DEF Runner
<1>7. GoTo(s, k, task)
  BY <1>1 DEF g
<1> HIDE DEF task
<1>8. PICK r \in Runner : r = task
  BY <1>6
<1>9. r.pc = "sign" /\ r.jobs = runner[s][k].jobs /\ r.grant = g /\ GoTo(s, k, r)
  BY <1>6, <1>7, <1>8
<1>10. runner'[s][k] = r
  BY <1>2, <1>9, GoToType
<1>11. ASSUME NEW i \in r.jobs, NextJob(s, k, i)'
      PROVE  Good(i.turn, r.grant)'
  <2>1. NextJob(s, k, i) /\ NextJob(s, k, j) /\ i \in runner[s][k].jobs
    BY <1>1, <1>9, <1>10, <1>11 DEF NextJob, At
  <2>2. i.attempt \in Nat /\ j.attempt \in Nat /\ i \in Job /\ j \in Job
    BY <1>2, <2>1 DEF TypeOK, Runner, Job
  <2>3. i = j
    BY <1>1, <2>1, <2>2 DEF NextJob, At
  <2>4. hosts[j.turn[1]] = "push" /\ turns[j.turn].planned \in Nat
    BY <1>1, <1>4 DEF Wanted, Follows, Entries, Unsettled, Entry
  <2>5. r.grant.token = registration /\ r.grant.planned <= turns[j.turn].planned
    BY <1>5, <1>9, <2>4
  <2> QED
    BY <1>1, <1>2, <2>3, <2>4, <2>5 DEF Good, Wanted
<1>12. ASSUME NEW t \in TurnKeys, t[1] = s, Due(t)'
       PROVE  Good(t, held[t])' \/ \E l \in Slots : Dropped(t, l)'
  <2>1. held'[t] = held[t] /\ t \notin undone
    BY <1>2, <1>12 DEF Due
  <2>2. Good(t, held[t]) => Good(t, held[t])'
    BY <1>2 DEF Good
  <2>3. Dropped(t, k) => r.pc # "revoke" /\ \E i \in r.jobs : Drops(i, t)
    BY <1>9, <1>12 DEF Dropped
  <2> QED
    BY <1>2, <1>9, <1>12, <2>1, <2>2, <2>3, DueStays
<1>13. HeldFollows' /\ CallFollows' /\ Unheard'
  BY <1>2, <1>3, <1>9, <1>11, <1>12, TaskFollow DEF HasLock
<1>14. Entries'
  BY <1>2, SameEntries DEF Follows, Entries
<1> QED
  BY <1>13, <1>14 DEF Follows

\* A step that ends a job that drops nothing.
LEMMA FinishFollow ==
  ASSUME Inv, Inv', Follows, NEW s \in Servers, NEW k \in Slots, HasLock(s, k),
         UNCHANGED <<registration, hosts, phase, now, held, undone>>,
         NEW j \in runner[s][k].jobs, Finish(s, k, j),
         \/ runner[s][k].pc = "revoke"
         \/ j.kind \in {"subscribe", "revoke"},
         \A t \in TurnKeys : t[1] # s => turns'[t] = turns[t],
         \A t \in TurnKeys, g \in Grant :
             t[1] = s /\ held[t] # None /\ Good(t, g) => Good(t, g)'
  PROVE  HeldFollows' /\ CallFollows' /\ Unheard'
<1>1. TypeOK
  BY DEF Inv
<1>2. PICK r \in Runner : /\ GoTo(s, k, r) /\ r.jobs = runner[s][k].jobs \ {j}
                          /\ r.pc \in {"idle", "next"}
                          /\ r.pc = "idle" => r.jobs = {}
  BY <1>1, FinishShape
<1>3. ASSUME NEW t \in TurnKeys, t[1] = s, Due(t)'
      PROVE  Good(t, held[t])' \/ \E l \in Slots : Dropped(t, l)'
  <2>1. held'[t] = held[t] /\ t \notin undone /\ held[t] # None
    BY <1>3 DEF Due
  <2>2. Good(t, held[t]) => Good(t, held[t])'
    <3>1. PICK g \in Grant : g = held[t]
      BY <1>1, <2>1 DEF TypeOK
    <3>2. Good(t, g) => Good(t, g)'
      BY <1>3, <2>1
    <3> QED
      BY <2>1, <3>1, <3>2 DEF Good
  <2>3. Dropped(t, k) => r.pc # "revoke" /\ \E i \in r.jobs : Drops(i, t)
    BY <1>2, <1>3 DEF Dropped, Drops
  <2> QED
    BY <1>2, <1>3, <2>1, <2>2, <2>3, DueStays
<1> QED
  BY <1>2, <1>3, TaskFollow

LEMMA FollowSkip ==
  ASSUME Inv, Inv', Follows, NEW s \in Servers, NEW k \in Slots, SubscribeSkip(s, k)
  PROVE  Follows'
<1>1. PICK j \in runner[s][k].jobs :
         At(s, k, "next", "subscribe", j) /\ ~Wanted(j) /\ Finish(s, k, j)
  BY DEF SubscribeSkip
<1>2. UNCHANGED <<registration, hosts, turns, now, phase, held, undone>>
  BY DEF SubscribeSkip, state, outside
<1>3. HeldFollows' /\ CallFollows' /\ Unheard'
  BY <1>1, <1>2, FinishFollow DEF HasLock, At, Good
<1>4. Entries'
  BY <1>2, SameEntries DEF Follows, Entries
<1> QED
  BY <1>3, <1>4 DEF Follows

LEMMA FollowRevoke ==
  ASSUME Inv, Inv', Follows, NEW s \in Servers, NEW k \in Slots, DirectRevoke(s, k)
  PROVE  Follows'
<1>1. PICK j \in runner[s][k].jobs :
         /\ At(s, k, "revoke", "all", j) \/ At(s, k, "next", "revoke", j)
         /\ Finish(s, k, j)
  BY DEF DirectRevoke
<1>2. UNCHANGED <<registration, hosts, turns, now, phase, held, undone>>
  BY DEF DirectRevoke
<1>3. HeldFollows' /\ CallFollows' /\ Unheard'
  BY <1>1, <1>2, FinishFollow DEF HasLock, At, Good
<1>4. Entries'
  BY <1>2, SameEntries DEF Follows, Entries
<1> QED
  BY <1>3, <1>4 DEF Follows

LEMMA FollowSign ==
  ASSUME Inv, Inv', Follows, NEW s \in Servers, NEW k \in Slots,
         SubscribeUnsigned(s, k) \/ SubscribeSign(s, k)
  PROVE  Follows'
<1>1. /\ UNCHANGED <<registration, hosts, turns, now, phase, held, undone>> /\ TypeOK
      /\ runner[s][k].pc = "sign"
  BY DEF SubscribeUnsigned, SubscribeSign, Inv, state, outside
<1>2. /\ runner[s][k] \in Runner /\ runner[s][k].grant \in Grant
      /\ \A l \in Slots : HasLock(s, l) => l = k
  BY <1>1 DEF TypeOK, Inv, InFlight, Signing, Subscribing, Mutex, HasLock
<1>3. PICK r \in Runner : /\ GoTo(s, k, r) /\ r.jobs = runner[s][k].jobs
                          /\ \/ r.pc = "answer" /\ r.outcome = "Failed"
                             \/ r.pc = "call"
                          /\ r.grant.token = runner[s][k].grant.token
                          /\ r.grant.planned = runner[s][k].grant.planned
  <2>1. CASE SubscribeUnsigned(s, k)
    <3> DEFINE task == [runner[s][k] EXCEPT !.pc = "answer", !.outcome = "Failed"]
    <3>1. /\ task \in Runner /\ task.pc = "answer" /\ task.jobs = runner[s][k].jobs
          /\ task.grant = runner[s][k].grant /\ task.outcome = "Failed"
      BY <1>2 DEF Runner, Status
    <3>2. GoTo(s, k, task)
      BY <2>1 DEF SubscribeUnsigned
    <3> HIDE DEF task
    <3> QED
      BY <3>1, <3>2
  <2>2. CASE SubscribeSign(s, k)
    <3> DEFINE g == [runner[s][k].grant EXCEPT !.issued = GrantIssuedAt(s)]
               task == [runner[s][k] EXCEPT !.pc = "call", !.grant.issued = GrantIssuedAt(s)]
    <3>0. GrantIssuedAt(s) \in Nat
      BY <1>1 DEF GrantIssuedAt, TypeOK
    <3>1. /\ g \in Grant /\ g.token = runner[s][k].grant.token
          /\ g.planned = runner[s][k].grant.planned
      BY <1>2, <3>0 DEF Grant
    <3>2. /\ task \in Runner /\ task.pc = "call" /\ task.jobs = runner[s][k].jobs
          /\ task.grant = g
      BY <1>2, <3>1 DEF Runner
    <3>3. GoTo(s, k, task)
      BY <2>2 DEF SubscribeSign
    <3> HIDE DEF task, g
    <3> QED
      BY <3>1, <3>2, <3>3
  <2> QED
    BY <2>1, <2>2
<1>4. /\ runner'[s][k] = r
      /\ \A l \in Slots : l # k => runner'[s][l] = runner[s][l]
  BY <1>1, <1>3 DEF GoTo, TypeOK
<1>5. ASSUME NEW i \in r.jobs, NextJob(s, k, i)', Going(i.turn), Young(r.grant)
      PROVE  Good(i.turn, r.grant)' \/ \E l \in Slots \ {k} : Dropped(i.turn, l)'
  <2>1. NextJob(s, k, i) /\ i \in runner[s][k].jobs /\ runner[s][k].pc \in Signing
    BY <1>1, <1>3, <1>4, <1>5 DEF NextJob, Signing
  <2>2. i.kind = "subscribe"
    BY <2>1, OneNext
  <2>3. i.turn \in TurnKeys /\ i.turn[1] = s
    BY <2>1, <2>2 DEF Inv, Numbered, OfTurn
  <2>4. Young(runner[s][k].grant)
    BY <1>3, <1>5 DEF Young
  <2>5. \/ Good(i.turn, runner[s][k].grant)
        \/ \E l \in Slots \ {k} : Dropped(i.turn, l)
    BY <1>1, <1>5, <2>1, <2>4 DEF Follows, CallFollows
  <2>6. Good(i.turn, runner[s][k].grant) => Good(i.turn, r.grant)'
    BY <1>1, <1>3 DEF Good
  <2>7. \A l \in Slots \ {k} : Dropped(i.turn, l) => Dropped(i.turn, l)'
    BY <1>4, <2>3 DEF Dropped
  <2> QED
    BY <2>5, <2>6, <2>7
<1>6. ASSUME NEW t \in TurnKeys, t[1] = s, Due(t)'
      PROVE  Good(t, held[t])' \/ \E l \in Slots : Dropped(t, l)'
  <2>1. held'[t] = held[t] /\ t \notin undone
    BY <1>1, <1>6 DEF Due
  <2>2. Good(t, held[t]) => Good(t, held[t])'
    BY <1>1 DEF Good
  <2>3. Dropped(t, k) => r.pc # "revoke" /\ \E i \in r.jobs : Drops(i, t)
    BY <1>3, <1>6 DEF Dropped
  <2> QED
    BY <1>1, <1>3, <1>6, <2>1, <2>2, <2>3, DueStays
<1>7. HeldFollows' /\ CallFollows' /\ Unheard'
  BY <1>1, <1>3, <1>5, <1>6, TaskFollow DEF HasLock
<1>8. Entries'
  BY <1>1, SameEntries DEF Follows, Entries
<1> QED
  BY <1>7, <1>8 DEF Follows

LEMMA FollowHostSubscribe ==
  ASSUME Inv, Inv', Follows, NEW s \in Servers, NEW k \in Slots, HostSubscribe(s, k)
  PROVE  Follows'
<1>1. PICK j \in runner[s][k].jobs, applied \in BOOLEAN,
           outcome \in {"Subscribed", "Failed", "Unsupported"} :
        /\ At(s, k, "call", "subscribe", j)
        /\ outcome = "Unsupported" => ~applied /\ HoldsNothing(s)
        /\ held' = IF applied /\ phase[j.turn] = "active"
                   THEN [held EXCEPT ![j.turn] = runner[s][k].grant] ELSE held
        /\ undone' = IF applied THEN undone \ {j.turn} ELSE undone
        /\ GoTo(s, k, [runner[s][k] EXCEPT !.pc = "answer", !.outcome = outcome])
  BY DEF HostSubscribe
<1>2. TypeOK /\ UNCHANGED <<registration, hosts, turns, now, phase>>
  BY DEF HostSubscribe, Inv, state
<1> DEFINE task == [runner[s][k] EXCEPT !.pc = "answer", !.outcome = outcome]
<1>3. /\ runner[s][k] \in Runner /\ runner[s][k].grant \in Grant
      /\ runner[s][k].pc = "call" /\ NextJob(s, k, j) /\ j.kind = "subscribe"
  BY <1>1, <1>2 DEF TypeOK, Inv, InFlight, Signing, Subscribing, At
<1>4. /\ task \in Runner /\ task.pc = "answer" /\ task.jobs = runner[s][k].jobs
      /\ task.outcome = outcome
  BY <1>3 DEF Runner, Status
<1>5. GoTo(s, k, task)
  BY <1>1
<1> HIDE DEF task
<1>6. PICK r \in Runner : r = task
  BY <1>4
<1>7. /\ r.pc = "answer" /\ r.jobs = runner[s][k].jobs /\ r.outcome = outcome
      /\ GoTo(s, k, r)
  BY <1>4, <1>5, <1>6
<1>8. /\ runner'[s][k] = r
      /\ \A l \in Slots : l # k => runner'[s][l] = runner[s][l]
  BY <1>2, <1>7 DEF GoTo, TypeOK
<1>9. j.turn \in TurnKeys /\ j.turn[1] = s
  BY <1>3 DEF Inv, Numbered, OfTurn
<1>10. \A t \in TurnKeys : t # j.turn => /\ held'[t] = held[t]
                                         /\ t \in undone' <=> t \in undone
  BY <1>1, <1>2 DEF TypeOK
<1>11. ASSUME NEW t \in TurnKeys, t[1] = s, Due(t)',
              held'[t] = held[t], t \notin undone
       PROVE  Good(t, held[t])' \/ \E l \in Slots : Dropped(t, l)'
  <2>1. Good(t, held[t]) => Good(t, held[t])'
    BY <1>2, <1>11 DEF Good
  <2>2. Dropped(t, k) => r.pc # "revoke" /\ \E i \in r.jobs : Drops(i, t)
    BY <1>7, <1>11 DEF Dropped
  <2> QED
    BY <1>2, <1>7, <1>11, <2>1, <2>2, DueStays
<1>12. ASSUME Due(j.turn)'
       PROVE  Good(j.turn, held[j.turn])' \/ \E l \in Slots : Dropped(j.turn, l)'
  <2> DEFINE t == j.turn
  <2>1. Going(t) /\ held'[t] # None /\ t \notin undone' /\ Young(held'[t])
    BY <1>2, <1>12 DEF Due, Going, Young
  <2>2. CASE applied /\ phase[t] = "active"
    <3>1. held'[t] = runner[s][k].grant
      BY <1>1, <1>2, <1>9, <2>2 DEF TypeOK
    <3>2. Young(runner[s][k].grant)
      BY <2>1, <3>1
    <3>3. \/ Good(t, runner[s][k].grant)
          \/ \E l \in Slots \ {k} : Dropped(t, l)
      BY <1>3, <2>1, <3>2 DEF Follows, CallFollows
    <3>4. Good(t, runner[s][k].grant) => Good(t, held[t])'
      BY <1>2, <3>1 DEF Good
    <3>5. \A l \in Slots \ {k} : Dropped(t, l) => Dropped(t, l)'
      BY <1>8, <1>9 DEF Dropped
    <3> QED
      BY <3>3, <3>4, <3>5
  <2>3. CASE applied /\ phase[t] # "active"
    <3>1. phase[t] = "new" /\ held'[t] = held[t]
      BY <1>1, <2>1, <2>3 DEF Going
    <3> QED
      BY <1>9, <2>1, <3>1 DEF Follows, Entries
  <2>4. CASE ~applied
    <3>1. held'[t] = held[t] /\ t \notin undone
      BY <1>1, <2>1, <2>4
    <3> QED
      BY <1>9, <1>11, <1>12, <3>1
  <2> QED
    BY <2>2, <2>3, <2>4
<1>13. ASSUME NEW t \in TurnKeys, t[1] = s, Due(t)'
       PROVE  Good(t, held[t])' \/ \E l \in Slots : Dropped(t, l)'
  <2>1. CASE t = j.turn
    BY <1>12, <1>13, <2>1
  <2>2. CASE t # j.turn
    <3>1. held'[t] = held[t] /\ t \notin undone
      BY <1>10, <1>13, <2>2 DEF Due
    <3> QED
      BY <1>11, <1>13, <3>1
  <2> QED
    BY <2>1, <2>2
<1>14. r.outcome = "Unsupported" => HoldsNothing(s)'
  <2> SUFFICES ASSUME r.outcome = "Unsupported" PROVE HoldsNothing(s)'
    OBVIOUS
  <2>1. held' = held /\ HoldsNothing(s)
    BY <1>1, <1>7
  <2> QED
    BY <2>1 DEF HoldsNothing
<1>15. HeldFollows' /\ CallFollows' /\ Unheard'
  BY <1>2, <1>3, <1>7, <1>9, <1>10, <1>13, <1>14, TaskFollow DEF HasLock
<1>16. \A t \in TurnKeys : phase[t] = "new" => held'[t] = None
  <2> SUFFICES ASSUME NEW t \in TurnKeys, phase[t] = "new" PROVE held'[t] = None
    OBVIOUS
  <2>1. held'[t] = held[t]
    BY <1>1, <1>2 DEF TypeOK
  <2> QED
    BY <2>1 DEF Follows, Entries
<1>17. Entries'
  BY <1>2, <1>16, SameEntries
<1> QED
  BY <1>15, <1>17 DEF Follows

LEMMA FollowResult ==
  ASSUME Inv, Inv', Follows, NEW s \in Servers, NEW k \in Slots, SubscribeResult(s, k)
  PROVE  Follows'
<1>1. PICK j \in runner[s][k].jobs :
        /\ At(s, k, "answer", "subscribe", j)
        /\ turns' = IF Matches(j)
                    THEN [turns EXCEPT ![j.turn].status = runner[s][k].outcome]
                    ELSE turns
        /\ Finish(s, k, j)
  BY DEF SubscribeResult, Matches
<1>2. TypeOK /\ UNCHANGED <<registration, hosts, now, phase, held, undone>>
  BY DEF SubscribeResult, Inv, outside
<1>3. /\ j.turn \in TurnKeys /\ j.turn[1] = s
      /\ runner[s][k].outcome \in Status \ {"Pending"}
      /\ runner[s][k].outcome = "Unsupported" => HoldsNothing(s)
  BY <1>1 DEF At, Inv, Numbered, OfTurn, InFlight, Follows, Unheard
<1>4. ASSUME NEW t \in TurnKeys
      PROVE  \/ turns'[t] = turns[t]
             \/ /\ t = j.turn /\ turns'[t] # None
                /\ turns[t] # None
                /\ turns'[t].status = runner[s][k].outcome
                /\ turns'[t].planned = turns[t].planned
                /\ turns'[t].completed = turns[t].completed
  <2>1. CASE t = j.turn /\ Matches(j)
    <3>1. turns'[t] = [turns[t] EXCEPT !.status = runner[s][k].outcome]
      BY <1>1, <1>2, <2>1 DEF TypeOK
    <3>2. turns[t] # None /\ turns[t] \in Entry
      BY <1>2, <2>1 DEF TypeOK, Matches
    <3>3. turns'[t] \in Entry
      BY <1>3, <3>1, <3>2 DEF Entry
    <3> QED
      BY <2>1, <3>1, <3>2, <3>3, NoEntryAssumption DEF Entry
  <2>2. CASE ~(t = j.turn /\ Matches(j))
    BY <1>1, <1>2, <2>2 DEF TypeOK
  <2> QED
    BY <2>1, <2>2
<1>5. ASSUME NEW t \in TurnKeys, NEW g \in Grant, t[1] = s, held[t] # None, Good(t, g)
      PROVE  Good(t, g)'
  <2>1. runner[s][k].outcome # "Unsupported"
    BY <1>3, <1>5 DEF HoldsNothing
  <2> QED
    BY <1>2, <1>4, <1>5, <2>1 DEF Good
<1>6. \A t \in TurnKeys : t[1] # s => turns'[t] = turns[t]
  BY <1>3, <1>4
<1>7. HeldFollows' /\ CallFollows' /\ Unheard'
  BY <1>1, <1>2, <1>5, <1>6, FinishFollow DEF HasLock, At
<1>8. \A t \in TurnKeys : Unsettled(t)' => Unsettled(t)
  BY <1>3, <1>4 DEF Unsettled
<1>9. Entries'
  BY <1>2, <1>4, <1>8 DEF Follows, Entries
<1> QED
  BY <1>7, <1>9 DEF Follows

\* What the host was asked to drop it holds no more, or it was asked in vain.
LEMMA FollowDrop ==
  ASSUME Inv, Inv', Follows, NEW s \in Servers, NEW k \in Slots,
         UnsubscribeTurn(s, k) \/ UnsubscribeAll(s, k)
  PROVE  Follows'
<1>1. TypeOK /\ UNCHANGED <<registration, hosts, turns, now, phase>>
  BY DEF UnsubscribeTurn, UnsubscribeAll, HostDrops, Inv, state
<1>2. ASSUME NEW S \in SUBSET TurnKeys, NEW applied \in BOOLEAN, HostDrops(S, applied),
             NEW t \in TurnKeys
      PROVE  /\ t \notin S => held'[t] = held[t] /\ (t \in undone' <=> t \in undone)
             /\ t \in S => held'[t] = None \/ t \in undone'
             /\ held[t] = None => held'[t] = None
  BY <1>1, <1>2 DEF HostDrops, TypeOK
<1>3. ASSUME NEW r \in Runner, GoTo(s, k, r), r.pc \in {"idle", "next", "revoke"},
             HasLock(s, k),
             NEW S \in SUBSET TurnKeys, NEW applied \in BOOLEAN, HostDrops(S, applied),
             \A t \in S : t[1] = s,
             \A t \in TurnKeys \ S :
                 t[1] = s /\ Dropped(t, k) => r.pc # "revoke" /\ \E j \in r.jobs : Drops(j, t)
      PROVE  Follows'
  <2>1. ASSUME NEW t \in TurnKeys, t[1] = s, Due(t)'
        PROVE  Good(t, held[t])' \/ \E l \in Slots : Dropped(t, l)'
    <3>1. t \notin S
      BY <1>2, <1>3, <2>1 DEF Due
    <3>2. held'[t] = held[t] /\ t \notin undone
      BY <1>2, <1>3, <2>1, <3>1 DEF Due
    <3>3. Good(t, held[t]) => Good(t, held[t])'
      BY <1>1, <3>2 DEF Good
    <3> QED
      BY <1>1, <1>3, <2>1, <3>1, <3>2, <3>3, DueStays
  <2>2. \A t \in TurnKeys : t[1] # s => /\ held'[t] = held[t] /\ turns'[t] = turns[t]
                                        /\ t \in undone' <=> t \in undone
    BY <1>1, <1>2, <1>3
  <2>3. HeldFollows' /\ CallFollows' /\ Unheard'
    BY <1>1, <1>3, <2>1, <2>2, TaskFollow
  <2>4. \A t \in TurnKeys : phase[t] = "new" => held'[t] = None
    BY <1>2, <1>3 DEF Follows, Entries
  <2>5. Entries'
    BY <1>1, <2>4, SameEntries
  <2> QED
    BY <2>3, <2>5 DEF Follows
<1>4. CASE UnsubscribeTurn(s, k)
  <2>1. PICK j \in runner[s][k].jobs, applied \in BOOLEAN :
           At(s, k, "next", "unsubscribe", j) /\ HostDrops({j.turn}, applied)
           /\ Finish(s, k, j)
    BY <1>4 DEF UnsubscribeTurn
  <2>2. j.turn \in TurnKeys /\ j.turn[1] = s
    BY <2>1 DEF At, Inv, Numbered, OfTurn
  <2>3. PICK r \in Runner : /\ GoTo(s, k, r) /\ r.jobs = runner[s][k].jobs \ {j}
                            /\ r.pc \in {"idle", "next"}
                            /\ r.pc = "idle" => r.jobs = {}
    BY <1>1, <2>1, FinishShape
  <2>4. \A t \in TurnKeys \ {j.turn} :
           t[1] = s /\ Dropped(t, k) => r.pc # "revoke" /\ \E i \in r.jobs : Drops(i, t)
    BY <2>1, <2>3 DEF Dropped, Drops, At
  <2> QED
    BY <1>3, <2>1, <2>2, <2>3, <2>4 DEF At, HasLock
<1>5. CASE UnsubscribeAll(s, k)
  <2> DEFINE S == {t \in TurnKeys : t[1] = s}
  <2>1. PICK j \in runner[s][k].jobs, applied \in BOOLEAN, answered \in BOOLEAN :
        /\ At(s, k, "next", "all", j)
        /\ HostDrops(S, applied)
        /\ IF answered \/ ~j.url THEN Finish(s, k, j)
           ELSE GoTo(s, k, [runner[s][k] EXCEPT !.pc = "revoke"])
    BY <1>5 DEF UnsubscribeAll
  <2>2. PICK r \in Runner : GoTo(s, k, r) /\ r.pc \in {"idle", "next", "revoke"}
    <3>1. CASE Finish(s, k, j)
      BY <1>1, <3>1, FinishShape
    <3>2. CASE GoTo(s, k, [runner[s][k] EXCEPT !.pc = "revoke"])
      <4> DEFINE task == [runner[s][k] EXCEPT !.pc = "revoke"]
      <4>1. runner[s][k] \in Runner
        BY <1>1 DEF TypeOK
      <4>2. task \in Runner /\ task.pc = "revoke"
        BY <4>1 DEF Runner
      <4>3. GoTo(s, k, task)
        BY <3>2
      <4> HIDE DEF task
      <4> QED
        BY <4>2, <4>3
    <3> QED
      BY <2>1, <3>1, <3>2
  <2>3. /\ S \in SUBSET TurnKeys /\ \A t \in S : t[1] = s
        /\ \A t \in TurnKeys \ S : t[1] # s
    OBVIOUS
  <2> HIDE DEF S
  <2> QED
    BY <1>3, <2>1, <2>2, <2>3 DEF At, HasLock
<1> QED
  BY <1>4, <1>5

LEMMA FollowAcquire ==
  ASSUME Inv, Inv', Follows, NEW s \in Servers, NEW k \in Slots, Acquire(s, k)
  PROVE  Follows'
<1>1. /\ TypeOK /\ UNCHANGED <<registration, hosts, turns, now, phase, held, undone>>
      /\ runner[s][k].pc = "wait"
  BY DEF Inv, Acquire, state, outside
<1>2. \A q \in Servers, l \in Slots :
         /\ runner'[q][l].jobs = runner[q][l].jobs
         /\ \/ runner'[q][l].pc = "next" /\ runner[q][l].pc = "wait"
            \/ /\ runner'[q][l].pc = runner[q][l].pc
               /\ runner'[q][l].grant = runner[q][l].grant
               /\ runner'[q][l].outcome = runner[q][l].outcome
  BY <1>1, AcquireShape
<1>3. \A t \in TurnKeys, l \in Slots : Dropped(t, l) => Dropped(t, l)'
  BY <1>2 DEF Dropped, TurnKeys
<1>4. HeldFollows'
  <2> SUFFICES ASSUME NEW t \in TurnKeys, Due(t)'
               PROVE  Good(t, held[t])' \/ \E l \in Slots : Dropped(t, l)'
    BY DEF HeldFollows
  <2>1. Good(t, held[t]) \/ \E l \in Slots : Dropped(t, l)
    BY <1>1 DEF Follows, HeldFollows, Due, Going, Young
  <2>2. Good(t, held[t]) => Good(t, held[t])'
    BY <1>1 DEF Good
  <2> QED
    BY <1>3, <2>1, <2>2
<1>5. CallFollows'
  <2> SUFFICES ASSUME NEW q \in Servers, NEW l \in Slots, NEW j \in runner'[q][l].jobs,
                      runner'[q][l].pc \in {"sign", "call"}, NextJob(q, l, j)',
                      Going(j.turn)', Young(runner[q][l].grant)'
               PROVE  \/ Good(j.turn, runner[q][l].grant)'
                      \/ \E i \in Slots \ {l} : Dropped(j.turn, i)'
    BY DEF CallFollows
  <2>1. /\ runner[q][l].pc \in Signing /\ runner[q][l].pc \in {"sign", "call"}
        /\ runner'[q][l].grant = runner[q][l].grant
        /\ j \in runner[q][l].jobs /\ NextJob(q, l, j)
    BY <1>2 DEF NextJob, Signing
  <2>2. j.kind = "subscribe"
    BY <2>1, OneNext
  <2>3. j.turn \in TurnKeys
    BY <2>1, <2>2 DEF Inv, Numbered, OfTurn
  <2>4. \/ Good(j.turn, runner[q][l].grant)
        \/ \E i \in Slots \ {l} : Dropped(j.turn, i)
    BY <1>1, <2>1 DEF Follows, CallFollows, Going, Young
  <2>5. Good(j.turn, runner[q][l].grant) => Good(j.turn, runner[q][l].grant)'
    BY <1>1, <2>1 DEF Good
  <2> QED
    BY <1>3, <2>3, <2>4, <2>5
<1>6. Unheard'
  BY <1>1, <1>2 DEF Follows, Unheard, HoldsNothing
<1>7. Entries'
  BY <1>1, SameEntries DEF Follows, Entries
<1> QED
  BY <1>4, <1>5, <1>6, <1>7 DEF Follows

\* Steps of the outside: a host that gives up a subscription, one that loses
\* push.v1 while it holds none and nothing is under way, and the clock.
LEMMA OutsideFollow ==
  ASSUME Inv, Follows, UNCHANGED <<registration, turns, runner>>,
         now \in Nat, now' \in Nat, now <= now',
         \A t \in TurnKeys : held'[t] = held[t] \/ held'[t] = None,
         \A t \in TurnKeys : /\ t \in undone => t \in undone' \/ held'[t] = None
                             /\ Going(t)' => Going(t)
                             /\ phase'[t] = "new" => phase[t] = "new"
                             /\ phase[t] = "done" => phase'[t] = "done",
         \A s \in Servers :
             \/ hosts'[s] = hosts[s] \/ hosts'[s] = "push"
             \/ HoldsNothing(s) /\ \A k \in Slots : runner[s][k].pc = "idle"
  PROVE  Follows'
<1>1. TypeOK /\ Entries
  BY DEF Inv, Follows
<1>2. \A g \in Grant : Young(g)' => Young(g)
  BY LimitsAssumption DEF Young, Grant
<1>3. \A t \in TurnKeys, k \in Slots : Dropped(t, k) => Dropped(t, k)'
  BY DEF Dropped
<1>4. ASSUME NEW t \in TurnKeys, NEW g \in Grant, Good(t, g), hosts'[t[1]] = "push"
      PROVE  Good(t, g)'
  BY <1>4 DEF Good
<1>5. HeldFollows'
  <2> SUFFICES ASSUME NEW t \in TurnKeys, Due(t)'
               PROVE  Good(t, held[t])' \/ \E l \in Slots : Dropped(t, l)'
    BY DEF HeldFollows
  <2>1. held'[t] = held[t] /\ held[t] # None /\ held[t] \in Grant
    BY <1>1 DEF Due, TypeOK
  <2>2. Due(t) /\ t[1] \in Servers
    BY <1>2, <2>1 DEF Due, TurnKeys, Young
  <2>3. CASE Good(t, held[t])
    <3>1. hosts'[t[1]] = "push"
      BY <2>1, <2>2, <2>3 DEF Good, HoldsNothing
    <3> QED
      BY <2>1, <2>3, <3>1 DEF Good
  <2> QED
    BY <1>3, <2>2, <2>3 DEF Follows, HeldFollows
<1>6. CallFollows'
  <2> SUFFICES ASSUME NEW q \in Servers, NEW l \in Slots, NEW j \in runner[q][l].jobs,
                      runner[q][l].pc \in {"sign", "call"}, NextJob(q, l, j),
                      Going(j.turn)', Young(runner[q][l].grant)'
               PROVE  \/ Good(j.turn, runner[q][l].grant)'
                      \/ \E i \in Slots \ {l} : Dropped(j.turn, i)'
    BY DEF CallFollows, NextJob
  <2>1. j.kind = "subscribe" /\ runner[q][l].grant \in Grant
    BY OneNext DEF Signing, Inv, InFlight, Subscribing
  <2>2. j.turn \in TurnKeys /\ j.turn[1] = q
    BY <2>1 DEF Inv, Numbered, OfTurn
  <2>3. Going(j.turn) /\ Young(runner[q][l].grant)
    BY <1>2, <2>1, <2>2 DEF Young
  <2>4. \/ Good(j.turn, runner[q][l].grant)
        \/ \E i \in Slots \ {l} : Dropped(j.turn, i)
    BY <2>3 DEF Follows, CallFollows
  <2>5. Good(j.turn, runner[q][l].grant) => Good(j.turn, runner[q][l].grant)'
    BY <2>2 DEF Good
  <2> QED
    BY <1>3, <2>2, <2>4, <2>5
<1>7. Unheard'
  BY DEF Follows, Unheard, HoldsNothing
<1>8. Entries'
  <2> SUFFICES ASSUME NEW t \in TurnKeys
               PROVE  /\ turns'[t] # None =>
                            /\ turns'[t].planned <= now'
                            /\ turns'[t].completed # 0 => phase'[t] = "done"
                      /\ Unsettled(t)' => hosts'[t[1]] = "push"
                      /\ phase'[t] = "new" => held'[t] = None
    BY DEF Entries
  <2>1. turns[t] # None => turns[t].planned \in Nat
    BY <1>1 DEF TypeOK, Entry
  <2>2. ASSUME Unsettled(t) PROVE hosts'[t[1]] = "push"
    <3>1. PICK k \in Slots : \E j \in runner[t[1]][k].jobs : j.kind = "subscribe"
      BY <2>2 DEF Inv, PendingHasJob, Unsettled
    <3>2. t[1] \in Servers /\ hosts[t[1]] = "push"
      BY <1>1, <2>2 DEF Entries, TurnKeys
    <3>3. runner[t[1]][k].pc # "idle"
      BY <3>1, <3>2 DEF Inv, InFlight
    <3> QED
      BY <3>2, <3>3
  <2> QED
    BY <1>1, <2>1, <2>2 DEF Entries, Unsettled
<1> QED
  BY <1>5, <1>6, <1>7, <1>8 DEF Follows

LEMMA FollowOutside ==
  ASSUME Inv, Inv', Follows,
         \/ \E t \in TurnKeys : TurnMissed(t) \/ TurnEnds(t) \/ HostExpires(t)
         \/ ReadActive \/ Tick
         \/ \E s \in Servers, support \in {"legacy", "push"} : RecordHost(s, support)
  PROVE  Follows'
<1>1. TypeOK /\ now \in Nat /\ now' \in Nat
  BY DEF Inv, TypeOK
<1>2. ASSUME NEW t \in TurnKeys, TurnMissed(t) PROVE Follows'
  <2>1. \A u \in TurnKeys : /\ Going(u)' => Going(u)
                            /\ phase'[u] = "new" => phase[u] = "new"
                            /\ phase[u] = "done" => phase'[u] = "done"
    BY <1>1, <1>2 DEF TurnMissed, TypeOK, Going
  <2> QED
    BY <1>1, <1>2, <2>1, OutsideFollow DEF TurnMissed, state
<1>3. ASSUME NEW t \in TurnKeys, TurnEnds(t) PROVE Follows'
  <2>1. \A u \in TurnKeys : /\ Going(u)' => Going(u)
                            /\ phase'[u] = "new" => phase[u] = "new"
                            /\ phase[u] = "done" => phase'[u] = "done"
                            /\ held'[u] = held[u] \/ held'[u] = None
                            /\ u \in undone => u \in undone' \/ held'[u] = None
    BY <1>1, <1>3 DEF TurnEnds, TypeOK, Going
  <2> QED
    BY <1>1, <1>3, <2>1, OutsideFollow DEF TurnEnds, state
<1>4. ASSUME NEW t \in TurnKeys, HostExpires(t) PROVE Follows'
  <2>1. \A u \in TurnKeys : /\ held'[u] = held[u] \/ held'[u] = None
                            /\ u \in undone => u \in undone' \/ held'[u] = None
                            /\ Going(u)' => Going(u)
    BY <1>1, <1>4 DEF HostExpires, TypeOK, Going
  <2> QED
    BY <1>1, <1>4, <2>1, OutsideFollow DEF HostExpires, state
<1>5. CASE ReadActive
  BY <1>1, <1>5, OutsideFollow DEF ReadActive, state, outside, Going
<1>6. CASE Tick
  BY <1>1, <1>6, OutsideFollow DEF Tick, state, outside, Going
<1>7. ASSUME NEW s \in Servers, NEW support \in {"legacy", "push"}, RecordHost(s, support)
      PROVE  Follows'
  <2>1. \A q \in Servers :
           \/ hosts'[q] = hosts[q] \/ hosts'[q] = "push"
           \/ HoldsNothing(q) /\ \A k \in Slots : runner[q][k].pc = "idle"
    BY <1>1, <1>7 DEF RecordHost, TypeOK
  <2> QED
    BY <1>1, <1>7, <2>1, OutsideFollow DEF RecordHost, outside, Going
<1> QED
  BY <1>2, <1>3, <1>4, <1>5, <1>6, <1>7

LEMMA FollowsInit == Init => Follows
<1> SUFFICES ASSUME Init PROVE Follows
  OBVIOUS
<1>1. Idle.pc = "idle" /\ Idle.jobs = {}
  BY DEF Idle
<1>2. HeldFollows /\ Entries
  BY DEF Init, HeldFollows, Due, Entries, Unsettled
<1>3. CallFollows /\ Unheard
  BY <1>1 DEF Init, CallFollows, Unheard
<1> QED
  BY <1>2, <1>3 DEF Follows

LEMMA FollowsStep == Inv /\ Inv' /\ Follows /\ [Next]_vars => Follows'
<1> SUFFICES ASSUME Inv, Inv', Follows, [Next]_vars PROVE Follows'
  OBVIOUS
<1>1. CASE UNCHANGED vars
  <2>1. TypeOK /\ now \in Nat /\ now' = now
    BY <1>1 DEF Inv, TypeOK, vars
  <2> QED
    BY <1>1, <2>1, OutsideFollow DEF vars, state, outside, Going
<1>2. CASE Race
  BY <1>2, FollowTurnStarted, FollowOutside, FollowCompleted, FollowBackground,
     FollowClear, FollowPrune, FollowSetRegistration DEF Race
<1>3. CASE Quietly
  <2>1. ASSUME NEW s \in Servers, NEW k \in Slots, Run(s, k) PROVE Follows'
    BY <2>1, FollowStart, FollowSkip, FollowSign, FollowHostSubscribe,
       FollowResult, FollowDrop, FollowRevoke DEF Run
  <2>2. ASSUME NEW s \in Servers, NEW k \in Slots, Acquire(s, k) PROVE Follows'
    BY <2>2, FollowAcquire
  <2>3. ASSUME NEW s \in Servers, ServerRemoved(s) PROVE Follows'
    BY <2>3, FollowRemoved
  <2> QED
    BY <1>3, <2>1, <2>2, <2>3, FollowOutside DEF Quietly
<1> QED
  BY <1>1, <1>2, <1>3 DEF Next

\* HeldMatchesPhone: whatever calls, tasks, answers and lost answers
\* interleave, a server at rest pushes the ends of running turns to the
\* registered token, and of those turns only that the phone counts as live.
THEOREM HeldAlwaysMatchesPhone == Spec => []HeldMatchesPhone
<1>1. Inv /\ Follows => HeldMatchesPhone
  <2> SUFFICES ASSUME Inv, Follows, NEW t \in TurnKeys, Quiet(t[1]),
                      phase[t] = "active", held[t] # None, t \notin undone,
                      now - held[t].planned < GRANT_LIFETIME
               PROVE  /\ held[t].token = registration
                      /\ hosts[t[1]] = "push"
                      /\ turns[t] # None
                      /\ turns[t].completed = 0 /\ turns[t].status # "Unsupported"
    BY DEF HeldMatchesPhone
  <2>1. Due(t) /\ t[1] \in Servers
    BY DEF Due, Going, Young, TurnKeys
  <2>2. \A k \in Slots : ~Dropped(t, k)
    BY <2>1 DEF Quiet, Dropped, Inv, InFlight
  <2>3. Good(t, held[t])
    BY <2>1, <2>2 DEF Follows, HeldFollows
  <2> QED
    BY <2>3 DEF Good
<1> QED
  BY <1>1, InvInit, InvStep, FollowsInit, FollowsStep, PTL DEF Spec

-----------------------------------------------------------------------------
(* The subscription of a turn shown as Subscribed stays at its host.       *)

Concerns(d, t) == d.kind = "all" \/ (OfTurn(d) /\ d.turn = t)
\* The subscribe of the attempt the entry of t counts.
Own(j, t) == j.kind = "subscribe" /\ j.turn = t /\ j.attempt = turns[t].attempt
\* Jobs that would take away what it brought, or replace it.
Touches(d, t) == Concerns(d, t) /\ ~Own(d, t)
Reliable(t) == turns[t] # None /\ t[1] \notin overtaken

\* They come before it: in its own batch, or in a task that is earlier in the
\* line for the lock, or has it.
Behind ==
    \A t \in TurnKeys, k, l \in Slots :
        Reliable(t) =>
            \A j \in runner[t[1]][k].jobs, d \in runner[t[1]][l].jobs :
                Own(j, t) /\ Touches(d, t)
                => \/ l = k /\ d.kind = "unsubscribe" /\ d.attempt <= j.attempt
                   \/ l \in runner[t[1]][k].earlier
                   \/ l # k /\ HasLock(t[1], l)
Line == \A s \in Servers, k \in Slots : runner[s][k].pc # "wait" => runner[s][k].earlier = {}

\* Once it has been answered none is left ...
Undisturbed ==
    \A t \in TurnKeys, k \in Slots :
        Reliable(t) /\ turns[t].status = "Subscribed" =>
            \A d \in runner[t[1]][k].jobs : ~Touches(d, t)
\* ... and the host has it, with a grant that is no older than the entry.
AnswerOf(t, k, j) ==
    /\ Own(j, t) /\ NextJob(t[1], k, j)
    /\ runner[t[1]][k].pc = "answer" /\ runner[t[1]][k].outcome = "Subscribed"
Sent(t) ==
    \/ turns[t].status = "Subscribed"
    \/ \E k \in Slots : \E j \in runner[t[1]][k].jobs : AnswerOf(t, k, j)
Fresh(t) == now - turns[t].planned < GRANT_LIFETIME
Present ==
    \A t \in TurnKeys :
        Reliable(t) /\ Sent(t) /\ phase[t] = "active" /\ Fresh(t)
        => held[t] # None /\ held[t].issued >= turns[t].planned
Signed ==
    \A t \in TurnKeys, k \in Slots : \A j \in runner[t[1]][k].jobs :
        turns[t] # None /\ runner[t[1]][k].pc = "call" /\ NextJob(t[1], k, j) /\ Own(j, t)
        => runner[t[1]][k].grant.issued >= turns[t].planned
\* Nothing is planned for a turn that has not begun.
Begun ==
    /\ \A t \in TurnKeys : turns[t] # None => phase[t] # "new"
    /\ snapshot # None => \A t \in snapshot : phase[t] # "new"

Lasting == Behind /\ Line /\ Undisturbed /\ Present /\ Signed /\ Begun

LEMMA JobShape ==
  ASSUME Inv, NEW s \in Servers, NEW k \in Slots, NEW j \in runner[s][k].jobs
  PROVE  /\ j \in Job /\ j.attempt \in Nat /\ nextAttempt \in Nat
         /\ OfTurn(j) => j.turn \in TurnKeys /\ j.turn[1] = s /\ j.attempt <= nextAttempt
         /\ runner[s][k].pc # "idle"
BY DEF Inv, TypeOK, Runner, Job, Numbered, InFlight

\* A task that runs the subscribe of the entry is alone with it.
LEMMA Alone ==
  ASSUME Inv, Behind, Line, NEW t \in TurnKeys, Reliable(t), NEW k \in Slots,
         HasLock(t[1], k), NEW j \in runner[t[1]][k].jobs, Own(j, t), NextJob(t[1], k, j),
         NEW l \in Slots, NEW d \in runner[t[1]][l].jobs
  PROVE  ~Touches(d, t)
<1> SUFFICES ASSUME Touches(d, t) PROVE FALSE
  OBVIOUS
<1>0. t[1] \in Servers
  BY DEF TurnKeys
<1>1. runner[t[1]][k].earlier = {}
  BY <1>0 DEF Line, HasLock
<1>2. \/ l = k /\ d.kind = "unsubscribe" /\ d.attempt <= j.attempt
      \/ l # k /\ HasLock(t[1], l)
  BY <1>1 DEF Behind
<1>3. ~(l # k /\ HasLock(t[1], l))
  BY <1>0 DEF Inv, Mutex
<1>4. l = k /\ d.kind = "unsubscribe" /\ d.attempt <= j.attempt /\ j.kind = "subscribe"
  BY <1>2, <1>3 DEF Own
<1>5. d.attempt \in Nat /\ j.attempt \in Nat
  BY <1>0, JobShape
<1> QED
  BY <1>4, <1>5 DEF NextJob

LEMMA SentAlone ==
  ASSUME Inv, Lasting, NEW t \in TurnKeys, Reliable(t), Sent(t),
         NEW l \in Slots, NEW d \in runner[t[1]][l].jobs
  PROVE  ~Touches(d, t)
<1>1. CASE turns[t].status = "Subscribed"
  BY <1>1 DEF Lasting, Undisturbed
<1>2. CASE turns[t].status # "Subscribed"
  <2>1. PICK k \in Slots : \E j \in runner[t[1]][k].jobs : AnswerOf(t, k, j)
    BY <1>2 DEF Sent
  <2>2. PICK j \in runner[t[1]][k].jobs : AnswerOf(t, k, j)
    BY <2>1
  <2> QED
    BY <2>2, Alone DEF Lasting, AnswerOf, HasLock
<1> QED
  BY <1>1, <1>2

-----------------------------------------------------------------------------
(* Calls: an entry goes, stays without a job that concerns it, or is       *)
(* planned anew with the jobs of its attempt.                              *)

Remains(t, jobs) ==
    /\ turns[t] # None /\ turns'[t] # None
    /\ turns'[t].attempt = turns[t].attempt /\ turns'[t].status = turns[t].status
    /\ turns'[t].planned = turns[t].planned
    /\ \A d \in jobs[t[1]] : ~Concerns(d, t)
Anew(t, jobs) ==
    /\ turns'[t].attempt \in Nat /\ turns'[t].attempt > nextAttempt
    /\ turns'[t].status # "Subscribed"
    /\ \A d \in jobs[t[1]] : Concerns(d, t) => OfTurn(d) /\ d.attempt = turns'[t].attempt
Spawns(jobs) ==
    /\ jobs \in [Servers -> SUBSET Job] /\ Spawn(jobs)
    /\ \A t \in TurnKeys : turns'[t] = None \/ Remains(t, jobs) \/ Anew(t, jobs)

LEMMA CallLasts ==
  ASSUME Inv, Lasting, NEW jobs, Spawns(jobs), UNCHANGED <<held, overtaken, now>>,
         \A t \in TurnKeys : phase'[t] = "active" => phase[t] \in {"new", "active"},
         \A t \in TurnKeys : phase'[t] = "new" => phase[t] = "new",
         \A t \in TurnKeys : turns'[t] # None => turns[t] # None \/ phase'[t] # "new",
         snapshot' = None \/ snapshot' = snapshot
  PROVE  Lasting'
<1>1. TypeOK /\ jobs \in [Servers -> SUBSET Job] /\ Spawn(jobs)
  BY DEF Inv, Spawns
<1>2. ASSUME NEW s \in Servers, NEW k \in Slots
      PROVE  \/ runner'[s][k] = runner[s][k]
             \/ /\ runner[s][k].pc = "idle" /\ runner[s][k].jobs = {}
                /\ \A j \in Slots : j < k => runner[s][j].pc # "idle"
                /\ runner'[s][k].pc = "wait" /\ runner'[s][k].jobs = jobs[s]
                /\ runner'[s][k].earlier = Waiting(s)
  <2>1. \/ runner'[s][k] = runner[s][k]
        \/ /\ runner[s][k].pc = "idle"
           /\ \A j \in Slots : j < k => runner[s][j].pc # "idle"
           /\ runner'[s][k] = Task(s, jobs[s])
    BY <1>1, SpawnEffect
  <2>2. /\ Task(s, jobs[s]).pc = "wait" /\ Task(s, jobs[s]).jobs = jobs[s]
        /\ Task(s, jobs[s]).earlier = Waiting(s)
    BY DEF Task, Idle
  <2>3. runner[s][k].pc = "idle" => runner[s][k].jobs = {}
    BY DEF Inv, InFlight
  <2> QED
    BY <2>1, <2>2, <2>3
\* A job that concerns an entry that stays is an old one.
<1>3. ASSUME NEW t \in TurnKeys, Remains(t, jobs), NEW k \in Slots,
             NEW d \in runner'[t[1]][k].jobs, Concerns(d, t)
      PROVE  /\ runner'[t[1]][k] = runner[t[1]][k] /\ d \in runner[t[1]][k].jobs
             /\ Own(d, t)' <=> Own(d, t)
  <2>1. t[1] \in Servers
    BY DEF TurnKeys
  <2>2. runner'[t[1]][k] = runner[t[1]][k]
    BY <1>2, <1>3, <2>1 DEF Remains
  <2>3. Own(d, t)' <=> Own(d, t)
    BY <1>3 DEF Own, Remains
  <2> QED
    BY <1>3, <2>2, <2>3
\* The subscribe of an entry planned anew is a new one.
<1>4. ASSUME NEW t \in TurnKeys, Anew(t, jobs), NEW k \in Slots,
             NEW j \in runner'[t[1]][k].jobs, Own(j, t)'
      PROVE  /\ runner'[t[1]][k] # runner[t[1]][k]
             /\ runner[t[1]][k].pc = "idle" /\ runner'[t[1]][k].pc = "wait"
  <2>1. t[1] \in Servers
    BY DEF TurnKeys
  <2>2. ASSUME runner'[t[1]][k] = runner[t[1]][k] PROVE FALSE
    <3>1. j \in runner[t[1]][k].jobs
      BY <2>2
    <3>2. j.attempt <= nextAttempt /\ j.attempt \in Nat /\ nextAttempt \in Nat
      BY <2>1, <3>1, <1>4, JobShape DEF Own, OfTurn
    <3> QED
      BY <1>4, <3>2 DEF Own, Anew
  <2> QED
    BY <1>2, <2>1, <2>2
<1>5. ASSUME NEW t \in TurnKeys, Reliable(t)'
      PROVE  Anew(t, jobs) \/ (Remains(t, jobs) /\ Reliable(t))
  BY <1>5 DEF Spawns, Reliable, Remains
<1>6. Behind'
  <2> SUFFICES ASSUME NEW t \in TurnKeys, NEW k \in Slots, NEW l \in Slots, Reliable(t)',
                      NEW j \in runner'[t[1]][k].jobs, NEW d \in runner'[t[1]][l].jobs,
                      Own(j, t)', Touches(d, t)'
               PROVE  \/ l = k /\ d.kind = "unsubscribe" /\ d.attempt <= j.attempt
                      \/ l \in runner'[t[1]][k].earlier
                      \/ l # k /\ HasLock(t[1], l)'
    BY DEF Behind
  <2>0. t[1] \in Servers
    BY DEF TurnKeys
  <2>1. CASE Remains(t, jobs) /\ Reliable(t)
    <3>1. Concerns(j, t) /\ Concerns(d, t)
      BY DEF Own, Touches, Concerns, OfTurn
    <3>2. /\ runner'[t[1]][k] = runner[t[1]][k] /\ j \in runner[t[1]][k].jobs /\ Own(j, t)
          /\ runner'[t[1]][l] = runner[t[1]][l] /\ d \in runner[t[1]][l].jobs /\ Touches(d, t)
      BY <1>3, <2>1, <3>1 DEF Touches
    <3> QED
      BY <2>1, <3>2 DEF Lasting, Behind, HasLock
  <2>2. CASE Anew(t, jobs)
    <3>1. runner'[t[1]][k] # runner[t[1]][k] /\ runner[t[1]][k].pc = "idle"
      BY <1>4, <2>2
    <3>2. /\ runner'[t[1]][k].jobs = jobs[t[1]] /\ runner'[t[1]][k].earlier = Waiting(t[1])
          /\ \A i \in Slots : i < k => runner[t[1]][i].pc # "idle"
      BY <1>2, <2>0, <3>1
    <3>3. CASE runner'[t[1]][l] = runner[t[1]][l]
      <4>1. runner[t[1]][l].pc # "idle"
        BY <2>0, <3>3, JobShape
      <4>2. runner[t[1]][l].pc = "wait" => l \in Waiting(t[1])
        BY DEF Waiting
      <4> QED
        BY <3>1, <3>2, <3>3, <4>1, <4>2 DEF HasLock
    <3>4. CASE runner'[t[1]][l] # runner[t[1]][l]
      <4>1. /\ runner[t[1]][l].pc = "idle" /\ runner'[t[1]][l].jobs = jobs[t[1]]
            /\ \A i \in Slots : i < l => runner[t[1]][i].pc # "idle"
        BY <1>2, <2>0, <3>4
      <4>2. l = k
        <5>1. k \in Nat /\ l \in Nat /\ ~(k < l) /\ ~(l < k)
          BY <3>1, <3>2, <4>1, BoundsAssumption
        <5> QED
          BY <5>1
      <4>3. Concerns(d, t) /\ OfTurn(d) /\ d.attempt = turns'[t].attempt
        BY <2>2, <4>1 DEF Touches, Anew, Concerns
      <4>4. d.kind # "subscribe"
        <5>1. d.turn = t
          BY <4>3 DEF Concerns, OfTurn
        <5> QED
          BY <4>3, <5>1 DEF Touches, Own
      <4>5. d.kind = "unsubscribe" /\ d.attempt = j.attempt /\ j.attempt \in Nat
        BY <2>2, <4>3, <4>4 DEF OfTurn, Own, Anew
      <4> QED
        BY <4>2, <4>5
    <3> QED
      BY <3>3, <3>4
  <2> QED
    BY <1>5, <2>1, <2>2
<1>7. Line'
  BY <1>2 DEF Lasting, Line
<1>8. Undisturbed'
  <2> SUFFICES ASSUME NEW t \in TurnKeys, NEW k \in Slots, Reliable(t)',
                      turns'[t].status = "Subscribed",
                      NEW d \in runner'[t[1]][k].jobs, Touches(d, t)'
               PROVE  FALSE
    BY DEF Undisturbed
  <2>1. Remains(t, jobs) /\ Reliable(t) /\ turns[t].status = "Subscribed"
    BY <1>5 DEF Anew, Remains
  <2>2. d \in runner[t[1]][k].jobs /\ Touches(d, t)
    BY <1>3, <2>1 DEF Touches, Concerns
  <2> QED
    BY <2>1, <2>2 DEF Lasting, Undisturbed
<1>9. Present'
  <2> SUFFICES ASSUME NEW t \in TurnKeys, Reliable(t)', Sent(t)', phase'[t] = "active",
                      Fresh(t)'
               PROVE  held'[t] # None /\ held'[t].issued >= turns'[t].planned
    BY DEF Present
  <2>1. Remains(t, jobs) /\ Reliable(t) /\ Sent(t)
    <3>1. CASE turns'[t].status = "Subscribed"
      BY <1>5, <3>1 DEF Anew, Remains, Sent
    <3>2. CASE turns'[t].status # "Subscribed"
      <4>1. PICK k \in Slots : \E j \in runner'[t[1]][k].jobs : AnswerOf(t, k, j)'
        BY <3>2 DEF Sent
      <4>2. PICK j \in runner'[t[1]][k].jobs : AnswerOf(t, k, j)'
        BY <4>1
      <4>3. runner'[t[1]][k].pc = "answer" /\ Own(j, t)'
        BY <4>2 DEF AnswerOf
      <4>4. Remains(t, jobs) /\ Reliable(t)
        BY <1>4, <1>5, <4>3
      <4>5. /\ runner'[t[1]][k] = runner[t[1]][k] /\ j \in runner[t[1]][k].jobs /\ Own(j, t)
        BY <1>3, <4>3, <4>4 DEF Own, Concerns, OfTurn
      <4>6. AnswerOf(t, k, j)
        BY <4>2, <4>5 DEF AnswerOf, NextJob
      <4> QED
        BY <4>4, <4>5, <4>6 DEF Sent
    <3> QED
      BY <3>1, <3>2
  <2>2. phase[t] = "active" /\ Fresh(t)
    BY <2>1 DEF Remains, Lasting, Begun, Fresh
  <2> QED
    BY <2>1, <2>2 DEF Lasting, Present, Remains
<1>10. Signed'
  <2> SUFFICES ASSUME NEW t \in TurnKeys, NEW k \in Slots, NEW j \in runner'[t[1]][k].jobs,
                      turns'[t] # None, runner'[t[1]][k].pc = "call",
                      NextJob(t[1], k, j)', Own(j, t)'
               PROVE  runner'[t[1]][k].grant.issued >= turns'[t].planned
    BY DEF Signed
  <2>1. Remains(t, jobs)
    BY <1>4 DEF Spawns
  <2>2. /\ runner'[t[1]][k] = runner[t[1]][k] /\ j \in runner[t[1]][k].jobs /\ Own(j, t)
    BY <1>3, <2>1 DEF Own, Concerns, OfTurn
  <2> QED
    BY <2>1, <2>2 DEF Lasting, Signed, Remains, NextJob
<1>11. Begun'
  <2>1. \A t \in TurnKeys : turns'[t] # None => phase'[t] # "new"
    BY DEF Lasting, Begun
  <2>2. snapshot # None => snapshot \subseteq TurnKeys
    BY <1>1 DEF TypeOK
  <2> QED
    BY <2>1, <2>2 DEF Lasting, Begun
<1> QED
  BY <1>6, <1>7, <1>8, <1>9, <1>10, <1>11 DEF Lasting

LEMMA PlanLasts ==
  ASSUME Inv, Lasting, NEW ts \in [TurnKeys -> Entry \cup {None}],
         \A t \in TurnKeys : ts[t] = None \/ ts[t] = turns[t],
         NEW again \in SUBSET TurnKeys, NEW fresh \in SUBSET TurnKeys,
         NEW drop \in SUBSET again,
         \A t \in again : ts[t] # None,
         NEW order \in Orders(again \cup fresh),
         Plan(ts, again, fresh, drop, order),
         UNCHANGED <<held, overtaken, now>>,
         \A t \in TurnKeys : phase'[t] = "active" => phase[t] \in {"new", "active"},
         \A t \in TurnKeys : phase'[t] = "new" => phase[t] = "new",
         \A t \in fresh : phase'[t] # "new",
         snapshot' = None \/ snapshot' = snapshot
  PROVE  Lasting'
<1> DEFINE all == again \cup fresh
           next == Planned(ts, again, fresh, order)
           jobs == ByServer(SubscribeJobs(next, all) \cup
                            {TurnJob("unsubscribe", t, next[t].attempt) : t \in drop})
<1>1. turns' = next /\ Spawn(jobs)
  BY DEF Plan
<1>2. nextAttempt \in Nat /\ nextAttempt' \in Nat
  BY Finite DEF Inv, TypeOK, Plan
<1>3. ASSUME NEW t \in all
      PROVE  /\ next[t].attempt \in Nat /\ next[t].attempt > nextAttempt
             /\ next[t].status # "Subscribed"
  <2>1. /\ turns'[t].attempt \in nextAttempt + 1 .. nextAttempt'
        /\ t \in again => turns'[t].status = "Pending"
    BY PlanEntries
  <2>2. next[t].status # "Subscribed"
    <3>1. CASE t \in again
      BY <1>1, <2>1, <3>1
    <3>2. CASE t \notin again
      BY <3>2 DEF Planned
    <3> QED
      BY <3>1, <3>2
  <2> QED
    BY <1>1, <1>2, <2>1, <2>2
<1>4. \A t \in TurnKeys \ all : next[t] = ts[t]
  BY DEF Planned
<1>5. ASSUME NEW s \in Servers, NEW j \in jobs[s]
      PROVE  /\ j \in Job /\ j.turn \in all /\ OfTurn(j)
             /\ j.attempt = next[j.turn].attempt
  <2>1. \/ j \in SubscribeJobs(next, all)
        \/ j \in {TurnJob("unsubscribe", t, next[t].attempt) : t \in drop}
    BY DEF ByServer
  <2>2. CASE j \in SubscribeJobs(next, all)
    <3>1. PICK t \in all : j = TurnJob("subscribe", t, next[t].attempt)
      BY <2>2 DEF SubscribeJobs
    <3>2. t \in TurnKeys /\ next[t].attempt \in Nat
      BY <1>3
    <3>3. j \in Job /\ j.kind = "subscribe" /\ j.turn = t /\ j.attempt = next[t].attempt
      BY <3>1, <3>2 DEF TurnJob, Job
    <3> QED
      BY <3>3 DEF OfTurn
  <2>3. CASE j \in {TurnJob("unsubscribe", t, next[t].attempt) : t \in drop}
    <3>1. PICK t \in drop : j = TurnJob("unsubscribe", t, next[t].attempt)
      BY <2>3
    <3>2. t \in all /\ t \in TurnKeys /\ next[t].attempt \in Nat
      BY <1>3
    <3>3. j \in Job /\ j.kind = "unsubscribe" /\ j.turn = t /\ j.attempt = next[t].attempt
      BY <3>1, <3>2 DEF TurnJob, Job
    <3> QED
      BY <3>2, <3>3 DEF OfTurn
  <2> QED
    BY <2>1, <2>2, <2>3
<1>6. jobs \in [Servers -> SUBSET Job]
  BY <1>5 DEF ByServer
<1>7. ASSUME NEW t \in TurnKeys, NEW d \in jobs[t[1]], Concerns(d, t)
      PROVE  OfTurn(d) /\ t \in all /\ d.attempt = next[t].attempt
  <2>1. d.turn \in all /\ OfTurn(d) /\ d.attempt = next[d.turn].attempt
    BY <1>5 DEF TurnKeys
  <2>2. d.turn = t
    BY <1>7, <2>1 DEF Concerns, OfTurn
  <2> QED
    BY <2>1, <2>2
<1> HIDE DEF jobs, next
<1>8. ASSUME NEW t \in TurnKeys
      PROVE  turns'[t] = None \/ Remains(t, jobs) \/ Anew(t, jobs)
  <2>1. CASE t \in all
    BY <1>1, <1>3, <1>7, <2>1 DEF Anew
  <2>2. CASE t \notin all /\ turns'[t] # None
    BY <1>1, <1>4, <1>7, <2>2 DEF Remains
  <2> QED
    BY <2>1, <2>2
<1>9. Spawns(jobs)
  BY <1>1, <1>6, <1>8 DEF Spawns
<1>10. ASSUME NEW t \in TurnKeys, turns'[t] # None
       PROVE  turns[t] # None \/ phase'[t] # "new"
  BY <1>1, <1>4, <1>10
<1> QED
  BY <1>9, <1>10, CallLasts

LEMMA LastTurnStarted ==
  ASSUME Inv, Lasting, NEW t \in TurnKeys, TurnStarted(t)
  PROVE  Lasting'
<1> DEFINE fresh == Plannable(Pruned, registration, {t})
<1>1. PICK order \in Orders(fresh) : Plan(Pruned, {}, fresh, {}, order)
  BY DEF TurnStarted
<1>2. fresh \in SUBSET TurnKeys /\ fresh \subseteq {t}
  BY DEF Plannable
<1>3. /\ {} \in SUBSET TurnKeys /\ {} \in SUBSET {} /\ {} \cup fresh = fresh
      /\ UNCHANGED <<held, overtaken, now>> /\ snapshot' = snapshot
  BY DEF TurnStarted
<1>4. /\ phase'[t] = "active" /\ phase[t] \in {"new", "active"}
      /\ \A u \in TurnKeys : u # t => phase'[u] = phase[u]
  BY DEF TurnStarted, Inv, TypeOK
<1>5. \A u \in fresh : phase'[u] # "new"
  BY <1>2, <1>4
<1> HIDE DEF fresh
<1> QED
  BY <1>1, <1>2, <1>3, <1>4, <1>5, PrunedShape, PlanLasts DEF Inv

LEMMA LastBackground ==
  ASSUME Inv, Lasting, AppEnteredBackground
  PROVE  Lasting'
<1> DEFINE again == {t \in snapshot : /\ Pruned[t] # None
                                      /\ Pruned[t].status = "Failed"
                                      /\ Pruned[t].completed = 0
                                      /\ Eligible(registration, t)}
           fresh == Plannable(Pruned, registration, snapshot)
<1>1. PICK order \in Orders(again \cup fresh) : Plan(Pruned, again, fresh, {}, order)
  BY DEF AppEnteredBackground
<1>2. snapshot \in SUBSET TurnKeys /\ snapshot # None
  BY DEF AppEnteredBackground, Inv, TypeOK
<1>3. /\ again \in SUBSET TurnKeys /\ fresh \in SUBSET TurnKeys
      /\ fresh \subseteq snapshot
      /\ \A t \in again : Pruned[t] # None
  BY <1>2 DEF Plannable
<1>4. /\ {} \in SUBSET again /\ snapshot' = None
      /\ UNCHANGED <<held, overtaken, now, phase>>
  BY DEF AppEnteredBackground, outside
<1>5. \A t \in fresh : phase'[t] # "new"
  BY <1>2, <1>3, <1>4 DEF Lasting, Begun
<1> HIDE DEF again, fresh
<1> QED
  BY <1>1, <1>3, <1>4, <1>5, PrunedShape, PlanLasts DEF Inv

LEMMA LastSetRegistration ==
  ASSUME Inv, Lasting, NEW r \in Tokens, SetRegistration(r)
  PROVE  Lasting'
<1> DEFINE live  == IF registration \in {None, r} THEN {}
                    ELSE {t \in TurnKeys : IsLive(Pruned[t])}
           again == {t \in live : hosts[t[1]] = "push"}
           kept  == [t \in TurnKeys |->
                        IF t \in live \ again THEN None ELSE Pruned[t]]
           fresh == Plannable(kept, r, snapshot)
<1>1. PICK order \in Orders(again \cup fresh) : Plan(kept, again, fresh, again, order)
  BY DEF SetRegistration
<1>2. snapshot \in SUBSET TurnKeys /\ snapshot # None
  BY DEF SetRegistration, Inv, TypeOK
<1>3. /\ again \in SUBSET TurnKeys /\ fresh \in SUBSET TurnKeys
      /\ fresh \subseteq snapshot /\ again \in SUBSET again
  BY <1>2 DEF Plannable
<1>4. /\ kept \in [TurnKeys -> Entry \cup {None}]
      /\ \A t \in TurnKeys : kept[t] = None \/ kept[t] = turns[t]
  BY PrunedShape DEF Inv
<1>5. \A t \in again : kept[t] # None
  BY DEF IsLive
<1>6. snapshot' = None /\ UNCHANGED <<held, overtaken, now, phase>>
  BY DEF SetRegistration, outside
<1>7. \A t \in fresh : phase'[t] # "new"
  BY <1>2, <1>3, <1>6 DEF Lasting, Begun
<1> HIDE DEF live, again, kept, fresh
<1> QED
  BY <1>1, <1>3, <1>4, <1>5, <1>6, <1>7, PlanLasts

\* The calls that plan nothing.
LEMMA TrimLasts ==
  ASSUME Inv, Lasting, NEW jobs \in [Servers -> SUBSET Job], Spawn(jobs),
         \A t \in TurnKeys :
            \/ turns'[t] = None
            \/ /\ turns[t] # None /\ turns'[t].attempt = turns[t].attempt
               /\ turns'[t].status = turns[t].status
               /\ turns'[t].planned = turns[t].planned
               /\ jobs[t[1]] = {},
         UNCHANGED <<held, overtaken, now>>,
         \A t \in TurnKeys : phase'[t] = "active" => phase[t] \in {"new", "active"},
         \A t \in TurnKeys : phase'[t] = "new" => phase[t] = "new",
         snapshot' = None \/ snapshot' = snapshot
  PROVE  Lasting'
<1>1. \A t \in TurnKeys : turns'[t] = None \/ Remains(t, jobs)
  BY DEF Remains
<1>2. Spawns(jobs)
  BY <1>1 DEF Spawns
<1>3. \A t \in TurnKeys : turns'[t] # None => turns[t] # None
  OBVIOUS
<1> QED
  BY <1>2, <1>3, CallLasts

LEMMA LastClear ==
  ASSUME Inv, Lasting, ClearRegistration
  PROVE  Lasting'
<1> DEFINE jobs == [s \in Servers |-> IF hosts[s] = "push"
                                      THEN {ServerJob("all", TRUE)} ELSE {}]
<1>1. Spawn(jobs) /\ \A t \in TurnKeys : turns'[t] = None
  BY DEF ClearRegistration
<1>2. jobs \in [Servers -> SUBSET Job]
  BY ServerJobShape
<1>3. snapshot' = None /\ UNCHANGED <<held, overtaken, now, phase>>
  BY DEF ClearRegistration, outside
<1> HIDE DEF jobs
<1> QED
  BY <1>1, <1>2, <1>3, TrimLasts

LEMMA LastPrune ==
  ASSUME Inv, Lasting, PruneOnly
  PROVE  Lasting'
<1> DEFINE none == [s \in Servers |-> {}]
<1>1. TypeOK
  BY DEF Inv
<1>2. none \in [Servers -> SUBSET Job] /\ Spawn(none)
  BY <1>1, NoJobs DEF PruneOnly
<1>3. \A t \in TurnKeys : none[t[1]] = {}
  BY DEF TurnKeys
<1>4. \A t \in TurnKeys : turns'[t] = None \/ turns'[t] = turns[t]
  BY <1>1, PrunedShape DEF PruneOnly
<1>5. snapshot' = None /\ UNCHANGED <<held, overtaken, now, phase>>
  BY DEF PruneOnly, outside
<1> HIDE DEF none
<1> QED
  BY <1>2, <1>3, <1>4, <1>5, TrimLasts

LEMMA LastCompleted ==
  ASSUME Inv, Lasting, NEW t \in TurnKeys, TurnCompleted(t)
  PROVE  Lasting'
<1> DEFINE none == [s \in Servers |-> {}]
<1>1. TypeOK
  BY DEF Inv
<1>2. none \in [Servers -> SUBSET Job] /\ Spawn(none)
  BY <1>1, NoJobs DEF TurnCompleted
<1>3. \A u \in TurnKeys : none[u[1]] = {}
  BY DEF TurnKeys
<1>4. ASSUME NEW u \in TurnKeys
      PROVE  \/ turns'[u] = None
             \/ /\ turns[u] # None /\ turns'[u].attempt = turns[u].attempt
                /\ turns'[u].status = turns[u].status
                /\ turns'[u].planned = turns[u].planned
  <2>1. CASE u = t /\ turns[t] # None /\ ~Stale(turns[t])
    <3>1. turns[t] \in Entry
      BY <1>1, <2>1 DEF TypeOK
    <3>2. turns'[t] = [turns[t] EXCEPT !.completed = IF @ = 0 THEN now ELSE @]
      BY <2>1 DEF TurnCompleted
    <3> QED
      BY <2>1, <3>1, <3>2 DEF Entry
  <2>2. CASE ~(u = t /\ turns[t] # None /\ ~Stale(turns[t]))
    <3>1. turns'[u] = Pruned[u]
      BY <2>2 DEF TurnCompleted
    <3> QED
      BY <1>1, <3>1, PrunedShape
  <2> QED
    BY <2>1, <2>2
<1>5. /\ snapshot' = snapshot /\ UNCHANGED <<held, overtaken, now>>
      /\ phase'[t] = "done" /\ \A u \in TurnKeys : u # t => phase'[u] = phase[u]
  BY <1>1 DEF TurnCompleted, TypeOK
<1>6. /\ \A u \in TurnKeys : phase'[u] = "active" => phase[u] \in {"new", "active"}
      /\ \A u \in TurnKeys : phase'[u] = "new" => phase[u] = "new"
  BY <1>5
<1> HIDE DEF none
<1> QED
  BY <1>2, <1>3, <1>4, <1>5, <1>6, TrimLasts

LEMMA LastRemoved ==
  ASSUME Inv, Lasting, NEW s \in Servers, ServerRemoved(s)
  PROVE  Lasting'
<1> DEFINE jobs == [q \in Servers |-> IF q = s THEN RemovalJobs(s) ELSE {}]
<1>1. Spawn(jobs) /\ turns' = [t \in TurnKeys |-> IF t[1] = s THEN None ELSE turns[t]]
  BY DEF ServerRemoved
<1>2. urlKnown \in BOOLEAN /\ hosts[s] \in {"absent", "legacy", "push"}
  BY DEF Inv, TypeOK
<1>3. RemovalJobs(s) \subseteq Job
  <2>1. CASE hosts[s] = "push"
    BY <1>2, <2>1, ServerJobShape DEF RemovalJobs
  <2>2. CASE hosts[s] # "push"
    BY <1>2, <2>2, ServerJobShape DEF RemovalJobs
  <2> QED
    BY <2>1, <2>2
<1>4. jobs \in [Servers -> SUBSET Job]
  BY <1>3
<1>5. \A t \in TurnKeys : t[1] # s => jobs[t[1]] = {}
  BY DEF TurnKeys
<1>6. snapshot' = snapshot /\ UNCHANGED <<held, overtaken, now, phase>>
  BY DEF ServerRemoved, outside
<1> HIDE DEF jobs
<1>7. ASSUME NEW t \in TurnKeys
      PROVE  turns'[t] = None \/ (turns'[t] = turns[t] /\ jobs[t[1]] = {})
  BY <1>1, <1>5
<1> QED
  BY <1>1, <1>4, <1>6, <1>7, TrimLasts

-----------------------------------------------------------------------------
(* The tasks: they give out no attempt, and the steps that take a          *)
(* subscription away belong to jobs that touch its turn.                   *)

TaskMoves(s, k, r) ==
    /\ HasLock(s, k) /\ GoTo(s, k, r)
    /\ r.pc # "wait" /\ r.jobs \subseteq runner[s][k].jobs /\ r.earlier = {}
    /\ r.pc = "idle" => r.jobs = {}
    /\ UNCHANGED <<snapshot, phase, overtaken, now>>
    /\ \A t \in TurnKeys :
          turns'[t] # None =>
             /\ turns[t] # None /\ turns'[t].attempt = turns[t].attempt
             /\ turns'[t].planned = turns[t].planned
             /\ turns'[t].status = "Subscribed" => Sent(t)

LEMMA TaskPlace ==
  ASSUME Inv, NEW s \in Servers, NEW k \in Slots, NEW r, GoTo(s, k, r)
  PROVE  /\ runner'[s][k] = r
         /\ \A q \in Servers, l \in Slots :
               q # s \/ l # k => runner'[q][l] = runner[q][l]
BY DEF Inv, TypeOK, GoTo

\* All of the invariant but what the host has.
LEMMA TaskOrder ==
  ASSUME Inv, Lasting, NEW s \in Servers, NEW k \in Slots, NEW r \in Runner,
         TaskMoves(s, k, r),
         \A t \in TurnKeys, j \in r.jobs :
             r.pc = "call" /\ turns[t] # None /\ Own(j, t) /\ NextJob(s, k, j)'
             => r.grant.issued >= turns[t].planned
  PROVE  Behind' /\ Line' /\ Undisturbed' /\ Signed' /\ Begun'
<1>1. /\ runner'[s][k] = r
      /\ \A q \in Servers, l \in Slots :
            q # s \/ l # k => runner'[q][l] = runner[q][l]
  BY TaskPlace DEF TaskMoves
<1>2. \A q \in Servers, l \in Slots : runner'[q][l].jobs \subseteq runner[q][l].jobs
  BY <1>1 DEF TaskMoves
<1>3. \A q \in Servers, l \in Slots :
         runner'[q][l].jobs # {} /\ HasLock(q, l) => HasLock(q, l)'
  BY <1>1 DEF TaskMoves, HasLock
<1>4. \A q \in Servers, l \in Slots : runner'[q][l].earlier = runner[q][l].earlier
  BY <1>1 DEF TaskMoves, HasLock, Lasting, Line
<1>5. ASSUME NEW t \in TurnKeys, Reliable(t)'
      PROVE  /\ Reliable(t) /\ t[1] \in Servers
             /\ \A d : (Own(d, t)' <=> Own(d, t)) /\ (Touches(d, t)' <=> Touches(d, t))
  <2>1. Reliable(t) /\ turns'[t].attempt = turns[t].attempt
    BY <1>5 DEF TaskMoves, Reliable
  <2>2. \A d : Own(d, t)' <=> Own(d, t)
    BY <2>1 DEF Own
  <2> QED
    BY <2>1, <2>2 DEF Touches, TurnKeys
<1>6. Behind'
  <2> SUFFICES ASSUME NEW t \in TurnKeys, NEW m \in Slots, NEW l \in Slots, Reliable(t)',
                      NEW j \in runner'[t[1]][m].jobs, NEW d \in runner'[t[1]][l].jobs,
                      Own(j, t)', Touches(d, t)'
               PROVE  \/ l = m /\ d.kind = "unsubscribe" /\ d.attempt <= j.attempt
                      \/ l \in runner'[t[1]][m].earlier
                      \/ l # m /\ HasLock(t[1], l)'
    BY DEF Behind
  <2>1. /\ Reliable(t) /\ t[1] \in Servers /\ Own(j, t) /\ Touches(d, t)
        /\ j \in runner[t[1]][m].jobs /\ d \in runner[t[1]][l].jobs
    BY <1>2, <1>5
  <2>2. \/ l = m /\ d.kind = "unsubscribe" /\ d.attempt <= j.attempt
        \/ l \in runner[t[1]][m].earlier
        \/ l # m /\ HasLock(t[1], l)
    BY <2>1 DEF Lasting, Behind
  <2> QED
    BY <1>3, <1>4, <2>1, <2>2
<1>7. Line'
  BY <1>1 DEF TaskMoves, Lasting, Line
<1>8. Undisturbed'
  <2> SUFFICES ASSUME NEW t \in TurnKeys, NEW l \in Slots, Reliable(t)',
                      turns'[t].status = "Subscribed",
                      NEW d \in runner'[t[1]][l].jobs, Touches(d, t)'
               PROVE  FALSE
    BY DEF Undisturbed
  <2>1. Reliable(t) /\ Sent(t) /\ Touches(d, t) /\ d \in runner[t[1]][l].jobs
    BY <1>2, <1>5 DEF TaskMoves, Reliable
  <2> QED
    BY <2>1, SentAlone
<1>9. Signed'
  <2> SUFFICES ASSUME NEW t \in TurnKeys, NEW l \in Slots, NEW j \in runner'[t[1]][l].jobs,
                      turns'[t] # None, runner'[t[1]][l].pc = "call",
                      NextJob(t[1], l, j)', Own(j, t)'
               PROVE  runner'[t[1]][l].grant.issued >= turns'[t].planned
    BY DEF Signed
  <2>1. /\ turns[t] # None /\ t[1] \in Servers
        /\ turns'[t].planned = turns[t].planned /\ Own(j, t)
    BY DEF TaskMoves, Own, TurnKeys
  <2>2. CASE t[1] = s /\ l = k
    BY <1>1, <2>1, <2>2
  <2>3. CASE t[1] # s \/ l # k
    <3>1. runner'[t[1]][l] = runner[t[1]][l]
      BY <1>1, <2>1, <2>3
    <3> QED
      BY <2>1, <3>1 DEF Lasting, Signed, NextJob
  <2> QED
    BY <2>2, <2>3
<1>10. Begun'
  BY DEF TaskMoves, Lasting, Begun
<1> QED
  BY <1>6, <1>7, <1>8, <1>9, <1>10

\* A step that answers no call leaves what has been sent where it is.
LEMMA TaskLasts ==
  ASSUME Inv, Lasting, NEW s \in Servers, NEW k \in Slots, NEW r \in Runner,
         TaskMoves(s, k, r),
         \A t \in TurnKeys, j \in r.jobs :
             r.pc = "call" /\ turns[t] # None /\ Own(j, t) /\ NextJob(s, k, j)'
             => r.grant.issued >= turns[t].planned,
         r.pc = "answer" => r.outcome # "Subscribed",
         \A t \in TurnKeys : Reliable(t) /\ Sent(t) => held'[t] = held[t]
  PROVE  Lasting'
<1>1. /\ runner'[s][k] = r
      /\ \A q \in Servers, l \in Slots :
            q # s \/ l # k => runner'[q][l] = runner[q][l]
  BY TaskPlace DEF TaskMoves
<1>2. Present'
  <2> SUFFICES ASSUME NEW t \in TurnKeys, Reliable(t)', Sent(t)', phase'[t] = "active",
                      Fresh(t)'
               PROVE  held'[t] # None /\ held'[t].issued >= turns'[t].planned
    BY DEF Present
  <2>1. /\ Reliable(t) /\ turns'[t].attempt = turns[t].attempt
        /\ turns'[t].planned = turns[t].planned
        /\ turns'[t].status = "Subscribed" => Sent(t)
    BY DEF TaskMoves, Reliable
  <2>2. Sent(t)
    <3>1. ASSUME turns'[t].status # "Subscribed" PROVE Sent(t)
      <4>1. PICK l \in Slots : \E j \in runner'[t[1]][l].jobs : AnswerOf(t, l, j)'
        BY <3>1 DEF Sent
      <4>2. PICK j \in runner'[t[1]][l].jobs : AnswerOf(t, l, j)'
        BY <4>1
      <4>3. runner'[t[1]][l] = runner[t[1]][l]
        BY <1>1, <4>2 DEF AnswerOf, TurnKeys
      <4>4. Own(j, t)
        BY <2>1, <4>2 DEF AnswerOf, Own
      <4>5. AnswerOf(t, l, j)
        BY <4>2, <4>3, <4>4 DEF AnswerOf, NextJob
      <4> QED
        BY <4>2, <4>3, <4>5 DEF Sent
    <3> QED
      BY <2>1, <3>1
  <2>3. phase[t] = "active" /\ Fresh(t)
    BY <2>1 DEF TaskMoves, Fresh
  <2> QED
    BY <2>1, <2>2, <2>3 DEF Lasting, Present
<1> QED
  BY <1>2, TaskOrder DEF Lasting

LEMMA SameTurns ==
  ASSUME Inv, Lasting, turns' = turns
  PROVE  \A t \in TurnKeys :
          turns'[t] # None =>
             /\ turns[t] # None /\ turns'[t].attempt = turns[t].attempt
             /\ turns'[t].planned = turns[t].planned
             /\ turns'[t].status = "Subscribed" => Sent(t)
BY DEF Sent

LEMMA LastStart ==
  ASSUME Inv, Lasting, NEW s \in Servers, NEW k \in Slots, SubscribeStart(s, k)
  PROVE  Lasting'
<1>1. PICK j \in runner[s][k].jobs :
         /\ At(s, k, "next", "subscribe", j)
         /\ Wanted(j)
         /\ GoTo(s, k, [runner[s][k] EXCEPT
                          !.pc = "sign",
                          !.grant = [token |-> registration, issued |-> 0,
                                     planned |-> turns[j.turn].planned]])
  BY DEF SubscribeStart
<1>2. TypeOK /\ UNCHANGED <<turns, snapshot, phase, overtaken, now, held>>
  BY DEF SubscribeStart, Inv, state, outside
<1> DEFINE g == [token |-> registration, issued |-> 0, planned |-> turns[j.turn].planned]
           r == [runner[s][k] EXCEPT !.pc = "sign", !.grant = g]
<1>3. /\ runner[s][k] \in Runner /\ runner[s][k].pc = "next"
      /\ runner[s][k].earlier = {}
  BY <1>1, <1>2 DEF TypeOK, At, Lasting, Line
<1>4. j.turn \in TurnKeys /\ turns[j.turn] \in Entry
  BY <1>1, <1>2 DEF At, OfTurn, Wanted, Inv, Numbered, TypeOK
<1>5. g \in Grant
  BY <1>1, <1>2, <1>4 DEF Wanted, TypeOK, Grant, Entry
<1> HIDE DEF g
<1>6. r \in Runner /\ r.pc = "sign" /\ r.jobs = runner[s][k].jobs /\ r.earlier = {}
  BY <1>3, <1>5 DEF Runner
<1>7. GoTo(s, k, r)
  BY <1>1 DEF g
<1> HIDE DEF r
<1>8. TaskMoves(s, k, r)
  BY <1>2, <1>3, <1>6, <1>7, SameTurns DEF TaskMoves, HasLock
<1> QED
  BY <1>2, <1>6, <1>8, TaskLasts

\* The end of a job.
LEMMA FinishLasts ==
  ASSUME Inv, Lasting, NEW s \in Servers, NEW k \in Slots, HasLock(s, k),
         NEW j \in runner[s][k].jobs, Finish(s, k, j),
         UNCHANGED <<snapshot, phase, overtaken, now>>,
         \A t \in TurnKeys :
          turns'[t] # None =>
             /\ turns[t] # None /\ turns'[t].attempt = turns[t].attempt
             /\ turns'[t].planned = turns[t].planned
             /\ turns'[t].status = "Subscribed" => Sent(t),
         \A t \in TurnKeys : Reliable(t) /\ Sent(t) => held'[t] = held[t]
  PROVE  Lasting'
<1>1. TypeOK
  BY DEF Inv
<1>2. PICK r \in Runner : /\ GoTo(s, k, r) /\ r.jobs = runner[s][k].jobs \ {j}
                          /\ r.pc \in {"idle", "next"}
                          /\ r.pc = "idle" => r.jobs = {}
                          /\ r.earlier = {}
  BY <1>1, FinishShape
<1>3. TaskMoves(s, k, r)
  BY <1>2 DEF TaskMoves
<1> QED
  BY <1>2, <1>3, TaskLasts

LEMMA LastSkip ==
  ASSUME Inv, Lasting, NEW s \in Servers, NEW k \in Slots, SubscribeSkip(s, k)
  PROVE  Lasting'
<1>1. PICK j \in runner[s][k].jobs : At(s, k, "next", "subscribe", j) /\ Finish(s, k, j)
  BY DEF SubscribeSkip
<1>2. UNCHANGED <<turns, snapshot, phase, overtaken, now, held>>
  BY DEF SubscribeSkip, state, outside
<1> QED
  BY <1>1, <1>2, SameTurns, FinishLasts DEF At, HasLock

LEMMA LastRevoke ==
  ASSUME Inv, Lasting, NEW s \in Servers, NEW k \in Slots, DirectRevoke(s, k)
  PROVE  Lasting'
<1>1. PICK j \in runner[s][k].jobs :
         /\ At(s, k, "revoke", "all", j) \/ At(s, k, "next", "revoke", j)
         /\ Finish(s, k, j)
  BY DEF DirectRevoke
<1>2. UNCHANGED <<turns, snapshot, phase, overtaken, now, held>>
  BY DEF DirectRevoke
<1> QED
  BY <1>1, <1>2, SameTurns, FinishLasts DEF At, HasLock

LEMMA LastSign ==
  ASSUME Inv, Follows, Lasting, NEW s \in Servers, NEW k \in Slots,
         SubscribeUnsigned(s, k) \/ SubscribeSign(s, k)
  PROVE  Lasting'
<1>1. /\ TypeOK /\ UNCHANGED <<turns, snapshot, phase, overtaken, now, held>>
      /\ runner[s][k].pc = "sign" /\ HasLock(s, k)
  BY DEF SubscribeUnsigned, SubscribeSign, Inv, state, outside, HasLock
<1>2. /\ runner[s][k] \in Runner /\ runner[s][k].grant \in Grant
      /\ runner[s][k].earlier = {}
  BY <1>1 DEF TypeOK, Inv, InFlight, Signing, Subscribing, Lasting, Line
<1>3. CASE SubscribeUnsigned(s, k)
  <2> DEFINE r == [runner[s][k] EXCEPT !.pc = "answer", !.outcome = "Failed"]
  <2>1. /\ r \in Runner /\ r.pc = "answer" /\ r.jobs = runner[s][k].jobs
        /\ r.outcome = "Failed" /\ r.earlier = {}
    BY <1>2 DEF Runner, Status
  <2>2. GoTo(s, k, r)
    BY <1>3 DEF SubscribeUnsigned
  <2> HIDE DEF r
  <2>3. TaskMoves(s, k, r)
    BY <1>1, <2>1, <2>2, SameTurns DEF TaskMoves
  <2> QED
    BY <1>1, <2>1, <2>3, TaskLasts
<1>4. CASE SubscribeSign(s, k)
  <2> DEFINE g == [runner[s][k].grant EXCEPT !.issued = GrantIssuedAt(s)]
             r == [runner[s][k] EXCEPT !.pc = "call", !.grant.issued = GrantIssuedAt(s)]
  <2>0. /\ revokedAt[s] \in Nat /\ now \in Nat
        /\ GrantIssuedAt(s) \in Nat /\ GrantIssuedAt(s) >= now
    BY <1>1 DEF TypeOK, GrantIssuedAt
  <2>1. g \in Grant /\ g.issued = GrantIssuedAt(s)
    BY <1>2, <2>0 DEF Grant
  <2>2. /\ r \in Runner /\ r.pc = "call" /\ r.jobs = runner[s][k].jobs
        /\ r.grant = g /\ r.earlier = {}
    BY <1>2, <2>1 DEF Runner
  <2>3. GoTo(s, k, r)
    BY <1>4 DEF SubscribeSign
  <2> HIDE DEF r, g
  <2>4. TaskMoves(s, k, r)
    BY <1>1, <2>2, <2>3, SameTurns DEF TaskMoves
  <2>5. ASSUME NEW t \in TurnKeys, turns[t] # None
        PROVE  r.grant.issued >= turns[t].planned
    <3>1. turns[t].planned \in Nat /\ turns[t].planned <= now
      BY <1>1, <2>5 DEF TypeOK, Entry, Follows, Entries
    <3> QED
      BY <2>0, <2>1, <2>2, <3>1
  <2> QED
    BY <1>1, <2>2, <2>4, <2>5, TaskLasts
<1> QED
  BY <1>3, <1>4

\* Only the entry that counts the attempt takes its answer.
LEMMA LastResult ==
  ASSUME Inv, Lasting, NEW s \in Servers, NEW k \in Slots, SubscribeResult(s, k)
  PROVE  Lasting'
<1>1. PICK j \in runner[s][k].jobs :
        /\ At(s, k, "answer", "subscribe", j)
        /\ turns' = IF Matches(j)
                    THEN [turns EXCEPT ![j.turn].status = runner[s][k].outcome]
                    ELSE turns
        /\ Finish(s, k, j)
  BY DEF SubscribeResult, Matches
<1>2. TypeOK /\ UNCHANGED <<snapshot, phase, overtaken, now, held>>
  BY DEF SubscribeResult, Inv, outside
<1>3. j.turn \in TurnKeys /\ j.turn[1] = s /\ j.kind = "subscribe"
  BY <1>1 DEF At, Inv, Numbered, OfTurn
<1>4. ASSUME NEW t \in TurnKeys, turns'[t] # None
      PROVE  /\ turns[t] # None /\ turns'[t].attempt = turns[t].attempt
             /\ turns'[t].planned = turns[t].planned
             /\ turns'[t].status = "Subscribed" => Sent(t)
  <2>1. CASE t = j.turn /\ Matches(j)
    <3>1. turns'[t] = [turns[t] EXCEPT !.status = runner[s][k].outcome]
      BY <1>1, <1>2, <2>1 DEF TypeOK
    <3>2. turns[t] # None /\ turns[t] \in Entry
      BY <1>2, <2>1 DEF TypeOK, Matches
    <3>3. /\ turns'[t].status = runner[s][k].outcome
          /\ turns'[t].attempt = turns[t].attempt
          /\ turns'[t].planned = turns[t].planned
      BY <3>1, <3>2 DEF Entry
    <3>4. runner[s][k].outcome = "Subscribed" => AnswerOf(t, k, j)
      BY <1>1, <1>3, <2>1 DEF AnswerOf, Own, At, Matches
    <3> QED
      BY <1>3, <2>1, <3>2, <3>3, <3>4 DEF Sent
  <2>2. CASE ~(t = j.turn /\ Matches(j))
    <3>1. turns'[t] = turns[t]
      BY <1>1, <1>2, <2>2 DEF TypeOK
    <3> QED
      BY <1>4, <3>1 DEF Sent
  <2> QED
    BY <2>1, <2>2
<1> QED
  BY <1>1, <1>2, <1>4, FinishLasts DEF At, HasLock

LEMMA LastDrop ==
  ASSUME Inv, Lasting, NEW s \in Servers, NEW k \in Slots,
         UnsubscribeTurn(s, k) \/ UnsubscribeAll(s, k)
  PROVE  Lasting'
<1>1. TypeOK /\ UNCHANGED <<turns, snapshot, phase, overtaken, now>>
  BY DEF UnsubscribeTurn, UnsubscribeAll, HostDrops, Inv, state
<1>2. ASSUME NEW S, NEW applied \in BOOLEAN, HostDrops(S, applied),
             NEW t \in TurnKeys, t \notin S
      PROVE  held'[t] = held[t]
  BY <1>1, <1>2 DEF HostDrops
<1>3. CASE UnsubscribeTurn(s, k)
  <2>1. PICK j \in runner[s][k].jobs, applied \in BOOLEAN :
           At(s, k, "next", "unsubscribe", j) /\ HostDrops({j.turn}, applied)
           /\ Finish(s, k, j)
    BY <1>3 DEF UnsubscribeTurn
  <2>2. j.turn[1] = s /\ j.kind = "unsubscribe"
    BY <2>1 DEF At, Inv, Numbered, OfTurn
  <2>3. ASSUME NEW t \in TurnKeys, Reliable(t), Sent(t) PROVE held'[t] = held[t]
    <3>1. t # j.turn
      BY <2>2, <2>3, SentAlone DEF Touches, Concerns, OfTurn, Own
    <3> QED
      BY <1>2, <2>1, <3>1
  <2> QED
    BY <1>1, <2>1, <2>3, SameTurns, FinishLasts DEF At, HasLock
<1>4. CASE UnsubscribeAll(s, k)
  <2>1. PICK j \in runner[s][k].jobs, applied \in BOOLEAN, answered \in BOOLEAN :
        /\ At(s, k, "next", "all", j)
        /\ HostDrops({t \in TurnKeys : t[1] = s}, applied)
        /\ IF answered \/ ~j.url THEN Finish(s, k, j)
           ELSE GoTo(s, k, [runner[s][k] EXCEPT !.pc = "revoke"])
    BY <1>4 DEF UnsubscribeAll
  <2>2. ASSUME NEW t \in TurnKeys, Reliable(t), Sent(t) PROVE held'[t] = held[t]
    <3>1. t[1] # s
      BY <2>1, <2>2, SentAlone DEF Touches, Concerns, Own, At
    <3> QED
      BY <1>2, <2>1, <3>1
  <2>3. CASE Finish(s, k, j)
    BY <1>1, <2>1, <2>2, <2>3, SameTurns, FinishLasts DEF At, HasLock
  <2>4. CASE GoTo(s, k, [runner[s][k] EXCEPT !.pc = "revoke"])
    <3> DEFINE r == [runner[s][k] EXCEPT !.pc = "revoke"]
    <3>1. runner[s][k] \in Runner /\ runner[s][k].pc = "next" /\ runner[s][k].earlier = {}
      BY <1>1, <2>1 DEF TypeOK, At, Lasting, Line
    <3>2. /\ r \in Runner /\ r.pc = "revoke" /\ r.jobs = runner[s][k].jobs
          /\ r.earlier = {}
      BY <3>1 DEF Runner
    <3>3. GoTo(s, k, r)
      BY <2>4
    <3> HIDE DEF r
    <3>4. TaskMoves(s, k, r)
      BY <1>1, <3>1, <3>2, <3>3, SameTurns DEF TaskMoves, HasLock
    <3> QED
      BY <2>2, <3>2, <3>4, TaskLasts
  <2> QED
    BY <2>1, <2>3, <2>4
<1> QED
  BY <1>3, <1>4

\* The host takes the grant of the attempt the entry counts: no other call
\* reaches it once that one has been sent.
LEMMA LastHostSubscribe ==
  ASSUME Inv, Lasting, NEW s \in Servers, NEW k \in Slots, HostSubscribe(s, k)
  PROVE  Lasting'
<1>1. PICK j \in runner[s][k].jobs, applied \in BOOLEAN,
           outcome \in {"Subscribed", "Failed", "Unsupported"} :
        /\ At(s, k, "call", "subscribe", j)
        /\ outcome = "Subscribed" => applied
        /\ held' = IF applied /\ phase[j.turn] = "active"
                   THEN [held EXCEPT ![j.turn] = runner[s][k].grant] ELSE held
        /\ GoTo(s, k, [runner[s][k] EXCEPT !.pc = "answer", !.outcome = outcome])
        /\ UNCHANGED <<state, snapshot, now, phase, revokeSent, overtaken>>
  BY DEF HostSubscribe
<1> DEFINE r == [runner[s][k] EXCEPT !.pc = "answer", !.outcome = outcome]
<1>2. /\ TypeOK /\ UNCHANGED <<turns, snapshot, phase, overtaken, now>>
      /\ runner[s][k] \in Runner /\ runner[s][k].grant \in Grant
      /\ runner[s][k].pc = "call" /\ HasLock(s, k) /\ runner[s][k].earlier = {}
      /\ j.kind = "subscribe" /\ NextJob(s, k, j)
      /\ j.turn \in TurnKeys /\ j.turn[1] = s
  BY <1>1 DEF TypeOK, Inv, InFlight, Signing, Subscribing, At, state, HasLock,
     Numbered, OfTurn, Lasting, Line
<1>3. /\ r \in Runner /\ r.pc = "answer" /\ r.jobs = runner[s][k].jobs
      /\ r.outcome = outcome /\ r.earlier = {}
  BY <1>2 DEF Runner, Status
<1>4. GoTo(s, k, r)
  BY <1>1
<1> HIDE DEF r
<1>5. TaskMoves(s, k, r)
  BY <1>2, <1>3, <1>4, SameTurns DEF TaskMoves
<1>6. Behind' /\ Line' /\ Undisturbed' /\ Signed' /\ Begun'
  BY <1>3, <1>5, TaskOrder
<1>7. /\ runner'[s][k] = r
      /\ \A q \in Servers, l \in Slots :
            q # s \/ l # k => runner'[q][l] = runner[q][l]
  BY <1>4, TaskPlace
<1>8. held \in [TurnKeys -> Grant \cup {None}] /\ None \notin Grant
  BY <1>2, NoEntryAssumption DEF TypeOK
<1>9. Present'
  <2> SUFFICES ASSUME NEW t \in TurnKeys, Reliable(t), Sent(t)', phase[t] = "active",
                      Fresh(t)
               PROVE  held'[t] # None /\ held'[t].issued >= turns[t].planned
    BY <1>2 DEF Present, Reliable, Fresh
  <2>1. t[1] \in Servers
    BY DEF TurnKeys
  <2>2. CASE Own(j, t)
    <3>1. t = j.turn /\ Matches(j)
      BY <2>2 DEF Own, Reliable, Matches
    <3>2. turns[t].status = "Pending"
      BY <1>2, <3>1 DEF Inv, Waits
    <3>3. PICK l \in Slots : \E i \in runner'[t[1]][l].jobs : AnswerOf(t, l, i)'
      BY <1>2, <3>2 DEF Sent
    <3>4. runner'[s][l].pc = "answer" /\ runner'[s][l].outcome = "Subscribed"
      BY <1>2, <3>1, <3>3 DEF AnswerOf
    <3>5. l = k
      BY <1>2, <1>7, <3>4 DEF Inv, Mutex, HasLock
    <3>6. applied
      BY <1>1, <1>3, <1>7, <3>4, <3>5
    <3>7. held'[t] = runner[s][k].grant
      BY <1>1, <1>8, <3>1, <3>6
    <3>8. runner[s][k].grant.issued >= turns[t].planned
      BY <1>2, <2>2, <3>1 DEF Lasting, Signed, Reliable
    <3> QED
      BY <1>2, <1>8, <3>7, <3>8
  <2>3. CASE ~Own(j, t)
    <3>1. Sent(t)
      <4>1. ASSUME turns[t].status # "Subscribed" PROVE Sent(t)
        <5>1. PICK l \in Slots : \E i \in runner'[t[1]][l].jobs : AnswerOf(t, l, i)'
          BY <1>2, <4>1 DEF Sent
        <5>2. PICK i \in runner'[t[1]][l].jobs : AnswerOf(t, l, i)'
          BY <5>1
        <5>3. Own(i, t) /\ NextJob(t[1], l, i)'
          BY <1>2, <5>2 DEF AnswerOf, Own
        <5>4. ASSUME t[1] = s, l = k PROVE FALSE
          <6>1. i \in runner[s][k].jobs /\ NextJob(s, k, i)
            BY <1>3, <1>7, <5>3, <5>4 DEF NextJob
          <6>2. i.attempt \in Nat /\ j.attempt \in Nat
            BY <6>1, JobShape
          <6>3. i = j
            BY <1>2, <5>3, <6>1, <6>2 DEF NextJob, Own
          <6> QED
            BY <2>3, <5>3, <6>3
        <5>5. runner'[t[1]][l] = runner[t[1]][l]
          BY <1>7, <2>1, <5>4
        <5>6. AnswerOf(t, l, i)
          BY <5>2, <5>3, <5>5 DEF AnswerOf, NextJob
        <5> QED
          BY <5>2, <5>5, <5>6 DEF Sent
      <4> QED
        BY <4>1 DEF Sent
    <3>2. t # j.turn
      BY <1>2, <2>3, <3>1, SentAlone DEF Touches, Concerns, OfTurn
    <3>3. held'[t] = held[t]
      BY <1>1, <1>8, <3>2
    <3> QED
      BY <3>1, <3>3 DEF Lasting, Present
  <2> QED
    BY <2>2, <2>3
<1> QED
  BY <1>6, <1>9 DEF Lasting

LEMMA AcquireLine ==
  ASSUME TypeOK, NEW s \in Servers, NEW k \in Slots, Acquire(s, k)
  PROVE  /\ runner'[s][k].pc = "next" /\ runner'[s][k].earlier = {}
         /\ \A l \in Slots : l # k => runner'[s][l].earlier = runner[s][l].earlier \ {k}
         /\ \A q \in Servers : q # s => runner'[q] = runner[q]
<1>1. \A l \in Slots : runner[s][l] \in Runner
  BY DEF TypeOK
<1>2. /\ [runner[s][k] EXCEPT !.pc = "next", !.earlier = {}].pc = "next"
      /\ [runner[s][k] EXCEPT !.pc = "next", !.earlier = {}].earlier = {}
  BY <1>1 DEF Runner
<1>3. \A l \in Slots :
         [runner[s][l] EXCEPT !.earlier = @ \ {k}].earlier = runner[s][l].earlier \ {k}
  BY <1>1 DEF Runner
<1>4. /\ runner'[s] = [l \in Slots |->
                         IF l = k
                         THEN [runner[s][k] EXCEPT !.pc = "next", !.earlier = {}]
                         ELSE [runner[s][l] EXCEPT !.earlier = @ \ {k}]]
      /\ \A q \in Servers : q # s => runner'[q] = runner[q]
  BY DEF Acquire, TypeOK
<1> QED
  BY <1>2, <1>3, <1>4

LEMMA LastAcquire ==
  ASSUME Inv, Lasting, NEW s \in Servers, NEW k \in Slots, Acquire(s, k)
  PROVE  Lasting'
<1>1. TypeOK /\ UNCHANGED <<turns, snapshot, now, phase, held>>
  BY DEF Inv, Acquire, state, outside
<1>2. \A q \in Servers, l \in Slots :
         /\ runner'[q][l].jobs = runner[q][l].jobs
         /\ \/ q = s /\ l = k /\ runner'[q][l].pc = "next"
            \/ /\ runner'[q][l].pc = runner[q][l].pc
               /\ runner'[q][l].grant = runner[q][l].grant
               /\ runner'[q][l].outcome = runner[q][l].outcome
  BY <1>1, AcquireShape
<1>3. /\ runner'[s][k].pc = "next" /\ runner'[s][k].earlier = {}
      /\ \A l \in Slots : l # k => runner'[s][l].earlier = runner[s][l].earlier \ {k}
      /\ \A q \in Servers : q # s => runner'[q] = runner[q]
  BY <1>1, AcquireLine
<1>4. /\ runner[s][k].pc = "wait" /\ \A l \in Slots : ~HasLock(s, l)
      /\ s \notin overtaken' => runner[s][k].earlier = {}
      /\ overtaken \subseteq overtaken'
  BY DEF Acquire
<1>5. ASSUME NEW t \in TurnKeys, Reliable(t)'
      PROVE  /\ Reliable(t) /\ t[1] \in Servers
             /\ \A d : (Own(d, t)' <=> Own(d, t)) /\ (Touches(d, t)' <=> Touches(d, t))
  BY <1>1, <1>4, <1>5 DEF Reliable, Own, Touches, TurnKeys
<1>6. HasLock(s, k)'
  BY <1>3 DEF HasLock
<1>7. Behind'
  <2> SUFFICES ASSUME NEW t \in TurnKeys, NEW m \in Slots, NEW l \in Slots, Reliable(t)',
                      NEW j \in runner'[t[1]][m].jobs, NEW d \in runner'[t[1]][l].jobs,
                      Own(j, t)', Touches(d, t)'
               PROVE  \/ l = m /\ d.kind = "unsubscribe" /\ d.attempt <= j.attempt
                      \/ l \in runner'[t[1]][m].earlier
                      \/ l # m /\ HasLock(t[1], l)'
    BY DEF Behind
  <2>1. \/ l = m /\ d.kind = "unsubscribe" /\ d.attempt <= j.attempt
        \/ l \in runner[t[1]][m].earlier
        \/ l # m /\ HasLock(t[1], l)
    BY <1>2, <1>5 DEF Lasting, Behind
  <2>2. CASE t[1] = s /\ l \in runner[s][m].earlier
    <3>1. m # k
      BY <1>4, <2>2 DEF Reliable
    <3> QED
      BY <1>3, <1>6, <2>2, <3>1
  <2>3. CASE t[1] # s /\ l \in runner[t[1]][m].earlier
    BY <1>3, <1>5, <2>3
  <2>4. HasLock(t[1], l) => HasLock(t[1], l)'
    BY <1>2, <1>5 DEF HasLock
  <2> QED
    BY <2>1, <2>2, <2>3, <2>4
<1>8. Line'
  <2> SUFFICES ASSUME NEW q \in Servers, NEW l \in Slots, runner'[q][l].pc # "wait"
               PROVE  runner'[q][l].earlier = {}
    BY DEF Line
  <2>1. CASE q = s /\ l = k
    BY <1>3, <2>1
  <2>2. CASE q # s \/ l # k
    <3>1. runner[q][l].pc # "wait" /\ runner[q][l].earlier = {}
      BY <1>2, <2>2 DEF Lasting, Line
    <3> QED
      BY <1>3, <2>2, <3>1
  <2> QED
    BY <2>1, <2>2
<1>9. Undisturbed'
  BY <1>1, <1>2, <1>5 DEF Lasting, Undisturbed
<1>10. Present'
  <2> SUFFICES ASSUME NEW t \in TurnKeys, Reliable(t)', Sent(t)', phase[t] = "active",
                      Fresh(t)
               PROVE  held[t] # None /\ held[t].issued >= turns[t].planned
    BY <1>1 DEF Present, Fresh
  <2>1. Sent(t)
    <3>1. ASSUME turns[t].status # "Subscribed" PROVE Sent(t)
      <4>1. PICK l \in Slots : \E j \in runner'[t[1]][l].jobs : AnswerOf(t, l, j)'
        BY <1>1, <3>1 DEF Sent
      <4>2. PICK j \in runner'[t[1]][l].jobs : AnswerOf(t, l, j)'
        BY <4>1
      <4>3. AnswerOf(t, l, j)
        BY <1>2, <1>5, <4>2 DEF AnswerOf, NextJob
      <4> QED
        BY <1>2, <1>5, <4>2, <4>3 DEF Sent
    <3> QED
      BY <3>1 DEF Sent
  <2> QED
    BY <1>5, <2>1 DEF Lasting, Present
<1>11. Signed'
  BY <1>1, <1>2, <1>5 DEF Lasting, Signed, NextJob, Own, TurnKeys
<1>12. Begun'
  BY <1>1 DEF Lasting, Begun
<1> QED
  BY <1>7, <1>8, <1>9, <1>10, <1>11, <1>12 DEF Lasting

-----------------------------------------------------------------------------
(* The rest of the world.                                                  *)

LEMMA OutsideLasts ==
  ASSUME Inv, Lasting, UNCHANGED <<turns, runner, overtaken>>, now' \in Nat, now <= now',
         \A t \in TurnKeys : phase'[t] = "new" => phase[t] = "new",
         snapshot' # None => \A t \in snapshot' : phase'[t] # "new",
         \A t \in TurnKeys :
            turns[t] # None /\ phase'[t] = "active"
            => /\ phase[t] = "active"
               /\ \/ held'[t] = held[t]
                  \/ held[t] # None /\ now >= held[t].issued + GRANT_LIFETIME
  PROVE  Lasting'
<1>1. TypeOK
  BY DEF Inv
<1>2. Behind' /\ Line' /\ Undisturbed' /\ Signed'
  <2>1. Behind'
    BY DEF Lasting, Behind, Reliable, Own, Touches, HasLock
  <2>2. Line' /\ Undisturbed'
    BY DEF Lasting, Line, Undisturbed, Reliable, Own, Touches
  <2>3. Signed'
    BY DEF Lasting, Signed, NextJob, Own
  <2> QED
    BY <2>1, <2>2, <2>3
<1>3. Present'
  <2> SUFFICES ASSUME NEW t \in TurnKeys, Reliable(t), Sent(t), phase'[t] = "active",
                      Fresh(t)'
               PROVE  held'[t] # None /\ held'[t].issued >= turns[t].planned
    BY DEF Present, Reliable, Sent, AnswerOf, Own, NextJob
  <2>1. turns[t] # None /\ turns[t].planned \in Nat /\ now \in Nat
    BY <1>1 DEF Reliable, TypeOK, Entry
  <2>2. GRANT_LIFETIME \in Nat
    BY LimitsAssumption
  <2>3. phase[t] = "active" /\ Fresh(t)
    BY <2>1, <2>2 DEF Fresh
  <2>4. held[t] # None /\ held[t].issued >= turns[t].planned
    BY <2>3 DEF Lasting, Present
  <2>5. held[t].issued \in Nat
    BY <1>1, <2>4 DEF TypeOK, Grant
  <2>6. ~(now >= held[t].issued + GRANT_LIFETIME)
    BY <2>1, <2>2, <2>3, <2>4, <2>5 DEF Fresh
  <2>7. held'[t] = held[t]
    BY <2>1, <2>6
  <2> QED
    BY <2>4, <2>7
<1>4. Begun'
  BY DEF Lasting, Begun
<1> QED
  BY <1>2, <1>3, <1>4 DEF Lasting

LEMMA LastOutside ==
  ASSUME Inv, Inv', Lasting,
         \/ \E t \in TurnKeys : TurnMissed(t) \/ TurnEnds(t) \/ HostExpires(t)
         \/ ReadActive \/ Tick \/ UNCHANGED vars
         \/ \E s \in Servers, support \in {"legacy", "push"} : RecordHost(s, support)
  PROVE  Lasting'
<1>1. TypeOK /\ now \in Nat /\ now' \in Nat
  BY DEF Inv, TypeOK
<1>2. ASSUME NEW t \in TurnKeys, TurnMissed(t) PROVE Lasting'
  <2>1. UNCHANGED <<turns, runner, overtaken, now, held, snapshot>>
    BY <1>2 DEF TurnMissed, state
  <2>2. /\ phase'[t] = "active" /\ turns[t] = None
        /\ \A u \in TurnKeys : u # t => phase'[u] = phase[u]
    BY <1>1, <1>2 DEF TurnMissed, TypeOK, Lasting, Begun
  <2>3. snapshot # None => \A u \in snapshot : phase'[u] # "new"
    BY <1>1, <2>2 DEF TypeOK, Lasting, Begun
  <2> QED
    BY <1>1, <2>1, <2>2, <2>3, OutsideLasts
<1>3. ASSUME NEW t \in TurnKeys, TurnEnds(t) PROVE Lasting'
  <2>1. UNCHANGED <<turns, runner, overtaken, now, snapshot>>
    BY <1>3 DEF TurnEnds, state
  <2>2. /\ phase'[t] = "ended"
        /\ \A u \in TurnKeys : u # t => phase'[u] = phase[u] /\ held'[u] = held[u]
    BY <1>1, <1>3 DEF TurnEnds, TypeOK
  <2>3. snapshot # None => \A u \in snapshot : phase'[u] # "new"
    BY <1>1, <2>2 DEF TypeOK, Lasting, Begun
  <2> QED
    BY <1>1, <2>1, <2>2, <2>3, OutsideLasts
<1>4. ASSUME NEW t \in TurnKeys, HostExpires(t) PROVE Lasting'
  <2>1. UNCHANGED <<turns, runner, overtaken, now, snapshot, phase>>
    BY <1>4 DEF HostExpires, state
  <2>2. /\ held[t] # None /\ now >= held[t].issued + GRANT_LIFETIME
        /\ \A u \in TurnKeys : u # t => held'[u] = held[u]
    BY <1>1, <1>4 DEF HostExpires, TypeOK
  <2>3. snapshot # None => \A u \in snapshot : phase'[u] # "new"
    BY <2>1 DEF Lasting, Begun
  <2> QED
    BY <1>1, <2>1, <2>2, <2>3, OutsideLasts
<1>5. ASSUME UNCHANGED <<turns, runner, overtaken, phase, held>>, now <= now',
             \/ snapshot' = snapshot
             \/ snapshot' = {t \in TurnKeys : phase[t] \in {"active", "ended"}}
      PROVE  Lasting'
  <2>1. snapshot' # None => \A u \in snapshot' : phase'[u] # "new"
    BY <1>5 DEF Lasting, Begun
  <2> QED
    BY <1>1, <1>5, <2>1, OutsideLasts
<1>6. CASE ReadActive \/ Tick \/ UNCHANGED vars
  BY <1>1, <1>5, <1>6 DEF ReadActive, Tick, vars, state, outside
<1>7. ASSUME NEW s \in Servers, NEW support \in {"legacy", "push"}, RecordHost(s, support)
      PROVE  Lasting'
  BY <1>1, <1>5, <1>7 DEF RecordHost, outside
<1> QED
  BY <1>2, <1>3, <1>4, <1>6, <1>7

LEMMA LastingInit == Init => Lasting
<1> SUFFICES ASSUME Init PROVE Lasting
  OBVIOUS
<1>1. Idle.pc = "idle" /\ Idle.jobs = {} /\ Idle.earlier = {}
  BY DEF Idle
<1>2. /\ \A t \in TurnKeys : turns[t] = None
      /\ \A s \in Servers, k \in Slots : runner[s][k] = Idle
      /\ snapshot = None
  BY DEF Init
<1>3. Behind /\ Undisturbed /\ Present /\ Signed /\ Begun
  BY <1>2 DEF Behind, Undisturbed, Present, Signed, Begun, Reliable
<1>4. Line
  BY <1>1, <1>2 DEF Line
<1> QED
  BY <1>3, <1>4 DEF Lasting

LEMMA LastingStep == Inv /\ Inv' /\ Follows /\ Lasting /\ [Next]_vars => Lasting'
<1> SUFFICES ASSUME Inv, Inv', Follows, Lasting, [Next]_vars PROVE Lasting'
  OBVIOUS
<1>1. CASE UNCHANGED vars
  BY <1>1, LastOutside
<1>2. CASE Race
  BY <1>2, LastTurnStarted, LastOutside, LastCompleted, LastBackground, LastClear,
     LastPrune, LastSetRegistration DEF Race
<1>3. CASE Quietly
  <2>1. ASSUME NEW s \in Servers, NEW k \in Slots, Run(s, k) PROVE Lasting'
    BY <2>1, LastStart, LastSkip, LastSign, LastHostSubscribe, LastResult, LastDrop,
       LastRevoke DEF Run
  <2>2. ASSUME NEW s \in Servers, NEW k \in Slots, Acquire(s, k) PROVE Lasting'
    BY <2>2, LastAcquire
  <2>3. ASSUME NEW s \in Servers, ServerRemoved(s) PROVE Lasting'
    BY <2>3, LastRemoved
  <2> QED
    BY <1>3, <2>1, <2>2, <2>3, LastOutside DEF Quietly
<1> QED
  BY <1>1, <1>2, <1>3 DEF Next

\* SubscribedIsHeld: as long as the tasks of a server took its lock in the
\* order they asked for it, a running turn the phone shows as Subscribed has
\* its subscription at the host, whatever else was planned, answered, lost or
\* dropped before and after.
THEOREM SubscribedAlwaysHeld == Spec => []SubscribedIsHeld
<1>1. Lasting => SubscribedIsHeld
  BY DEF Lasting, Present, Reliable, Sent, Fresh, SubscribedIsHeld
<1> QED
  BY <1>1, InvInit, InvStep, FollowsInit, FollowsStep, LastingInit, LastingStep,
     PTL DEF Spec
=============================================================================
