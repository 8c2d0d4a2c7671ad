--------------------------- MODULE SessionsProofs ---------------------------
(***************************************************************************)
(* Proofs about Sessions, for every number of runtimes, sessions, requests *)
(* and lost connections.                                                   *)
(***************************************************************************)
EXTENDS Sessions, SequenceTheorems, TLAPS

USE SessionsAssumption

Pcs == {"none", "loop", "call", "retry", "recall", "idle", "gone"}
Links == {"up", "dead", "drained"}
Events == [health : Healths, on : Ids]
Calls == [on : Nat, old : BOOLEAN,
          st : {"idle", "queued", "sent", "ok", "refused", "failed"}]

Requesting == {"call", "retry", "recall"}

-----------------------------------------------------------------------------
(* The functions whose values the other proofs look up.                    *)

Typing ==
    /\ path \in Paths
    /\ made \in 0 .. MaxSessions
    /\ current \in 0 .. made
    /\ connecting \subseteq 1 .. made
    /\ health \in [Ids -> Healths]
    /\ unseen \in [Ids -> BOOLEAN]
    /\ worker \in [Ids -> [Runtimes -> Pcs]]
    /\ link \in [Ids -> [Runtimes -> Links]]
    /\ reader \in [Ids -> [on : BOOLEAN, prev : BOOLEAN]]
    /\ events \in Seq(Events)
    /\ shown \in Healths \cup {"absent"}
    /\ shown = "absent" => current = 0

LEMMA TellType ==
  ASSUME Typing, NEW s \in Ids, NEW h \in Healths, Tell(s, h)
  PROVE  health' \in [Ids -> Healths] /\ unseen' \in [Ids -> BOOLEAN]
BY DEF Tell, Typing

LEMMA ShutType ==
  ASSUME Typing,
         IF current = 0 THEN UNCHANGED << health, unseen, closed >>
         ELSE Shut(current)
  PROVE  health' \in [Ids -> Healths] /\ unseen' \in [Ids -> BOOLEAN]
<1>1. CASE current = 0
  BY <1>1 DEF Typing
<1>2. CASE current # 0
  <2>1. current \in Ids
    BY <1>2 DEF Typing, Ids
  <2>2. Tell(current, "disconnected") /\ "disconnected" \in Healths
    BY <1>2 DEF Shut, Healths
  <2> QED
    BY <2>1, <2>2, TellType
<1> QED
  BY <1>1, <1>2

LEMMA LookType ==
  ASSUME Typing, NEW s \in Ids, NEW first \in Seq(Events), Look(s, first)
  PROVE  /\ events' \in Seq(Events)
         /\ reader' \in [Ids -> [on : BOOLEAN, prev : BOOLEAN]]
<1>1. Report(s, health[s]) \in Events
  BY DEF Typing, Report, Events
<1>2. events' = events \o first \o << Report(s, health[s]) >>
  BY DEF Look
<1>3. reader' = [reader EXCEPT ![s] = [on |-> TRUE, prev |-> health[s] = "connected"]]
  BY DEF Look
<1> QED
  BY <1>1, <1>2, <1>3 DEF Typing

LEMMA TypingInit == Init => Typing
<1> SUFFICES ASSUME Init PROVE Typing
  OBVIOUS
<1> USE DEF Init, Typing, Ids, Healths, Pcs, Links
<1>1. /\ path \in Paths /\ made \in 0 .. MaxSessions /\ current \in 0 .. made
      /\ connecting \subseteq 1 .. made
      /\ shown \in Healths \cup {"absent"} /\ (shown = "absent" => current = 0)
  OBVIOUS
<1>2. health \in [Ids -> Healths] /\ unseen \in [Ids -> BOOLEAN]
  OBVIOUS
<1>3. /\ worker \in [Ids -> [Runtimes -> Pcs]]
      /\ link \in [Ids -> [Runtimes -> Links]]
  OBVIOUS
<1>4. reader \in [Ids -> [on : BOOLEAN, prev : BOOLEAN]]
  OBVIOUS
<1>5. events \in Seq(Events)
  OBVIOUS
<1> QED
  BY <1>1, <1>2, <1>3, <1>4, <1>5

LEMMA TypingStep == Typing /\ [Next]_vars => Typing'
<1> SUFFICES ASSUME Typing, [Next]_vars PROVE Typing'
  OBVIOUS
<1> USE DEF Typing, Ids, Healths, Pcs, Links, map, watch, net, store, marks
<1>1. CASE UNCHANGED vars
  BY <1>1 DEF vars
<1>2. CASE Reuse
  BY <1>2 DEF Reuse, vars
<1>3. CASE Connect
  BY <1>3, ShutType DEF Connect, Within
<1>4. ASSUME NEW s \in Ids, ConnectFails(s) PROVE Typing'
  BY <1>4 DEF ConnectFails, Show
<1>5. ASSUME NEW s \in Ids, NEW kinds \in SUBSET Runtimes, Attach(s, kinds)
      PROVE  Typing'
  <2>1. health' \in [Ids -> Healths] /\ unseen' \in [Ids -> BOOLEAN]
    BY <1>5, TellType DEF Attach
  <2>2. worker' \in [Ids -> [Runtimes -> Pcs]]
    BY <1>5 DEF Attach
  <2> QED
    BY <1>5, <2>1, <2>2 DEF Attach
<1>6. CASE Disconnect
  BY <1>6, ShutType DEF Disconnect
<1>7. ASSUME NEW s \in Ids, ReaderStart(s) PROVE Typing'
  <2>1. << Report(s, "connecting") >> \in Seq(Events)
    BY DEF Report, Events
  <2> QED
    BY <1>7, <2>1, LookType DEF ReaderStart, Look
<1>8. ASSUME NEW s \in Ids, ReaderWakes(s) PROVE Typing'
  <2>1. << >> \in Seq(Events)
    OBVIOUS
  <2>2. unseen' \in [Ids -> BOOLEAN]
    BY <1>8 DEF ReaderWakes
  <2> QED
    BY <1>8, <2>1, <2>2, LookType DEF ReaderWakes, Look
<1>9. CASE Apply
  <2>1. Head(events) \in Events /\ Tail(events) \in Seq(Events)
    BY <1>9 DEF Apply
  <2> QED
    BY <1>9, <2>1 DEF Apply, Show, Events
<1>10. CASE Open
  BY <1>10 DEF Open, Request, Show, ClearMarkers
<1>11. CASE Resubscribe
  BY <1>11 DEF Resubscribe, Request, Show, ClearMarkers
<1>12. ASSUME NEW i \in Slots, Answer(i) PROVE Typing'
  BY <1>12 DEF Answer, MarkDisconnected, Show, ClearMarkers
<1>13. ASSUME NEW s \in Ids, NEW i \in Slots, Take(s, i) PROVE Typing'
  BY <1>13 DEF Take, Set
<1>14. ASSUME NEW s \in Ids, NEW i \in Slots, Serve(s, i) PROVE Typing'
  BY <1>14 DEF Serve, Set
<1>15. ASSUME NEW s \in Ids, NEW i \in Slots, RetryFails(s, i) PROVE Typing'
  BY <1>15 DEF RetryFails, Set, Tell
<1>16. ASSUME NEW s \in Ids, NEW i \in Slots, BreakAgain(s, i) PROVE Typing'
  BY <1>16 DEF BreakAgain, Set
<1>17. ASSUME NEW s \in Ids, Break(s) PROVE Typing'
  BY <1>17 DEF Break, Set, Tell
<1>18. ASSUME NEW s \in Ids, Retried(s) PROVE Typing'
  BY <1>18 DEF Retried, Set, Tell
<1>19. ASSUME NEW s \in Ids, NEW r \in Runtimes, Notice(s, r) PROVE Typing'
  BY <1>19 DEF Notice, Set, Tell
<1>20. ASSUME NEW s \in Ids, NEW r \in Runtimes, Revived(s, r) PROVE Typing'
  BY <1>20 DEF Revived, Set, Tell
<1>21. ASSUME NEW s \in Ids, NEW r \in Runtimes, GivesUp(s, r) PROVE Typing'
  <2>1. health' \in [Ids -> Healths] /\ unseen' \in [Ids -> BOOLEAN]
    BY <1>21, TellType DEF GivesUp
  <2>2. worker' \in [Ids -> [Runtimes -> Pcs]]
    <3>1. Set(s, r, "loop") \/ Set(s, r, "gone")
      BY <1>21 DEF GivesUp
    <3>2. CASE Set(s, r, "loop")
      BY <3>2 DEF Set
    <3>3. CASE Set(s, r, "gone")
      BY <3>3 DEF Set
    <3> QED
      BY <3>1, <3>2, <3>3
  <2>3. link' \in [Ids -> [Runtimes -> Links]]
    <3>1. link' = [link EXCEPT ![s][r] = "drained"] \/ link' = link
      BY <1>21 DEF GivesUp
    <3>2. CASE link' = [link EXCEPT ![s][r] = "drained"]
      BY <3>2
    <3>3. CASE link' = link
      BY <3>3
    <3> QED
      BY <3>1, <3>2, <3>3
  <2> QED
    BY <1>21, <2>1, <2>2, <2>3 DEF GivesUp
<1>22. ASSUME NEW s \in Ids, NEW r \in Runtimes, Stop(s, r) PROVE Typing'
  BY <1>22 DEF Stop, Set
<1>23. ASSUME NEW s \in Ids, NEW r \in Runtimes, Cut(s, r) PROVE Typing'
  BY <1>23 DEF Cut
<1> QED
  BY <1>1, <1>2, <1>3, <1>4, <1>5, <1>6, <1>7, <1>8, <1>9, <1>10, <1>11,
     <1>12, <1>13, <1>14, <1>15, <1>16, <1>17, <1>18, <1>19, <1>20, <1>21,
     <1>22, <1>23 DEF Next

\* Typing, as a theorem.
THEOREM TypingHolds == Spec => []Typing
<1>1. Init => Typing
  BY TypingInit
<1>2. Typing /\ [Next]_vars => Typing'
  BY TypingStep
<1> QED
  BY <1>1, <1>2, PTL DEF Spec

-----------------------------------------------------------------------------
(* What one health value says of the workers that write it, before they    *)
(* come to rest.                                                           *)

Reconnecting == {"idle", "retry"}

Speaks(s) ==
    /\ health[s] = "connected" =>
          \E r \in Runtimes : worker[s][r] \notin {"none", "gone"}
    /\ health[s] = "disconnected" =>
          \E r \in Runtimes : \/ worker[s][r] = "gone"
                              \/ worker[s][r] # "none" /\ link[s][r] # "up"
    /\ health[s] = "connecting" =>
          \E r \in Runtimes : worker[s][r] \in Reconnecting

HealthInv ==
    /\ \A s \in Ids : s \notin closed /\ Serving(s) # {} => Speaks(s)
    /\ \A s \in Ids, r \in Runtimes :
          worker[s][r] \in Reconnecting => link[s][r] # "up"

LEMMA HealthFrame ==
  ASSUME HealthInv, worker' = worker, link' = link,
         \A s \in Ids : s \notin closed' => s \notin closed /\ health'[s] = health[s]
  PROVE  HealthInv'
BY DEF HealthInv, Speaks, Serving

\* A worker's step: the rest of the workers and sessions stay as they were.
Elsewhere(s, r) ==
    /\ closed' = closed
    /\ \A t \in Ids, q \in Runtimes : t # s \/ q # r =>
          worker'[t][q] = worker[t][q] /\ link'[t][q] = link[t][q]
    /\ \A t \in Ids : t # s => health'[t] = health[t]

LEMMA WorkerStep ==
  ASSUME HealthInv, NEW s \in Ids, NEW r \in Runtimes, Elsewhere(s, r),
         worker[s][r] # "none",
         worker'[s][r] \in Reconnecting => link'[s][r] # "up",
         s \notin closed => Speaks(s)'
  PROVE  HealthInv'
<1>1. ASSUME NEW t \in Ids, t \notin closed', Serving(t)' # {}, t # s
      PROVE  Speaks(t)'
  <2>1. \A q \in Runtimes : worker'[t][q] = worker[t][q] /\ link'[t][q] = link[t][q]
    BY <1>1 DEF Elsewhere
  <2>2. health'[t] = health[t] /\ t \notin closed
    BY <1>1 DEF Elsewhere
  <2>3. Serving(t) # {}
    BY <1>1, <2>1 DEF Serving
  <2>4. Speaks(t)
    BY <2>2, <2>3 DEF HealthInv
  <2> QED
    BY <2>1, <2>2, <2>4 DEF Speaks
<1>2. ASSUME NEW t \in Ids, NEW q \in Runtimes, worker'[t][q] \in Reconnecting
      PROVE  link'[t][q] # "up"
  BY <1>2 DEF Elsewhere, HealthInv
<1>3. s \notin closed' => s \notin closed
  BY DEF Elsewhere
<1> QED
  BY <1>1, <1>2, <1>3 DEF HealthInv

\* A step of a worker that neither reconnects nor ends says nothing new.
Moving == {"loop", "call", "recall"}

LEMMA MovesOn ==
  ASSUME HealthInv, NEW s \in Ids, NEW r \in Runtimes, Elsewhere(s, r),
         s \notin closed, health' = health, link' = link,
         worker[s][r] \in Moving, worker'[s][r] \in Moving
  PROVE  Speaks(s)'
<1>1. Speaks(s)
  <2>1. r \in Serving(s)
    BY DEF Serving, Moving
  <2> QED
    BY <2>1 DEF HealthInv
<1>2. \A q \in Runtimes : q # r => worker'[s][q] = worker[s][q]
  BY DEF Elsewhere
<1>3. ASSUME health'[s] = "connected"
      PROVE  \E q \in Runtimes : worker'[s][q] \notin {"none", "gone"}
  BY DEF Moving
<1>4. ASSUME health'[s] = "disconnected"
      PROVE  \E q \in Runtimes : \/ worker'[s][q] = "gone"
                                 \/ worker'[s][q] # "none" /\ link'[s][q] # "up"
  <2>1. PICK q \in Runtimes : \/ worker[s][q] = "gone"
                              \/ worker[s][q] # "none" /\ link[s][q] # "up"
    BY <1>1, <1>4 DEF Speaks
  <2>2. CASE q = r
    BY <2>1, <2>2 DEF Moving
  <2>3. CASE q # r
    BY <2>1, <2>3, <1>2
  <2> QED
    BY <2>2, <2>3
<1>5. ASSUME health'[s] = "connecting"
      PROVE  \E q \in Runtimes : worker'[s][q] \in Reconnecting
  BY <1>1, <1>2, <1>5 DEF Speaks, Moving, Reconnecting
<1> QED
  BY <1>3, <1>4, <1>5 DEF Speaks

LEMMA HealthInit == Init => HealthInv
BY DEF Init, HealthInv, Serving, Reconnecting

LEMMA ConnectHealth ==
  ASSUME Typing, HealthInv, worker' = worker, link' = link,
         IF current = 0 THEN UNCHANGED << health, unseen, closed >>
         ELSE Shut(current)
  PROVE  HealthInv'
<1>1. \A s \in Ids : s \notin closed' => s \notin closed /\ health'[s] = health[s]
  BY DEF Shut, Tell, Typing
<1> QED
  BY <1>1, HealthFrame

LEMMA HealthStep == Typing /\ HealthInv /\ [Next]_vars => HealthInv'
<1> SUFFICES ASSUME Typing, HealthInv, [Next]_vars PROVE HealthInv'
  OBVIOUS
<1> USE DEF map, watch, net, store, marks
<1>a. ASSUME worker' = worker, link' = link, health' = health, closed' = closed
      PROVE  HealthInv'
  BY <1>a, HealthFrame
<1>m. Main \in Runtimes
  OBVIOUS
<1>1. CASE UNCHANGED vars
  BY <1>1, <1>a DEF vars
<1>2. CASE Reuse
  BY <1>2, <1>a DEF Reuse, vars
<1>3. CASE Connect
  BY <1>3, ConnectHealth DEF Connect
<1>4. ASSUME NEW s \in Ids, ConnectFails(s) PROVE HealthInv'
  BY <1>4, <1>a DEF ConnectFails
<1>5. ASSUME NEW s \in Ids, NEW kinds \in SUBSET Runtimes, Attach(s, kinds)
      PROVE  HealthInv'
  <2>1. PICK r \in Runtimes : r \in kinds
    BY <1>5 DEF Attach
  <2>2. /\ worker' = [worker EXCEPT ![s] =
                 [q \in Runtimes |-> IF q \in kinds THEN "loop" ELSE "none"]]
        /\ link' = link /\ closed' = closed /\ Tell(s, "connected")
    BY <1>5 DEF Attach
  <2>3. worker'[s][r] = "loop"
    BY <2>1, <2>2 DEF Typing
  <2>4. s \notin closed => Speaks(s)'
    BY <2>2, <2>3 DEF Speaks, Tell, Typing
  <2>5. \A t \in Ids : t # s => worker'[t] = worker[t] /\ health'[t] = health[t]
    BY <2>2 DEF Tell, Typing
  <2>6. ASSUME NEW t \in Ids, t \notin closed', Serving(t)' # {}
        PROVE  Speaks(t)'
    <3>1. CASE t = s
      BY <2>2, <2>4, <2>6, <3>1
    <3>2. CASE t # s
      BY <2>2, <2>5, <2>6, <3>2 DEF HealthInv, Speaks, Serving
    <3> QED
      BY <3>1, <3>2
  <2>7. \A t \in Ids, q \in Runtimes : worker'[t][q] \in Reconnecting => link'[t][q] # "up"
    <3> SUFFICES ASSUME NEW t \in Ids, NEW q \in Runtimes,
                        worker'[t][q] \in Reconnecting
                 PROVE  link'[t][q] # "up"
      OBVIOUS
    <3>1. CASE t = s
      BY <2>2, <3>1 DEF Typing, Reconnecting
    <3>2. CASE t # s
      BY <2>2, <2>5, <3>2 DEF HealthInv
    <3> QED
      BY <3>1, <3>2
  <2> QED
    BY <2>6, <2>7 DEF HealthInv
<1>6. CASE Disconnect
  BY <1>6, ConnectHealth DEF Disconnect
<1>7. ASSUME NEW s \in Ids, ReaderStart(s) PROVE HealthInv'
  BY <1>7, <1>a DEF ReaderStart, Look
<1>8. ASSUME NEW s \in Ids, ReaderWakes(s) PROVE HealthInv'
  BY <1>8, <1>a DEF ReaderWakes, Look
<1>9. CASE Apply
  BY <1>9, <1>a DEF Apply
<1>10. CASE Open
  BY <1>10, <1>a DEF Open
<1>11. CASE Resubscribe
  BY <1>11, <1>a DEF Resubscribe
<1>12. ASSUME NEW i \in Slots, Answer(i) PROVE HealthInv'
  BY <1>12, <1>a DEF Answer
<1>13. ASSUME NEW s \in Ids, NEW i \in Slots, Take(s, i) PROVE HealthInv'
  <2>1. Elsewhere(s, Main)
    BY <1>13, <1>m DEF Take, Set, Elsewhere, Typing
  <2>2. worker[s][Main] # "none"
    BY <1>13 DEF Take
  <2>3. worker'[s][Main] \in Reconnecting => link'[s][Main] # "up"
    BY <1>13, <1>m DEF Take, Set, Typing, Reconnecting
  <2>4. s \notin closed => Speaks(s)'
    <3>1. /\ worker[s][Main] \in Moving /\ worker'[s][Main] \in Moving
          /\ health' = health /\ link' = link
      BY <1>13, <1>m DEF Take, Set, Typing, Moving
    <3> QED
      BY <2>1, <3>1, <1>m, MovesOn
  <2> QED
    BY <2>1, <2>2, <2>3, <2>4, <1>m, WorkerStep
<1>14. ASSUME NEW s \in Ids, NEW i \in Slots, Serve(s, i) PROVE HealthInv'
  <2>1. Elsewhere(s, Main)
    BY <1>14, <1>m DEF Serve, Set, Elsewhere, Typing
  <2>2. worker[s][Main] # "none"
    BY <1>14 DEF Serve
  <2>3. worker'[s][Main] \in Reconnecting => link'[s][Main] # "up"
    BY <1>14, <1>m DEF Serve, Set, Typing, Reconnecting
  <2>4. s \notin closed => Speaks(s)'
    <3>1. /\ worker[s][Main] \in Moving /\ worker'[s][Main] \in Moving
          /\ health' = health /\ link' = link
      BY <1>14, <1>m DEF Serve, Set, Typing, Moving
    <3> QED
      BY <2>1, <3>1, <1>m, MovesOn
  <2> QED
    BY <2>1, <2>2, <2>3, <2>4, <1>m, WorkerStep
<1>15. ASSUME NEW s \in Ids, NEW i \in Slots, RetryFails(s, i) PROVE HealthInv'
  <2>1. Elsewhere(s, Main)
    BY <1>15, <1>m DEF RetryFails, Set, Tell, Elsewhere, Typing
  <2>2. worker[s][Main] # "none"
    BY <1>15 DEF RetryFails
  <2>3. worker'[s][Main] \in Reconnecting => link'[s][Main] # "up"
    BY <1>15, <1>m DEF RetryFails, Set, Typing, Reconnecting
  <2>4. s \notin closed => Speaks(s)'
    BY <1>15, <1>m DEF RetryFails, Set, Tell, Typing, Speaks, Reconnecting, HealthInv
  <2> QED
    BY <2>1, <2>2, <2>3, <2>4, <1>m, WorkerStep
<1>16. ASSUME NEW s \in Ids, NEW i \in Slots, BreakAgain(s, i) PROVE HealthInv'
  <2>1. Elsewhere(s, Main)
    BY <1>16, <1>m DEF BreakAgain, Set, Elsewhere, Typing
  <2>2. worker[s][Main] # "none"
    BY <1>16 DEF BreakAgain
  <2>3. worker'[s][Main] \in Reconnecting => link'[s][Main] # "up"
    BY <1>16, <1>m DEF BreakAgain, Set, Typing, Reconnecting
  <2>4. s \notin closed => Speaks(s)'
    <3>1. /\ worker[s][Main] \in Moving /\ worker'[s][Main] \in Moving
          /\ health' = health /\ link' = link
      BY <1>16, <1>m DEF BreakAgain, Set, Typing, Moving
    <3> QED
      BY <2>1, <3>1, <1>m, MovesOn
  <2> QED
    BY <2>1, <2>2, <2>3, <2>4, <1>m, WorkerStep
<1>17. ASSUME NEW s \in Ids, Break(s) PROVE HealthInv'
  <2>1. Elsewhere(s, Main)
    BY <1>17, <1>m DEF Break, Set, Tell, Elsewhere, Typing
  <2>2. worker[s][Main] # "none"
    BY <1>17 DEF Break
  <2>3. worker'[s][Main] \in Reconnecting => link'[s][Main] # "up"
    BY <1>17, <1>m DEF Break, Set, Typing, Reconnecting
  <2>4. s \notin closed => Speaks(s)'
    BY <1>17, <1>m DEF Break, Set, Tell, Typing, Speaks, Reconnecting
  <2> QED
    BY <2>1, <2>2, <2>3, <2>4, <1>m, WorkerStep
<1>18. ASSUME NEW s \in Ids, Retried(s) PROVE HealthInv'
  <2>1. Elsewhere(s, Main)
    BY <1>18, <1>m DEF Retried, Set, Tell, Elsewhere, Typing
  <2>2. worker[s][Main] # "none"
    BY <1>18 DEF Retried
  <2>3. worker'[s][Main] \in Reconnecting => link'[s][Main] # "up"
    BY <1>18, <1>m DEF Retried, Set, Typing, Reconnecting
  <2>4. s \notin closed => Speaks(s)'
    BY <1>18, <1>m DEF Retried, Set, Tell, Typing, Speaks, Reconnecting
  <2> QED
    BY <2>1, <2>2, <2>3, <2>4, <1>m, WorkerStep
<1>19. ASSUME NEW s \in Ids, NEW r \in Runtimes, Notice(s, r) PROVE HealthInv'
  <2>1. Elsewhere(s, r)
    BY <1>19, <1>m DEF Notice, Set, Tell, Elsewhere, Typing
  <2>2. worker[s][r] # "none"
    BY <1>19 DEF Notice
  <2>3. worker'[s][r] \in Reconnecting => link'[s][r] # "up"
    BY <1>19, <1>m DEF Notice, Set, Typing, Reconnecting
  <2>4. s \notin closed => Speaks(s)'
    BY <1>19, <1>m DEF Notice, Set, Tell, Typing, Speaks, Reconnecting
  <2> QED
    BY <2>1, <2>2, <2>3, <2>4, <1>m, WorkerStep
<1>20. ASSUME NEW s \in Ids, NEW r \in Runtimes, Revived(s, r) PROVE HealthInv'
  <2>1. Elsewhere(s, r)
    BY <1>20, <1>m DEF Revived, Set, Tell, Elsewhere, Typing
  <2>2. worker[s][r] # "none"
    BY <1>20 DEF Revived
  <2>3. worker'[s][r] \in Reconnecting => link'[s][r] # "up"
    BY <1>20, <1>m DEF Revived, Set, Typing, Reconnecting
  <2>4. s \notin closed => Speaks(s)'
    BY <1>20, <1>m DEF Revived, Set, Tell, Typing, Speaks, Reconnecting
  <2> QED
    BY <2>1, <2>2, <2>3, <2>4, <1>m, WorkerStep
<1>21. ASSUME NEW s \in Ids, NEW r \in Runtimes, GivesUp(s, r) PROVE HealthInv'
  <2>1. Elsewhere(s, r)
    BY <1>21, <1>m DEF GivesUp, Set, Tell, Elsewhere, Typing
  <2>2. worker[s][r] # "none"
    BY <1>21 DEF GivesUp
  <2>3. worker'[s][r] \in Reconnecting => link'[s][r] # "up"
    BY <1>21, <1>m DEF GivesUp, Set, Typing, Reconnecting
  <2>4. s \notin closed => Speaks(s)'
    <3> SUFFICES ASSUME s \notin closed PROVE Speaks(s)'
      OBVIOUS
    <3>1. health'[s] = "disconnected"
      BY <1>21 DEF GivesUp, Tell, Typing
    <3>2. \/ worker'[s][r] = "gone"
          \/ worker'[s][r] = "loop" /\ link'[s][r] = "drained"
      <4>1. CASE /\ link' = [link EXCEPT ![s][r] = "drained"]
                 /\ Set(s, r, "loop")
        BY <4>1 DEF Set, Typing
      <4>2. CASE Set(s, r, "gone")
        BY <4>2 DEF Set, Typing
      <4> QED
        BY <1>21, <4>1, <4>2 DEF GivesUp
    <3> QED
      BY <3>1, <3>2 DEF Speaks
  <2> QED
    BY <2>1, <2>2, <2>3, <2>4, <1>m, WorkerStep
<1>22. ASSUME NEW s \in Ids, NEW r \in Runtimes, Stop(s, r) PROVE HealthInv'
  <2>1. Elsewhere(s, r)
    BY <1>22, <1>m DEF Stop, Set, Elsewhere, Typing
  <2>2. worker[s][r] # "none"
    BY <1>22 DEF Stop
  <2>3. worker'[s][r] \in Reconnecting => link'[s][r] # "up"
    BY <1>22, <1>m DEF Stop, Set, Typing, Reconnecting
  <2>4. s \notin closed => Speaks(s)'
    BY <1>22, <1>m DEF Stop, Set, Tell, Typing, Speaks, Reconnecting
  <2> QED
    BY <2>1, <2>2, <2>3, <2>4, <1>m, WorkerStep
<1>23. ASSUME NEW s \in Ids, NEW r \in Runtimes, Cut(s, r) PROVE HealthInv'
  <2>1. Elsewhere(s, r)
    BY <1>23, <1>m DEF Cut, Set, Elsewhere, Typing
  <2>2. worker[s][r] # "none"
    BY <1>23 DEF Cut
  <2>3. worker'[s][r] \in Reconnecting => link'[s][r] # "up"
    BY <1>23, <1>m DEF Cut, Set, Typing, Reconnecting
  <2>4. s \notin closed => Speaks(s)'
    <3> SUFFICES ASSUME s \notin closed PROVE Speaks(s)'
      OBVIOUS
    <3>1. worker' = worker /\ health' = health
      BY <1>23 DEF Cut
    <3>2. \A q \in Runtimes : link[s][q] # "up" => link'[s][q] # "up"
      BY <1>23 DEF Cut, Typing
    <3>3. r \in Serving(s)
      BY <1>23 DEF Cut, Serving
    <3>4. Speaks(s)
      BY <3>3 DEF HealthInv
    <3> QED
      BY <3>1, <3>2, <3>4 DEF Speaks
  <2> QED
    BY <2>1, <2>2, <2>3, <2>4, <1>m, WorkerStep
<1> QED
  BY <1>1, <1>2, <1>3, <1>4, <1>5, <1>6, <1>7, <1>8, <1>9, <1>10, <1>11,
     <1>12, <1>13, <1>14, <1>15, <1>16, <1>17, <1>18, <1>19, <1>20, <1>21,
     <1>22, <1>23 DEF Next

\* HealthSettles: what several workers write to one health value says, once
\* they are at rest, that some runtime is served or that some worker gave up.
THEOREM HealthAlwaysSettles == Spec => []HealthSettles
<1>1. Typing /\ HealthInv => HealthSettles
  <2> SUFFICES ASSUME HealthInv, Typing, AtRest, NEW s \in Attached \ closed
               PROVE  CASE health[s] = "connected" -> \E r \in Runtimes : worker[s][r] = "loop"
                        [] health[s] = "disconnected" -> \E r \in Runtimes : worker[s][r] = "gone"
                        [] OTHER -> FALSE
    BY DEF HealthSettles
  <2>1. Speaks(s) /\ s \in Ids
    BY DEF HealthInv, Attached
  <2>2. \A r \in Runtimes : worker[s][r] # "none" =>
           worker[s][r] = "gone" \/ (worker[s][r] = "loop" /\ link[s][r] = "up")
    BY <2>1 DEF AtRest, Serving
  <2>3. health[s] \in Healths
    BY <2>1 DEF Typing
  <2> QED
    BY <2>1, <2>2, <2>3 DEF Speaks, Healths, Reconnecting
<1>2. Init => Typing /\ HealthInv
  BY TypingInit, HealthInit
<1>3. Typing /\ HealthInv /\ [Next]_vars => Typing' /\ HealthInv'
  BY TypingStep, HealthStep
<1> QED
  BY <1>1, <1>2, <1>3, PTL DEF Spec

-----------------------------------------------------------------------------
(* Without overlapping connects there is one connect at a time, it has     *)
(* emptied the map, and what was in the map has been shut down.            *)

LeakInv ==
    ~overlapped =>
        /\ \A a, b \in connecting : a = b
        /\ connecting # {} => current = 0
        /\ \A s \in Ids : Serving(s) # {} => s = current \/ s \in closed

LEMMA LeakFrame ==
  ASSUME LeakInv, UNCHANGED << current, connecting, closed, overlapped >>,
         \A s \in Ids, r \in Runtimes :
             worker'[s][r] # "none" => worker[s][r] # "none"
  PROVE  LeakInv'
BY DEF LeakInv, Serving

LEMMA LeakInit == Init => LeakInv
BY DEF Init, LeakInv, Serving

LEMMA ShutOut ==
  ASSUME Typing,
         IF current = 0 THEN UNCHANGED << health, unseen, closed >>
         ELSE Shut(current)
  PROVE  /\ \A s \in Ids : s = current => s \in closed'
         /\ closed \subseteq closed'
BY DEF Shut, Ids

LEMMA LeakStep == Typing /\ LeakInv /\ [Next]_vars => LeakInv'
<1> SUFFICES ASSUME Typing, LeakInv, [Next]_vars PROVE LeakInv'
  OBVIOUS
<1> USE DEF map, watch, net, store, marks
<1>a. ASSUME worker' = worker, UNCHANGED << current, connecting, closed, overlapped >>
      PROVE  LeakInv'
  BY <1>a, LeakFrame
<1>1. CASE UNCHANGED vars
  BY <1>1, <1>a DEF vars
<1>2. CASE Reuse
  BY <1>2, <1>a DEF Reuse, vars
<1>3. CASE Connect
  <2> SUFFICES ASSUME ~overlapped' PROVE LeakInv'
    BY DEF LeakInv
  <2>1. ~overlapped /\ connecting = {}
    BY <1>3 DEF Connect
  <2>2. current' = 0 /\ connecting' = {made'}
    BY <1>3, <2>1 DEF Connect
  <2>3. \A s \in Ids : Serving(s)' # {} => s \in closed'
    BY <1>3, <2>1, ShutOut DEF Connect, LeakInv, Serving
  <2> QED
    BY <2>2, <2>3 DEF LeakInv
<1>4. ASSUME NEW s \in Ids, ConnectFails(s) PROVE LeakInv'
  BY <1>4 DEF ConnectFails, LeakInv, Serving
<1>5. ASSUME NEW s \in Ids, NEW kinds \in SUBSET Runtimes, Attach(s, kinds)
      PROVE  LeakInv'
  <2> SUFFICES ASSUME ~overlapped' PROVE LeakInv'
    BY DEF LeakInv
  <2>1. ~overlapped /\ closed' = closed /\ current' = s
    BY <1>5 DEF Attach
  <2>2. current = 0 /\ connecting' = {}
    BY <1>5, <2>1 DEF Attach, LeakInv
  <2>3. \A t \in Ids : t # s => worker'[t] = worker[t]
    BY <1>5 DEF Attach, Typing
  <2>4. \A t \in Ids : Serving(t)' # {} => t = s \/ t \in closed
    BY <2>1, <2>2, <2>3 DEF LeakInv, Serving, Ids
  <2> QED
    BY <2>1, <2>2, <2>4 DEF LeakInv
<1>6. CASE Disconnect
  BY <1>6, ShutOut DEF Disconnect, LeakInv, Serving
<1>7. ASSUME NEW s \in Ids, ReaderStart(s) PROVE LeakInv'
  BY <1>7, <1>a DEF ReaderStart, Look
<1>8. ASSUME NEW s \in Ids, ReaderWakes(s) PROVE LeakInv'
  BY <1>8, <1>a DEF ReaderWakes, Look
<1>9. CASE Apply
  BY <1>9, <1>a DEF Apply
<1>10. CASE Open
  BY <1>10, <1>a DEF Open
<1>11. CASE Resubscribe
  BY <1>11, <1>a DEF Resubscribe
<1>12. ASSUME NEW i \in Slots, Answer(i) PROVE LeakInv'
  BY <1>12, <1>a DEF Answer
<1>13. ASSUME NEW s \in Ids, NEW i \in Slots, Take(s, i) PROVE LeakInv'
  <2>1. UNCHANGED << current, connecting, closed, overlapped >>
    BY <1>13 DEF Take
  <2>2. \A t \in Ids, q \in Runtimes :
           worker'[t][q] # "none" => worker[t][q] # "none"
    BY <1>13 DEF Take, Set, Typing
  <2> QED
    BY <2>1, <2>2, LeakFrame
<1>14. ASSUME NEW s \in Ids, NEW i \in Slots, Serve(s, i) PROVE LeakInv'
  <2>1. UNCHANGED << current, connecting, closed, overlapped >>
    BY <1>14 DEF Serve
  <2>2. \A t \in Ids, q \in Runtimes :
           worker'[t][q] # "none" => worker[t][q] # "none"
    BY <1>14 DEF Serve, Set, Typing
  <2> QED
    BY <2>1, <2>2, LeakFrame
<1>15. ASSUME NEW s \in Ids, NEW i \in Slots, RetryFails(s, i) PROVE LeakInv'
  <2>1. UNCHANGED << current, connecting, closed, overlapped >>
    BY <1>15 DEF RetryFails
  <2>2. \A t \in Ids, q \in Runtimes :
           worker'[t][q] # "none" => worker[t][q] # "none"
    BY <1>15 DEF RetryFails, Set, Typing
  <2> QED
    BY <2>1, <2>2, LeakFrame
<1>16. ASSUME NEW s \in Ids, NEW i \in Slots, BreakAgain(s, i) PROVE LeakInv'
  <2>1. UNCHANGED << current, connecting, closed, overlapped >>
    BY <1>16 DEF BreakAgain
  <2>2. \A t \in Ids, q \in Runtimes :
           worker'[t][q] # "none" => worker[t][q] # "none"
    BY <1>16 DEF BreakAgain, Set, Typing
  <2> QED
    BY <2>1, <2>2, LeakFrame
<1>17. ASSUME NEW s \in Ids, Break(s) PROVE LeakInv'
  <2>1. UNCHANGED << current, connecting, closed, overlapped >>
    BY <1>17 DEF Break
  <2>2. \A t \in Ids, q \in Runtimes :
           worker'[t][q] # "none" => worker[t][q] # "none"
    BY <1>17 DEF Break, Set, Typing
  <2> QED
    BY <2>1, <2>2, LeakFrame
<1>18. ASSUME NEW s \in Ids, Retried(s) PROVE LeakInv'
  <2>1. UNCHANGED << current, connecting, closed, overlapped >>
    BY <1>18 DEF Retried
  <2>2. \A t \in Ids, q \in Runtimes :
           worker'[t][q] # "none" => worker[t][q] # "none"
    BY <1>18 DEF Retried, Set, Typing
  <2> QED
    BY <2>1, <2>2, LeakFrame
<1>19. ASSUME NEW s \in Ids, NEW r \in Runtimes, Notice(s, r) PROVE LeakInv'
  <2>1. UNCHANGED << current, connecting, closed, overlapped >>
    BY <1>19 DEF Notice
  <2>2. \A t \in Ids, q \in Runtimes :
           worker'[t][q] # "none" => worker[t][q] # "none"
    BY <1>19 DEF Notice, Set, Typing
  <2> QED
    BY <2>1, <2>2, LeakFrame
<1>20. ASSUME NEW s \in Ids, NEW r \in Runtimes, Revived(s, r) PROVE LeakInv'
  <2>1. UNCHANGED << current, connecting, closed, overlapped >>
    BY <1>20 DEF Revived
  <2>2. \A t \in Ids, q \in Runtimes :
           worker'[t][q] # "none" => worker[t][q] # "none"
    BY <1>20 DEF Revived, Set, Typing
  <2> QED
    BY <2>1, <2>2, LeakFrame
<1>21. ASSUME NEW s \in Ids, NEW r \in Runtimes, GivesUp(s, r) PROVE LeakInv'
  <2>1. UNCHANGED << current, connecting, closed, overlapped >>
    BY <1>21 DEF GivesUp
  <2>2. \A t \in Ids, q \in Runtimes :
           worker'[t][q] # "none" => worker[t][q] # "none"
    <3>1. CASE Set(s, r, "loop")
      BY <1>21, <3>1 DEF GivesUp, Set, Typing
    <3>2. CASE Set(s, r, "gone")
      BY <1>21, <3>2 DEF GivesUp, Set, Typing
    <3> QED
      BY <1>21, <3>1, <3>2 DEF GivesUp
  <2> QED
    BY <2>1, <2>2, LeakFrame
<1>22. ASSUME NEW s \in Ids, NEW r \in Runtimes, Stop(s, r) PROVE LeakInv'
  <2>1. UNCHANGED << current, connecting, closed, overlapped >>
    BY <1>22 DEF Stop
  <2>2. \A t \in Ids, q \in Runtimes :
           worker'[t][q] # "none" => worker[t][q] # "none"
    BY <1>22 DEF Stop, Set, Typing
  <2> QED
    BY <2>1, <2>2, LeakFrame
<1>23. ASSUME NEW s \in Ids, NEW r \in Runtimes, Cut(s, r) PROVE LeakInv'
  BY <1>23, <1>a DEF Cut
<1> QED
  BY <1>1, <1>2, <1>3, <1>4, <1>5, <1>6, <1>7, <1>8, <1>9, <1>10, <1>11,
     <1>12, <1>13, <1>14, <1>15, <1>16, <1>17, <1>18, <1>19, <1>20, <1>21,
     <1>22, <1>23 DEF Next

\* NoLeak: without overlapping connects, every session but the one in the
\* map has been told to shut down, however often the server was replaced.
THEOREM NothingLeaks == Spec => []NoLeak
<1>1. LeakInv => NoLeak
  BY DEF LeakInv, NoLeak, Attached
<1>2. Init => Typing /\ LeakInv
  BY TypingInit, LeakInit
<1>3. Typing /\ LeakInv /\ [Next]_vars => Typing' /\ LeakInv'
  BY TypingStep, LeakStep
<1> QED
  BY <1>1, <1>2, <1>3, PTL DEF Spec

-----------------------------------------------------------------------------
(* While the current session's reader has seen the latest health, either   *)
(* the last report about the session says it and is still on its way, or   *)
(* it is what the store shows, unless somebody else wrote that.            *)

Quiet(s) == reader[s].on /\ ~unseen[s]

Told(c) ==
    \/ \E i \in 1 .. Len(events) :
          /\ events[i] = Report(c, health[c])
          /\ \A j \in i + 1 .. Len(events) : events[j].on # c
    \/ /\ \A j \in 1 .. Len(events) : events[j].on # c
       /\ said.on = c /\ said.by # "answer" => shown = health[c]

CatchInv ==
    /\ current \notin connecting
    /\ \A s \in Ids : s > made \/ s \in connecting => ~reader[s].on
    /\ current # 0 /\ Quiet(current) => Told(current)

LEMMA CatchInit == Init => CatchInv
BY DEF Init, CatchInv, Quiet

LEMMA CatchFrame ==
  ASSUME Typing, CatchInv, UNCHANGED << made, current, connecting, reader >>,
         UNCHANGED << events, shown, said >>,
         \/ UNCHANGED << health, unseen >>
         \/ \E s \in Ids, h \in Healths : Tell(s, h)
  PROVE  CatchInv'
<1>1. CASE UNCHANGED << health, unseen >>
  BY <1>1 DEF CatchInv, Quiet, Told, Report
<1>2. ASSUME NEW s \in Ids, NEW h \in Healths, Tell(s, h)
      PROVE  CatchInv'
  <2>1. CASE s \in closed
    BY <1>2, <1>1, <2>1 DEF Tell
  <2>2. CASE s \notin closed
    <3>1. unseen' = [unseen EXCEPT ![s] = TRUE] /\ health' = [health EXCEPT ![s] = h]
      BY <1>2, <2>2 DEF Tell
    <3>2. ASSUME current # 0, Quiet(current)' PROVE Told(current)'
      <4>1. current \in Ids /\ current # s
        BY <3>1, <3>2 DEF Quiet, Typing, Ids
      <4>2. Quiet(current) /\ health'[current] = health[current]
        BY <3>1, <3>2, <4>1 DEF Quiet, Typing
      <4> QED
        BY <3>2, <4>2 DEF CatchInv, Told, Report
    <3> QED
      BY <3>2 DEF CatchInv
  <2> QED
    BY <2>1, <2>2
<1> QED
  BY <1>1, <1>2

LEMMA LookCatch ==
  ASSUME Typing, CatchInv, NEW s \in Ids, NEW first \in Seq(Events), Look(s, first)
  PROVE  CatchInv'
<1>1. /\ current = s /\ UNCHANGED << made, current, connecting, health >>
      /\ events' = events \o first \o << Report(s, health[s]) >>
      /\ \A t \in Ids : t # s => reader'[t] = reader[t]
  BY DEF Look, map, Typing
<1>2. Report(s, health[s]) \in Events
  BY DEF Typing, Report, Events
<1>3. /\ Len(events') \in 1 .. Len(events')
      /\ events'[Len(events')] = Report(s, health[s])
  BY <1>1, <1>2 DEF Typing
<1>4. Told(s)'
  BY <1>1, <1>3 DEF Told, Report
<1>5. s <= made /\ s \notin connecting
  BY <1>1 DEF CatchInv, Typing
<1>6. ASSUME NEW t \in Ids, t > made' \/ t \in connecting'
      PROVE  ~reader'[t].on
  <2>1. t # s
    BY <1>1, <1>5, <1>6 DEF Typing, Ids
  <2>2. reader'[t] = reader[t] /\ ~reader[t].on
    BY <1>1, <1>6, <2>1 DEF CatchInv
  <2> QED
    BY <2>2
<1>7. current' \notin connecting'
  BY <1>1 DEF CatchInv
<1>8. Told(current)'
  BY <1>1, <1>4 DEF Told
<1> QED
  BY <1>6, <1>7, <1>8 DEF CatchInv

LEMMA CatchStep == Typing /\ CatchInv /\ [Next]_vars => CatchInv'
<1> SUFFICES ASSUME Typing, CatchInv, [Next]_vars PROVE CatchInv'
  OBVIOUS
<1> USE DEF map, watch, net, store, marks
<1>a. ASSUME UNCHANGED << made, current, connecting, reader >>,
             UNCHANGED << health, unseen, events, shown, said >>
      PROVE  CatchInv'
  BY <1>a, CatchFrame
<1>b. ASSUME UNCHANGED << made, current, connecting, reader >>,
             UNCHANGED << events, shown, said >>,
             NEW s \in Ids, NEW h \in Healths, Tell(s, h)
      PROVE  CatchInv'
  BY <1>b, CatchFrame
<1>1. CASE UNCHANGED vars
  BY <1>1, <1>a DEF vars
<1>2. CASE Reuse
  BY <1>2, <1>a DEF Reuse, vars
<1>3. CASE Connect
  BY <1>3 DEF Connect, CatchInv, Typing, Ids
<1>4. ASSUME NEW s \in Ids, ConnectFails(s) PROVE CatchInv'
  BY <1>4 DEF ConnectFails, Show, CatchInv, Quiet, Told, Report, Typing
<1>5. ASSUME NEW s \in Ids, NEW kinds \in SUBSET Runtimes, Attach(s, kinds)
      PROVE  CatchInv'
  <2>1. /\ s \in connecting /\ current' = s /\ connecting' = connecting \ {s}
        /\ UNCHANGED << made, reader >>
    BY <1>5 DEF Attach
  <2>2. ~reader[s].on
    BY <2>1 DEF CatchInv
  <2> QED
    BY <2>1, <2>2 DEF CatchInv, Quiet
<1>6. CASE Disconnect
  BY <1>6 DEF Disconnect, CatchInv, Typing
<1>7. ASSUME NEW s \in Ids, ReaderStart(s) PROVE CatchInv'
  <2>1. << Report(s, "connecting") >> \in Seq(Events)
    BY DEF Report, Events, Healths
  <2> QED
    BY <1>7, <2>1, LookCatch DEF ReaderStart
<1>8. ASSUME NEW s \in Ids, ReaderWakes(s) PROVE CatchInv'
  <2>1. << >> \in Seq(Events)
    OBVIOUS
  <2> QED
    BY <1>8, <2>1, LookCatch DEF ReaderWakes
<1>9. CASE Apply
  <2>1. /\ events # << >> /\ events' = Tail(events)
        /\ UNCHANGED << made, current, connecting, health, unseen, reader >>
        /\ Show(Head(events).health, "reader", Head(events).on)
    BY <1>9 DEF Apply
  <2>2. /\ Len(events') = Len(events) - 1 /\ Len(events) \in Nat
        /\ \A j \in 1 .. Len(events') : events'[j] = events[j + 1]
    BY <2>1 DEF Typing
  <2>3. ASSUME current # 0, Quiet(current) PROVE Told(current)'
    <3>1. shown' = Head(events).health /\ said' = [by |-> "reader", on |-> Head(events).on]
      BY <2>1, <2>3 DEF Show, Typing
    <3>2. Told(current)
      BY <2>3 DEF CatchInv
    <3>3. Head(events) = events[1]
      BY <2>1 DEF Typing
    <3>4. ASSUME NEW i \in 1 .. Len(events), events[i] = Report(current, health[current]),
                 \A j \in i + 1 .. Len(events) : events[j].on # current
          PROVE  Told(current)'
      <4>1. CASE i = 1
        <5>1. \A j \in 1 .. Len(events') : events'[j].on # current
          BY <2>2, <3>4, <4>1
        <5>2. shown' = health[current]
          BY <3>1, <3>3, <3>4, <4>1 DEF Report
        <5> QED
          BY <2>1, <5>1, <5>2 DEF Told
      <4>2. CASE i # 1
        <5>1. i - 1 \in 1 .. Len(events') /\ events'[i - 1] = events[i]
          BY <2>2, <4>2
        <5>2. \A j \in (i - 1) + 1 .. Len(events') : events'[j].on # current
          BY <2>2, <3>4
        <5> QED
          BY <2>1, <3>4, <5>1, <5>2 DEF Told, Report
      <4> QED
        BY <4>1, <4>2
    <3>5. ASSUME \A j \in 1 .. Len(events) : events[j].on # current
          PROVE  Told(current)'
      <4>1. \A j \in 1 .. Len(events') : events'[j].on # current
        BY <2>2, <3>5
      <4>2. said'.on # current
        BY <2>1, <2>2, <3>1, <3>3, <3>5 DEF Typing
      <4> QED
        BY <2>1, <4>1, <4>2 DEF Told
    <3> QED
      BY <3>2, <3>4, <3>5 DEF Told
  <2> QED
    BY <2>1, <2>3 DEF CatchInv, Quiet
<1>o. ASSUME Request PROVE UNCHANGED store \/ current = 0
  BY <1>o DEF Request
<1>10. CASE Open
  BY <1>10, <1>o DEF Open, CatchInv, Quiet, Told, Report
<1>11. CASE Resubscribe
  BY <1>11, <1>o DEF Resubscribe, CatchInv, Quiet, Told, Report
<1>12. ASSUME NEW i \in Slots, Answer(i) PROVE CatchInv'
  <2>1. CASE call[i].st = "failed"
    <3>1. UNCHANGED << made, current, connecting, reader, health, unseen, events >>
      BY <1>12 DEF Answer
    <3>2. Show("disconnected", "answer", call[i].on)
      BY <1>12, <2>1 DEF Answer, MarkDisconnected
    <3> QED
      BY <3>1, <3>2 DEF Show, CatchInv, Quiet, Told, Report
  <2>2. CASE call[i].st # "failed"
    BY <1>12, <2>2, <1>a DEF Answer
  <2> QED
    BY <2>1, <2>2
<1>13. ASSUME NEW s \in Ids, NEW i \in Slots, Take(s, i) PROVE CatchInv'
  BY <1>13, <1>a DEF Take
<1>14. ASSUME NEW s \in Ids, NEW i \in Slots, Serve(s, i) PROVE CatchInv'
  BY <1>14, <1>a DEF Serve
<1>15. ASSUME NEW s \in Ids, NEW i \in Slots, RetryFails(s, i) PROVE CatchInv'
  <2>1. Tell(s, "disconnected") /\ "disconnected" \in Healths
    BY <1>15 DEF RetryFails, Healths
  <2> QED
    BY <1>15, <1>b, <2>1 DEF RetryFails
<1>16. ASSUME NEW s \in Ids, NEW i \in Slots, BreakAgain(s, i) PROVE CatchInv'
  BY <1>16, <1>a DEF BreakAgain
<1>17. ASSUME NEW s \in Ids, Break(s) PROVE CatchInv'
  <2>1. Tell(s, "connecting") /\ "connecting" \in Healths
    BY <1>17 DEF Break, Healths
  <2> QED
    BY <1>17, <1>b, <2>1 DEF Break
<1>18. ASSUME NEW s \in Ids, Retried(s) PROVE CatchInv'
  <2>1. Tell(s, "connected") /\ "connected" \in Healths
    BY <1>18 DEF Retried, Healths
  <2> QED
    BY <1>18, <1>b, <2>1 DEF Retried
<1>19. ASSUME NEW s \in Ids, NEW r \in Runtimes, Notice(s, r) PROVE CatchInv'
  <2>1. Tell(s, "connecting") /\ "connecting" \in Healths
    BY <1>19 DEF Notice, Healths
  <2> QED
    BY <1>19, <1>b, <2>1 DEF Notice
<1>20. ASSUME NEW s \in Ids, NEW r \in Runtimes, Revived(s, r) PROVE CatchInv'
  <2>1. Tell(s, "connected") /\ "connected" \in Healths
    BY <1>20 DEF Revived, Healths
  <2> QED
    BY <1>20, <1>b, <2>1 DEF Revived
<1>21. ASSUME NEW s \in Ids, NEW r \in Runtimes, GivesUp(s, r) PROVE CatchInv'
  <2>1. Tell(s, "disconnected") /\ "disconnected" \in Healths
    BY <1>21 DEF GivesUp, Healths
  <2> QED
    BY <1>21, <1>b, <2>1 DEF GivesUp
<1>22. ASSUME NEW s \in Ids, NEW r \in Runtimes, Stop(s, r) PROVE CatchInv'
  BY <1>22, <1>a DEF Stop
<1>23. ASSUME NEW s \in Ids, NEW r \in Runtimes, Cut(s, r) PROVE CatchInv'
  BY <1>23, <1>a DEF Cut
<1> QED
  BY <1>1, <1>2, <1>3, <1>4, <1>5, <1>6, <1>7, <1>8, <1>9, <1>10, <1>11,
     <1>12, <1>13, <1>14, <1>15, <1>16, <1>17, <1>18, <1>19, <1>20, <1>21,
     <1>22, <1>23 DEF Next

\* StoreCatchesUp: however the writes to the watch, the reader's wake-ups and
\* the queued reports interleave, the store ends up with the current
\* session's health when the last word is that session's.
THEOREM StoreAlwaysCatchesUp == Spec => []StoreCatchesUp
<1>1. Typing /\ CatchInv => StoreCatchesUp
  <2> SUFFICES ASSUME CatchInv, AtRest, current # 0, said.on = current,
                      said.by # "answer"
               PROVE  shown = health[current]
    BY DEF StoreCatchesUp
  <2>1. Quiet(current) /\ events = << >>
    BY DEF AtRest, Quiet
  <2> QED
    BY <2>1 DEF CatchInv, Told
<1>2. Init => Typing /\ CatchInv
  BY TypingInit, CatchInit
<1>3. Typing /\ CatchInv /\ [Next]_vars => Typing' /\ CatchInv'
  BY TypingStep, CatchStep
<1> QED
  BY <1>1, <1>2, <1>3, PTL DEF Spec

-----------------------------------------------------------------------------
(* The types, what a server shown Connected means, and what the            *)
(* direct-resume marker stands for.                                        *)

MadeCalls == [on : 0 .. made, old : BOOLEAN,
              st : {"idle", "queued", "sent", "ok", "refused", "failed"}]
MadeEvents == [health : Healths, on : 1 .. made]

-----------------------------------------------------------------------------
(* The types that Typing leaves out.                                       *)

Basic ==
    /\ closed \subseteq 1 .. made
    /\ subscribed \subseteq 1 .. made
    /\ missed \subseteq 1 .. made
    /\ events \in Seq(MadeEvents)
    /\ resubs \in Nat
    /\ call \in [Slots -> MadeCalls]
    /\ cuts \in 0 .. MaxSteps[path] /\ opens \in 0 .. MaxSteps[path]
    /\ said \in [by : {"nobody", "connect", "attach", "reader", "answer"},
                 on : 0 .. made]
    /\ \A s \in Ids : Serving(s) # {} => s <= made /\ s \notin connecting

Flags == /\ stored \in BOOLEAN /\ marker \in BOOLEAN
         /\ late \in BOOLEAN /\ overlapped \in BOOLEAN

LEMMA FlagsInit == Init => Flags
BY DEF Init, Flags

LEMMA FlagsStep == Flags /\ [Next]_vars => Flags'
<1> SUFFICES ASSUME Flags, [Next]_vars PROVE Flags'
  OBVIOUS
<1> USE DEF Flags, map, watch, net, store, marks
<1>1. CASE UNCHANGED vars
  BY <1>1 DEF vars
<1>2. CASE Reuse \/ Connect \/ Disconnect
  BY <1>1, <1>2 DEF Reuse, Connect, Disconnect, ClearMarkers
<1>3. ASSUME NEW s \in Ids,
             ConnectFails(s) \/ \E kinds \in SUBSET Runtimes : Attach(s, kinds)
      PROVE  Flags'
  BY <1>3 DEF ConnectFails, Attach
<1>4. ASSUME NEW s \in Ids, ReaderStart(s) \/ ReaderWakes(s) PROVE Flags'
  BY <1>4 DEF ReaderStart, ReaderWakes, Look
<1>5. CASE Apply
  BY <1>5 DEF Apply
<1>6. CASE Open \/ Resubscribe
  BY <1>6 DEF Open, Resubscribe, ClearMarkers
<1>7. ASSUME NEW i \in Slots, Answer(i) PROVE Flags'
  BY <1>7 DEF Answer, MarkDisconnected, ClearMarkers
<1>8. ASSUME NEW s \in Ids, NEW i \in Slots,
             Take(s, i) \/ Serve(s, i) \/ RetryFails(s, i) \/ BreakAgain(s, i)
      PROVE  Flags'
  BY <1>8 DEF Take, Serve, RetryFails, BreakAgain
<1>9. ASSUME NEW s \in Ids, Break(s) \/ Retried(s) PROVE Flags'
  BY <1>9 DEF Break, Retried
<1>10. ASSUME NEW s \in Ids, NEW r \in Runtimes,
              Notice(s, r) \/ Revived(s, r) \/ GivesUp(s, r) \/ Stop(s, r) \/ Cut(s, r)
       PROVE  Flags'
  BY <1>10 DEF Notice, Revived, GivesUp, Stop, Cut
<1> HIDE DEF Flags
<1> QED
  BY <1>1, <1>2, <1>3, <1>4, <1>5, <1>6, <1>7, <1>8, <1>9, <1>10 DEF Next

LEMMA BasicInit == Init => Basic
<1> SUFFICES ASSUME Init PROVE Basic
  OBVIOUS
<1>1. \A p \in Paths : MaxSteps[p] \in Nat
  OBVIOUS
<1>2. events \in Seq(MadeEvents)
  BY DEF Init
<1>3. call \in [Slots -> MadeCalls]
  BY DEF Init, Idle, MadeCalls
<1> QED
  BY <1>1, <1>2, <1>3 DEF Init, Basic, Serving

\* A request for the current session.
LEMMA RequestBasic ==
  ASSUME Typing, Basic, Request
  PROVE  /\ call' \in [Slots -> MadeCalls]
         /\ said' \in [by : {"nobody", "connect", "attach", "reader", "answer"},
                       on : 0 .. made]
<1>1. said \in [by : {"nobody", "connect", "attach", "reader", "answer"}, on : 0 .. made]
      /\ call \in [Slots -> MadeCalls] /\ current \in 0 .. made /\ made \in Nat
  BY DEF Typing, Basic
<1>2. \A s \in 0 .. made : Requested(s) \in MadeCalls
  BY DEF Requested, MadeCalls
<1> QED
  BY <1>1, <1>2 DEF Request, Show, store

LEMMA BasicStep == Typing /\ Basic /\ [Next]_vars => Basic'
<1> SUFFICES ASSUME Typing, Basic, [Next]_vars PROVE Basic'
  OBVIOUS
<1> USE DEF map, watch, net, store, marks
<1> DEFINE Says(n) == [by : {"nobody", "connect", "attach", "reader", "answer"},
                       on : 0 .. n]
           Served == \A s \in Ids : Serving(s) # {} => s <= made /\ s \notin connecting
           Sets == /\ closed \subseteq 1 .. made /\ subscribed \subseteq 1 .. made
                   /\ missed \subseteq 1 .. made
           Seqs == events \in Seq(MadeEvents)
           Counts == /\ resubs \in Nat
                     /\ cuts \in 0 .. MaxSteps[path] /\ opens \in 0 .. MaxSteps[path]
           Reqs == call \in [Slots -> MadeCalls]
           Said == said \in Says(made)
<1>i. Sets /\ Seqs /\ Counts /\ Reqs /\ Said /\ Served
  BY DEF Basic
<1>t. /\ made \in Nat /\ current \in 0 .. made /\ connecting \subseteq 1 .. made
      /\ path \in Paths /\ MaxSteps[path] \in Nat
      /\ \A s \in Ids : s \in Nat /\ 1 <= s
  BY DEF Typing, Ids
<1>q. (Sets /\ Seqs /\ Counts /\ Reqs /\ Said /\ Served)' => Basic'
  BY DEF Basic
<1>s. ASSUME \A t \in Ids, q \in Runtimes :
                worker'[t][q] # "none" => worker[t][q] # "none",
             made' = made, connecting' \subseteq connecting
      PROVE  Served'
  BY <1>s, <1>i DEF Serving
<1>w. ASSUME UNCHANGED << worker, made >>, connecting' \subseteq connecting
      PROVE  Served'
  BY <1>w, <1>i DEF Serving
<1> HIDE DEF Served, Sets, Seqs, Counts, Reqs, Said
<1>1. CASE UNCHANGED vars \/ Reuse
  <2>1. UNCHANGED vars
    BY <1>1 DEF Reuse
  <2>2. Sets' /\ Seqs' /\ Counts' /\ Reqs' /\ Said'
    BY <2>1, <1>i DEF vars, Sets, Seqs, Counts, Reqs, Said, MadeEvents, MadeCalls
  <2>3. Served'
    BY <2>1, <1>w DEF vars
  <2> QED
    BY <2>2, <2>3, <1>q
<1>2. CASE Connect
  <2>1. /\ made' = made + 1 /\ connecting' = connecting \cup {made'} /\ worker' = worker
        /\ UNCHANGED << events, subscribed, missed, call, cuts, opens, resubs, path >>
    BY <1>2 DEF Connect
  <2>2. closed' \subseteq 1 .. made'
    <3>1. current # 0 => closed' = closed \cup {current}
      BY <1>2 DEF Connect, Shut
    <3>2. current = 0 => closed' = closed
      BY <1>2 DEF Connect
    <3>3. 1 .. made \subseteq 1 .. made'
      BY <2>1, <1>t
    <3>4. closed \subseteq 1 .. made
      BY <1>i DEF Sets
    <3>5. current # 0 => current \in 1 .. made
      BY <1>t
    <3> QED
      BY <3>1, <3>2, <3>3, <3>4, <3>5
  <2>3. Sets'
    BY <2>1, <2>2, <1>i, <1>t DEF Sets
  <2>4. Seqs'
    <3>1. MadeEvents \subseteq MadeEvents'
      BY <2>1, <1>t DEF MadeEvents
    <3> QED
      BY <3>1, <2>1, <1>i DEF Seqs
  <2>5. Reqs'
    <3>1. MadeCalls \subseteq MadeCalls'
      BY <2>1, <1>t DEF MadeCalls
    <3> QED
      BY <3>1, <2>1, <1>i DEF Reqs
  <2>6. Said'
    BY <1>2, <2>1, <1>i, <1>t DEF Said, Connect
  <2>7. Served'
    <3>1. \A s \in Ids : Serving(s) # {} => s <= made
      BY <1>i DEF Served
    <3> QED
      BY <3>1, <2>1, <1>i, <1>t DEF Served, Serving
  <2>8. Counts'
    BY <2>1, <1>i DEF Counts
  <2> QED
    BY <2>3, <2>4, <2>5, <2>6, <2>7, <2>8, <1>q
<1>3. ASSUME NEW s \in Ids, ConnectFails(s) PROVE Basic'
  <2>1. Said'
    BY <1>3, <1>i, <1>t DEF ConnectFails, Show, Said
  <2>2. Served'
    BY <1>3, <1>w DEF ConnectFails
  <2> QED
    BY <1>3, <2>1, <2>2, <1>i, <1>q
       DEF ConnectFails, Sets, Seqs, Counts, Reqs, MadeEvents, MadeCalls
<1>4. ASSUME NEW s \in Ids, NEW kinds \in SUBSET Runtimes, Attach(s, kinds)
      PROVE  Basic'
  <2>1. s \in connecting /\ connecting' = connecting \ {s} /\ made' = made
    BY <1>4 DEF Attach
  <2>2. \A t \in Ids : t # s => worker'[t] = worker[t]
    BY <1>4 DEF Attach, Typing
  <2>3. Served'
    <3>1. s <= made' /\ s \notin connecting'
      BY <2>1, <1>t
    <3>2. \A t \in Ids : t # s => Serving(t)' = Serving(t)
      BY <2>2 DEF Serving
    <3>3. \A t \in Ids : t # s /\ Serving(t)' # {} => t <= made' /\ t \notin connecting'
      BY <2>1, <3>2, <1>i DEF Served
    <3> QED
      BY <3>1, <3>3 DEF Served
  <2>4. Said'
    BY <1>4, <2>1, <1>t DEF Said, Attach
  <2> QED
    BY <1>4, <2>3, <2>4, <1>i, <1>q
       DEF Attach, Sets, Seqs, Counts, Reqs, MadeEvents, MadeCalls
<1>5. CASE Disconnect
  <2>1. Sets'
    <3>1. current # 0 => closed' = closed \cup {current}
      BY <1>5 DEF Disconnect, Shut
    <3>2. current = 0 => closed' = closed
      BY <1>5 DEF Disconnect
    <3>3. current # 0 => current \in 1 .. made
      BY <1>t
    <3>4. closed' \subseteq 1 .. made
      BY <3>1, <3>2, <3>3, <1>i DEF Sets
    <3> QED
      BY <3>4, <1>5, <1>i DEF Sets, Disconnect
  <2>2. Said'
    BY <1>5, <1>t DEF Said, Disconnect
  <2>3. Served'
    BY <1>5, <1>w DEF Disconnect
  <2> QED
    BY <1>5, <2>1, <2>2, <2>3, <1>i, <1>q
       DEF Disconnect, Seqs, Counts, Reqs, MadeEvents, MadeCalls
<1>6. ASSUME NEW s \in Ids, NEW first \in Seq(MadeEvents), Look(s, first) PROVE Basic'
  <2>1. s \in 1 .. made /\ made' = made
    BY <1>6, <1>t DEF Look
  <2>2. Seqs'
    <3>1. Report(s, health[s]) \in MadeEvents
      BY <2>1 DEF Report, MadeEvents, Typing
    <3>2. events' = events \o first \o << Report(s, health[s]) >> /\ MadeEvents' = MadeEvents
      BY <1>6, <2>1 DEF Look, MadeEvents
    <3> QED
      BY <3>1, <3>2, <1>i DEF Seqs
  <2>3. Sets'
    BY <1>6, <2>1, <1>i DEF Look, Sets
  <2>4. Counts'
    BY <1>6, <1>i DEF Look, Counts
  <2>5. Served'
    BY <1>6, <1>w DEF Look
  <2>6. Reqs' /\ Said'
    BY <1>6, <1>i DEF Look, Reqs, Said, MadeCalls
  <2> QED
    BY <2>2, <2>3, <2>4, <2>5, <2>6, <1>q
<1>7. ASSUME NEW s \in Ids, ReaderStart(s) PROVE Basic'
  <2>1. << Report(s, "connecting") >> \in Seq(MadeEvents)
    BY <1>7, <1>t DEF ReaderStart, Look, Report, MadeEvents, Healths
  <2> QED
    BY <1>6, <1>7, <2>1 DEF ReaderStart
<1>8. ASSUME NEW s \in Ids, ReaderWakes(s) PROVE Basic'
  <2>1. << >> \in Seq(MadeEvents)
    OBVIOUS
  <2> QED
    BY <1>6, <1>8, <2>1 DEF ReaderWakes
<1>9. CASE Apply
  <2>1. Head(events) \in MadeEvents /\ Tail(events) \in Seq(MadeEvents)
    BY <1>9, <1>i DEF Apply, Seqs
  <2>2. Seqs' /\ Said'
    BY <1>9, <2>1, <1>i, <1>t DEF Apply, Show, Seqs, Said, MadeEvents
  <2>3. Served'
    BY <1>9, <1>w DEF Apply
  <2> QED
    BY <1>9, <2>2, <2>3, <1>i, <1>q DEF Apply, Sets, Counts, Reqs, MadeCalls
<1>10. CASE Open
  <2>1. Request /\ opens' = opens + 1 /\ opens < MaxSteps[path]
    BY <1>10, <1>i, <1>t DEF Open, Within, Counts
  <2>2. Reqs' /\ Said'
    BY <1>10, <2>1, RequestBasic DEF Open, Reqs, Said, MadeCalls
  <2>3. Counts'
    BY <1>10, <2>1, <1>i, <1>t DEF Open, Counts
  <2>4. Served'
    BY <1>10, <1>w DEF Open
  <2> QED
    BY <1>10, <2>2, <2>3, <2>4, <1>i, <1>q DEF Open, Sets, Seqs, MadeEvents
<1>11. CASE Resubscribe
  <2>1. Reqs' /\ Said'
    <3>1. CASE stored
      BY <1>11, <3>1, RequestBasic DEF Resubscribe, Reqs, Said, MadeCalls
    <3>2. CASE ~stored
      BY <1>11, <3>2, <1>i DEF Resubscribe, Reqs, Said, MadeCalls
    <3> QED
      BY <3>1, <3>2
  <2>2. Counts'
    BY <1>11, <1>i DEF Resubscribe, Counts
  <2>3. Served'
    BY <1>11, <1>w DEF Resubscribe
  <2> QED
    BY <1>11, <2>1, <2>2, <2>3, <1>i, <1>q DEF Resubscribe, Sets, Seqs, MadeEvents
<1>c. ASSUME NEW i \in Slots, NEW c \in MadeCalls, call' = [call EXCEPT ![i] = c],
             made' = made
      PROVE  Reqs'
  BY <1>c, <1>i DEF Reqs, MadeCalls
<1>12. ASSUME NEW i \in Slots, Answer(i) PROVE Basic'
  <2>1. Idle \in MadeCalls
    BY <1>t DEF Idle, MadeCalls
  <2>2. Reqs'
    BY <1>12, <2>1, <1>c DEF Answer
  <2>3. Said'
    <3>1. call[i].on \in 0 .. made
      BY <1>i DEF Reqs, MadeCalls
    <3> QED
      BY <1>12, <3>1, <1>i DEF Answer, MarkDisconnected, Show, Said
  <2>4. Served'
    BY <1>12, <1>w DEF Answer
  <2> QED
    BY <1>12, <2>2, <2>3, <2>4, <1>i, <1>q DEF Answer, Sets, Seqs, Counts, MadeEvents
<1>r. ASSUME UNCHANGED << made, connecting, closed, missed, events, resubs, opens, said, path >>,
             \A t \in Ids, q \in Runtimes :
                worker'[t][q] # "none" => worker[t][q] # "none",
             Reqs', subscribed' \subseteq 1 .. made, UNCHANGED cuts
      PROVE  Basic'
  BY <1>r, <1>s, <1>i, <1>q DEF Sets, Seqs, Counts, Said, MadeEvents
<1>e. ASSUME NEW i \in Slots, NEW st \in {"sent", "ok", "failed"}, Answered(i, st),
             made' = made
      PROVE  Reqs'
  <2>1. [call[i] EXCEPT !.st = st] \in MadeCalls
    BY <1>i DEF Reqs, MadeCalls
  <2> QED
    BY <1>e, <2>1, <1>c DEF Answered
<1>k. ASSUME UNCHANGED << call, made >> PROVE Reqs'
  BY <1>k, <1>i DEF Reqs, MadeCalls
<1>u. ASSUME UNCHANGED subscribed PROVE subscribed' \subseteq 1 .. made
  BY <1>u, <1>i DEF Sets
<1>v. ASSUME NEW s \in Ids, NEW r \in Runtimes, NEW w \in Pcs, Set(s, r, w),
             worker[s][r] # "none"
      PROVE  \A t \in Ids, q \in Runtimes :
                worker'[t][q] # "none" => worker[t][q] # "none"
  BY <1>v DEF Set, Typing
<1>m. Main \in Runtimes /\ {"loop", "call", "retry", "recall", "idle", "gone"} \subseteq Pcs
  BY DEF Pcs
<1>13. ASSUME NEW s \in Ids, NEW i \in Slots, Take(s, i) PROVE Basic'
  BY <1>13, <1>r, <1>e, <1>u, <1>v, <1>m DEF Take
<1>14. ASSUME NEW s \in Ids, NEW i \in Slots, Serve(s, i) PROVE Basic'
  <2>1. s \in 1 .. made
    BY <1>14, <1>i, <1>t DEF Serve, Reqs, MadeCalls
  <2>2. subscribed' \subseteq 1 .. made
    BY <1>14, <2>1, <1>i DEF Serve, Sets
  <2> QED
    BY <1>14, <2>2, <1>r, <1>e, <1>v, <1>m DEF Serve
<1>15. ASSUME NEW s \in Ids, NEW i \in Slots, RetryFails(s, i) PROVE Basic'
  BY <1>15, <1>r, <1>e, <1>u, <1>v, <1>m DEF RetryFails
<1>16. ASSUME NEW s \in Ids, NEW i \in Slots, BreakAgain(s, i) PROVE Basic'
  BY <1>16, <1>r, <1>e, <1>u, <1>v, <1>m DEF BreakAgain
<1>17. ASSUME NEW s \in Ids, Break(s) PROVE Basic'
  BY <1>17, <1>r, <1>k, <1>u, <1>v, <1>m DEF Break
<1>18. ASSUME NEW s \in Ids, Retried(s) PROVE Basic'
  BY <1>18, <1>r, <1>k, <1>u, <1>v, <1>m DEF Retried
<1>19. ASSUME NEW s \in Ids, NEW r \in Runtimes, Notice(s, r) PROVE Basic'
  BY <1>19, <1>r, <1>k, <1>u, <1>v, <1>m DEF Notice
<1>20. ASSUME NEW s \in Ids, NEW r \in Runtimes, Revived(s, r) PROVE Basic'
  BY <1>20, <1>r, <1>k, <1>u, <1>v, <1>m DEF Revived
<1>21. ASSUME NEW s \in Ids, NEW r \in Runtimes, GivesUp(s, r) PROVE Basic'
  <2>1. Reqs'
    <3>1. CASE UNCHANGED call
      BY <1>21, <3>1, <1>k DEF GivesUp
    <3>2. CASE Dropped(s, r)
      BY <1>21, <3>2, <1>i DEF GivesUp, Dropped, Reqs, MadeCalls
    <3> QED
      BY <1>21, <3>1, <3>2 DEF GivesUp
  <2> QED
    BY <1>21, <2>1, <1>r, <1>u, <1>v, <1>m DEF GivesUp
<1>22. ASSUME NEW s \in Ids, NEW r \in Runtimes, Stop(s, r) PROVE Basic'
  <2>1. subscribed' \subseteq 1 .. made
    BY <1>22, <1>i DEF Stop, Sets
  <2> QED
    BY <1>22, <2>1, <1>r, <1>k, <1>v, <1>m DEF Stop
<1>23. ASSUME NEW s \in Ids, NEW r \in Runtimes, Cut(s, r) PROVE Basic'
  <2>1. s \in 1 .. made
    BY <1>23, <1>i, <1>t DEF Cut, Served, Serving
  <2>2. Sets'
    BY <1>23, <2>1, <1>i DEF Cut, Sets
  <2>3. Reqs'
    <3>1. CASE UNCHANGED call
      BY <1>23, <3>1, <1>k DEF Cut
    <3>2. CASE call' = [i \in Slots |->
                           IF call[i].on = s /\ call[i].st = "ok"
                           THEN [call[i] EXCEPT !.old = TRUE] ELSE call[i]]
      <4>1. \A i \in Slots : [call[i] EXCEPT !.old = TRUE] \in MadeCalls /\ call[i] \in MadeCalls
        BY <1>i DEF Reqs, MadeCalls
      <4>2. MadeCalls' = MadeCalls
        BY <1>23 DEF Cut, MadeCalls
      <4> QED
        BY <3>2, <4>1, <4>2 DEF Reqs
    <3> QED
      BY <1>23, <3>1, <3>2 DEF Cut
  <2>4. Counts'
    BY <1>23, <1>i, <1>t DEF Cut, Counts, Within
  <2>5. Served'
    BY <1>23, <1>w DEF Cut
  <2> QED
    BY <1>23, <2>2, <2>3, <2>4, <2>5, <1>i, <1>q DEF Cut, Seqs, Said, MadeEvents
<1> QED
  BY <1>1, <1>2, <1>3, <1>4, <1>5, <1>7, <1>8, <1>9, <1>10, <1>11,
     <1>12, <1>13, <1>14, <1>15, <1>16, <1>17, <1>18, <1>19, <1>20, <1>21,
     <1>22, <1>23 DEF Next

-----------------------------------------------------------------------------
(* A worker handles one request at a time.                                 *)

Sent(i, s) == call[i].on = s /\ call[i].st = "sent"

OneAtATime ==
    \A s \in Ids :
        IF worker[s][Main] \in Requesting
        THEN \E i \in Slots : \A j \in Slots : Sent(j, s) <=> j = i
        ELSE \A j \in Slots : ~Sent(j, s)

LEMMA OneInit == Init => OneAtATime
BY DEF Init, OneAtATime, Sent, Idle, Requesting

LEMMA OneFrame ==
  ASSUME OneAtATime,
         \A i \in Slots, s \in Ids : Sent(i, s)' <=> Sent(i, s),
         \A s \in Ids : worker'[s][Main] \in Requesting <=> worker[s][Main] \in Requesting
  PROVE  OneAtATime'
BY DEF OneAtATime

LEMMA OneTaken ==
  ASSUME Typing, Basic, OneAtATime, NEW s \in Ids, NEW i \in Slots,
         call[i].on = s, Answered(i, "sent"),
         worker[s][Main] \notin Requesting, Set(s, Main, "call")
  PROVE  OneAtATime'
<1>1. \A t \in Ids : t # s => worker'[t] = worker[t]
  BY DEF Set, Typing
<1>2. \A j \in Slots, t \in Ids : j # i \/ t # s => (Sent(j, t)' <=> Sent(j, t))
  BY DEF Answered, Sent, Basic, MadeCalls
<1>3. Sent(i, s)' /\ worker'[s][Main] = "call"
  BY DEF Answered, Sent, Basic, MadeCalls, Set, Typing
<1>4. \A j \in Slots : ~Sent(j, s)
  BY DEF OneAtATime
<1> QED
  BY <1>1, <1>2, <1>3, <1>4 DEF OneAtATime, Requesting

LEMMA OneDone ==
  ASSUME Typing, Basic, OneAtATime, NEW s \in Ids, NEW i \in Slots,
         NEW st \in {"ok", "failed"}, Sent(i, s), Answered(i, st),
         worker[s][Main] \in Requesting, Set(s, Main, "loop")
  PROVE  OneAtATime'
<1>1. \A t \in Ids : t # s => worker'[t] = worker[t]
  BY DEF Set, Typing
<1>2. \A j \in Slots, t \in Ids : j # i => (Sent(j, t)' <=> Sent(j, t))
  BY DEF Answered, Sent, Basic, MadeCalls
<1>3. \A t \in Ids : ~Sent(i, t)'
  BY DEF Answered, Sent, Basic, MadeCalls
<1>4. worker'[s][Main] = "loop"
  BY DEF Set, Typing
<1>5. \A j \in Slots : j # i => ~Sent(j, s)
  BY DEF OneAtATime
<1>6. \A j \in Slots : ~Sent(j, s)'
  BY <1>2, <1>3, <1>5
<1>7. \A t \in Ids : t # s => ~Sent(i, t)
  BY DEF Sent
<1>8. \A j \in Slots, t \in Ids : t # s => (Sent(j, t)' <=> Sent(j, t))
  BY <1>2, <1>3, <1>7
<1> QED
  BY <1>1, <1>4, <1>6, <1>8 DEF OneAtATime, Requesting

LEMMA OneStep == Typing /\ Basic /\ OneAtATime /\ [Next]_vars => OneAtATime'
<1> SUFFICES ASSUME Typing, Basic, OneAtATime, [Next]_vars PROVE OneAtATime'
  OBVIOUS
<1> USE DEF map, watch, net, store, marks
<1>a. ASSUME worker' = worker, call' = call PROVE OneAtATime'
  BY <1>a, OneFrame DEF Sent
<1>b. ASSUME NEW s \in Ids, NEW r \in Runtimes, NEW w \in Pcs, Set(s, r, w),
             r = Main => (w \in Requesting <=> worker[s][r] \in Requesting),
             \A i \in Slots, t \in Ids : Sent(i, t)' <=> Sent(i, t)
      PROVE  OneAtATime'
  <2>1. \A t \in Ids : worker'[t][Main] \in Requesting <=> worker[t][Main] \in Requesting
    BY <1>b DEF Set, Typing
  <2> QED
    BY <1>b, <2>1, OneFrame
<1>m. Main \in Runtimes /\ {"loop", "call", "retry", "recall", "idle", "gone"} \subseteq Pcs
  BY DEF Pcs
<1>r. ASSUME Request PROVE \A i \in Slots, s \in Ids : Sent(i, s)' <=> Sent(i, s)
  <2>1. CASE UNCHANGED call
    BY <2>1 DEF Sent
  <2>2. ASSUME NEW i \in Slots, call[i] = Idle,
               call' = [call EXCEPT ![i] = Requested(current)]
        PROVE  \A j \in Slots, s \in Ids : Sent(j, s)' <=> Sent(j, s)
    <3>1. Requested(current).st # "sent" /\ Idle.st # "sent"
      BY DEF Requested, Idle
    <3>2. \A j \in Slots : call'[j] = IF j = i THEN Requested(current) ELSE call[j]
      BY <2>2 DEF Basic
    <3> QED
      BY <2>2, <3>1, <3>2 DEF Sent
  <2> QED
    BY <1>r, <2>1, <2>2 DEF Request
<1>1. CASE UNCHANGED vars \/ Reuse
  BY <1>1, <1>a DEF vars, Reuse
<1>2. CASE Connect \/ Disconnect \/ Apply
  BY <1>2, <1>a DEF Connect, Disconnect, Apply
<1>3. ASSUME NEW s \in Ids, ConnectFails(s) \/ ReaderStart(s) \/ ReaderWakes(s)
      PROVE  OneAtATime'
  BY <1>3, <1>a DEF ConnectFails, ReaderStart, ReaderWakes, Look
<1>4. ASSUME NEW s \in Ids, NEW kinds \in SUBSET Runtimes, Attach(s, kinds)
      PROVE  OneAtATime'
  <2>1. worker[s][Main] = "none"
    BY <1>4 DEF Attach, Basic, Serving
  <2>2. worker'[s][Main] \in {"loop", "none"} /\ \A t \in Ids : t # s => worker'[t] = worker[t]
    BY <1>4 DEF Attach, Typing
  <2>3. \A i \in Slots, t \in Ids : Sent(i, t)' <=> Sent(i, t)
    BY <1>4 DEF Attach, Sent
  <2>4. \A t \in Ids : worker'[t][Main] \in Requesting <=> worker[t][Main] \in Requesting
    BY <2>1, <2>2 DEF Requesting
  <2> QED
    BY <2>3, <2>4, OneFrame
<1>5. CASE Open
  BY <1>5, <1>r, OneFrame DEF Open
<1>6. CASE Resubscribe
  BY <1>6, <1>a, <1>r, OneFrame DEF Resubscribe
<1>7. ASSUME NEW i \in Slots, Answer(i) PROVE OneAtATime'
  <2>1. \A j \in Slots, s \in Ids : Sent(j, s)' <=> Sent(j, s)
    BY <1>7 DEF Answer, Sent, Idle, Basic
  <2>2. worker' = worker
    BY <1>7 DEF Answer
  <2> QED
    BY <2>1, <2>2, OneFrame
<1>8. ASSUME NEW s \in Ids, NEW i \in Slots, Take(s, i) PROVE OneAtATime'
  BY <1>8, OneTaken DEF Take, Queued, Requesting
<1>9. ASSUME NEW s \in Ids, NEW i \in Slots,
             Serve(s, i) \/ RetryFails(s, i) \/ BreakAgain(s, i)
      PROVE  OneAtATime'
  BY <1>9, OneDone DEF Serve, RetryFails, BreakAgain, Sent, Requesting
<1>10. ASSUME NEW s \in Ids, Break(s) \/ Retried(s) PROVE OneAtATime'
  <2>1. \A i \in Slots, t \in Ids : Sent(i, t)' <=> Sent(i, t)
    BY <1>10 DEF Break, Retried, Sent
  <2> QED
    BY <1>10, <1>b, <1>m, <2>1 DEF Break, Retried, Requesting
<1>11. ASSUME NEW s \in Ids, NEW r \in Runtimes, Notice(s, r) \/ Revived(s, r) \/ Stop(s, r)
       PROVE  OneAtATime'
  <2>1. \A i \in Slots, t \in Ids : Sent(i, t)' <=> Sent(i, t)
    BY <1>11 DEF Notice, Revived, Stop, Sent
  <2> QED
    BY <1>11, <1>b, <1>m, <2>1 DEF Notice, Revived, Stop, Requesting
<1>12. ASSUME NEW s \in Ids, NEW r \in Runtimes, GivesUp(s, r) PROVE OneAtATime'
  <2>1. \A i \in Slots, t \in Ids : Sent(i, t)' <=> Sent(i, t)
    <3>1. CASE UNCHANGED call
      BY <3>1 DEF Sent
    <3>2. CASE Dropped(s, r)
      BY <3>2 DEF Dropped, Sent, Basic, MadeCalls
    <3> QED
      BY <1>12, <3>1, <3>2 DEF GivesUp
  <2> QED
    BY <1>12, <1>b, <1>m, <2>1 DEF GivesUp, Requesting
<1>13. ASSUME NEW s \in Ids, NEW r \in Runtimes, Cut(s, r) PROVE OneAtATime'
  <2>1. \A i \in Slots, t \in Ids : Sent(i, t)' <=> Sent(i, t)
    BY <1>13 DEF Cut, Sent, Basic, MadeCalls
  <2>2. worker' = worker
    BY <1>13 DEF Cut
  <2> QED
    BY <2>1, <2>2, OneFrame
<1> QED
  BY <1>1, <1>2, <1>3, <1>4, <1>5, <1>6, <1>7, <1>8, <1>9, <1>10, <1>11,
     <1>12, <1>13 DEF Next

TypesInv == Typing /\ Basic /\ Flags /\ OneAtATime

\* TypeOK, with what it says of the requests: a worker handles the one it
\* took, through reconnects and retries, until it answers it.
THEOREM TypesHold == Spec => []TypeOK
<1>1. TypesInv => TypeOK
  <2> SUFFICES ASSUME TypesInv PROVE TypeOK
    OBVIOUS
  <2>1. \A s \in Ids :
          LET held == {i \in Slots : call[i].on = s /\ call[i].st = "sent"} IN
          IF worker[s][Main] \in {"call", "retry", "recall"}
          THEN \E i \in Slots : held = {i}
          ELSE held = {}
    <3> SUFFICES ASSUME NEW s \in Ids
                 PROVE  LET held == {i \in Slots : call[i].on = s /\ call[i].st = "sent"} IN
                        IF worker[s][Main] \in {"call", "retry", "recall"}
                        THEN \E i \in Slots : held = {i}
                        ELSE held = {}
      OBVIOUS
    <3> DEFINE held == {i \in Slots : call[i].on = s /\ call[i].st = "sent"}
    <3>1. CASE worker[s][Main] \in Requesting
      <4>1. PICK i \in Slots : \A j \in Slots : Sent(j, s) <=> j = i
        BY <3>1 DEF TypesInv, OneAtATime
      <4>2. held = {i}
        BY <4>1 DEF Sent
      <4> QED
        BY <3>1, <4>2 DEF Requesting
    <3>2. CASE worker[s][Main] \notin Requesting
      BY <3>2 DEF TypesInv, OneAtATime, Sent, Requesting
    <3> QED
      BY <3>1, <3>2
  <2>2. call \in [Slots -> [on : 0 .. made, st : {"idle", "queued", "sent", "ok",
                                                   "refused", "failed"},
                            old : BOOLEAN]]
    BY DEF TypesInv, Basic, MadeCalls
  <2> QED
    BY <2>1, <2>2 DEF TypesInv, Typing, Basic, Flags, TypeOK, MadeEvents, Pcs, Links
<1>2. Init => TypesInv
  BY TypingInit, BasicInit, FlagsInit, OneInit DEF TypesInv
<1>3. TypesInv /\ [Next]_vars => TypesInv'
  BY TypingStep, BasicStep, FlagsStep, OneStep DEF TypesInv
<1> QED
  BY <1>1, <1>2, <1>3, PTL DEF Spec

-----------------------------------------------------------------------------
(* Who said that the server is Connected.                                  *)

PillInv ==
    shown = "connected" =>
        \/ said.by = "reader" /\ said.on # current
        \/ path = "websocket" /\ current = 0
        \/ current # 0 /\ said.on = current /\ said.by \in {"attach", "reader"}

LEMMA PillInit == Init => PillInv
BY DEF Init, PillInv

LEMMA PillFrame ==
  ASSUME PillInv, path' = path, current' = current,
         \/ UNCHANGED store
         \/ shown' = "disconnected"
  PROVE  PillInv'
BY DEF PillInv, store

LEMMA PillStep == Typing /\ Basic /\ PillInv /\ [Next]_vars => PillInv'
<1> SUFFICES ASSUME Typing, Basic, PillInv, [Next]_vars PROVE PillInv'
  OBVIOUS
<1> USE DEF map, watch, net, marks
<1>r. ASSUME Request PROVE UNCHANGED store \/ shown' = "disconnected"
  BY <1>r DEF Request, Show
<1>1. CASE UNCHANGED vars \/ Reuse
  BY <1>1, PillFrame DEF vars, Reuse, store
<1>2. CASE Connect
  BY <1>2 DEF Connect, PillInv, Typing, store
<1>3. ASSUME NEW s \in Ids, ConnectFails(s) PROVE PillInv'
  BY <1>3, PillFrame DEF ConnectFails, Show
<1>4. ASSUME NEW s \in Ids, NEW kinds \in SUBSET Runtimes, Attach(s, kinds)
      PROVE  PillInv'
  BY <1>4 DEF Attach, PillInv, Ids
<1>5. CASE Disconnect
  BY <1>5 DEF Disconnect, PillInv
<1>6. ASSUME NEW s \in Ids, ReaderStart(s) \/ ReaderWakes(s) PROVE PillInv'
  BY <1>6, PillFrame DEF ReaderStart, ReaderWakes, Look
<1>7. CASE Apply
  <2>1. Head(events).on \in 1 .. made
    <3>1. Head(events) \in MadeEvents
      BY <1>7 DEF Apply, Basic
    <3> QED
      BY <3>1 DEF MadeEvents
  <2> QED
    BY <1>7, <2>1 DEF Apply, Show, PillInv, store, Typing
<1>8. CASE Open
  BY <1>8, <1>r, PillFrame DEF Open
<1>9. CASE Resubscribe
  BY <1>9, <1>r, PillFrame DEF Resubscribe, store
<1>10. ASSUME NEW i \in Slots, Answer(i) PROVE PillInv'
  BY <1>10, PillFrame DEF Answer, MarkDisconnected, Show
<1>11. ASSUME NEW s \in Ids, NEW i \in Slots,
              Take(s, i) \/ Serve(s, i) \/ RetryFails(s, i) \/ BreakAgain(s, i)
       PROVE  PillInv'
  BY <1>11, PillFrame DEF Take, Serve, RetryFails, BreakAgain
<1>12. ASSUME NEW s \in Ids, Break(s) \/ Retried(s) PROVE PillInv'
  BY <1>12, PillFrame DEF Break, Retried
<1>13. ASSUME NEW s \in Ids, NEW r \in Runtimes,
              Notice(s, r) \/ Revived(s, r) \/ GivesUp(s, r) \/ Stop(s, r) \/ Cut(s, r)
       PROVE  PillInv'
  BY <1>13, PillFrame DEF Notice, Revived, GivesUp, Stop, Cut
<1> QED
  BY <1>1, <1>2, <1>3, <1>4, <1>5, <1>6, <1>7, <1>8, <1>9, <1>10, <1>11,
     <1>12, <1>13 DEF Next

\* ConnectedPill: whoever wrote Connected last, a connect, a reader or a
\* report still in the queue, the session it speaks of is Connected, but for
\* the two exceptions of the code.
THEOREM ConnectedMeansConnected == Spec => []ConnectedPill
<1> DEFINE I == Typing /\ Basic /\ CatchInv /\ PillInv
<1>1. I => ConnectedPill
  <2> SUFFICES ASSUME I, AtRest, shown = "connected", current # 0,
                      said.on = current, said.by \in {"attach", "reader"}
               PROVE  health[current] = "connected"
    BY DEF ConnectedPill, PillInv
  <2>1. Quiet(current) /\ events = << >>
    BY DEF AtRest, Quiet
  <2> QED
    BY <2>1 DEF CatchInv, Told
<1>2. Init => I
  BY TypingInit, BasicInit, CatchInit, PillInit
<1>3. I /\ [Next]_vars => I'
  BY TypingStep, BasicStep, CatchStep, PillStep
<1> HIDE DEF I
<1> QED
  BY <1>1, <1>2, <1>3, PTL DEF Spec

-----------------------------------------------------------------------------
(* Between a lost subscription and the resubscribe there is always         *)
(* somebody who will clear the marker: the reader that has yet to see the  *)
(* loss, the reader that saw the session down, or the task it spawned.     *)

Lives(s) == s \in subscribed \/ s \in missed

Shutdowns ==
    /\ current \notin closed
    /\ \A s \in Ids : s \in closed => s <= made /\ s \notin connecting

Remembers ==
    \A s \in Ids : reader[s].on /\ ~unseen[s] =>
        (reader[s].prev <=> health[s] = "connected")

Answers ==
    \A i \in Slots :
        /\ call[i].st # "idle" => call[i].on # 0
        /\ call[i].st = "ok" /\ ~call[i].old =>
              call[i].on \in subscribed \/ call[i].on \in closed

Watched ==
    marker /\ ~overlapped =>
        \/ late
        \/ /\ current # 0
           /\ Lives(current) \/ ~reader[current].prev \/ resubs > 0

MarkInv == Shutdowns /\ Remembers /\ Answers /\ Watched

LEMMA MarkInit == Init => MarkInv
<1> SUFFICES ASSUME Init PROVE MarkInv
  OBVIOUS
<1>1. Shutdowns /\ Remembers /\ Watched
  BY DEF Init, Shutdowns, Remembers, Watched
<1>2. Answers
  BY DEF Init, Idle, Answers
<1> QED
  BY <1>1, <1>2 DEF MarkInv

LEMMA ShutdownsStep ==
  ASSUME Typing, Basic, CatchInv, Shutdowns, [Next]_vars PROVE Shutdowns'
<1> USE DEF map, watch, net, store, marks
<1>a. ASSUME UNCHANGED << current, closed, made, connecting >> PROVE Shutdowns'
  BY <1>a DEF Shutdowns
<1>1. CASE UNCHANGED vars \/ Reuse
  BY <1>1, <1>a DEF vars, Reuse
<1>2. CASE Connect
  <2>1. /\ current' = 0 /\ connecting' = connecting \cup {made'} /\ made' = made + 1
        /\ closed' \subseteq (closed \cup {current}) \ {0}
    BY <1>2 DEF Connect, Shut, Basic
  <2>2. made \in Nat /\ current \notin connecting /\ current <= made
    BY DEF Typing, CatchInv
  <2>3. \A s \in Ids : s \in closed' => s <= made /\ s \notin connecting
    BY <2>1, <2>2 DEF Shutdowns, Ids
  <2>4. 0 \notin closed'
    BY <2>1 DEF Basic
  <2> QED
    BY <2>1, <2>2, <2>3, <2>4 DEF Shutdowns, Ids
<1>3. CASE Disconnect
  <2>1. /\ current' = 0 /\ UNCHANGED << connecting, made >>
        /\ closed' \subseteq (closed \cup {current}) \ {0}
    BY <1>3 DEF Disconnect, Shut, Basic
  <2>2. current \notin connecting /\ current <= made
    BY DEF Typing, CatchInv
  <2>3. 0 \notin closed'
    BY <2>1 DEF Basic
  <2> QED
    BY <2>1, <2>2, <2>3 DEF Shutdowns
<1>4. ASSUME NEW s \in Ids, NEW kinds \in SUBSET Runtimes, Attach(s, kinds)
      PROVE  Shutdowns'
  BY <1>4 DEF Attach, Shutdowns
<1>5. ASSUME NEW s \in Ids, ConnectFails(s) PROVE Shutdowns'
  BY <1>5 DEF ConnectFails, Shutdowns
<1>6. ASSUME NEW s \in Ids, ReaderStart(s) \/ ReaderWakes(s) PROVE Shutdowns'
  BY <1>6, <1>a DEF ReaderStart, ReaderWakes, Look
<1>7. CASE Apply \/ Open \/ Resubscribe \/ \E i \in Slots : Answer(i)
  BY <1>7, <1>a DEF Apply, Open, Resubscribe, Answer
<1>8. ASSUME NEW s \in Ids, NEW i \in Slots,
             Take(s, i) \/ Serve(s, i) \/ RetryFails(s, i) \/ BreakAgain(s, i)
      PROVE  Shutdowns'
  BY <1>8, <1>a DEF Take, Serve, RetryFails, BreakAgain
<1>9. ASSUME NEW s \in Ids, Break(s) \/ Retried(s) PROVE Shutdowns'
  BY <1>9, <1>a DEF Break, Retried
<1>10. ASSUME NEW s \in Ids, NEW r \in Runtimes,
              Notice(s, r) \/ Revived(s, r) \/ GivesUp(s, r) \/ Stop(s, r) \/ Cut(s, r)
       PROVE  Shutdowns'
  BY <1>10, <1>a DEF Notice, Revived, GivesUp, Stop, Cut
<1> QED
  BY <1>1, <1>2, <1>3, <1>4, <1>5, <1>6, <1>7, <1>8, <1>9, <1>10 DEF Next

LEMMA RemembersStep ==
  ASSUME Typing, Remembers, [Next]_vars PROVE Remembers'
<1> USE DEF map, watch, net, store, marks
<1>a. ASSUME UNCHANGED << reader, health, unseen >> PROVE Remembers'
  BY <1>a DEF Remembers
<1>t. ASSUME UNCHANGED reader, NEW s \in Ids, NEW h, Tell(s, h) PROVE Remembers'
  BY <1>t DEF Tell, Remembers, Typing
<1>s. ASSUME UNCHANGED reader,
             IF current = 0 THEN UNCHANGED << health, unseen, closed >>
             ELSE Shut(current)
      PROVE  Remembers'
  <2>1. current # 0 => current \in Ids
    BY DEF Typing, Ids
  <2> QED
    BY <1>s, <1>a, <1>t, <2>1 DEF Shut
<1>1. CASE UNCHANGED vars \/ Reuse
  BY <1>1, <1>a DEF vars, Reuse
<1>2. CASE Connect \/ Disconnect
  BY <1>2, <1>s DEF Connect, Disconnect
<1>3. ASSUME NEW s \in Ids, NEW kinds \in SUBSET Runtimes, Attach(s, kinds)
      PROVE  Remembers'
  BY <1>3, <1>t DEF Attach
<1>4. ASSUME NEW s \in Ids, ConnectFails(s) PROVE Remembers'
  BY <1>4, <1>a DEF ConnectFails
<1>5. ASSUME NEW s \in Ids, ReaderStart(s) PROVE Remembers'
  BY <1>5 DEF ReaderStart, Look, Remembers, Typing
<1>6. ASSUME NEW s \in Ids, ReaderWakes(s) PROVE Remembers'
  BY <1>6 DEF ReaderWakes, Look, Remembers, Typing
<1>7. CASE Apply \/ Open \/ Resubscribe \/ \E i \in Slots : Answer(i)
  BY <1>7, <1>a DEF Apply, Open, Resubscribe, Answer
<1>8. ASSUME NEW s \in Ids, NEW i \in Slots,
             Take(s, i) \/ Serve(s, i) \/ RetryFails(s, i) \/ BreakAgain(s, i)
      PROVE  Remembers'
  BY <1>8, <1>a, <1>t DEF Take, Serve, RetryFails, BreakAgain
<1>9. ASSUME NEW s \in Ids, Break(s) \/ Retried(s) PROVE Remembers'
  BY <1>9, <1>t DEF Break, Retried
<1>10. ASSUME NEW s \in Ids, NEW r \in Runtimes,
              Notice(s, r) \/ Revived(s, r) \/ GivesUp(s, r) \/ Stop(s, r) \/ Cut(s, r)
       PROVE  Remembers'
  BY <1>10, <1>a, <1>t DEF Notice, Revived, GivesUp, Stop, Cut
<1> QED
  BY <1>1, <1>2, <1>3, <1>4, <1>5, <1>6, <1>7, <1>8, <1>9, <1>10 DEF Next

LEMMA AnswersStep ==
  ASSUME Typing, Basic, Answers, [Next]_vars PROVE Answers'
<1> USE DEF map, watch, net, store, marks
<1>a. ASSUME UNCHANGED call, subscribed \subseteq subscribed', closed \subseteq closed'
      PROVE  Answers'
  BY <1>a DEF Answers
<1>c. ASSUME NEW i \in Slots, NEW c,
             call' = [call EXCEPT ![i] = c],
             c.st # "idle" => c.on # 0,
             c.st = "ok" => c.on \in subscribed',
             subscribed \subseteq subscribed', closed \subseteq closed'
      PROVE  Answers'
  BY <1>c DEF Answers, Basic
<1>r. ASSUME Request, UNCHANGED << subscribed, closed >> PROVE Answers'
  <2>1. CASE UNCHANGED call
    BY <2>1, <1>r, <1>a
  <2>2. ASSUME current # 0, NEW i \in Slots,
               call' = [call EXCEPT ![i] = Requested(current)]
        PROVE  Answers'
    <3>1. Requested(current).on = current /\ Requested(current).st # "ok"
      BY DEF Requested
    <3> QED
      BY <2>2, <3>1, <1>r, <1>c
  <2> QED
    BY <1>r, <2>1, <2>2 DEF Request
<1>e. ASSUME NEW i \in Slots, NEW st \in {"sent", "failed"}, Answered(i, st),
             call[i].st # "idle", UNCHANGED << subscribed, closed >>
      PROVE  Answers'
  BY <1>e DEF Answered, Answers, Basic, MadeCalls
<1>1. CASE UNCHANGED vars \/ Reuse
  BY <1>1, <1>a DEF vars, Reuse
<1>2. CASE Connect \/ Disconnect
  <2>1. closed \subseteq closed'
    BY <1>2, ShutOut DEF Connect, Disconnect
  <2> QED
    BY <1>2, <2>1, <1>a DEF Connect, Disconnect
<1>3. ASSUME NEW s \in Ids,
             ConnectFails(s) \/ \E kinds \in SUBSET Runtimes : Attach(s, kinds)
      PROVE  Answers'
  BY <1>3, <1>a DEF ConnectFails, Attach
<1>4. ASSUME NEW s \in Ids, ReaderStart(s) \/ ReaderWakes(s) PROVE Answers'
  BY <1>4, <1>a DEF ReaderStart, ReaderWakes, Look
<1>5. CASE Apply
  BY <1>5, <1>a DEF Apply
<1>6. CASE Open \/ Resubscribe
  BY <1>6, <1>a, <1>r DEF Open, Resubscribe
<1>7. ASSUME NEW i \in Slots, Answer(i) PROVE Answers'
  <2>1. Idle.st = "idle"
    BY DEF Idle
  <2> QED
    BY <1>7, <2>1, <1>c DEF Answer
<1>8. ASSUME NEW s \in Ids, NEW i \in Slots,
             Take(s, i) \/ RetryFails(s, i) \/ BreakAgain(s, i)
      PROVE  Answers'
  BY <1>8, <1>e DEF Take, Queued, RetryFails, BreakAgain
<1>9. ASSUME NEW s \in Ids, NEW i \in Slots, Serve(s, i) PROVE Answers'
  <2> DEFINE c == [call[i] EXCEPT !.st = "ok"]
  <2>1. /\ call' = [call EXCEPT ![i] = c]
        /\ call[i].on = s /\ subscribed' = subscribed \cup {s} /\ closed' = closed
    BY <1>9 DEF Serve, Answered
  <2>2. c.on = s
    BY <2>1 DEF Basic, MadeCalls
  <2>3. s # 0
    BY DEF Ids
  <2> HIDE DEF c
  <2> QED
    BY <2>1, <2>2, <2>3, <1>c
<1>10. ASSUME NEW s \in Ids, Break(s) \/ Retried(s) PROVE Answers'
  BY <1>10, <1>a DEF Break, Retried
<1>11. ASSUME NEW s \in Ids, NEW r \in Runtimes, Notice(s, r) \/ Revived(s, r)
       PROVE  Answers'
  BY <1>11, <1>a DEF Notice, Revived
<1>12. ASSUME NEW s \in Ids, NEW r \in Runtimes, GivesUp(s, r) PROVE Answers'
  <2>1. UNCHANGED << subscribed, closed >>
    BY <1>12 DEF GivesUp
  <2>2. CASE UNCHANGED call
    BY <2>1, <2>2, <1>a
  <2>3. CASE Dropped(s, r)
    BY <2>1, <2>3 DEF Dropped, Answers, Basic, MadeCalls
  <2> QED
    BY <1>12, <2>2, <2>3 DEF GivesUp
<1>13. ASSUME NEW s \in Ids, NEW r \in Runtimes, Stop(s, r) PROVE Answers'
  BY <1>13 DEF Stop, Answers
<1>14. ASSUME NEW s \in Ids, NEW r \in Runtimes, Cut(s, r) PROVE Answers'
  <2>1. CASE r # Main
    BY <1>14, <2>1, <1>a DEF Cut
  <2>2. CASE r = Main
    <3>1. /\ call' = [i \in Slots |->
                         IF call[i].on = s /\ call[i].st = "ok"
                         THEN [call[i] EXCEPT !.old = TRUE] ELSE call[i]]
          /\ subscribed' = subscribed \ {s} /\ closed' = closed
      BY <1>14, <2>2 DEF Cut
    <3>2. ASSUME NEW i \in Slots
          PROVE  /\ call'[i].on = call[i].on /\ call'[i].st = call[i].st
                 /\ IF call[i].on = s /\ call[i].st = "ok"
                    THEN call'[i].old = TRUE ELSE call'[i] = call[i]
      <4>1. call[i] \in MadeCalls
        BY DEF Basic
      <4>2. CASE call[i].on = s /\ call[i].st = "ok"
        <5>1. call'[i] = [call[i] EXCEPT !.old = TRUE]
          BY <3>1, <4>2
        <5> QED
          BY <4>1, <4>2, <5>1 DEF MadeCalls
      <4>3. CASE ~(call[i].on = s /\ call[i].st = "ok")
        <5>1. call'[i] = call[i]
          BY <3>1, <4>3
        <5> QED
          BY <4>3, <5>1
      <4> QED
        BY <4>2, <4>3
    <3> QED
      BY <3>1, <3>2 DEF Answers
  <2> QED
    BY <2>1, <2>2
<1> QED
  BY <1>1, <1>2, <1>3, <1>4, <1>5, <1>6, <1>7, <1>8, <1>9, <1>10, <1>11,
     <1>12, <1>13, <1>14 DEF Next

LEMMA WatchedStep ==
  ASSUME Typing, Basic, Flags, LeakInv, MarkInv, [Next]_vars PROVE Watched'
<1> USE DEF map, watch, net, store, marks
<1>a. ASSUME UNCHANGED << marker, late, overlapped, current, reader, resubs >>,
             \A s \in Ids : s = current /\ Lives(s) => Lives(s)'
      PROVE  Watched'
  <2>1. current # 0 => current \in Ids
    BY DEF Typing, Ids
  <2> QED
    BY <1>a, <2>1 DEF MarkInv, Watched
<1>b. ASSUME UNCHANGED << marker, late, overlapped, current, reader, resubs >>,
             UNCHANGED << subscribed, missed >>
      PROVE  Watched'
  BY <1>b DEF MarkInv, Watched, Lives
<1>1. CASE UNCHANGED vars \/ Reuse
  BY <1>1, <1>b DEF vars, Reuse
<1>2. CASE Connect \/ Disconnect
  BY <1>2 DEF Connect, Disconnect, ClearMarkers, Watched
<1>3. ASSUME NEW s \in Ids, NEW kinds \in SUBSET Runtimes, Attach(s, kinds)
      PROVE  Watched'
  <2>1. UNCHANGED << marker, late, overlapped >>
    BY <1>3 DEF Attach
  <2>2. ~overlapped => current = 0
    BY <1>3 DEF Attach, LeakInv
  <2> QED
    BY <2>1, <2>2 DEF MarkInv, Watched
<1>4. ASSUME NEW s \in Ids, ConnectFails(s) PROVE Watched'
  BY <1>4, <1>b DEF ConnectFails
<1>5. ASSUME NEW s \in Ids, ReaderStart(s) \/ ReaderWakes(s) PROVE Watched'
  <2>1. CASE ~(\E first \in Seq(Events) : Look(s, first))
    <3>1. << Report(s, "connecting") >> \in Seq(Events) /\ << >> \in Seq(Events)
      BY DEF Report, Events, Healths
    <3> QED
      BY <1>5, <2>1, <3>1 DEF ReaderStart, ReaderWakes
  <2>2. ASSUME NEW first, Look(s, first) PROVE Watched'
    <3>1. /\ current = s /\ current' = s
          /\ UNCHANGED << marker, late, overlapped, subscribed >>
      BY <2>2 DEF Look
    <3>2. CASE health[s] = "connected"
      <4>1. /\ missed' = missed
            /\ resubs' = IF ~reader[s].prev THEN resubs + 1 ELSE resubs
        BY <2>2, <3>2 DEF Look
      <4> QED
        BY <3>1, <4>1 DEF MarkInv, Watched, Lives, Basic
    <3>3. CASE health[s] # "connected"
      <4>1. ~reader'[s].prev
        BY <2>2, <3>3 DEF Look, Typing
      <4>2. s # 0
        BY DEF Ids
      <4> QED
        BY <3>1, <4>1, <4>2 DEF Watched
    <3> QED
      BY <3>2, <3>3
  <2> QED
    BY <2>1, <2>2
<1>6. CASE Apply
  BY <1>6, <1>b DEF Apply
<1>7. CASE Open
  BY <1>7, <1>b DEF Open, ClearMarkers, Watched
<1>8. CASE Resubscribe
  BY <1>8 DEF Resubscribe, ClearMarkers, Watched
<1>9. ASSUME NEW i \in Slots, Answer(i) PROVE Watched'
  <2>1. CASE call[i].st = "failed"
    BY <1>9, <2>1 DEF Answer, MarkDisconnected, ClearMarkers, Watched
  <2>2. CASE call[i].st = "refused"
    BY <1>9, <2>2, <1>b DEF Answer
  <2>3. CASE call[i].st = "ok"
    <3>1. /\ late' = (call[i].old \/ call[i].on # current)
          /\ UNCHANGED << current, subscribed, closed >>
      BY <1>9, <2>3 DEF Answer
    <3>2. ASSUME ~late' PROVE current # 0 /\ Lives(current)
      <4>1. ~call[i].old /\ call[i].on = current
        BY <3>1, <3>2
      <4> QED
        BY <2>3, <4>1 DEF MarkInv, Answers, Shutdowns, Lives
    <3>3. Lives(current) => Lives(current)'
      BY <1>9 DEF Answer, Lives
    <3> QED
      BY <3>1, <3>2, <3>3 DEF Watched
  <2> QED
    BY <1>9, <2>1, <2>2, <2>3 DEF Answer
<1>10. ASSUME NEW s \in Ids, NEW i \in Slots,
              Take(s, i) \/ RetryFails(s, i) \/ BreakAgain(s, i)
       PROVE  Watched'
  BY <1>10, <1>b DEF Take, RetryFails, BreakAgain
<1>11. ASSUME NEW s \in Ids, NEW i \in Slots, Serve(s, i) PROVE Watched'
  BY <1>11, <1>a DEF Serve, Lives
<1>12. ASSUME NEW s \in Ids, Break(s) \/ Retried(s) PROVE Watched'
  BY <1>12, <1>b DEF Break, Retried
<1>13. ASSUME NEW s \in Ids, NEW r \in Runtimes,
              Notice(s, r) \/ Revived(s, r) \/ GivesUp(s, r)
       PROVE  Watched'
  BY <1>13, <1>b DEF Notice, Revived, GivesUp
<1>14. ASSUME NEW s \in Ids, NEW r \in Runtimes, Stop(s, r) PROVE Watched'
  <2>1. s # current
    BY <1>14 DEF Stop, MarkInv, Shutdowns
  <2> QED
    BY <1>14, <2>1, <1>a DEF Stop, Lives
<1>15. ASSUME NEW s \in Ids, NEW r \in Runtimes, Cut(s, r) PROVE Watched'
  BY <1>15, <1>a DEF Cut, Lives
<1> QED
  BY <1>1, <1>2, <1>3, <1>4, <1>5, <1>6, <1>7, <1>8, <1>9, <1>10, <1>11,
     <1>12, <1>13, <1>14, <1>15 DEF Next

\* MarkerMeansSubscribed: through lost connections, replaced sessions and
\* late answers, the marker suppresses a resume only if the live connection
\* has the thread, but for the exceptions of the code.
THEOREM MarkerAlwaysMeansSubscribed == Spec => []MarkerMeansSubscribed
<1> DEFINE I == Typing /\ Basic /\ Flags /\ CatchInv /\ LeakInv /\ MarkInv
<1>1. I => MarkerMeansSubscribed
  <2> SUFFICES ASSUME I, AtRest, marker, ~overlapped, current # 0,
                      health[current] = "connected"
               PROVE  current \in subscribed \/ current \in missed \/ late
    BY DEF MarkerMeansSubscribed
  <2>1. current \in Ids
    BY DEF Typing, Ids
  <2>2. reader[current].prev /\ resubs = 0
    BY <2>1 DEF AtRest, MarkInv, Remembers
  <2> QED
    BY <2>2 DEF MarkInv, Watched, Lives
<1>2. Init => I
  BY TypingInit, BasicInit, FlagsInit, CatchInit, LeakInit, MarkInit
<1>3. I /\ [Next]_vars => I'
  <2> SUFFICES ASSUME I, [Next]_vars PROVE I'
    OBVIOUS
  <2>1. Typing' /\ Basic' /\ Flags' /\ CatchInv' /\ LeakInv'
    BY TypingStep, BasicStep, FlagsStep, CatchStep, LeakStep
  <2>2. MarkInv'
    BY ShutdownsStep, RemembersStep, AnswersStep, WatchedStep DEF MarkInv
  <2> QED
    BY <2>1, <2>2
<1> HIDE DEF I
<1> QED
  BY <1>1, <1>2, <1>3, PTL DEF Spec
=============================================================================
