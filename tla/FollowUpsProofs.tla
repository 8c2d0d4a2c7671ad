--------------------------- MODULE FollowUpsProofs ---------------------------
(***************************************************************************)
(* Proofs about FollowUps, for any messages and bounds: a queued message   *)
(* is kept until the server has it, the server takes it once, the queue    *)
(* never waits for an answer that cannot come, it moves unless something   *)
(* was lost, and no turn that has ended shows once its turns were probed.  *)
(***************************************************************************)
EXTENDS FollowUps, SequenceTheorems, TLAPS

Asking == [via : {"auto", "direct", "inject", "steer"}, msg : Messages, turn : Nat]
Refreshing == [via : {"resume", "probe"}, msg : {None}, turn : Nat]
Asked == [pc : {"asked"}, request : Request, retried : BOOLEAN, answer : {None}]
Taken == [pc : {"taken"}, request : Request, retried : BOOLEAN, answer : Answer]

\* The request is being served.
Carrying == worker.pc \in {"asked", "taken"}

-----------------------------------------------------------------------------
(* Types, and what a request of each kind is.                              *)

\* TypeOK but for the two streams of events.
Typed ==
    /\ active \in 0..MaxSteps
    /\ drafts \subseteq Draft
    /\ dispatch \in Dispatch \cup {None}
    /\ user \in [Messages -> {"new", "busy", "idle", "queued", "sent"}]
    /\ lag \in [scheduled : BOOLEAN, pending : BOOLEAN, busy : BOOLEAN]
    /\ requests \subseteq Request
    /\ worker \in Worker
    /\ answers \subseteq Answer
    /\ link \in {"up", "dead"}
    /\ sub \in BOOLEAN
    /\ turns \in 1..MaxSteps /\ running \in BOOLEAN
    /\ faults \in 0..MaxSteps
    /\ taken \in [Messages -> Nat]
    /\ released \subseteq Messages /\ doubtful \subseteq Messages
    /\ displaced \subseteq Messages
    /\ stranded \in BOOLEAN /\ unrefreshed \in BOOLEAN /\ paginated \in BOOLEAN

Shape ==
    /\ requests \subseteq Asking \cup Refreshing
    /\ \A a \in answers : /\ a.request \in Asking \cup Refreshing
                          /\ a.request.via \notin {"direct", "steer"}
    /\ Carrying => worker.request \in Asking \cup Refreshing
    /\ worker.pc = "taken" => /\ worker.answer.request = worker.request
                              /\ worker.answer.result # "transport"

\* Events of a message the server has taken.
Told == {e \in Event : e.msg # None => taken[e.msg] > 0}
Streams == pipe \in Seq(Told) /\ wire \in Seq(Told)

Sound == Typed /\ Shape /\ Streams

LEMMA WorkerTypes ==
  ASSUME Typed
  PROVE  /\ worker.pc \in {"loop", "gone", "asked", "taken"}
         /\ worker.pc = "loop" => worker = Loop
         /\ worker.pc = "gone" => worker = Gone
         /\ worker.pc = "asked" => worker \in Asked
         /\ worker.pc = "taken" => worker \in Taken
<1>1. worker \in {Loop, Gone} \cup Asked \cup Taken
  BY DEF Typed, Worker, Asked, Taken
<1>2. Loop.pc = "loop" /\ Gone.pc = "gone"
  BY DEF Loop, Gone
<1>3. /\ worker \in Asked => worker.pc = "asked"
      /\ worker \in Taken => worker.pc = "taken"
  BY DEF Asked, Taken
<1> QED
  BY <1>1, <1>2, <1>3

LEMMA RequestTypes ==
  /\ Asking \subseteq Request /\ Refreshing \subseteq Request
  /\ \A r \in Asking \cup Refreshing :
        /\ r \in Refreshing <=> r.via \in {"resume", "probe"}
        /\ r \in Refreshing <=> r.msg = None
        /\ r \in Asking <=> r.via \in {"auto", "direct", "inject", "steer"}
        /\ r \in Asking <=> r.msg \in Messages
        /\ r # None
BY NamesAssumption, NoneAssumption DEF Asking, Refreshing, Request, Via

LEMMA Asks ==
  ASSUME NEW via, NEW m, NEW n \in Nat
  PROVE  /\ Ask(via, m, n).via = via /\ Ask(via, m, n).msg = m /\ Ask(via, m, n).turn = n
         /\ via \in {"auto", "direct", "inject", "steer"} /\ m \in Messages
               => Ask(via, m, n) \in Asking
         /\ via \in {"resume", "probe"} /\ m = None => Ask(via, m, n) \in Refreshing
BY DEF Ask, Asking, Refreshing

LEMMA TypeInit == Init => Sound
<1> SUFFICES ASSUME Init PROVE Sound
  OBVIOUS
<1>1. MaxSteps \in Nat \ {0}
  BY BoundsAssumption
<1>2. /\ worker \in Worker /\ user \in [Messages -> {"new", "busy", "idle", "queued", "sent"}]
      /\ lag \in [scheduled : BOOLEAN, pending : BOOLEAN, busy : BOOLEAN]
      /\ taken \in [Messages -> Nat]
  BY DEF Init, Worker
<1>5. /\ active \in 0..MaxSteps /\ turns \in 1..MaxSteps /\ faults \in 0..MaxSteps
      /\ running \in BOOLEAN
  BY <1>1 DEF Init
<1>6. Typed
  BY <1>2, <1>5 DEF Init, Typed
<1>3. Shape
  BY DEF Init, Shape, Loop, Carrying
<1>4. Streams
  BY DEF Init, Streams
<1> QED
  BY <1>3, <1>4, <1>6 DEF Sound

-----------------------------------------------------------------------------
(* The streams of events.                                                  *)

LEMMA TakenGrows ==
  ASSUME Typed, [Next]_vars
  PROVE  /\ taken' \in [Messages -> Nat]
         /\ \A m \in Messages : taken'[m] >= taken[m]
<1>1. taken \in [Messages -> Nat]
  BY DEF Typed
<1>2. taken' = taken \/ Takes(worker.request.msg)
  <2> USE DEF server, vars
  <2>1. CASE UNCHANGED vars
    BY <2>1
  <2>2. CASE UserStep \/ Listen \/ HandleAnswer
    BY <2>2 DEF UserStep, UserSends, UserQueues, UserInjects, UserStarts, UserSteers,
         UserDeletes, Listen, HandleAnswer, AutoSent, AutoRejected, AutoUnconfirmed,
         Injected, Resumed, Probed, RefreshFails
  <2>3. CASE Lag \/ LagRecover \/ LagIdle \/ WorkerStep
    BY <2>3 DEF Lag, LagRecover, LagIdle, WorkerStep, Take, NobodyTakes, Reply, Forward,
         ReconnectIdle, ReconnectRetry, GiveUp, ReconnectFails
  <2>4. CASE Environment
    BY <2>4 DEF Environment, ServeStart, ServeSteer, Reject, ServeRefresh, TurnEnds,
         OthersStart, Cut, Repeat
  <2> QED
    BY <2>1, <2>2, <2>3, <2>4 DEF Next
<1> QED
  BY <1>1, <1>2 DEF Takes

LEMMA ToldGrows ==
  ASSUME taken \in [Messages -> Nat], taken' \in [Messages -> Nat],
         \A m \in Messages : taken'[m] >= taken[m]
  PROVE  Told \subseteq Told'
BY NamesAssumption DEF Told, Event

LEMMA EmittedTold ==
  ASSUME NEW S, wire \in Seq(S), NEW events \in Seq(S), Emitted(events)
  PROVE  wire' \in Seq(S)
<1>1. wire \o events \in Seq(S)
  BY ConcatProperties
<1> QED
  BY <1>1 DEF Emitted

LEMMA PairTold == ASSUME NEW S, NEW a \in S, NEW b \in S PROVE <<a, b>> \in Seq(S)
OBVIOUS
LEMMA OneTold == ASSUME NEW S, NEW a \in S PROVE <<a>> \in Seq(S)
OBVIOUS

LEMMA PartTold ==
  ASSUME NEW S, NEW s \in Seq(S), NEW a \in 1..Len(s) + 1, NEW b \in 0..Len(s)
  PROVE  SubSeq(s, a, b) \in Seq(S)
<1>1. Len(s) \in Nat
  BY LenProperties
<1>2. \A i \in a..b : i \in 1..Len(s)
  BY <1>1
<1>3. \A i \in a..b : s[i] \in S
  BY <1>2, ElementOfSeq
<1> QED
  BY <1>1, <1>3, SubSeqProperties

\* The listener applies an event of one of three kinds.
Applies(e) == ApplyStarted(e) \/ ApplyUserMessage(e) \/ ApplyCompleted(e)
LEMMA ListenApplies ==
  ASSUME Streams, Listen
  PROVE  \E e \in Told : e \in Event /\ Applies(e)
<1>1. pipe # <<>> /\ Head(pipe) \in Told
  BY HeadTailProperties DEF Listen, Streams
<1>2. Head(pipe) \in Event /\ Head(pipe).kind \in {"started", "user", "completed"}
  BY <1>1 DEF Told, Event
<1> QED
  BY <1>1, <1>2 DEF Listen, Applies

LEMMA StreamsStep ==
  ASSUME Sound, [Next]_vars
  PROVE  Streams'
<1> DEFINE S == Told'
<1>1. /\ taken' \in [Messages -> Nat] /\ taken \in [Messages -> Nat]
      /\ \A m \in Messages : taken'[m] >= taken[m]
  BY TakenGrows DEF Sound, Typed
<1>2. Told \subseteq S
  BY <1>1, ToldGrows
<1>3. pipe \in Seq(S) /\ wire \in Seq(S)
  BY <1>2, SeqMonotonic DEF Sound, Streams
<1>4. turns \in 1..MaxSteps /\ MaxSteps \in Nat /\ faults \in 0..MaxSteps
  BY BoundsAssumption DEF Sound, Typed
<1>5. ASSUME NEW kind \in {"started", "user", "completed"}, NEW n \in Turns,
             NEW m \in Messages \cup {None}, m = None \/ taken'[m] > 0
      PROVE  [kind |-> kind, turn |-> n, msg |-> m] \in S
  BY <1>5 DEF Told, Event
<1>6. ASSUME NEW m \in Messages \cup {None}, m = None \/ taken'[m] > 0, Begin(m)
      PROVE  wire' \in Seq(S)
  <2>1. turns + 1 \in Turns
    BY <1>4, <1>6 DEF Begin, Turns
  <2>2. Beginning(turns + 1, m) \in Seq(S)
    BY <1>5, <1>6, <2>1, PairTold DEF Beginning
  <2> QED
    BY <1>3, <1>6, <2>2, EmittedTold DEF Begin
<1>7. turns \in Turns
  BY <1>4 DEF Turns
<1> HIDE DEF S
<1>8. CASE UNCHANGED <<pipe, wire>>
  BY <1>3, <1>8 DEF Streams, S
<1>9. CASE Listen
  BY <1>3, <1>9, HeadTailProperties DEF Listen, net, Streams, S
<1>10. CASE Lag
  <2>1. PICK k \in 1..Len(pipe) : pipe' = SubSeq(pipe, k + 1, Len(pipe))
    BY <1>10 DEF Lag
  <2>2. Len(pipe) \in Nat /\ k + 1 \in 1..Len(pipe) + 1 /\ Len(pipe) \in 0..Len(pipe)
    BY <1>3, LenProperties
  <2>3. pipe' \in Seq(S)
    BY <1>3, <2>1, <2>2, PartTold
  <2> QED
    BY <1>3, <1>10, <2>3 DEF Lag, net, Streams, S
<1>11. CASE Forward
  <2>1. wire # <<>> /\ pipe' = Append(pipe, Head(wire)) /\ wire' = Tail(wire)
    BY <1>11 DEF Forward
  <2>2. Head(wire) \in S /\ Tail(wire) \in Seq(S)
    BY <1>3, <2>1, HeadTailProperties
  <2>3. Append(pipe, Head(wire)) \in Seq(S)
    BY <1>3, <2>2
  <2> QED
    BY <2>1, <2>2, <2>3 DEF Streams, S
<1>12. CASE ReconnectIdle \/ ReconnectRetry
  <2>1. wire' = <<>> /\ UNCHANGED pipe
    BY <1>12 DEF ReconnectIdle, ReconnectRetry, Reconnected
  <2> QED
    BY <1>3, <2>1 DEF Streams, S
<1>13. CASE ServeStart
  <2> DEFINE m == worker.request.msg
  <2>1. worker \in Asked /\ worker.request \in Asking
    BY <1>13, WorkerTypes, RequestTypes
       DEF ServeStart, Served, Sound, Shape, Carrying
  <2>2. m \in Messages
    BY <2>1 DEF Asking
  <2>3. taken'[m] > 0
    BY <1>1, <1>13, <2>2 DEF ServeStart, Takes
  <2>4. CASE Begin(m)
    BY <1>3, <1>6, <1>13, <2>2, <2>3, <2>4 DEF ServeStart, Streams, S
  <2>5. CASE Emitted(<<[kind |-> "user", turn |-> turns, msg |-> m]>>)
    <3>1. <<[kind |-> "user", turn |-> turns, msg |-> m]>> \in Seq(S)
      BY <1>5, <1>7, <2>2, <2>3, OneTold
    <3>2. wire' \in Seq(S)
      BY <1>3, <2>5, <3>1, EmittedTold
    <3> QED
      BY <1>3, <1>13, <3>2 DEF ServeStart, Streams, S
  <2> QED
    BY <1>13, <2>4, <2>5 DEF ServeStart
<1>14. CASE TurnEnds
  <2>1. <<[kind |-> "completed", turn |-> turns, msg |-> None]>> \in Seq(S)
    BY <1>5, <1>7, OneTold
  <2>2. wire' \in Seq(S)
    BY <1>3, <1>14, <2>1, EmittedTold DEF TurnEnds
  <2> QED
    BY <1>3, <1>14, <2>2 DEF TurnEnds, Streams, S
<1>15. CASE OthersStart
  BY <1>3, <1>6, <1>15 DEF OthersStart, Streams, S
<1>16. CASE Cut
  <2>1. PICK k \in 0..Len(wire) : wire' = SubSeq(wire, 1, k)
    BY <1>16 DEF Cut
  <2>2. Len(wire) \in Nat /\ 1 \in 1..Len(wire) + 1
    BY <1>3, LenProperties
  <2>3. wire' \in Seq(S)
    BY <1>3, <2>1, <2>2, PartTold
  <2> QED
    BY <1>3, <1>16, <2>3 DEF Cut, Streams, S
<1>17. CASE Repeat
  <2>1. wire # <<>> /\ wire' = <<Head(wire)>> \o wire /\ UNCHANGED pipe
    BY <1>17 DEF Repeat
  <2>2. <<Head(wire)>> \in Seq(S)
    BY <1>3, <2>1, HeadTailProperties, OneTold
  <2> QED
    BY <1>3, <2>1, <2>2, ConcatProperties DEF Streams, S
<1>18. CASE UserStep \/ HandleAnswer
  BY <1>8, <1>18 DEF UserStep, UserSends, UserQueues, UserInjects, UserStarts, UserSteers,
       UserDeletes, HandleAnswer, AutoSent, AutoRejected, AutoUnconfirmed,
       Injected, Resumed, Probed, RefreshFails, net
<1>19. CASE LagRecover \/ LagIdle \/ Reply \/ GiveUp \/ ReconnectFails
            \/ \E r \in requests : Take(r) \/ NobodyTakes(r)
  BY <1>8, <1>19 DEF LagRecover, LagIdle, Take, NobodyTakes, Reply, GiveUp,
       ReconnectFails, net
<1>20. CASE ServeSteer \/ Reject \/ ServeRefresh
  BY <1>8, <1>20 DEF ServeSteer, Reject, ServeRefresh, net
<1>21. CASE UNCHANGED vars
  BY <1>8, <1>21 DEF vars, net
<1> QED
  BY <1>9, <1>10, <1>11, <1>12, <1>13, <1>14, <1>15, <1>16, <1>17, <1>18, <1>19, <1>20,
     <1>21 DEF Next, WorkerStep, Environment

-----------------------------------------------------------------------------
(* The types of the rest.                                                  *)

LEMMA TypedStep ==
  ASSUME Sound, [Next]_vars
  PROVE  Typed'
<1> USE DEF Sound, history, net, server, rpc, refreshing, thread
<1>1. Typed /\ Shape
  OBVIOUS
<1>2. MaxSteps \in Nat /\ turns \in 1..MaxSteps /\ faults \in 0..MaxSteps
      /\ turns \in Turns /\ active \in 0..MaxSteps
  BY BoundsAssumption DEF Typed, Turns
<1>3. taken' \in [Messages -> Nat]
  BY TakenGrows
<1>4. CASE UNCHANGED vars
  BY <1>4 DEF Typed, vars
<1>5. ASSUME NEW m \in Messages,
             UserSends(m) \/ UserQueues(m) \/ UserInjects(m) \/ UserStarts(m)
      PROVE  Typed'
  <2>1. \A n \in Nat : /\ Ask("inject", m, n) \in Request
                       /\ Ask("direct", m, n) \in Request
    BY Asks, RequestTypes
  <2>2. CASE UserSends(m)
    BY <2>2 DEF Typed, UserSends
  <2>3. CASE UserQueues(m)
    BY <2>3 DEF Typed, UserQueues, Draft
  <2>4. CASE UserInjects(m)
    BY <2>1, <2>4 DEF Typed, UserInjects, Turns
  <2>5. CASE UserStarts(m)
    BY <2>1, <2>5 DEF Typed, UserStarts
  <2> QED
    BY <1>5, <2>2, <2>3, <2>4, <2>5
<1>6. ASSUME NEW m \in Messages, UserSteers(m) \/ UserDeletes(m)
      PROVE  Typed'
  <2>1. \A n \in Nat : Ask("steer", m, n) \in Request
    BY Asks, RequestTypes
  <2>2. CASE UserSteers(m)
    <3>1. drafts' \subseteq Draft
      BY <2>2 DEF Typed, UserSteers, Draft
    <3>2. requests' \subseteq Request
      BY <1>2, <2>1, <2>2 DEF Typed, UserSteers
    <3>3. released' \subseteq Messages /\ doubtful' \subseteq Messages
      BY <2>2 DEF Typed, UserSteers
    <3>4. UNCHANGED <<active, dispatch, user, pipe, refreshing, worker, answers, net, server,
                      faults, displaced, stranded, unrefreshed>>
      BY <2>2 DEF UserSteers
    <3> QED
      BY <3>1, <3>2, <3>3, <3>4 DEF Typed
  <2>3. CASE UserDeletes(m)
    BY <2>3 DEF Typed, UserDeletes, Without
  <2> QED
    BY <1>6, <2>2, <2>3
<1>7. CASE Listen
  <2> PICK e \in Event : Applies(e)
    BY <1>7, ListenApplies
  <2>1. UNCHANGED <<user, refreshing, worker, answers, net, server, faults,
                    released, doubtful, unrefreshed>>
    BY <1>7 DEF Listen
  <2>2. e.turn \in 0..MaxSteps /\ e.turn \in Turns
    BY <1>2 DEF Event, Turns
  <2>3. ASSUME Dequeue(e) PROVE drafts' \subseteq Draft /\ dispatch' \in Dispatch \cup {None}
                               /\ displaced' \subseteq Messages
    <3>1. CASE dispatch = None
      BY <2>3, <3>1 DEF Dequeue, Typed
    <3>2. CASE dispatch # None
      <4>1. dispatch \in Dispatch /\ dispatch.id \in Messages
        BY <3>2 DEF Typed, Dispatch
      <4>2. dispatch' \in Dispatch
        BY <2>3, <3>2, <4>1 DEF Dequeue, Dispatch
      <4>3. drafts' \subseteq Draft
        BY <2>3, <3>2 DEF Dequeue, Typed, Without
      <4>4. displaced' \subseteq Messages
        BY <2>3, <3>2, <4>1 DEF Dequeue, Typed
      <4> QED
        BY <4>2, <4>3, <4>4
    <3> QED
      BY <3>1, <3>2
  <2>4. CASE ApplyStarted(e) \/ ApplyUserMessage(e)
    <3>1. UNCHANGED <<requests, stranded>> /\ active' \in 0..MaxSteps /\ Dequeue(e)
      BY <1>2, <2>2, <2>4 DEF ApplyStarted, ApplyUserMessage
    <3> QED
      BY <2>1, <2>3, <3>1 DEF Typed
  <2>5. CASE ApplyCompleted(e)
    <3>1. active' = 0 /\ UNCHANGED displaced /\ drafts' \subseteq drafts
      BY <2>5 DEF ApplyCompleted
    <3>2. CASE UNCHANGED <<dispatch, requests, stranded>>
      BY <1>2, <2>1, <3>1, <3>2 DEF Typed
    <3>3. CASE \E d \in drafts :
                  /\ dispatch' = [id |-> d.id, after |-> e.turn, awaiting |-> TRUE]
                  /\ requests' = requests \cup {Ask("auto", d.id, 0)}
                  /\ stranded' = FALSE
      <4>1. PICK d \in drafts :
                  /\ dispatch' = [id |-> d.id, after |-> e.turn, awaiting |-> TRUE]
                  /\ requests' = requests \cup {Ask("auto", d.id, 0)}
                  /\ stranded' = FALSE
        BY <3>3
      <4>2. d.id \in Messages
        BY DEF Typed, Draft
      <4>3. dispatch' \in Dispatch /\ Ask("auto", d.id, 0) \in Request
        BY <2>2, <4>1, <4>2, Asks, RequestTypes DEF Dispatch
      <4>4. requests' \subseteq Request /\ stranded' \in BOOLEAN
        BY <4>1, <4>3 DEF Typed
      <4>5. active' \in 0..MaxSteps /\ drafts' \subseteq Draft
        BY <1>2, <3>1 DEF Typed
      <4> QED
        BY <2>1, <3>1, <4>3, <4>4, <4>5 DEF Typed
    <3> QED
      BY <2>5, <3>2, <3>3 DEF ApplyCompleted
  <2> QED
    BY <2>4, <2>5 DEF Applies
<1>8. CASE Lag \/ LagRecover \/ LagIdle
  <2>1. lag' \in [scheduled : BOOLEAN, pending : BOOLEAN, busy : BOOLEAN]
    BY <1>8 DEF Typed, Lag, LagRecover, LagIdle
  <2>2. requests' \subseteq Request
    BY <1>8, Asks, RequestTypes DEF Typed, Lag, LagRecover, LagIdle
  <2>3. faults' \in 0..MaxSteps
    BY <1>2, <1>8 DEF Lag, LagRecover, LagIdle
  <2>4. stranded' = TRUE \/ UNCHANGED stranded
    BY <1>8 DEF Lag, LagRecover, LagIdle
  <2> QED
    BY <1>8, <2>1, <2>2, <2>3, <2>4 DEF Typed, Lag, LagRecover, LagIdle
<1>9. ASSUME NEW a \in answers,
             AutoSent(a) \/ AutoRejected(a) \/ AutoUnconfirmed(a) \/ Injected(a)
      PROVE  Typed'
  <2>1. answers' \subseteq answers
    BY <1>9 DEF AutoSent, AutoRejected, AutoUnconfirmed, Injected, Handle
  <2>2. CASE AutoSent(a) \/ AutoRejected(a) \/ AutoUnconfirmed(a)
    BY <2>1, <2>2 DEF Typed, AutoSent, AutoRejected, AutoUnconfirmed, Dispatch, Without, ForDispatch
  <2>3. CASE Injected(a)
    <3>1. a.request \in Asking
      BY <2>3, RequestTypes DEF Shape, Injected
    <3>2. Ask("direct", a.request.msg, 0) \in Request
      BY <3>1, Asks, RequestTypes DEF Asking
    <3> QED
      BY <2>1, <2>3, <3>2 DEF Typed, Injected
  <2> QED
    BY <1>9, <2>2, <2>3
<1>10. ASSUME NEW a \in answers, Resumed(a) \/ Probed(a) \/ RefreshFails(a)
       PROVE  Typed'
  <2>1. answers' \subseteq answers
    BY <1>10 DEF Resumed, Probed, RefreshFails, Handle
  <2>2. a.turn \in 0..MaxSteps /\ a.request \in Request /\ a.request.turn \in Nat
    BY DEF Typed, Answer, Request
  <2>3. lag \in [scheduled : BOOLEAN, pending : BOOLEAN, busy : BOOLEAN]
    BY DEF Typed
  <2>4. RefreshEnds(a) => lag' \in [scheduled : BOOLEAN, pending : BOOLEAN, busy : BOOLEAN]
    BY <2>3 DEF RefreshEnds
  <2>5. stranded \in BOOLEAN /\ unrefreshed \in BOOLEAN
    BY DEF Typed
  <2>6. ASSUME Refresh(a)
        PROVE  /\ active' \in 0..MaxSteps /\ stranded' \in BOOLEAN /\ unrefreshed' \in BOOLEAN
               /\ lag' \in [scheduled : BOOLEAN, pending : BOOLEAN, busy : BOOLEAN]
    <3>1. active' \in 0..MaxSteps
      BY <1>2, <2>2, <2>6 DEF Refresh, Reconciled
    <3>2. stranded' \in BOOLEAN
      BY <2>5, <2>6 DEF Refresh
    <3>3. unrefreshed' \in BOOLEAN
      BY <2>5, <2>6 DEF Refresh
    <3> QED
      BY <2>4, <2>6, <3>1, <3>2, <3>3 DEF Refresh
  <2>7. CASE Resumed(a)
    <3>1. Ask("probe", None, a.request.turn) \in Request
      BY <2>2, Asks, RequestTypes
    <3> QED
      BY <2>1, <2>6, <2>7, <3>1 DEF Typed, Resumed
  <2>8. CASE Probed(a)
    BY <2>1, <2>6, <2>8 DEF Typed, Probed
  <2>9. CASE RefreshFails(a)
    BY <2>1, <2>4, <2>9 DEF Typed, RefreshFails
  <2> QED
    BY <1>10, <2>7, <2>8, <2>9
<1>11. ASSUME NEW r \in requests, Take(r) \/ NobodyTakes(r)
       PROVE  Typed'
  <2>1. r \in Request
    BY DEF Typed
  <2>2. CASE Take(r)
    <3>1. worker' \in Worker
      BY <2>1, <2>2 DEF Take, Worker, Loop
    <3> QED
      BY <1>2, <2>2, <3>1 DEF Typed, Take
  <2>3. CASE NobodyTakes(r)
    <3>1. Failed(r) \in Answer
      BY <1>2, <2>1 DEF Failed, Answer, Result
    <3>2. answers' \subseteq Answer /\ requests' \subseteq Request
      BY <2>3, <3>1 DEF NobodyTakes, Heard, Typed
    <3> QED
      BY <1>2, <2>3, <3>2 DEF Typed, NobodyTakes
  <2> QED
    BY <1>11, <2>2, <2>3
<1>12. CASE Reply \/ GiveUp
  <2>1. CASE Reply
    <3>1. worker.answer \in Answer
      BY <2>1, WorkerTypes DEF Reply, Taken
    <3>2. answers' \subseteq Answer /\ worker' \in Worker
      BY <2>1, <3>1 DEF Reply, Heard, Typed, Worker
    <3> QED
      BY <2>1, <3>2 DEF Typed, Reply
  <2>2. CASE GiveUp
    <3>1. worker.request \in Asking \cup Refreshing /\ worker.request \in Request
      BY <2>2, RequestTypes DEF GiveUp, Shape, Carrying
    <3>2. Failed(worker.request) \in Answer
      BY <1>2, <3>1 DEF Failed, Answer, Result
    <3>3. answers' \subseteq Answer /\ worker' \in Worker
      BY <2>2, <3>2 DEF GiveUp, Heard, Typed, Worker
    <3>4. doubtful' \subseteq Messages
      BY <2>2, <3>1 DEF GiveUp, InDoubt, Typed, Asking, Refreshing
    <3>5. UNCHANGED <<thread, user, pipe, refreshing, requests, net, server, faults,
                      released, displaced, stranded, unrefreshed>>
      BY <2>2 DEF GiveUp
    <3> QED
      BY <3>3, <3>4, <3>5 DEF Typed
  <2> QED
    BY <1>12, <2>1, <2>2
<1>13. CASE Forward \/ ReconnectFails
  <2>1. worker' \in Worker
    BY <1>13 DEF Typed, Forward, ReconnectFails, Worker
  <2> QED
    BY <1>13, <2>1 DEF Typed, Forward, ReconnectFails
<1>14. CASE ReconnectIdle \/ ReconnectRetry
  <2>1. requests' \subseteq Request
    BY <1>14, Asks, RequestTypes DEF Typed, ReconnectIdle, ReconnectRetry, Resubscribe
  <2>2. link' = "up" /\ sub' = FALSE /\ stranded' \in BOOLEAN
    BY <1>14 DEF ReconnectIdle, ReconnectRetry, Reconnected, Typed
  <2>3. CASE ReconnectIdle
    BY <2>1, <2>2, <2>3 DEF Typed, ReconnectIdle
  <2>4. CASE ReconnectRetry
    <3>1. worker.request \in Asking \cup Refreshing
      BY <2>4 DEF ReconnectRetry, Shape, Carrying
    <3>2. worker' \in Worker
      <4>1. worker \in Asked \cup Taken
        BY <2>4, WorkerTypes DEF ReconnectRetry
      <4>2. worker' \in Asked
        BY <2>4, <4>1 DEF ReconnectRetry, Asked, Taken
      <4> QED
        BY <4>2 DEF Asked, Worker
    <3>3. doubtful' \subseteq Messages
      BY <2>4, <3>1 DEF ReconnectRetry, InDoubt, Typed, Asking, Refreshing
    <3>4. UNCHANGED <<thread, user, pipe, refreshing, answers, server, faults,
                      released, displaced, unrefreshed>>
      BY <2>4 DEF ReconnectRetry
    <3> QED
      BY <2>1, <2>2, <3>2, <3>3, <3>4 DEF Typed
  <2> QED
    BY <1>14, <2>3, <2>4
<1>15. ASSUME NEW result \in Result, NEW n \in 0..MaxSteps, AnswerIs(result, n), Served
       PROVE  worker' \in Worker
  <2>1. worker \in Asked
    BY <1>15, WorkerTypes DEF Served
  <2>2. worker' \in Taken
    BY <1>15, <2>1 DEF AnswerIs, Asked, Taken, Answer
  <2> QED
    BY <2>2 DEF Taken, Worker
<1>16. ASSUME NEW m, Begin(m)
       PROVE  turns' \in 1..MaxSteps /\ running' = TRUE /\ stranded' \in BOOLEAN
  BY <1>2, <1>16 DEF Begin, Emitted, Typed
<1>17. CASE ServeStart
  <2>1. worker' \in Worker
    BY <1>2, <1>15, <1>17 DEF ServeStart, Result
  <2>2. turns' \in 1..MaxSteps /\ running' \in BOOLEAN /\ stranded' \in BOOLEAN
    BY <1>2, <1>16, <1>17 DEF ServeStart, Emitted, Typed
  <2> QED
    BY <1>3, <1>17, <2>1, <2>2 DEF Typed, ServeStart
<1>18. CASE ServeSteer \/ Reject
  <2>1. worker' \in Worker
    BY <1>2, <1>15, <1>18 DEF ServeSteer, Reject, Result
  <2> QED
    BY <1>3, <1>18, <2>1 DEF Typed, ServeSteer, Reject
<1>19. CASE ServeRefresh
  <2>1. worker' \in Worker
    BY <1>2, <1>15, <1>19 DEF ServeRefresh, Result
  <2>2. sub' \in BOOLEAN
    BY <1>19 DEF ServeRefresh, Typed
  <2> QED
    BY <1>19, <2>1, <2>2 DEF Typed, ServeRefresh
<1>20. CASE TurnEnds
  <2>1. stranded' \in BOOLEAN
    BY <1>20 DEF TurnEnds, Emitted, Typed
  <2> QED
    BY <1>20, <2>1 DEF Typed, TurnEnds
<1>21. CASE OthersStart
  BY <1>16, <1>21 DEF Typed, OthersStart
<1>22. CASE Cut
  <2>1. stranded' \in BOOLEAN /\ faults' \in 0..MaxSteps
    BY <1>2, <1>22 DEF Cut, Typed
  <2> QED
    BY <1>22, <2>1 DEF Typed, Cut
<1>23. CASE Repeat
  BY <1>2, <1>23 DEF Typed, Repeat
<1> QED
  BY <1>4, <1>5, <1>6, <1>7, <1>8, <1>9, <1>10, <1>11, <1>12, <1>13, <1>14, <1>17, <1>18,
     <1>19, <1>20, <1>21, <1>22, <1>23
  DEF Next, UserStep, HandleAnswer, WorkerStep, Environment

LEMMA ShapeStep ==
  ASSUME Sound, [Next]_vars
  PROVE  Shape'
<1> USE DEF Sound, Shape, Carrying, rpc
<1>1. CASE UNCHANGED rpc
  BY <1>1
<1>2. ASSUME NEW r \in Asking \cup Refreshing, requests' = requests \cup {r},
             UNCHANGED <<worker, answers>>
      PROVE  Shape'
  BY <1>2
<1>3. CASE UserStep
  <2> SUFFICES ASSUME NEW m \in Messages,
                      \/ UserSends(m) \/ UserQueues(m) \/ UserInjects(m) \/ UserStarts(m)
                      \/ UserSteers(m) \/ UserDeletes(m)
               PROVE  Shape'
    BY <1>3 DEF UserStep
  <2>1. \A n \in Nat : {Ask("inject", m, n), Ask("direct", m, n), Ask("steer", m, n)}
                         \subseteq Asking
    BY Asks
  <2>2. active \in Nat
    BY BoundsAssumption DEF Typed
  <2>3. CASE UserSends(m) \/ UserQueues(m) \/ UserDeletes(m)
    BY <1>1, <2>3 DEF UserSends, UserQueues, UserDeletes
  <2>4. CASE UserInjects(m)
    BY <1>2, <2>1, <2>4 DEF UserInjects, Turns
  <2>5. CASE UserStarts(m)
    BY <1>2, <2>1, <2>5 DEF UserStarts
  <2>6. CASE UserSteers(m)
    BY <1>1, <1>2, <2>1, <2>2, <2>6 DEF UserSteers
  <2> QED
    BY <2>3, <2>4, <2>5, <2>6
<1>4. CASE Listen
  <2>1. CASE UNCHANGED requests
    BY <1>1, <1>4, <2>1 DEF Listen
  <2>2. CASE \E d \in drafts : requests' = requests \cup {Ask("auto", d.id, 0)}
    <3>1. PICK d \in drafts : requests' = requests \cup {Ask("auto", d.id, 0)}
      BY <2>2
    <3>2. Ask("auto", d.id, 0) \in Asking
      BY Asks DEF Typed, Draft
    <3> QED
      BY <1>2, <1>4, <3>1, <3>2 DEF Listen
  <2>3. PICK e \in Event : Applies(e)
    BY <1>4, ListenApplies
  <2> QED
    BY <2>1, <2>2, <2>3 DEF Applies, ApplyStarted, ApplyUserMessage, ApplyCompleted
<1>5. CASE HandleAnswer
  <2> SUFFICES ASSUME NEW a \in answers,
                      \/ AutoSent(a) \/ AutoRejected(a) \/ AutoUnconfirmed(a)
                      \/ Injected(a) \/ Resumed(a) \/ Probed(a) \/ RefreshFails(a)
               PROVE  Shape'
    BY <1>5 DEF HandleAnswer
  <2>1. answers' \subseteq answers /\ UNCHANGED worker
    BY DEF AutoSent, AutoRejected, AutoUnconfirmed, Injected, Resumed, Probed, RefreshFails, Handle
  <2>2. CASE UNCHANGED requests
    BY <2>1, <2>2
  <2>3. CASE requests' = requests \cup {Ask("direct", a.request.msg, 0)} /\ Injected(a)
    <3>1. a.request.msg \in Messages
      BY <2>3, RequestTypes DEF Injected
    <3>2. Ask("direct", a.request.msg, 0) \in Asking
      BY <3>1, Asks
    <3> QED
      BY <2>1, <2>3, <3>2
  <2>4. CASE requests' = requests \cup {Ask("probe", None, a.request.turn)}
    <3>1. Ask("probe", None, a.request.turn) \in Refreshing
      BY Asks DEF Asking, Refreshing
    <3> QED
      BY <2>1, <2>4, <3>1
  <2> QED
    BY <2>2, <2>3, <2>4
    DEF AutoSent, AutoRejected, AutoUnconfirmed, Injected, Resumed, Probed, RefreshFails
<1>6. CASE \E r \in requests : Take(r) \/ NobodyTakes(r)
  <2> PICK r \in requests : Take(r) \/ NobodyTakes(r)
    BY <1>6
  <2>1. CASE Take(r)
    BY <2>1 DEF Take, Loop
  <2>2. CASE NobodyTakes(r)
    <3>1. Failed(r).request = r
      BY DEF Failed
    <3> QED
      BY <2>2, <3>1 DEF NobodyTakes, Heard
  <2> QED
    BY <2>1, <2>2
<1>7. CASE Reply
  BY <1>7 DEF Reply, Loop, Heard
<1>8. CASE GiveUp
  <2>1. Failed(worker.request).request = worker.request
    BY DEF Failed
  <2> QED
    BY <1>8, <2>1 DEF GiveUp, Loop, Heard
<1>9. CASE LagRecover \/ ReconnectIdle
  <2>1. Ask("resume", None, 0) \in Refreshing /\ Ask("resume", None, 1) \in Refreshing
    BY Asks
  <2> QED
    BY <1>2, <1>9, <2>1 DEF LagRecover, ReconnectIdle, Resubscribe
<1>10. CASE ReconnectRetry
  <2>1. Ask("resume", None, 1) \in Refreshing
    BY Asks
  <2>2. worker \in Asked \cup Taken
    BY <1>10, WorkerTypes DEF ReconnectRetry
  <2>3. worker'.pc = "asked" /\ worker'.request = worker.request
    BY <1>10, <2>2 DEF ReconnectRetry, Asked, Taken
  <2> QED
    BY <1>10, <2>1, <2>3 DEF ReconnectRetry, Resubscribe
<1>11. CASE ServeStart \/ ServeSteer \/ Reject \/ ServeRefresh
  <2>1. worker \in Asked
    BY <1>11, WorkerTypes DEF ServeStart, ServeSteer, Reject, ServeRefresh, Served
  <2>2. PICK result \in {"ok", "rejected"} : \E n : AnswerIs(result, n)
    BY <1>11 DEF ServeStart, ServeSteer, Reject, ServeRefresh
  <2>3. /\ worker'.pc = "taken" /\ worker'.request = worker.request
        /\ worker'.answer.request = worker.request /\ worker'.answer.result = result
    BY <2>1, <2>2 DEF AnswerIs, Asked
  <2> QED
    BY <1>11, <2>1, <2>3 DEF ServeStart, ServeSteer, Reject, ServeRefresh, Asked
<1>12. CASE Lag \/ LagIdle \/ Forward \/ TurnEnds \/ OthersStart \/ Cut \/ Repeat
  BY <1>1, <1>12 DEF Lag, LagIdle, Forward, TurnEnds, OthersStart, Cut, Repeat
<1>13. CASE ReconnectFails
  BY <1>13 DEF ReconnectFails, Gone, Loop
<1>14. CASE UNCHANGED vars
  BY <1>1, <1>14 DEF vars
<1> QED
  BY <1>3, <1>4, <1>5, <1>6, <1>7, <1>8, <1>9, <1>10, <1>11, <1>12, <1>13, <1>14
  DEF Next, WorkerStep, Environment

LEMMA SoundHolds == Spec => []Sound
<1>1. Sound /\ [Next]_vars => Sound'
  <2> SUFFICES ASSUME Sound, [Next]_vars PROVE Sound'
    OBVIOUS
  <2>1. Typed' /\ Shape' /\ Streams'
    BY TypedStep, ShapeStep, StreamsStep
  <2> QED
    BY <2>1 DEF Sound
<1> QED
  BY <1>1, TypeInit, PTL DEF Spec

\* TypeOK: every step keeps the types, and a request that is sent again after
\* a reconnect does not keep the answer that was lost.
THEOREM FollowUpsTypes == Spec => []TypeOK
<1>1. Sound => TypeOK
  <2> SUFFICES ASSUME Sound PROVE TypeOK
    OBVIOUS
  <2>1. pipe \in Seq(Event) /\ wire \in Seq(Event)
    BY SeqMonotonic DEF Sound, Streams, Told
  <2>2. turns \in 0..MaxSteps
    BY BoundsAssumption DEF Sound, Typed
  <2> QED
    BY <2>1, <2>2 DEF Sound, Typed, TypeOK
<1> QED
  BY <1>1, SoundHolds, PTL

-----------------------------------------------------------------------------
(* What the user queued is kept.                                           *)

\* A message that was answered with success was taken.
Confirmed ==
    /\ \A a \in answers :
          a.result = "ok" /\ a.request \in Asking => taken[a.request.msg] > 0
    /\ worker.pc = "taken" /\ worker.answer.result = "ok" /\ worker.request \in Asking
          => taken[worker.request.msg] > 0

\* Drafts that a completion may drop were steered by the user.
Steered == \A d \in drafts : d.kind = "PendingSteer" => d.id \in released

Kept == Confirmed /\ Steered /\ QueueKept

LEMMA ConfirmedStep ==
  ASSUME Sound, Confirmed, [Next]_vars
  PROVE  Confirmed'
<1> USE DEF Confirmed, rpc
<1>1. /\ taken \in [Messages -> Nat] /\ taken' \in [Messages -> Nat]
      /\ \A m \in Messages : taken'[m] >= taken[m]
  BY TakenGrows DEF Sound, Typed
<1>2. \A r \in Asking : r.msg \in Messages
  BY DEF Asking
<1>3. ASSUME answers' \subseteq answers, UNCHANGED worker PROVE Confirmed'
  BY <1>1, <1>2, <1>3
<1>4. CASE UserStep \/ Listen \/ HandleAnswer
  <2>1. answers' \subseteq answers /\ UNCHANGED worker
    BY <1>4 DEF UserStep, UserSends, UserQueues, UserInjects, UserStarts, UserSteers,
         UserDeletes, Listen, HandleAnswer, AutoSent, AutoRejected, AutoUnconfirmed,
         Injected, Resumed, Probed, RefreshFails, Handle
  <2> QED
    BY <1>3, <2>1
<1>5. CASE Lag \/ LagRecover \/ LagIdle \/ Forward \/ ReconnectIdle
           \/ TurnEnds \/ OthersStart \/ Cut \/ Repeat \/ UNCHANGED vars
  BY <1>3, <1>5 DEF Lag, LagRecover, LagIdle, Forward, ReconnectIdle, TurnEnds, OthersStart,
       Cut, Repeat, vars
<1>6. CASE \E r \in requests : Take(r) \/ NobodyTakes(r)
  <2>1. PICK r \in requests : Take(r) \/ NobodyTakes(r)
    BY <1>6
  <2>2. CASE Take(r)
    BY <1>1, <1>2, <2>2 DEF Take, Loop
  <2>3. CASE NobodyTakes(r)
    <3>1. Failed(r).result = "transport"
      BY DEF Failed
    <3> QED
      BY <1>1, <1>2, <2>3, <3>1 DEF NobodyTakes, Heard
  <2> QED
    BY <2>1, <2>2, <2>3
<1>7. CASE Reply
  BY <1>1, <1>2, <1>7 DEF Reply, Heard, Loop, Sound, Shape
<1>8. CASE GiveUp
  <2>1. \A r : Failed(r).result = "transport"
    BY DEF Failed
  <2> QED
    BY <1>1, <1>2, <1>8, <2>1 DEF GiveUp, Heard, Loop
<1>9. CASE ReconnectRetry \/ ReconnectFails
  <2>1. worker'.pc # "taken"
    BY <1>9, WorkerTypes DEF ReconnectRetry, ReconnectFails, Gone, Loop, Sound, Asked, Taken
  <2> QED
    BY <1>1, <1>2, <1>9, <2>1 DEF ReconnectRetry, ReconnectFails
<1>10. CASE ServeStart \/ ServeSteer \/ Reject \/ ServeRefresh
  <2>1. worker \in Asked /\ worker.request \in Asking \cup Refreshing
    BY <1>10, WorkerTypes
    DEF ServeStart, ServeSteer, Reject, ServeRefresh, Served, Sound, Shape, Carrying
  <2>2. UNCHANGED answers
    BY <1>10 DEF ServeStart, ServeSteer, Reject, ServeRefresh
  <2>3. worker'.request = worker.request
    BY <1>10, <2>1 DEF ServeStart, ServeSteer, Reject, ServeRefresh, AnswerIs, Asked
  <2>4. CASE ServeStart \/ ServeSteer
    <3>1. worker.request \in Asking => taken'[worker.request.msg] > 0
      BY <1>1, <1>2, <2>4 DEF ServeStart, ServeSteer, Takes
    <3> QED
      BY <1>1, <1>2, <2>2, <2>3, <3>1
  <2>5. CASE Reject
    <3>1. worker'.answer.result = "rejected"
      BY <2>1, <2>5 DEF Reject, AnswerIs, Asked
    <3> QED
      BY <1>1, <1>2, <2>2, <3>1
  <2>6. CASE ServeRefresh
    <3>1. worker.request \notin Asking
      BY <2>1, <2>6, RequestTypes DEF ServeRefresh
    <3> QED
      BY <1>1, <1>2, <2>2, <2>3, <3>1
  <2> QED
    BY <1>10, <2>4, <2>5, <2>6
<1> QED
  BY <1>4, <1>5, <1>6, <1>7, <1>8, <1>9, <1>10 DEF Next, WorkerStep, Environment

LEMMA QuietQueue ==
  ASSUME Sound, Steered, QueueKept, [Next]_vars,
         UNCHANGED <<drafts, user, released, displaced>>
  PROVE  Steered' /\ QueueKept'
<1>1. \A m \in Messages : taken[m] > 0 => taken'[m] > 0
  BY TakenGrows DEF Sound, Typed
<1> QED
  BY <1>1 DEF Steered, QueueKept, Queued

LEMMA KeptStep ==
  ASSUME Sound, Kept, [Next]_vars
  PROVE  Kept'
<1> USE DEF history, net, server, thread, refreshing
<1>1. Confirmed'
  BY ConfirmedStep DEF Kept
<1>2. \A m \in Messages : taken[m] > 0 => taken'[m] > 0
  BY TakenGrows DEF Sound, Typed
<1>3. user \in [Messages -> {"new", "busy", "idle", "queued", "sent"}]
      /\ drafts \subseteq Draft
  BY DEF Sound, Typed
<1>4. SUFFICES Steered' /\ QueueKept'
  BY <1>1 DEF Kept
<1>5. CASE UNCHANGED <<drafts, user, released, displaced>>
  BY <1>5, QuietQueue DEF Kept
<1>6. ASSUME NEW m \in Messages,
             UserSends(m) \/ UserQueues(m) \/ UserInjects(m) \/ UserStarts(m)
      PROVE  Steered' /\ QueueKept'
  <2>1. /\ UNCHANGED <<released, displaced, taken>>
        /\ user'[m] = "queued" => UserQueues(m)
        /\ \A n \in Messages \ {m} : user'[n] = user[n]
        /\ drafts \subseteq drafts'
    BY <1>3, <1>6 DEF UserSends, UserQueues, UserInjects, UserStarts
  <2>2. Steered'
    BY <1>6, <2>1 DEF UserSends, UserQueues, UserInjects, UserStarts, Steered, Kept
  <2>3. ASSUME UserQueues(m) PROVE Queued(m)'
    <3>1. PICK p \in Places :
              drafts' = drafts \cup {[id |-> m, kind |-> "Message", at |-> p]}
      BY <2>3 DEF UserQueues
    <3>2. PICK d : d = [id |-> m, kind |-> "Message", at |-> p]
      OBVIOUS
    <3>3. d \in drafts' /\ d.id = m
      BY <3>1, <3>2
    <3> QED
      BY <3>3 DEF Queued
  <2> QED
    BY <2>1, <2>2, <2>3 DEF QueueKept, Queued, Kept
<1>7. ASSUME NEW m \in Messages, UserSteers(m)
      PROVE  Steered' /\ QueueKept'
  <2>1. PICK d \in drafts : /\ d.id = m
              /\ drafts' = (drafts \ {d}) \cup {[d EXCEPT !.kind = "PendingSteer"]}
    BY <1>7 DEF UserSteers
  <2>2. [d EXCEPT !.kind = "PendingSteer"].id = m
    BY <1>3, <2>1 DEF Draft
  <2>3. released' = released \cup {m} /\ UNCHANGED <<user, displaced, taken>>
    BY <1>7 DEF UserSteers
  <2> QED
    BY <2>1, <2>2, <2>3 DEF Steered, QueueKept, Queued, Kept
<1>8. ASSUME NEW m \in Messages, UserDeletes(m)
      PROVE  Steered' /\ QueueKept'
  BY <1>8 DEF UserDeletes, Without, Steered, QueueKept, Queued, Kept
<1>9. CASE Listen
  <2> PICK e \in Told : Applies(e)
    BY <1>9, ListenApplies DEF Sound
  <2>1. UNCHANGED <<user, released, taken>>
    BY <1>9 DEF Listen
  <2>2. e.msg # None => taken[e.msg] > 0
    BY DEF Told
  <2>3. CASE Dequeue(e)
    <3>1. CASE dispatch = None
      BY <2>1, <2>3, <3>1 DEF Dequeue, Steered, QueueKept, Queued, Kept
    <3>2. CASE dispatch # None
      <4>1. dispatch.id \in Messages
        BY <3>2 DEF Sound, Typed, Dispatch
      <4>2. Steered'
        BY <2>1, <2>3, <3>2 DEF Dequeue, Without, Steered, Kept
      <4>3. ASSUME NEW m \in Messages, user[m] = "queued", m \notin released,
                   m \notin displaced', ~(taken[m] > 0)
            PROVE  Queued(m)'
        <5>1. displaced \subseteq displaced' /\ drafts' = Without(dispatch.id)
          BY <2>3, <3>2 DEF Dequeue
        <5>2. Queued(m)
          BY <4>3, <5>1 DEF QueueKept, Kept
        <5>3. m # dispatch.id
          BY <2>2, <2>3, <3>2, <4>1, <4>3, <5>2, NamesAssumption DEF Dequeue
        <5> QED
          BY <5>1, <5>2, <5>3 DEF Queued, Without
      <4> QED
        BY <2>1, <4>2, <4>3 DEF QueueKept
    <3> QED
      BY <3>1, <3>2
  <2>4. CASE ApplyCompleted(e)
    <3>1. drafts' = {d \in drafts : d.kind # "PendingSteer"} /\ UNCHANGED displaced
      BY <2>4 DEF ApplyCompleted
    <3> QED
      BY <2>1, <3>1 DEF Steered, QueueKept, Queued, Kept
  <2> QED
    BY <2>3, <2>4 DEF Applies, ApplyStarted, ApplyUserMessage
<1>10. ASSUME NEW a \in answers, AutoSent(a)
       PROVE  Steered' /\ QueueKept'
  <2>1. a.request \in Asking
    BY <1>10, RequestTypes DEF AutoSent, Sound, Shape
  <2>2. taken[a.request.msg] > 0
    BY <1>10, <2>1 DEF AutoSent, Confirmed, Kept
  <2> QED
    BY <1>10, <2>2 DEF AutoSent, Without, Steered, QueueKept, Queued, Kept
<1>11. ASSUME NEW a \in answers,
              AutoRejected(a) \/ AutoUnconfirmed(a) \/ Injected(a) \/ Resumed(a)
              \/ Probed(a) \/ RefreshFails(a)
       PROVE  Steered' /\ QueueKept'
  BY <1>5, <1>11 DEF AutoRejected, AutoUnconfirmed, Injected, Resumed, Probed, RefreshFails
<1>12. CASE Lag \/ LagRecover \/ LagIdle \/ WorkerStep
  BY <1>5, <1>12 DEF Lag, LagRecover, LagIdle, WorkerStep, Take, NobodyTakes, Reply, Forward,
       ReconnectIdle, ReconnectRetry, GiveUp, ReconnectFails
<1>13. CASE Environment
  BY <1>5, <1>13 DEF Environment, ServeStart, ServeSteer, Reject, ServeRefresh, TurnEnds,
       OthersStart, Cut, Repeat
<1>14. CASE UNCHANGED vars
  BY <1>5, <1>14 DEF vars
<1> QED
  BY <1>6, <1>7, <1>8, <1>9, <1>10, <1>11, <1>12, <1>13, <1>14
  DEF Next, UserStep, HandleAnswer

\* QueueKept: no rejected or lost request, no order of events and no refresh
\* takes a draft from the queue before the server has taken the message.
THEOREM QueueAlwaysKept == Spec => []QueueKept
<1>1. Init => Kept
  BY DEF Init, Kept, Confirmed, Steered, QueueKept, Loop
<1>2. Sound /\ Kept /\ [Next]_vars => Kept'
  BY KeptStep
<1>3. Kept => QueueKept
  BY DEF Kept
<1> QED
  BY <1>1, <1>2, <1>3, SoundHolds, PTL DEF Spec

-----------------------------------------------------------------------------
(* A dispatch that awaits its answer has a request on the way.             *)

\* The request is waiting, being served, or answered.
OnWay(r) == \/ r \in requests
            \/ Carrying /\ worker.request = r
            \/ \E a \in answers : a.request = r
Awaited == dispatch \in Dispatch /\ dispatch.awaiting
Coming ==
    Awaited => \E r \in Asking : r.via = "auto" /\ r.msg = dispatch.id /\ OnWay(r)

\* Only the store takes the answer of an autosend off the way.
LEMMA WayKept ==
  ASSUME Sound, [Next]_vars, NEW r \in Asking, r.via = "auto", OnWay(r)
  PROVE  \/ OnWay(r)'
         \/ \E a \in answers : /\ a.request = r
                               /\ AutoSent(a) \/ AutoRejected(a) \/ AutoUnconfirmed(a)
<1> USE DEF OnWay, Carrying, rpc
<1>1. ASSUME requests \subseteq requests', answers \subseteq answers', UNCHANGED worker
      PROVE  OnWay(r)'
  BY <1>1
<1>2. CASE UserStep \/ UNCHANGED vars
  BY <1>1, <1>2 DEF UserStep, UserSends, UserQueues, UserInjects, UserStarts, UserSteers,
       UserDeletes, vars
<1>3. CASE Listen
  <2>1. requests \subseteq requests'
    <3>1. PICK e \in Event : Applies(e)
      BY <1>3, ListenApplies DEF Sound
    <3> QED
      BY <3>1 DEF Applies, ApplyStarted, ApplyUserMessage, ApplyCompleted
  <2> QED
    BY <1>1, <1>3, <2>1 DEF Listen
<1>4. CASE HandleAnswer
  <2>1. PICK a \in answers :
            \/ AutoSent(a) \/ AutoRejected(a) \/ AutoUnconfirmed(a)
            \/ Injected(a) \/ Resumed(a) \/ Probed(a) \/ RefreshFails(a)
    BY <1>4 DEF HandleAnswer
  <2>2. requests \subseteq requests' /\ answers' = answers \ {a} /\ UNCHANGED worker
    BY <2>1 DEF AutoSent, AutoRejected, AutoUnconfirmed, Injected, Resumed, Probed,
         RefreshFails, Handle
  <2>3. CASE a.request # r
    BY <2>2, <2>3
  <2>4. CASE a.request = r
    <3>1. AutoSent(a) \/ AutoRejected(a) \/ AutoUnconfirmed(a)
      BY <2>1, <2>4 DEF Injected, Resumed, Probed, RefreshFails
    <3> QED
      BY <2>4, <3>1
  <2> QED
    BY <2>3, <2>4
<1>5. ASSUME NEW q \in requests, Take(q) \/ NobodyTakes(q)
      PROVE  OnWay(r)'
  <2>1. CASE Take(q)
    BY <2>1 DEF Take, Loop
  <2>2. CASE NobodyTakes(q)
    <3>1. Failed(q).request = q
      BY DEF Failed
    <3> QED
      BY <2>2, <3>1 DEF NobodyTakes, Heard
  <2> QED
    BY <1>5, <2>1, <2>2
<1>6. CASE Reply
  BY <1>6 DEF Reply, Heard, Loop, Sound, Shape
<1>7. CASE GiveUp
  <2>1. Failed(worker.request).request = worker.request
    BY DEF Failed
  <2> QED
    BY <1>7, <2>1 DEF GiveUp, Heard, Loop
<1>8. CASE ReconnectFails
  BY <1>8 DEF ReconnectFails
<1>9. CASE ReconnectRetry
  <2>1. worker \in Asked \cup Taken
    BY <1>9, WorkerTypes DEF ReconnectRetry, Sound
  <2>2. worker'.pc = "asked" /\ worker'.request = worker.request
    BY <1>9, <2>1 DEF ReconnectRetry, Asked, Taken
  <2> QED
    BY <1>9, <2>2 DEF ReconnectRetry
<1>10. CASE ServeStart \/ ServeSteer \/ Reject \/ ServeRefresh
  <2>1. worker \in Asked
    BY <1>10, WorkerTypes DEF ServeStart, ServeSteer, Reject, ServeRefresh, Served, Sound
  <2>2. worker'.pc = "taken" /\ worker'.request = worker.request
    BY <1>10, <2>1 DEF ServeStart, ServeSteer, Reject, ServeRefresh, AnswerIs, Asked
  <2> QED
    BY <1>10, <2>2 DEF ServeStart, ServeSteer, Reject, ServeRefresh
<1>11. CASE Lag \/ LagRecover \/ LagIdle \/ Forward \/ ReconnectIdle
            \/ TurnEnds \/ OthersStart \/ Cut \/ Repeat
  BY <1>1, <1>11 DEF Lag, LagRecover, LagIdle, Forward, ReconnectIdle, TurnEnds, OthersStart,
       Cut, Repeat
<1> QED
  BY <1>2, <1>3, <1>4, <1>5, <1>6, <1>7, <1>8, <1>9, <1>10, <1>11
  DEF Next, WorkerStep, Environment

\* A claim is the one step after which a dispatch starts to await.
LEMMA AwaitedStep ==
  ASSUME Sound, [Next]_vars, Awaited'
  PROVE  \/ UNCHANGED dispatch
         \/ \E d \in drafts : /\ dispatch'.id = d.id
                              /\ requests' = requests \cup {Ask("auto", d.id, 0)}
<1> USE DEF thread
<1>1. dispatch \in Dispatch \cup {None} /\ None \notin Dispatch
  BY NoneAssumption DEF Sound, Typed
<1>2. ASSUME dispatch # None, dispatch' = [dispatch EXCEPT !.awaiting = FALSE]
      PROVE  FALSE
  BY <1>1, <1>2 DEF Awaited, Dispatch
<1>3. CASE Listen
  <2>1. PICK e \in Event : Applies(e)
    BY <1>3, ListenApplies DEF Sound
  <2>2. CASE Dequeue(e)
    BY <1>2, <2>2 DEF Dequeue
  <2>3. CASE ApplyCompleted(e)
    <3>1. CASE \E d \in drafts :
                  /\ dispatch' = [id |-> d.id, after |-> e.turn, awaiting |-> TRUE]
                  /\ requests' = requests \cup {Ask("auto", d.id, 0)}
      BY <3>1
    <3> QED
      BY <2>3, <3>1 DEF ApplyCompleted
  <2> QED
    BY <2>1, <2>2, <2>3 DEF Applies, ApplyStarted, ApplyUserMessage
<1>4. CASE UserStep
  BY <1>4 DEF UserStep, UserSends, UserQueues, UserInjects, UserStarts, UserSteers, UserDeletes
<1>5. CASE HandleAnswer
  BY <1>1, <1>2, <1>5 DEF HandleAnswer, AutoSent, AutoRejected, AutoUnconfirmed, Injected,
       Resumed, Probed, RefreshFails, ForDispatch, Awaited
<1>6. CASE Lag \/ LagRecover \/ LagIdle \/ WorkerStep
  BY <1>6 DEF Lag, LagRecover, LagIdle, WorkerStep, Take, NobodyTakes, Reply, Forward,
       ReconnectIdle, ReconnectRetry, GiveUp, ReconnectFails
<1>7. CASE Environment
  BY <1>7 DEF Environment, ServeStart, ServeSteer, Reject, ServeRefresh, TurnEnds,
       OthersStart, Cut, Repeat
<1> QED
  BY <1>3, <1>4, <1>5, <1>6, <1>7 DEF Next, vars

LEMMA ComingStep ==
  ASSUME Sound, Coming, [Next]_vars
  PROVE  Coming'
<1> SUFFICES ASSUME Awaited'
             PROVE  \E r \in Asking : r.via = "auto" /\ r.msg = dispatch'.id /\ OnWay(r)'
  BY DEF Coming
<1>1. CASE UNCHANGED dispatch
  <2>1. PICK r \in Asking : r.via = "auto" /\ r.msg = dispatch.id /\ OnWay(r)
    BY <1>1 DEF Coming, Awaited
  <2>2. dispatch \in Dispatch /\ dispatch # None /\ dispatch.awaiting
    BY <1>1, NoneAssumption DEF Awaited
  <2>3. ASSUME NEW a \in answers, a.request = r,
               AutoSent(a) \/ AutoRejected(a) \/ AutoUnconfirmed(a)
        PROVE  FALSE
    <3>1. ForDispatch(a.request.msg)
      BY <2>1, <2>2, <2>3 DEF ForDispatch
    <3>2. dispatch' # dispatch
      BY <2>2, <2>3, <3>1 DEF AutoSent, AutoRejected, AutoUnconfirmed, Dispatch
    <3> QED
      BY <1>1, <3>2
  <2> QED
    BY <1>1, <2>1, <2>3, WayKept
<1>2. ASSUME NEW d \in drafts, dispatch'.id = d.id,
             requests' = requests \cup {Ask("auto", d.id, 0)}
      PROVE  \E r \in Asking : r.via = "auto" /\ r.msg = dispatch'.id /\ OnWay(r)'
  <2>1. d.id \in Messages
    BY DEF Sound, Typed, Draft
  <2>2. PICK r : r = Ask("auto", d.id, 0)
    OBVIOUS
  <2>3. r \in Asking /\ r.via = "auto" /\ r.msg = dispatch'.id
    BY <1>2, <2>1, <2>2, Asks
  <2>4. OnWay(r)'
    BY <1>2, <2>2 DEF OnWay
  <2> QED
    BY <2>3, <2>4
<1> QED
  BY <1>1, <1>2, AwaitedStep

\* NoJam: at rest no dispatch still awaits an answer, so the drafts behind it
\* can go.
THEOREM NeverJams == Spec => []NoJam
<1>1. Init => Coming
  BY NoneAssumption DEF Init, Coming, Awaited
<1>2. Sound /\ Coming /\ [Next]_vars => Coming'
  BY ComingStep
<1>3. Sound /\ Coming => NoJam
  <2> SUFFICES ASSUME Sound, Coming, AtRest, dispatch # None, dispatch.awaiting PROVE FALSE
    BY DEF NoJam
  <2>1. Awaited
    BY DEF Awaited, Sound, Typed
  <2>2. ~Carrying
    BY DEF AtRest, Carrying, Loop
  <2> QED
    BY <2>1, <2>2 DEF AtRest, Coming, OnWay
<1> QED
  BY <1>1, <1>2, <1>3, SoundHolds, PTL DEF Spec

-----------------------------------------------------------------------------
(* The server takes a message once.                                        *)

InLine(m) == \E r \in requests : r.msg = m
Carried(m) == Carrying /\ worker.request.msg = m
Answered(m) == \E a \in answers : a.request.msg = m
Flying(m) == InLine(m) \/ Carried(m) \/ Answered(m)

\* The message is on its way and the server has not taken it.
Unserved(m) ==
    \/ InLine(m)
    \/ Carried(m) /\ (worker.pc = "asked" \/ worker.answer.result # "ok")
    \/ \E a \in answers : a.request.msg = m /\ a.result # "ok"

\* It is on its way in one place.
OnePlace(m) ==
    /\ \A r, q \in requests : r.msg = m /\ q.msg = m => r = q
    /\ \A a, b \in answers : a.request.msg = m /\ b.request.msg = m => a = b
    /\ ~(InLine(m) /\ Carried(m)) /\ ~(InLine(m) /\ Answered(m))
    /\ ~(Carried(m) /\ Answered(m))

Unsent == {"new", "busy", "idle"}
Drafted == \A d \in drafts : /\ user[d.id] = "queued"
                             /\ \A e \in drafts : e.id = d.id => e = d

\* A draft that could be claimed is not on its way, or is the one dispatch.
Waiting(m) ==
    \A d \in drafts : d.id = m /\ d.kind = "Message" =>
        /\ ~Flying(m) => taken[m] = 0
        /\ Flying(m) => Awaited /\ dispatch.id = m
        /\ \A r \in Asking : r.msg = m /\ OnWay(r) => r.via = "auto"

Single(m) ==
    /\ taken[m] <= 1 /\ (Unserved(m) => taken[m] = 0)
    /\ OnePlace(m)
    /\ user[m] \in Unsent => taken[m] = 0 /\ ~Flying(m)
    /\ Waiting(m)
Once == Drafted /\ \A m \in Messages \ doubtful : Single(m)

\* The step is about other messages, or only takes drafts of this one away.
Apart(m) ==
    /\ taken'[m] = taken[m]
    /\ user'[m] \in Unsent => user[m] \in Unsent
    /\ \A r : r.msg = m => (r \in requests' <=> r \in requests)
    /\ \A a : a.request.msg = m => (a \in answers' <=> a \in answers)
    /\ Carried(m) => UNCHANGED worker
    /\ ~Carried(m) => ~Carried(m)'
    /\ \A d \in drafts' : d.id = m => d \in drafts
    /\ \A d \in drafts' : d.id = m /\ Awaited /\ dispatch.id = m => UNCHANGED dispatch

LEMMA ApartStep ==
  ASSUME NEW m \in Messages, Single(m), Apart(m)
  PROVE  Single(m)'
<1> USE DEF Apart
<1>1. (InLine(m)' <=> InLine(m)) /\ (Answered(m)' <=> Answered(m))
  BY DEF InLine, Answered
<1>2. Carried(m)' <=> Carried(m)
  BY DEF Carried, Carrying
<1>3. Unserved(m)' => Unserved(m)
  BY <1>1, <1>2 DEF Unserved
<1>4. OnePlace(m)'
  BY <1>1, <1>2 DEF OnePlace, Single
<1>5. Flying(m)' <=> Flying(m)
  BY <1>1, <1>2 DEF Flying
<1>6. \A r \in Asking : r.msg = m /\ OnWay(r)' => OnWay(r)
  BY <1>2 DEF OnWay, Carried, Carrying
<1>7. Waiting(m)'
  BY <1>5, <1>6 DEF Waiting, Single, Awaited
<1> QED
  BY <1>3, <1>4, <1>5, <1>7 DEF Single

\* A message that nobody asks the server to take.
LEMMA Landed ==
  ASSUME NEW m \in Messages, taken'[m] <= 1, ~InLine(m)', ~Carried(m)', ~Answered(m)',
         user'[m] \notin Unsent,
         \A d \in drafts' : d.id = m /\ d.kind = "Message" => taken'[m] = 0
  PROVE  Single(m)'
<1>1. ~Flying(m)' /\ ~Unserved(m)'
  BY DEF Flying, Unserved, InLine, Carried, Answered
<1>2. OnePlace(m)'
  BY DEF OnePlace, InLine, Carried, Answered
<1>3. \A r \in Asking : r.msg = m => ~OnWay(r)'
  BY DEF OnWay, InLine, Carried, Carrying, Answered
<1> QED
  BY <1>1, <1>2, <1>3 DEF Single, Waiting

LEMMA DraftedStep ==
  ASSUME Sound, Drafted, [Next]_vars
  PROVE  Drafted'
<1> USE DEF Drafted, thread, net, server, refreshing
<1>1. user \in [Messages -> Unsent \cup {"queued", "sent"}] /\ drafts \subseteq Draft
      /\ \A d \in drafts : d.id \in Messages
  BY DEF Sound, Typed, Draft, Unsent
<1>2. ASSUME drafts' \subseteq drafts, UNCHANGED user PROVE Drafted'
  BY <1>2
<1>3. ASSUME NEW m \in Messages, UserSends(m) \/ UserInjects(m) \/ UserStarts(m)
      PROVE  Drafted'
  <2>1. user[m] # "queued" /\ UNCHANGED drafts
    BY <1>3 DEF UserSends, UserInjects, UserStarts
  <2>2. \A n \in Messages \ {m} : user'[n] = user[n]
    BY <1>1, <1>3 DEF UserSends, UserInjects, UserStarts
  <2> QED
    BY <1>1, <2>1, <2>2
<1>4. ASSUME NEW m \in Messages, UserQueues(m)
      PROVE  Drafted'
  <2>1. PICK p \in Places :
            drafts' = drafts \cup {[id |-> m, kind |-> "Message", at |-> p]}
    BY <1>4 DEF UserQueues
  <2>2. PICK d : d = [id |-> m, kind |-> "Message", at |-> p]
    OBVIOUS
  <2>3. drafts' = drafts \cup {d} /\ d.id = m
    BY <2>1, <2>2
  <2>4. user[m] # "queued" /\ user'[m] = "queued"
        /\ \A n \in Messages \ {m} : user'[n] = user[n]
    BY <1>1, <1>4 DEF UserQueues
  <2>5. \A e \in drafts : e.id # m
    BY <2>4
  <2> QED
    BY <1>1, <2>3, <2>4, <2>5
<1>5. ASSUME NEW m \in Messages, UserSteers(m)
      PROVE  Drafted'
  <2>1. PICK d \in drafts : /\ d.id = m
              /\ drafts' = (drafts \ {d}) \cup {[d EXCEPT !.kind = "PendingSteer"]}
    BY <1>5 DEF UserSteers
  <2>2. PICK e : e = [d EXCEPT !.kind = "PendingSteer"]
    OBVIOUS
  <2>3. e.id = m
    BY <1>1, <2>1, <2>2 DEF Draft
  <2>4. drafts' = (drafts \ {d}) \cup {e} /\ UNCHANGED user
    BY <1>5, <2>1, <2>2 DEF UserSteers
  <2> QED
    BY <2>1, <2>3, <2>4
<1>6. ASSUME NEW m \in Messages, UserDeletes(m)
      PROVE  Drafted'
  BY <1>2, <1>6 DEF UserDeletes, Without
<1>7. CASE Listen
  <2>1. PICK e \in Told : Applies(e)
    BY <1>7, ListenApplies DEF Sound
  <2>2. drafts' \subseteq drafts
    BY <2>1 DEF Applies, ApplyStarted, ApplyUserMessage, ApplyCompleted, Dequeue, Without
  <2> QED
    BY <1>2, <1>7, <2>2 DEF Listen
<1>8. CASE HandleAnswer
  BY <1>2, <1>8 DEF HandleAnswer, AutoSent, AutoRejected, AutoUnconfirmed, Injected,
       Resumed, Probed, RefreshFails, Without
<1>9. CASE Lag \/ LagRecover \/ LagIdle \/ WorkerStep
  BY <1>2, <1>9 DEF Lag, LagRecover, LagIdle, WorkerStep, Take, NobodyTakes, Reply, Forward,
       ReconnectIdle, ReconnectRetry, GiveUp, ReconnectFails
<1>10. CASE Environment
  BY <1>2, <1>10 DEF Environment, ServeStart, ServeSteer, Reject, ServeRefresh, TurnEnds,
       OthersStart, Cut, Repeat
<1> QED
  BY <1>2, <1>3, <1>4, <1>5, <1>6, <1>7, <1>8, <1>9, <1>10 DEF Next, UserStep, vars

\* The calls of the user.
LEMMA UserSingle ==
  ASSUME Sound, Drafted, NEW n \in Messages,
         \/ UserSends(n) \/ UserQueues(n) \/ UserInjects(n) \/ UserStarts(n)
         \/ UserSteers(n) \/ UserDeletes(n),
         NEW m \in Messages \ doubtful', Single(m)
  PROVE  Single(m)'
<1> USE DEF thread, net, server, refreshing, rpc
<1>1. user \in [Messages -> Unsent \cup {"queued", "sent"}] /\ drafts \subseteq Draft
  BY DEF Sound, Typed, Unsent
<1>2. UNCHANGED <<dispatch, worker, answers, taken>>
  BY DEF UserSends, UserQueues, UserInjects, UserStarts, UserSteers, UserDeletes
<1>3. \A via, k : Ask(via, n, k).msg = n
  BY DEF Ask
<1>4. UNCHANGED Carried(m) /\ UNCHANGED Answered(m)
  BY <1>2 DEF Carried, Carrying, Answered
<1>5. CASE UserSends(n)
  <2>1. user'[m] \in Unsent => user[m] \in Unsent
    BY <1>1, <1>5 DEF UserSends, Unsent
  <2> QED
    BY <1>2, <1>4, <1>5, <2>1, ApartStep DEF Apart, UserSends
<1>6. CASE UserDeletes(n)
  BY <1>2, <1>4, <1>6, ApartStep DEF Apart, UserDeletes, Without
<1>7. CASE m # n /\ ~UserSends(n) /\ ~UserDeletes(n)
  <2>1. user'[m] = user[m]
    BY <1>1, <1>7 DEF UserQueues, UserInjects, UserStarts, UserSteers
  <2>2. \A r : r.msg = m => (r \in requests' <=> r \in requests)
    BY <1>3, <1>7 DEF UserQueues, UserInjects, UserStarts, UserSteers
  <2>3. ASSUME NEW d \in drafts', d.id = m PROVE d \in drafts
    <3>1. CASE UserQueues(n)
      <4>1. PICK p \in Places :
                drafts' = drafts \cup {[id |-> n, kind |-> "Message", at |-> p]}
        BY <3>1 DEF UserQueues
      <4> QED
        BY <1>7, <2>3, <4>1
    <3>2. CASE UserSteers(n)
      <4>1. PICK e \in drafts : /\ e.id = n
                /\ drafts' = (drafts \ {e}) \cup {[e EXCEPT !.kind = "PendingSteer"]}
        BY <3>2 DEF UserSteers
      <4>2. [e EXCEPT !.kind = "PendingSteer"].id = n
        BY <1>1, <4>1 DEF Draft
      <4> QED
        BY <1>7, <2>3, <4>1, <4>2
    <3> QED
      BY <1>7, <2>3, <3>1, <3>2 DEF UserInjects, UserStarts
  <2> QED
    BY <1>2, <1>4, <2>1, <2>2, <2>3, ApartStep DEF Apart
<1>8. CASE m = n /\ UserQueues(n)
  <2>1. user[m] \in Unsent /\ user'[m] \notin Unsent /\ UNCHANGED requests
    BY <1>1, <1>8 DEF UserQueues, Unsent
  <2>2. taken'[m] = 0 /\ ~InLine(m)' /\ ~Carried(m)' /\ ~Answered(m)'
    BY <1>2, <1>4, <2>1 DEF Single, Flying, InLine
  <2> QED
    BY <2>1, <2>2, Landed
<1>9. CASE m = n /\ (UserInjects(n) \/ UserStarts(n))
  <2>1. user[m] \in Unsent /\ user'[m] \notin Unsent /\ UNCHANGED drafts
    BY <1>1, <1>9 DEF UserInjects, UserStarts, Unsent
  <2>2. taken'[m] = 0 /\ ~InLine(m) /\ ~Carried(m)' /\ ~Answered(m)'
    BY <1>2, <1>4, <2>1 DEF Single, Flying
  <2>3. \A d \in drafts' : d.id # m
    BY <2>1 DEF Drafted, Unsent
  <2>4. OnePlace(m)'
    <3>1. PICK q : requests' = requests \cup {q}
      BY <1>9 DEF UserInjects, UserStarts
    <3> QED
      BY <2>2, <3>1 DEF OnePlace, InLine, Answered
  <2> QED
    BY <2>1, <2>2, <2>3, <2>4 DEF Single, Waiting
<1>10. CASE m = n /\ UserSteers(n)
  <2>1. PICK d \in drafts : /\ d.id = m /\ d.kind = "Message"
              /\ drafts' = (drafts \ {d}) \cup {[d EXCEPT !.kind = "PendingSteer"]}
    BY <1>10 DEF UserSteers
  <2>2. ~Flying(m) /\ taken[m] = 0
    <3>1. ~(Awaited /\ dispatch.id = m)
      BY <1>10, NoneAssumption DEF UserSteers, Awaited, ForDispatch
    <3> QED
      BY <2>1, <3>1 DEF Single, Waiting
  <2>3. user[m] = "queued" /\ UNCHANGED user
    BY <1>10, <2>1 DEF Drafted, UserSteers
  <2>4. \A e \in drafts' : e.id = m => e.kind # "Message"
    BY <1>1, <2>1 DEF Drafted, Draft
  <2>5. taken'[m] = 0 /\ ~Carried(m)' /\ ~Answered(m)' /\ ~InLine(m)
    BY <1>2, <1>4, <2>2 DEF Flying
  <2>6. OnePlace(m)'
    <3>1. requests' = requests \/ \E q : requests' = requests \cup {q}
      BY <1>10 DEF UserSteers
    <3> QED
      BY <2>5, <3>1 DEF OnePlace, InLine, Answered
  <2> QED
    BY <2>3, <2>4, <2>5, <2>6 DEF Single, Waiting, Unsent
<1> QED
  BY <1>5, <1>6, <1>7, <1>8, <1>9, <1>10

\* The listener: a draft that is claimed is not on its way.
LEMMA ListenSingle ==
  ASSUME Sound, Drafted, Listen, NEW m \in Messages, Single(m)
  PROVE  Single(m)'
<1> USE DEF net, server, refreshing
<1>1. UNCHANGED <<user, worker, answers, taken>>
  BY DEF Listen
<1>2. UNCHANGED Carried(m) /\ UNCHANGED Answered(m)
  BY <1>1 DEF Carried, Carrying, Answered
<1>3. PICK e \in Told : Applies(e)
  BY ListenApplies DEF Sound
<1>4. drafts' \subseteq drafts
  BY <1>3 DEF Applies, ApplyStarted, ApplyUserMessage, ApplyCompleted, Dequeue, Without
<1>5. ASSUME UNCHANGED requests,
             \A d \in drafts' : d.id = m /\ Awaited /\ dispatch.id = m => UNCHANGED dispatch
      PROVE  Single(m)'
  BY <1>1, <1>2, <1>4, <1>5, ApartStep DEF Apart
<1>6. CASE ApplyStarted(e) \/ ApplyUserMessage(e)
  <2>1. UNCHANGED requests /\ Dequeue(e)
    BY <1>6 DEF ApplyStarted, ApplyUserMessage
  <2>2. UNCHANGED dispatch \/ drafts' = Without(dispatch.id)
    BY <2>1 DEF Dequeue
  <2> QED
    BY <1>5, <2>1, <2>2 DEF Without
<1>7. CASE ApplyCompleted(e)
  <2>1. CASE UNCHANGED <<dispatch, requests, stranded>>
    BY <1>5, <2>1
  <2>2. CASE /\ Claimable({c \in drafts : c.kind # "PendingSteer"}, e.turn)
             /\ \E d \in {c \in drafts : c.kind # "PendingSteer"} :
                    /\ dispatch' = [id |-> d.id, after |-> e.turn, awaiting |-> TRUE]
                    /\ requests' = requests \cup {Ask("auto", d.id, 0)}
    <3>1. ~Awaited
      BY <2>2, NoneAssumption DEF Claimable, Awaited
    <3>2. PICK d \in drafts :
              /\ d.kind # "PendingSteer"
              /\ dispatch' = [id |-> d.id, after |-> e.turn, awaiting |-> TRUE]
              /\ requests' = requests \cup {Ask("auto", d.id, 0)}
      BY <2>2
    <3>3. d.kind = "Message" /\ d.id \in Messages
      BY <3>2 DEF Sound, Typed, Draft
    <3>4. PICK q : q = Ask("auto", d.id, 0)
      OBVIOUS
    <3>5. q.msg = d.id /\ q.via = "auto"
      BY <3>4 DEF Ask
    <3>6. CASE m # d.id
      BY <1>1, <1>2, <1>4, <3>1, <3>2, <3>4, <3>5, <3>6, ApartStep DEF Apart
    <3>7. CASE m = d.id
      <4>1. ~Flying(m) /\ taken[m] = 0
        BY <3>1, <3>3, <3>7 DEF Single, Waiting
      <4>2. taken'[m] = 0 /\ ~Carried(m)' /\ ~Answered(m)' /\ ~InLine(m)
        BY <1>1, <1>2, <4>1 DEF Flying
      <4>3. OnePlace(m)'
        BY <3>2, <4>2 DEF OnePlace, InLine, Answered
      <4>4. Awaited' /\ dispatch'.id = m
        <5>1. e.turn \in Turns
          BY DEF Told, Event
        <5>2. dispatch' \in Dispatch
          BY <3>2, <3>3, <5>1 DEF Dispatch
        <5> QED
          BY <3>2, <3>7, <5>2 DEF Awaited
      <4>5. \A r \in Asking : r.msg = m /\ OnWay(r)' => r.via = "auto"
        <5>1. \A r \in Asking : r.msg = m => ~OnWay(r)
          BY <4>1 DEF OnWay, Flying, InLine, Carried, Carrying, Answered
        <5> QED
          BY <1>1, <3>2, <3>4, <3>5, <5>1 DEF OnWay, Carrying
      <4>6. Flying(m)'
        BY <3>2, <3>4, <3>5, <3>7 DEF Flying, InLine
      <4>7. user[m] \notin Unsent
        BY <3>2, <3>7 DEF Drafted, Unsent
      <4> QED
        BY <1>1, <4>2, <4>3, <4>4, <4>5, <4>6, <4>7 DEF Single, Waiting
    <3> QED
      BY <3>6, <3>7
  <2> QED
    BY <1>7, <2>1, <2>2 DEF ApplyCompleted
<1> QED
  BY <1>3, <1>6, <1>7 DEF Applies

\* The answers.
LEMMA AnswerSingle ==
  ASSUME Sound, Drafted, HandleAnswer, NEW m \in Messages, Single(m)
  PROVE  Single(m)'
<1> USE DEF thread, net, server, refreshing
<1>1. PICK a \in answers :
          \/ AutoSent(a) \/ AutoRejected(a) \/ AutoUnconfirmed(a)
          \/ Injected(a) \/ Resumed(a) \/ Probed(a) \/ RefreshFails(a)
  BY DEF HandleAnswer
<1>2. answers' = answers \ {a} /\ UNCHANGED <<user, worker, taken>> /\ drafts' \subseteq drafts
  BY <1>1 DEF AutoSent, AutoRejected, AutoUnconfirmed, Injected, Resumed, Probed, RefreshFails,
       Handle, Without
<1>3. UNCHANGED Carried(m)
  BY <1>2 DEF Carried, Carrying
<1>4. a.request \in Asking \cup Refreshing
  BY DEF Sound, Shape
<1>5. ASSUME a.request.msg # m, \A r : r.msg = m => (r \in requests' <=> r \in requests),
             Awaited /\ dispatch.id = m => UNCHANGED dispatch
      PROVE  Single(m)'
  BY <1>2, <1>3, <1>5, ApartStep DEF Apart
<1>6. ASSUME a.request.msg = m
      PROVE  /\ ~InLine(m) /\ ~Carried(m)' /\ ~Answered(m)'
             /\ user'[m] \notin Unsent /\ taken'[m] <= 1
             /\ a.result # "ok" => taken'[m] = 0
             /\ OnWay(a.request)
  <2>1. Answered(m)
    BY <1>6 DEF Answered
  <2>2. ~InLine(m) /\ ~Carried(m) /\ OnWay(a.request)
    BY <2>1 DEF Single, OnePlace, OnWay
  <2>3. \A b \in answers : b.request.msg = m => b = a
    BY <1>6 DEF Single, OnePlace
  <2>4. ~Answered(m)'
    BY <1>2, <2>3 DEF Answered
  <2>5. user[m] \notin Unsent
    BY <2>1 DEF Single, Flying
  <2>6. a.result # "ok" => taken[m] = 0
    BY <1>6 DEF Single, Unserved
  <2> QED
    BY <1>2, <1>3, <2>2, <2>4, <2>5, <2>6 DEF Single
<1>7. CASE AutoSent(a) \/ AutoRejected(a) \/ AutoUnconfirmed(a)
  <2>1. UNCHANGED requests
    BY <1>7 DEF AutoSent, AutoRejected, AutoUnconfirmed
  <2>2. UNCHANGED dispatch \/ dispatch.id = a.request.msg
    BY <1>7 DEF AutoSent, AutoRejected, AutoUnconfirmed, ForDispatch
  <2>3. CASE a.request.msg # m
    BY <1>5, <2>1, <2>2, <2>3
  <2>4. CASE a.request.msg = m
    <3>1. \A d \in drafts' : d.id = m => taken'[m] = 0
      BY <1>6, <1>7, <2>4 DEF AutoSent, AutoRejected, AutoUnconfirmed, Without
    <3> QED
      BY <1>6, <2>1, <2>4, <3>1, Landed DEF InLine
  <2> QED
    BY <2>3, <2>4
<1>8. CASE Injected(a)
  <2>1. UNCHANGED <<drafts, dispatch>> /\ a.request.via = "inject"
    BY <1>8 DEF Injected
  <2>2. a.request \in Asking
    BY <1>4, <2>1, RequestTypes
  <2>3. PICK q : q = Ask("direct", a.request.msg, 0)
    OBVIOUS
  <2>4. q.msg = a.request.msg
    BY <2>3 DEF Ask
  <2>5. requests' = requests \/ (requests' = requests \cup {q} /\ a.result # "ok")
    BY <1>8, <2>3 DEF Injected
  <2>6. CASE a.request.msg # m
    BY <1>5, <2>1, <2>4, <2>5, <2>6
  <2>7. CASE a.request.msg = m
    <3>1. \A d \in drafts' : d.id = m => d.kind # "Message"
      BY <1>6, <2>1, <2>2, <2>7 DEF Single, Waiting
    <3>2. InLine(m)' => taken'[m] = 0
      BY <1>6, <2>5, <2>7 DEF InLine
    <3>3. OnePlace(m)'
      BY <1>6, <2>5, <2>7 DEF OnePlace, InLine, Answered
    <3>4. Unserved(m)' => taken'[m] = 0
      BY <1>6, <2>7, <3>2 DEF Unserved, InLine, Carried, Answered
    <3> QED
      BY <1>6, <2>7, <3>1, <3>3, <3>4 DEF Single, Waiting
  <2> QED
    BY <2>6, <2>7
<1>9. CASE Resumed(a) \/ Probed(a) \/ RefreshFails(a)
  <2>1. a.request.msg = None
    BY <1>4, <1>9, RequestTypes DEF Resumed, Probed, RefreshFails
  <2>2. \A k : Ask("probe", None, k).msg = None
    BY DEF Ask
  <2>3. m # None
    BY NamesAssumption
  <2>4. \A r : r.msg = m => (r \in requests' <=> r \in requests)
    BY <1>9, <2>2, <2>3 DEF Resumed, Probed, RefreshFails
  <2>5. UNCHANGED dispatch
    BY <1>9 DEF Resumed, Probed, RefreshFails
  <2> QED
    BY <1>5, <2>1, <2>3, <2>4, <2>5
<1> QED
  BY <1>1, <1>7, <1>8, <1>9

\* The worker.
LEMMA WorkerSingle ==
  ASSUME Sound, WorkerStep, NEW m \in Messages \ doubtful', Single(m)
  PROVE  Single(m)'
<1> USE DEF thread, server, refreshing, net
<1>1. UNCHANGED <<user, taken, drafts, dispatch>>
  BY DEF WorkerStep, Take, NobodyTakes, Reply, Forward, ReconnectIdle, ReconnectRetry,
       GiveUp, ReconnectFails
<1>2. m # None
  BY NamesAssumption
<1>3. ASSUME \A r : r.msg = m => (r \in requests' <=> r \in requests),
             \A a : a.request.msg = m => (a \in answers' <=> a \in answers),
             ~Carried(m), ~Carried(m)'
      PROVE  Single(m)'
  BY <1>1, <1>3, ApartStep DEF Apart
<1>4. ASSUME NEW r \in requests, Take(r)
      PROVE  Single(m)'
  <2>1. /\ worker.pc = "loop" /\ worker'.pc = "asked" /\ worker'.request = r
        /\ requests' = requests \ {r} /\ UNCHANGED answers
    BY <1>4 DEF Take, Loop
  <2>2. ~Carried(m) /\ UNCHANGED Answered(m)
    BY <2>1 DEF Carried, Carrying, Answered
  <2>3. CASE r.msg # m
    BY <1>3, <2>1, <2>2, <2>3 DEF Carried
  <2>4. CASE r.msg = m
    <3>1. InLine(m) /\ taken[m] = 0 /\ ~Answered(m)
      BY <2>4 DEF InLine, Single, Unserved, OnePlace
    <3>2. ~InLine(m)'
      BY <2>1, <2>4 DEF InLine, Single, OnePlace
    <3>3. OnePlace(m)'
      BY <2>2, <3>1, <3>2 DEF OnePlace, InLine, Answered
    <3>4. Flying(m) /\ Flying(m)'
      BY <2>1, <2>4, <3>1 DEF Flying, Carried, Carrying
    <3>5. \A q : OnWay(q)' => OnWay(q)
      BY <2>1 DEF OnWay
    <3> QED
      BY <1>1, <3>1, <3>3, <3>4, <3>5 DEF Single, Waiting, Awaited
  <2> QED
    BY <2>3, <2>4
<1>5. ASSUME NEW r \in requests, NobodyTakes(r)
      PROVE  Single(m)'
  <2>1. PICK f : f = Failed(r)
    OBVIOUS
  <2>2. f.request = r /\ f.result = "transport"
    BY <2>1 DEF Failed
  <2>3. /\ requests' = requests \ {r} /\ UNCHANGED worker
        /\ answers' = answers \/ answers' = answers \cup {f}
    BY <1>5, <2>1 DEF NobodyTakes, Heard
  <2>4. worker.pc = "gone" /\ ~Carried(m) /\ ~Carried(m)'
    BY <1>5, <2>3 DEF NobodyTakes, Carried, Carrying
  <2>5. CASE r.msg # m
    BY <1>3, <2>2, <2>3, <2>4, <2>5
  <2>6. CASE r.msg = m
    <3>1. InLine(m) /\ taken[m] = 0 /\ ~Answered(m)
      BY <2>6 DEF InLine, Single, Unserved, OnePlace
    <3>2. ~InLine(m)'
      BY <2>3, <2>6 DEF InLine, Single, OnePlace
    <3>3. OnePlace(m)'
      BY <2>3, <2>4, <3>1, <3>2 DEF OnePlace, InLine, Answered
    <3>4. Flying(m)
      BY <3>1 DEF Flying
    <3>5. \A q : OnWay(q)' => OnWay(q)
      BY <2>2, <2>3, <2>4 DEF OnWay, Carrying
    <3> QED
      BY <1>1, <3>1, <3>3, <3>4, <3>5 DEF Single, Waiting, Awaited
  <2> QED
    BY <2>5, <2>6
<1>6. CASE Reply
  <2>1. PICK f : f = worker.answer
    OBVIOUS
  <2>2. /\ worker.pc = "taken" /\ worker' = Loop /\ UNCHANGED requests
        /\ f.request = worker.request
        /\ answers' = answers \/ answers' = answers \cup {f}
        /\ f.request.via = "auto" => f \in answers'
    BY <1>6, <2>1 DEF Reply, Heard, Sound, Shape
  <2>3. ~Carried(m)'
    BY <2>2 DEF Carried, Carrying, Loop
  <2>4. CASE ~Carried(m)
    <3>1. f.request.msg # m
      BY <2>2, <2>4 DEF Carried, Carrying
    <3> QED
      BY <1>3, <2>2, <2>3, <2>4, <3>1
  <2>5. CASE Carried(m)
    <3>1. f.request.msg = m /\ ~InLine(m) /\ ~InLine(m)' /\ ~Answered(m)
      BY <2>2, <2>5 DEF Carried, Single, OnePlace, InLine
    <3>2. OnePlace(m)'
      BY <2>2, <2>3, <3>1 DEF OnePlace, InLine, Answered
    <3>3. Unserved(m)' => Unserved(m)
      BY <2>1, <2>2, <2>3, <2>5, <3>1 DEF Unserved, Answered, Carried
    <3>4. Flying(m) /\ OnWay(worker.request)
      BY <2>2, <2>5 DEF Flying, OnWay, Carried
    <3>5. \A q : OnWay(q)' => OnWay(q)
      BY <2>2 DEF OnWay, Carrying, Loop
    <3>6. worker.request \in Asking
      BY <1>2, <2>2, <3>1, RequestTypes DEF Sound, Shape, Carrying
    <3>7. ASSUME NEW d \in drafts, d.id = m, d.kind = "Message"
          PROVE  Flying(m)'
      <4>1. f \in answers'
        BY <2>2, <3>1, <3>4, <3>6, <3>7 DEF Single, Waiting
      <4> QED
        BY <3>1, <4>1 DEF Flying, Answered
    <3> QED
      BY <1>1, <3>2, <3>3, <3>4, <3>5, <3>7 DEF Single, Waiting, Awaited
  <2> QED
    BY <2>4, <2>5
<1>7. CASE GiveUp \/ ReconnectRetry
  <2>1. doubtful' = doubtful \cup InDoubt /\ Carrying
    BY <1>7 DEF GiveUp, ReconnectRetry, Carrying
  <2>2. worker.request # None
    BY <2>1, RequestTypes DEF Sound, Shape
  <2>3. worker.request.msg # m
    BY <1>2, <2>1, <2>2 DEF InDoubt
  <2>4. ~Carried(m)
    BY <2>3 DEF Carried
  <2>5. CASE GiveUp
    <3>1. PICK f : f = Failed(worker.request)
      OBVIOUS
    <3>2. f.request = worker.request
      BY <3>1 DEF Failed
    <3>3. /\ worker' = Loop /\ UNCHANGED requests
          /\ answers' = answers \/ answers' = answers \cup {f}
      BY <2>5, <3>1 DEF GiveUp, Heard
    <3> QED
      BY <1>3, <2>3, <2>4, <3>2, <3>3 DEF Carried, Carrying, Loop
  <2>6. CASE ReconnectRetry
    <3>1. worker \in Asked \cup Taken
      BY <2>6, WorkerTypes DEF ReconnectRetry, Sound
    <3>2. worker'.request = worker.request
      BY <2>6, <3>1 DEF ReconnectRetry, Asked, Taken
    <3>3. requests' = requests \cup {Ask("resume", None, 1)} /\ UNCHANGED answers
      BY <2>6 DEF ReconnectRetry, Resubscribe
    <3>4. Ask("resume", None, 1).msg = None
      BY DEF Ask
    <3> QED
      BY <1>2, <1>3, <2>3, <2>4, <3>2, <3>3, <3>4 DEF Carried
  <2> QED
    BY <1>7, <2>5, <2>6
<1>8. CASE Forward \/ ReconnectIdle \/ ReconnectFails
  <2>1. ~Carried(m) /\ UNCHANGED answers
    BY <1>8 DEF Forward, ReconnectIdle, ReconnectFails, Carried, Carrying, rpc
  <2>2. ~Carried(m)'
    BY <1>8, <2>1 DEF Forward, ReconnectIdle, ReconnectFails, Carried, Carrying, rpc, Gone, Loop
  <2>3. \A r : r.msg = m => (r \in requests' <=> r \in requests)
    BY <1>2, <1>8 DEF Forward, ReconnectIdle, ReconnectFails, rpc, Resubscribe, Ask
  <2> QED
    BY <1>3, <2>1, <2>2, <2>3
<1> QED
  BY <1>4, <1>5, <1>6, <1>7, <1>8 DEF WorkerStep

\* The server.
LEMMA ServerSingle ==
  ASSUME Sound, Environment, NEW m \in Messages, Single(m)
  PROVE  Single(m)'
<1> USE DEF thread, server, refreshing, net
<1>1. UNCHANGED <<user, drafts, dispatch, requests, answers>>
  BY DEF Environment, ServeStart, ServeSteer, Reject, ServeRefresh, TurnEnds, OthersStart,
       Cut, Repeat, rpc
<1>2. UNCHANGED InLine(m) /\ UNCHANGED Answered(m)
  BY <1>1 DEF InLine, Answered
<1>3. taken \in [Messages -> Nat]
  BY DEF Sound, Typed
<1>4. CASE TurnEnds \/ OthersStart \/ Cut \/ Repeat
  <2>1. UNCHANGED <<worker, taken>>
    BY <1>4 DEF TurnEnds, OthersStart, Cut, Repeat, rpc
  <2>2. UNCHANGED Carried(m)
    BY <2>1 DEF Carried, Carrying
  <2> QED
    BY <1>1, <2>1, <2>2, ApartStep DEF Apart
<1>5. CASE ServeStart \/ ServeSteer \/ Reject \/ ServeRefresh
  <2>1. worker \in Asked /\ worker.pc = "asked"
    BY <1>5, WorkerTypes DEF ServeStart, ServeSteer, Reject, ServeRefresh, Served, Sound
  <2>2. PICK result : \E n : AnswerIs(result, n)
    BY <1>5 DEF ServeStart, ServeSteer, Reject, ServeRefresh
  <2>3. /\ worker'.pc = "taken" /\ worker'.request = worker.request
        /\ worker'.answer.result = result
    BY <2>1, <2>2 DEF AnswerIs, Asked
  <2>4. UNCHANGED Carried(m) /\ UNCHANGED Flying(m)
    BY <1>2, <2>1, <2>3 DEF Carried, Carrying, Flying
  <2>5. \A q : OnWay(q)' <=> OnWay(q)
    BY <1>1, <2>1, <2>3 DEF OnWay, Carrying
  <2>6. OnePlace(m)'
    BY <1>1, <1>2, <2>4 DEF Single, OnePlace
  <2>7. CASE ~Carried(m)
    <3>1. taken'[m] = taken[m]
      BY <1>3, <1>5, <2>1, <2>7
      DEF ServeStart, ServeSteer, Reject, ServeRefresh, Takes, Carried, Carrying
    <3>2. Unserved(m)' => Unserved(m)
      BY <1>1, <1>2, <2>4, <2>7 DEF Unserved
    <3> QED
      BY <1>1, <2>4, <2>5, <2>6, <3>1, <3>2 DEF Single, Waiting, Awaited
  <2>8. CASE Carried(m)
    <3>1. taken[m] = 0 /\ ~InLine(m) /\ ~Answered(m)
      BY <2>1, <2>8 DEF Single, Unserved, OnePlace
    <3>2. taken'[m] = 0 \/ (taken'[m] = 1 /\ worker'.answer.result = "ok")
      <4>1. CASE ServeStart \/ ServeSteer
        <5>1. taken' = [taken EXCEPT ![m] = @ + 1] /\ AnswerIs("ok", 0)
          BY <2>8, <4>1 DEF ServeStart, ServeSteer, Takes, Carried
        <5>2. worker'.answer.result = "ok"
          BY <2>1, <5>1 DEF AnswerIs, Asked
        <5> QED
          BY <1>3, <3>1, <5>1, <5>2
      <4>2. CASE Reject \/ ServeRefresh
        BY <3>1, <4>2 DEF Reject, ServeRefresh
      <4> QED
        BY <1>5, <4>1, <4>2
    <3>3. Unserved(m)' => taken'[m] = 0
      BY <1>2, <2>3, <3>1, <3>2 DEF Unserved, Answered
    <3>4. Flying(m) /\ user[m] \notin Unsent
      BY <2>8 DEF Single, Flying
    <3> QED
      BY <1>1, <2>4, <2>5, <2>6, <3>2, <3>3, <3>4 DEF Single, Waiting, Awaited
  <2> QED
    BY <2>7, <2>8
<1> QED
  BY <1>4, <1>5 DEF Environment

LEMMA OnceStep ==
  ASSUME Sound, Once, [Next]_vars
  PROVE  Once'
<1>1. Drafted'
  BY DraftedStep DEF Once
<1>2. doubtful \subseteq doubtful'
  BY DEF Next, UserStep, UserSends, UserQueues, UserInjects, UserStarts, UserSteers,
     UserDeletes, Listen, HandleAnswer, AutoSent, AutoRejected, AutoUnconfirmed,
     Injected, Resumed, Probed, RefreshFails, Lag, LagRecover, LagIdle, WorkerStep, Take,
     NobodyTakes, Reply, Forward, ReconnectIdle, ReconnectRetry, GiveUp, ReconnectFails,
     Environment, ServeStart, ServeSteer, Reject, ServeRefresh, TurnEnds, OthersStart, Cut,
     Repeat, vars, history
<1>3. ASSUME NEW m \in Messages \ doubtful'
      PROVE  Single(m)'
  <2>1. Single(m) /\ m \in Messages /\ Drafted
    BY <1>2 DEF Once
  <2>2. ASSUME UNCHANGED <<user, drafts, dispatch, worker, answers, taken>>,
               \A r : r.msg = m => (r \in requests' <=> r \in requests)
        PROVE  Single(m)'
    <3>1. UNCHANGED Carried(m)
      BY <2>2 DEF Carried, Carrying
    <3> QED
      BY <2>1, <2>2, <3>1, ApartStep DEF Apart
  <2>3. CASE UNCHANGED vars \/ Lag \/ LagRecover \/ LagIdle
    <3>1. Ask("resume", None, 0).msg = None /\ m # None
      BY NamesAssumption DEF Ask
    <3> QED
      BY <2>2, <2>3, <3>1 DEF vars, Lag, LagRecover, LagIdle, thread, server, rpc
  <2>4. CASE UserStep
    BY <1>3, <2>1, <2>4, UserSingle DEF UserStep
  <2>5. CASE Listen
    BY <2>1, <2>5, ListenSingle
  <2>6. CASE HandleAnswer
    BY <2>1, <2>6, AnswerSingle
  <2>7. CASE WorkerStep
    BY <1>3, <2>1, <2>7, WorkerSingle
  <2>8. CASE Environment
    BY <2>1, <2>8, ServerSingle
  <2> QED
    BY <2>3, <2>4, <2>5, <2>6, <2>7, <2>8 DEF Next
<1> QED
  BY <1>1, <1>3 DEF Once

\* SentOnce: however events, answers, refreshes, steers and retries meet, the
\* server takes a message once, unless its request was lost with a connection
\* or the user steered it while its autosend was under way.
THEOREM AlwaysSentOnce == Spec => []SentOnce
<1>1. Init => Once
  <2> SUFFICES ASSUME Init PROVE Once
    OBVIOUS
  <2>1. drafts = {} /\ requests = {} /\ answers = {} /\ ~Carrying
    BY DEF Init, Carrying, Loop
  <2>2. ASSUME NEW m \in Messages PROVE taken[m] = 0
    BY DEF Init
  <2> QED
    BY <2>1, <2>2 DEF Once, Drafted, Single, Waiting, OnePlace, Unserved, Flying, InLine,
         Carried, Answered
<1>2. Sound /\ Once /\ [Next]_vars => Once'
  BY OnceStep
<1>3. Once => SentOnce
  BY DEF Once, Single, SentOnce
<1> QED
  BY <1>1, <1>2, <1>3, SoundHolds, PTL DEF Spec

-----------------------------------------------------------------------------
(* The events on their way to the store, in their order.                   *)

Stream == pipe \o wire
Latest(s) == s[Len(s)]

\* The order in which the server emits: turn by turn, and nothing of a turn
\* after its completion.
Precedes(e, f) ==
    /\ e.turn <= f.turn
    /\ e.kind = "completed" /\ f.kind # "completed" => e.turn < f.turn
InOrder(s) == \A i, j \in 1..Len(s) : i <= j => Precedes(s[i], s[j])

\* t is s without some of its events, or with some of them repeated.
Derives(t, s) ==
    \E f \in [1..Len(t) -> 1..Len(s)] :
        /\ \A i \in 1..Len(t) : t[i] = s[f[i]]
        /\ \A i, j \in 1..Len(t) : i <= j => f[i] <= f[j]

LEMMA Derived ==
  ASSUME NEW s \in Seq(Event), NEW t \in Seq(Event), Derives(t, s)
  PROVE  Range(t) \subseteq Range(s) /\ (InOrder(s) => InOrder(t))
<1>1. PICK f \in [1..Len(t) -> 1..Len(s)] :
          /\ \A i \in 1..Len(t) : t[i] = s[f[i]]
          /\ \A i, j \in 1..Len(t) : i <= j => f[i] <= f[j]
  BY DEF Derives
<1>2. Range(t) \subseteq Range(s)
  BY <1>1, RangeEquality
<1>3. InOrder(s) => InOrder(t)
  BY <1>1 DEF InOrder
<1> QED
  BY <1>2, <1>3

LEMMA LatestIsLast ==
  ASSUME NEW s \in Seq(Event), s # <<>>
  PROVE  /\ Len(s) \in Nat \ {0} /\ Latest(s) \in Range(s) /\ Latest(s) \in Event
         /\ Head(s) = s[1] /\ Head(s) \in Range(s)
         /\ InOrder(s) => \A e \in Range(s) : Precedes(e, Latest(s))
         /\ InOrder(s) => \A e \in Range(s) : Precedes(Head(s), e)
<1>1. Len(s) \in Nat \ {0}
  BY LenProperties, EmptySeq
<1>2. Range(s) = {s[i] : i \in 1..Len(s)}
  BY RangeEquality
<1>3. Head(s) = s[1] /\ \A i \in 1..Len(s) : s[i] \in Event
  BY ElementOfSeq
<1> QED
  BY <1>1, <1>2, <1>3 DEF Latest, InOrder

LEMMA NoEvents == Range(<<>>) = {} /\ Len(<<>>) = 0
<1>1. PICK none : none = <<>>
  OBVIOUS
<1>2. none \in Seq(Event) /\ Len(none) = 0
  BY <1>1
<1>3. Range(none) = {none[i] : i \in 1..Len(none)}
  BY <1>2, RangeEquality
<1> QED
  BY <1>1, <1>2, <1>3

LEMMA TailDerives ==
  ASSUME NEW s \in Seq(Event), s # <<>>
  PROVE  /\ Tail(s) \in Seq(Event) /\ Derives(Tail(s), s)
         /\ \A e \in Range(s) : e = Head(s) \/ e \in Range(Tail(s))
         /\ Tail(s) # <<>> => Latest(Tail(s)) = Latest(s)
         /\ Tail(s) = <<>> => Latest(s) = Head(s)
<1>1. /\ Len(s) \in Nat \ {0} /\ Head(s) = s[1]
      /\ Range(s) = {s[i] : i \in 1..Len(s)}
  BY LatestIsLast, RangeEquality
<1>2. /\ Tail(s) \in Seq(Event) /\ Len(Tail(s)) = Len(s) - 1
      /\ \A i \in 1..Len(Tail(s)) : Tail(s)[i] = s[i + 1]
  BY HeadTailProperties
<1>3. Derives(Tail(s), s)
  <2>1. PICK f : f = [i \in 1..Len(Tail(s)) |-> i + 1]
    OBVIOUS
  <2>2. /\ f \in [1..Len(Tail(s)) -> 1..Len(s)]
        /\ \A i \in 1..Len(Tail(s)) : f[i] = i + 1
    BY <1>1, <1>2, <2>1
  <2>3. \A i, j \in 1..Len(Tail(s)) : i <= j => f[i] <= f[j]
    BY <1>1, <1>2, <2>2
  <2> QED
    BY <1>2, <2>2, <2>3 DEF Derives
<1>4. ASSUME NEW i \in 1..Len(s), i # 1 PROVE s[i] \in Range(Tail(s))
  <2>1. i - 1 \in 1..Len(Tail(s)) /\ Tail(s)[i - 1] = s[i]
    BY <1>1, <1>2, <1>4
  <2> QED
    BY <1>2, <2>1, RangeEquality
<1>5. Tail(s) # <<>> => Latest(Tail(s)) = Latest(s)
  BY <1>1, <1>2, EmptySeq, LenProperties DEF Latest
<1>6. ASSUME Tail(s) = <<>> PROVE Latest(s) = Head(s)
  <2>1. Len(<<>>) = 0
    OBVIOUS
  <2>2. Len(s) = 1
    BY <1>1, <1>2, <1>6, <2>1
  <2> QED
    BY <1>1, <2>2 DEF Latest
<1> QED
  BY <1>1, <1>2, <1>3, <1>4, <1>5, <1>6

LEMMA JoinInOrder ==
  ASSUME NEW s \in Seq(Event), NEW t \in Seq(Event), InOrder(s), InOrder(t),
         \A e \in Range(s), f \in Range(t) : Precedes(e, f)
  PROVE  InOrder(s \o t)
<1>1. Len(s) \in Nat /\ Len(t) \in Nat
  BY LenProperties
<1>2. /\ s \o t \in Seq(Event) /\ Len(s \o t) = Len(s) + Len(t)
      /\ \A i \in 1..Len(s) + Len(t) :
            (s \o t)[i] = IF i <= Len(s) THEN s[i] ELSE t[i - Len(s)]
  BY ConcatProperties
<1> SUFFICES ASSUME NEW i \in 1..Len(s) + Len(t), NEW j \in 1..Len(s) + Len(t), i <= j
             PROVE  Precedes((s \o t)[i], (s \o t)[j])
  BY <1>2 DEF InOrder
<1>3. CASE j <= Len(s)
  BY <1>1, <1>2, <1>3 DEF InOrder
<1>4. CASE i > Len(s)
  <2>1. i - Len(s) \in 1..Len(t) /\ j - Len(s) \in 1..Len(t) /\ i - Len(s) <= j - Len(s)
    BY <1>1, <1>4
  <2> QED
    BY <1>1, <1>2, <1>4, <2>1 DEF InOrder
<1>5. CASE i <= Len(s) /\ j > Len(s)
  <2>1. i \in 1..Len(s) /\ j - Len(s) \in 1..Len(t)
    BY <1>1, <1>5
  <2>2. s[i] \in Range(s) /\ t[j - Len(s)] \in Range(t)
    BY <2>1, RangeEquality
  <2> QED
    BY <1>1, <1>2, <1>5, <2>2
<1> QED
  BY <1>1, <1>3, <1>4, <1>5

LEMMA JoinFacts ==
  ASSUME NEW s \in Seq(Event), NEW t \in Seq(Event)
  PROVE  /\ s \o t \in Seq(Event) /\ Len(s \o t) = Len(s) + Len(t)
         /\ Range(s \o t) = Range(s) \cup Range(t)
         /\ t # <<>> => s \o t # <<>> /\ Latest(s \o t) = Latest(t)
         /\ t = <<>> => s \o t = s
         /\ s \o t = <<>> => s = <<>> /\ t = <<>>
<1>1. Len(s) \in Nat /\ Len(t) \in Nat
  BY LenProperties
<1>2. /\ s \o t \in Seq(Event) /\ Len(s \o t) = Len(s) + Len(t)
      /\ \A i \in 1..Len(s) + Len(t) :
            (s \o t)[i] = IF i <= Len(s) THEN s[i] ELSE t[i - Len(s)]
  BY ConcatProperties
<1>3. ASSUME t # <<>> PROVE s \o t # <<>> /\ Latest(s \o t) = Latest(t)
  <2>1. Len(t) > 0
    BY <1>1, <1>3, EmptySeq
  <2>2. Len(s \o t) > Len(s) /\ Len(s \o t) - Len(s) = Len(t)
    BY <1>1, <1>2, <2>1
  <2>3. s \o t # <<>>
    BY <1>1, <1>2, <2>2, EmptySeq
  <2> QED
    BY <1>1, <1>2, <2>1, <2>2, <2>3 DEF Latest
<1> QED
  BY <1>2, <1>3, RangeConcatenation, ConcatEmptySeq, ConcatEqualIffEmpty

-----------------------------------------------------------------------------
(* What the steps do with the stream.                                      *)

\* Events get lost, and nothing will send the head of the queue; or one is
\* repeated; or nothing happens.
Thinned ==
    /\ Derives(Stream', Stream)
    /\ \/ stranded'
       \/ /\ Range(Stream') = Range(Stream)
          /\ Stream' = <<>> <=> Stream = <<>>
          /\ Latest(Stream') = Latest(Stream)
\* The server emits events, and they come or they do not.
Extended(events) ==
    \/ stranded' /\ Stream' = Stream
    \/ sub /\ link = "up" /\ Stream' = Stream \o events

LEMMA StreamTypes ==
  ASSUME Sound
  PROVE  /\ pipe \in Seq(Event) /\ wire \in Seq(Event) /\ Stream \in Seq(Event)
         /\ Stream = <<>> => pipe = <<>> /\ wire = <<>>
         /\ Range(Stream) = Range(pipe) \cup Range(wire)
<1>1. pipe \in Seq(Event) /\ wire \in Seq(Event)
  BY SeqMonotonic DEF Sound, Streams, Told
<1> QED
  BY <1>1, JoinFacts DEF Stream

LEMMA EmittedExtends ==
  ASSUME Sound, NEW events \in Seq(Event), Emitted(events), UNCHANGED pipe
  PROVE  Extended(events)
<1>1. pipe \in Seq(Event) /\ wire \in Seq(Event)
  BY StreamTypes
<1>2. CASE sub /\ link = "up"
  <2>1. wire' = wire \o events
    BY <1>2 DEF Emitted
  <2>2. pipe \o (wire \o events) = (pipe \o wire) \o events
    BY <1>1, ConcatAssociative
  <2> QED
    BY <1>2, <2>1, <2>2 DEF Extended, Stream
<1>3. CASE ~(sub /\ link = "up")
  BY <1>3 DEF Emitted, Extended, Stream
<1> QED
  BY <1>2, <1>3

LEMMA PartDerives ==
  ASSUME NEW s \in Seq(Event), NEW a \in 1..Len(s) + 1, NEW b \in 0..Len(s)
  PROVE  SubSeq(s, a, b) \in Seq(Event) /\ Derives(SubSeq(s, a, b), s)
<1>1. Len(s) \in Nat /\ SubSeq(s, a, b) \in Seq(Event)
  BY LenProperties, PartTold
<1>2. \A i \in a..b : s[i] \in Event
  <2>1. \A i \in a..b : i \in 1..Len(s)
    BY <1>1
  <2> QED
    BY <2>1, ElementOfSeq
<1>3. /\ Len(SubSeq(s, a, b)) = IF a <= b THEN b - a + 1 ELSE 0
      /\ \A i \in 1..b - a + 1 : SubSeq(s, a, b)[i] = s[a + i - 1]
  BY <1>1, <1>2, SubSeqProperties
<1>4. PICK f : f = [i \in 1..Len(SubSeq(s, a, b)) |-> a + i - 1]
  OBVIOUS
<1>5. /\ f \in [1..Len(SubSeq(s, a, b)) -> 1..Len(s)]
      /\ \A i \in 1..Len(SubSeq(s, a, b)) : f[i] = a + i - 1
  BY <1>1, <1>3, <1>4
<1>6. \A i \in 1..Len(SubSeq(s, a, b)) : SubSeq(s, a, b)[i] = s[f[i]]
  BY <1>1, <1>3, <1>5
<1>7. \A i, j \in 1..Len(SubSeq(s, a, b)) : i <= j => f[i] <= f[j]
  BY <1>1, <1>3, <1>5
<1> QED
  BY <1>1, <1>5, <1>6, <1>7 DEF Derives

LEMMA JoinDerives ==
  ASSUME NEW s \in Seq(Event), NEW t \in Seq(Event), NEW u \in Seq(Event),
         Derives(t, s)
  PROVE  Derives(t \o u, s \o u) /\ Derives(u \o t, u \o s)
<1> DEFINE lt == Len(t) ls == Len(s) lu == Len(u)
<1>1. lt \in Nat /\ ls \in Nat /\ lu \in Nat
  BY LenProperties
<1>2. PICK f \in [1..lt -> 1..ls] :
          /\ \A i \in 1..lt : t[i] = s[f[i]]
          /\ \A i, j \in 1..lt : i <= j => f[i] <= f[j]
  BY DEF Derives
<1>3. /\ Len(t \o u) = lt + lu /\ Len(s \o u) = ls + lu
      /\ Len(u \o t) = lu + lt /\ Len(u \o s) = lu + ls
      /\ \A i \in 1..lt + lu : (t \o u)[i] = IF i <= lt THEN t[i] ELSE u[i - lt]
      /\ \A i \in 1..ls + lu : (s \o u)[i] = IF i <= ls THEN s[i] ELSE u[i - ls]
      /\ \A i \in 1..lu + lt : (u \o t)[i] = IF i <= lu THEN u[i] ELSE t[i - lu]
      /\ \A i \in 1..lu + ls : (u \o s)[i] = IF i <= lu THEN u[i] ELSE s[i - lu]
  BY ConcatProperties
<1> HIDE DEF lt, ls, lu
<1>4. Derives(t \o u, s \o u)
  <2>1. PICK g : g = [i \in 1..lt + lu |-> IF i <= lt THEN f[i] ELSE i - lt + ls]
    OBVIOUS
  <2>2. /\ g \in [1..lt + lu -> 1..ls + lu]
        /\ \A i \in 1..lt + lu : g[i] = IF i <= lt THEN f[i] ELSE i - lt + ls
    BY <1>1, <1>2, <2>1
  <2>5. \A i \in 1..lt + lu : i <= lt => i \in 1..lt /\ f[i] \in 1..ls
    BY <1>1, <1>2
  <2>3. ASSUME NEW i \in 1..lt + lu PROVE (t \o u)[i] = (s \o u)[g[i]]
    <3>1. CASE i <= lt
      <4>1. g[i] = f[i] /\ g[i] <= ls /\ g[i] \in 1..ls + lu
        BY <1>1, <2>2, <2>5, <3>1
      <4> QED
        BY <1>2, <1>3, <2>5, <3>1, <4>1
    <3>2. CASE ~(i <= lt)
      <4>1. g[i] = i - lt + ls /\ ~(g[i] <= ls) /\ g[i] \in 1..ls + lu /\ g[i] - ls = i - lt
        BY <1>1, <2>2, <3>2
      <4> QED
        BY <1>3, <3>2, <4>1
    <3> QED
      BY <3>1, <3>2
  <2>4. ASSUME NEW i \in 1..lt + lu, NEW j \in 1..lt + lu, i <= j PROVE g[i] <= g[j]
    <3>1. CASE j <= lt
      <4>1. i <= lt
        BY <1>1, <2>4, <3>1
      <4> QED
        BY <1>2, <2>2, <2>4, <2>5, <3>1, <4>1
    <3>2. CASE ~(j <= lt) /\ i <= lt
      <4>1. g[i] = f[i] /\ g[i] <= ls /\ g[j] = j - lt + ls /\ f[i] \in Nat
        BY <1>1, <2>2, <2>5, <3>2
      <4> QED
        BY <1>1, <3>2, <4>1
    <3>3. CASE ~(j <= lt) /\ ~(i <= lt)
      <4>1. g[i] = i - lt + ls /\ g[j] = j - lt + ls
        BY <2>2, <3>3
      <4> QED
        BY <1>1, <2>4, <4>1
    <3> QED
      BY <3>1, <3>2, <3>3
  <2> QED
    BY <1>3, <2>2, <2>3, <2>4 DEF Derives
<1>5. Derives(u \o t, u \o s)
  <2>1. PICK g : g = [i \in 1..lu + lt |-> IF i <= lu THEN i ELSE f[i - lu] + lu]
    OBVIOUS
  <2>2. /\ g \in [1..lu + lt -> 1..lu + ls]
        /\ \A i \in 1..lu + lt : g[i] = IF i <= lu THEN i ELSE f[i - lu] + lu
    BY <1>1, <1>2, <2>1
  <2>5. \A i \in 1..lu + lt : ~(i <= lu) => i - lu \in 1..lt /\ f[i - lu] \in 1..ls
    <3> SUFFICES ASSUME NEW i \in 1..lu + lt, ~(i <= lu)
                 PROVE  i - lu \in 1..lt /\ f[i - lu] \in 1..ls
      OBVIOUS
    <3>1. i - lu \in 1..lt
      BY <1>1
    <3> QED
      BY <1>2, <3>1
  <2>3. ASSUME NEW i \in 1..lu + lt PROVE (u \o t)[i] = (u \o s)[g[i]]
    <3>1. CASE i <= lu
      <4>1. g[i] = i /\ i \in 1..lu + ls
        BY <1>1, <2>2, <3>1
      <4> QED
        BY <1>3, <3>1, <4>1
    <3>2. CASE ~(i <= lu)
      <4>1. g[i] = f[i - lu] + lu /\ ~(g[i] <= lu) /\ g[i] \in 1..lu + ls
            /\ g[i] - lu = f[i - lu]
        BY <1>1, <2>2, <2>5, <3>2
      <4>2. (u \o s)[g[i]] = s[f[i - lu]]
        BY <1>3, <4>1
      <4> QED
        BY <1>2, <1>3, <2>5, <3>2, <4>2
    <3> QED
      BY <3>1, <3>2
  <2>4. ASSUME NEW i \in 1..lu + lt, NEW j \in 1..lu + lt, i <= j PROVE g[i] <= g[j]
    <3>1. CASE j <= lu
      <4>1. i <= lu
        BY <1>1, <2>4, <3>1
      <4> QED
        BY <2>2, <2>4, <3>1, <4>1
    <3>2. CASE ~(j <= lu) /\ i <= lu
      <4>1. g[i] = i /\ g[j] = f[j - lu] + lu /\ f[j - lu] \in 1..ls
        BY <2>2, <2>5, <3>2
      <4> QED
        BY <1>1, <3>2, <4>1
    <3>3. CASE ~(j <= lu) /\ ~(i <= lu)
      <4>1. g[i] = f[i - lu] + lu /\ g[j] = f[j - lu] + lu
        BY <2>2, <3>3
      <4>2. i - lu <= j - lu /\ i - lu \in 1..lt /\ j - lu \in 1..lt
        BY <1>1, <2>4, <2>5, <3>3
      <4>3. f[i - lu] <= f[j - lu]
        BY <1>2, <4>2
      <4> QED
        BY <1>1, <2>5, <3>3, <4>1, <4>3
    <3> QED
      BY <3>1, <3>2, <3>3
  <2> QED
    BY <1>3, <2>2, <2>3, <2>4 DEF Derives
<1> QED
  BY <1>4, <1>5

LEMMA LossThins ==
  ASSUME Sound, Lag \/ ReconnectIdle \/ ReconnectRetry \/ Cut
  PROVE  Thinned
<1>1. pipe \in Seq(Event) /\ wire \in Seq(Event)
  BY StreamTypes
<1>2. Len(pipe) \in Nat /\ Len(wire) \in Nat
  BY <1>1, LenProperties
<1>3. CASE Lag
  <2>1. PICK k \in 1..Len(pipe) : pipe' = SubSeq(pipe, k + 1, Len(pipe))
    BY <1>3 DEF Lag
  <2>2. k + 1 \in 1..Len(pipe) + 1 /\ Len(pipe) \in 0..Len(pipe)
    BY <1>2
  <2>3. pipe' \in Seq(Event) /\ Derives(pipe', pipe)
    BY <1>1, <2>1, <2>2, PartDerives
  <2>4. wire' = wire /\ stranded'
    BY <1>3 DEF Lag, net
  <2> QED
    BY <1>1, <2>3, <2>4, JoinDerives DEF Thinned, Stream
<1>4. ASSUME NEW k \in 0..Len(wire), wire' = SubSeq(wire, 1, k), pipe' = pipe,
             stranded' \/ k = Len(wire)
      PROVE  Thinned
  <2>1. 1 \in 1..Len(wire) + 1
    BY <1>2
  <2>2. wire' \in Seq(Event) /\ Derives(wire', wire)
    BY <1>1, <1>4, <2>1, PartDerives
  <2>3. Derives(Stream', Stream)
    BY <1>1, <1>4, <2>2, JoinDerives DEF Stream
  <2>4. CASE k = Len(wire)
    BY <1>1, <1>4, <2>3, <2>4, SubSeqFull DEF Thinned, Stream
  <2> QED
    BY <1>4, <2>3, <2>4 DEF Thinned
<1>5. CASE ReconnectIdle \/ ReconnectRetry
  <2>1. wire' = <<>> /\ pipe' = pipe /\ (stranded' \/ wire = <<>>)
    BY <1>5 DEF ReconnectIdle, ReconnectRetry, Reconnected
  <2>2. wire' = SubSeq(wire, 1, 0) /\ 0 \in 0..Len(wire)
    BY <1>1, <1>2, <2>1, SubSeqEmpty
  <2>3. wire = <<>> => Len(wire) = 0
    OBVIOUS
  <2> QED
    BY <1>4, <2>1, <2>2, <2>3
<1>6. CASE Cut
  <2>1. PICK k \in 0..Len(wire) : /\ wire' = SubSeq(wire, 1, k)
                                  /\ stranded' = (stranded \/ k < Len(wire))
    BY <1>6 DEF Cut
  <2>2. pipe' = pipe
    BY <1>6 DEF Cut
  <2>3. stranded' \/ k = Len(wire)
    <3>1. k < Len(wire) \/ k = Len(wire)
      BY <1>2
    <3> QED
      BY <2>1, <3>1
  <2> QED
    BY <1>4, <2>1, <2>2, <2>3
<1> QED
  BY <1>3, <1>5, <1>6

LEMMA RepeatThins == Sound /\ Repeat => Thinned
<1> SUFFICES ASSUME Sound, Repeat PROVE Thinned
  OBVIOUS
<1>1. pipe \in Seq(Event) /\ wire \in Seq(Event)
  BY StreamTypes
<1>2. wire # <<>> /\ wire' = <<Head(wire)>> \o wire /\ pipe' = pipe
  BY DEF Repeat
<1>3. /\ Len(wire) \in Nat \ {0} /\ Head(wire) = wire[1] /\ Head(wire) \in Range(wire)
      /\ Head(wire) \in Event /\ wire[1] \in Event
  BY <1>1, <1>2, LatestIsLast, HeadTailProperties
<1>4. PICK h : h = <<Head(wire)>>
  OBVIOUS
<1>5. h \in Seq(Event) /\ Len(h) = 1 /\ h[1] = wire[1] /\ h # <<>>
  BY <1>3, <1>4
<1>6. wire' = h \o wire
  BY <1>2, <1>4
<1>7. /\ Len(wire') = Len(wire) + 1 /\ wire' \in Seq(Event)
      /\ \A i \in 1..Len(wire) + 1 : wire'[i] = IF i <= 1 THEN h[i] ELSE wire[i - 1]
  <2>1. /\ Len(h \o wire) = Len(h) + Len(wire) /\ h \o wire \in Seq(Event)
        /\ \A i \in 1..Len(h) + Len(wire) :
              (h \o wire)[i] = IF i <= Len(h) THEN h[i] ELSE wire[i - Len(h)]
    BY <1>1, <1>5, ConcatProperties
  <2>2. Len(h) + Len(wire) = Len(wire) + 1
    BY <1>3, <1>5
  <2> QED
    BY <1>5, <1>6, <2>1, <2>2
<1>8. Derives(wire', wire)
  <2>1. PICK f : f = [i \in 1..Len(wire) + 1 |-> IF i <= 1 THEN 1 ELSE i - 1]
    OBVIOUS
  <2>2. /\ f \in [1..Len(wire) + 1 -> 1..Len(wire)]
        /\ \A i \in 1..Len(wire) + 1 : f[i] = IF i <= 1 THEN 1 ELSE i - 1
    BY <1>3, <2>1
  <2>3. \A i \in 1..Len(wire) + 1 : wire'[i] = wire[f[i]]
    BY <1>3, <1>5, <1>7, <2>2
  <2>4. \A i, j \in 1..Len(wire) + 1 : i <= j => f[i] <= f[j]
    BY <1>3, <2>2
  <2> QED
    BY <1>7, <2>2, <2>3, <2>4 DEF Derives
<1>9. Derives(Stream', Stream)
  BY <1>1, <1>2, <1>7, <1>8, JoinDerives DEF Stream
<1>10. Range(h) = {Head(wire)}
  <2>1. Range(h) = {h[i] : i \in 1..1}
    BY <1>5, RangeEquality
  <2> QED
    BY <1>3, <1>5, <2>1
<1>11. Range(wire') = Range(wire) /\ wire' # <<>> /\ Latest(wire') = Latest(wire)
  <2>1. /\ Range(h \o wire) = Range(h) \cup Range(wire)
        /\ h \o wire # <<>> /\ Latest(h \o wire) = Latest(wire)
    BY <1>1, <1>2, <1>5, JoinFacts
  <2> QED
    BY <1>3, <1>6, <1>10, <2>1
<1>12. /\ Range(Stream') = Range(Stream) /\ Latest(Stream') = Latest(Stream)
       /\ Stream # <<>> /\ Stream' # <<>>
  <2>1. /\ Range(pipe \o wire) = Range(pipe) \cup Range(wire)
        /\ pipe \o wire # <<>> /\ Latest(pipe \o wire) = Latest(wire)
    BY <1>1, <1>2, JoinFacts
  <2>2. /\ Range(pipe \o wire') = Range(pipe) \cup Range(wire')
        /\ pipe \o wire' # <<>> /\ Latest(pipe \o wire') = Latest(wire')
    BY <1>1, <1>7, <1>11, JoinFacts
  <2> QED
    BY <1>2, <1>11, <2>1, <2>2 DEF Stream
<1> QED
  BY <1>9, <1>12 DEF Thinned

LEMMA ForwardKeeps == Sound /\ Forward => Stream' = Stream
<1> SUFFICES ASSUME Sound, Forward PROVE Stream' = Stream
  OBVIOUS
<1>1. pipe \in Seq(Event) /\ wire \in Seq(Event)
  BY StreamTypes
<1>2. wire # <<>> /\ pipe' = Append(pipe, Head(wire)) /\ wire' = Tail(wire)
  BY DEF Forward
<1>3. Head(wire) \in Event /\ Tail(wire) \in Seq(Event)
  BY <1>1, <1>2, HeadTailProperties
<1>4. Append(pipe, Head(wire)) = pipe \o <<Head(wire)>> /\ <<Head(wire)>> \in Seq(Event)
  BY <1>1, <1>3, AppendIsConcat
<1>5. <<Head(wire)>> \o Tail(wire) = wire
  BY <1>1, <1>2, <1>3
<1> QED
  BY <1>1, <1>2, <1>3, <1>4, <1>5, ConcatAssociative DEF Stream

LEMMA ListenTakes ==
  ASSUME Sound, Listen
  PROVE  /\ Stream # <<>> /\ Stream' = Tail(Stream) /\ Head(Stream) = Head(pipe)
<1>1. pipe \in Seq(Event) /\ wire \in Seq(Event) /\ Stream \in Seq(Event)
  BY StreamTypes
<1>2. pipe # <<>> /\ pipe' = Tail(pipe) /\ wire' = wire
  BY DEF Listen, net
<1>3. Len(pipe) \in Nat \ {0} /\ Head(pipe) = pipe[1] /\ Len(wire) \in Nat
  BY <1>1, <1>2, LatestIsLast, LenProperties
<1>4. Stream # <<>>
  BY <1>1, <1>2, JoinFacts DEF Stream
<1>5. /\ Len(Stream) = Len(pipe) + Len(wire)
      /\ \A i \in 1..Len(pipe) + Len(wire) :
            Stream[i] = IF i <= Len(pipe) THEN pipe[i] ELSE wire[i - Len(pipe)]
  BY <1>1, ConcatProperties DEF Stream
<1>6. Head(Stream) = Head(pipe)
  BY <1>1, <1>3, <1>4, <1>5, LatestIsLast
<1>7. /\ Tail(pipe) \in Seq(Event) /\ Len(Tail(pipe)) = Len(pipe) - 1
      /\ \A i \in 1..Len(Tail(pipe)) : Tail(pipe)[i] = pipe[i + 1]
      /\ Tail(Stream) \in Seq(Event) /\ Len(Tail(Stream)) = Len(Stream) - 1
      /\ \A i \in 1..Len(Tail(Stream)) : Tail(Stream)[i] = Stream[i + 1]
  BY <1>1, <1>2, <1>4, HeadTailProperties
<1>8. PICK t : t = Tail(pipe) \o wire
  OBVIOUS
<1>9. /\ t \in Seq(Event) /\ Len(t) = Len(pipe) - 1 + Len(wire)
      /\ \A i \in 1..Len(pipe) - 1 + Len(wire) :
            t[i] = IF i <= Len(pipe) - 1 THEN Tail(pipe)[i] ELSE wire[i - (Len(pipe) - 1)]
  BY <1>1, <1>7, <1>8, ConcatProperties
<1>10. \A i \in 1..Len(t) : t[i] = Tail(Stream)[i]
  BY <1>3, <1>5, <1>7, <1>9
<1>11. t = Tail(Stream)
  BY <1>3, <1>5, <1>7, <1>9, <1>10, SeqEqual
<1> QED
  BY <1>2, <1>4, <1>6, <1>8, <1>11 DEF Stream

-----------------------------------------------------------------------------
(* The queue moves.                                                        *)

\* An autosend of m is on its way that the server has not taken.
Unsettled(m) ==
    \/ \E r \in requests : r.via = "auto" /\ r.msg = m
    \/ /\ Carrying /\ worker.request.via = "auto" /\ worker.request.msg = m
       /\ (worker.pc = "asked" \/ worker.answer.result # "ok")
    \/ \E a \in answers : a.request.via = "auto" /\ a.request.msg = m /\ a.result # "ok"
\* A turn runs or is about to, or it has been noted that nothing will.
Pending == running \/ stranded \/ \E m \in Messages : Unsettled(m)

\* The events come in their order, and a dispatch was claimed at a completion
\* that came before them.
Past ==
    \A e \in Range(Stream) :
        /\ e.turn <= turns
        /\ (running /\ e.kind = "completed" => e.turn < turns)
After(n) ==
    /\ n <= turns /\ (running => n < turns)
    /\ \A e \in Range(Stream) : e.kind # "completed" => e.turn > n
Orderly ==
    /\ InOrder(Stream) /\ Past
    /\ dispatch # None => After(dispatch.after)

\* What clears an awaited dispatch is on its way, or its failure is.
Announced ==
    Awaited => \/ stranded \/ Unsettled(dispatch.id)
               \/ \E e \in Range(Stream) : e.kind # "completed"
\* The completion that claims the next draft is on its way.
Closed == Stream # <<>> /\ ~Pending => Latest(Stream).kind = "completed"
Wanting == active # 0 \/ \E d \in drafts : d.kind = "Message"
Owed ==
    Wanting /\ ~Pending =>
        Stream # <<>> /\ (dispatch # None => Latest(Stream).turn > dispatch.after)
Moving == Orderly /\ Announced /\ Closed /\ Owed

\* Only a claim lets a dispatch follow another completion.
LEMMA AfterKept ==
  ASSUME Sound, [Next]_vars, ~Listen
  PROVE  dispatch' # None => dispatch # None /\ dispatch'.after = dispatch.after
<1> USE DEF thread
<1>1. dispatch \in Dispatch \cup {None} /\ None \notin Dispatch
  BY NoneAssumption DEF Sound, Typed
<1>2. CASE UNCHANGED dispatch
  BY <1>2
<1>3. CASE HandleAnswer
  <2>1. dispatch' \in {dispatch, None, [dispatch EXCEPT !.awaiting = FALSE]}
        /\ (dispatch = None => dispatch' = None)
    BY <1>3 DEF HandleAnswer, AutoSent, AutoRejected, AutoUnconfirmed, Injected,
         Resumed, Probed, RefreshFails, ForDispatch
  <2> QED
    BY <1>1, <2>1 DEF Dispatch
<1>4. CASE UserStep
  BY <1>2, <1>4 DEF UserStep, UserSends, UserQueues, UserInjects, UserStarts, UserSteers,
       UserDeletes
<1>5. CASE Lag \/ LagRecover \/ LagIdle \/ WorkerStep
  BY <1>2, <1>5 DEF Lag, LagRecover, LagIdle, WorkerStep, Take, NobodyTakes, Reply, Forward,
       ReconnectIdle, ReconnectRetry, GiveUp, ReconnectFails
<1>6. CASE Environment
  BY <1>2, <1>6 DEF Environment, ServeStart, ServeSteer, Reject, ServeRefresh, TurnEnds,
       OthersStart, Cut, Repeat
<1> QED
  BY <1>2, <1>3, <1>4, <1>5, <1>6 DEF Next, vars

LEMMA AnswerSets ==
  ASSUME worker \in Asked, NEW result, NEW n, AnswerIs(result, n)
  PROVE  /\ worker'.pc = "taken" /\ worker'.request = worker.request
         /\ worker'.answer = [request |-> worker.request, result |-> result, turn |-> n]
         /\ worker'.answer.request = worker.request
         /\ worker'.answer.result = result /\ worker'.answer.turn = n
BY DEF AnswerIs, Asked

\* Only the server settles an autosend, or a failure that is noted.
LEMMA UnsettledKept ==
  ASSUME Sound, [Next]_vars, NEW m \in Messages, Unsettled(m)
  PROVE  \/ Unsettled(m)' \/ stranded'
         \/ ServeStart /\ worker.request.via = "auto" /\ worker.request.msg = m
<1> USE DEF Unsettled, Carrying, rpc
<1>1. ASSUME requests \subseteq requests', answers \subseteq answers', UNCHANGED worker
      PROVE  Unsettled(m)'
  BY <1>1
<1>2. CASE UserStep \/ UNCHANGED vars
  BY <1>1, <1>2 DEF UserStep, UserSends, UserQueues, UserInjects, UserStarts, UserSteers,
       UserDeletes, vars
<1>3. CASE Listen
  <2>1. requests \subseteq requests'
    <3>1. PICK e \in Event : Applies(e)
      BY <1>3, ListenApplies DEF Sound
    <3> QED
      BY <3>1 DEF Applies, ApplyStarted, ApplyUserMessage, ApplyCompleted
  <2> QED
    BY <1>1, <1>3, <2>1 DEF Listen
<1>4. CASE HandleAnswer
  <2>1. PICK a \in answers :
            \/ AutoSent(a) \/ AutoRejected(a) \/ AutoUnconfirmed(a)
            \/ Injected(a) \/ Resumed(a) \/ Probed(a) \/ RefreshFails(a)
    BY <1>4 DEF HandleAnswer
  <2>2. CASE AutoRejected(a) \/ AutoUnconfirmed(a)
    BY <2>2 DEF AutoRejected, AutoUnconfirmed
  <2>3. CASE ~(AutoRejected(a) \/ AutoUnconfirmed(a))
    <3>1. requests \subseteq requests' /\ answers' = answers \ {a} /\ UNCHANGED worker
      BY <2>1, <2>3 DEF AutoSent, Injected, Resumed, Probed, RefreshFails, Handle
    <3>2. a.request.via # "auto" \/ a.result = "ok"
      BY <2>1, <2>3 DEF AutoSent, Injected, Resumed, Probed, RefreshFails
    <3> QED
      BY <3>1, <3>2
  <2> QED
    BY <2>2, <2>3
<1>5. ASSUME NEW q \in requests, Take(q) \/ NobodyTakes(q)
      PROVE  Unsettled(m)'
  <2>1. CASE Take(q)
    BY <2>1 DEF Take, Loop
  <2>2. CASE NobodyTakes(q)
    <3>1. Failed(q).request = q /\ Failed(q).result # "ok"
      BY DEF Failed
    <3> QED
      BY <2>2, <3>1 DEF NobodyTakes, Heard
  <2> QED
    BY <1>5, <2>1, <2>2
<1>6. CASE Reply
  BY <1>6 DEF Reply, Heard, Loop, Sound, Shape
<1>7. CASE GiveUp
  <2>1. Failed(worker.request).request = worker.request /\ Failed(worker.request).result # "ok"
    BY DEF Failed
  <2> QED
    BY <1>7, <2>1 DEF GiveUp, Heard, Loop
<1>8. CASE ReconnectFails
  BY <1>8 DEF ReconnectFails
<1>9. CASE ReconnectRetry
  <2>1. worker \in Asked \cup Taken
    BY <1>9, WorkerTypes DEF ReconnectRetry, Sound
  <2>2. worker'.pc = "asked" /\ worker'.request = worker.request
    BY <1>9, <2>1 DEF ReconnectRetry, Asked, Taken
  <2> QED
    BY <1>9, <2>2 DEF ReconnectRetry
<1>10. CASE ServeStart
  <2>1. UNCHANGED <<requests, answers>> /\ Carrying
    BY <1>10 DEF ServeStart, Served
  <2> QED
    BY <1>10, <2>1
<1>11. CASE ServeSteer \/ Reject \/ ServeRefresh
  <2>1. worker \in Asked
    BY <1>11, WorkerTypes DEF ServeSteer, Reject, ServeRefresh, Served, Sound
  <2>2. worker'.pc = "taken" /\ worker'.request = worker.request
        /\ (worker.request.via = "auto" => worker'.answer.result = "rejected")
    <3>1. CASE ServeSteer \/ ServeRefresh
      BY <2>1, <3>1, AnswerSets DEF ServeSteer, ServeRefresh
    <3>2. CASE Reject
      BY <2>1, <3>2, AnswerSets DEF Reject
    <3> QED
      BY <1>11, <3>1, <3>2
  <2> QED
    BY <1>11, <2>2 DEF ServeSteer, Reject, ServeRefresh
<1>12. CASE Lag \/ LagRecover \/ LagIdle \/ Forward \/ ReconnectIdle
            \/ TurnEnds \/ OthersStart \/ Cut \/ Repeat
  BY <1>1, <1>12 DEF Lag, LagRecover, LagIdle, Forward, ReconnectIdle, TurnEnds, OthersStart,
       Cut, Repeat
<1> QED
  BY <1>2, <1>3, <1>4, <1>5, <1>6, <1>7, <1>8, <1>9, <1>10, <1>11, <1>12
  DEF Next, WorkerStep, Environment

LEMMA StrandedKept ==
  ASSUME Sound, [Next]_vars, stranded, ~stranded'
  PROVE  Listen
<1> USE DEF history
<1>1. CASE UNCHANGED stranded
  BY <1>1
<1>2. CASE UserStep
  BY <1>1, <1>2 DEF UserStep, UserSends, UserQueues, UserInjects, UserStarts, UserSteers,
       UserDeletes
<1>3. CASE HandleAnswer
  BY <1>1, <1>3 DEF HandleAnswer, AutoSent, AutoRejected, AutoUnconfirmed, Injected,
       Resumed, Probed, RefreshFails, Refresh
<1>4. CASE Lag \/ LagRecover \/ LagIdle \/ WorkerStep
  BY <1>1, <1>4 DEF Lag, LagRecover, LagIdle, WorkerStep, Take, NobodyTakes, Reply, Forward,
       ReconnectIdle, ReconnectRetry, GiveUp, ReconnectFails, Reconnected
<1>5. CASE Environment
  BY <1>1, <1>5 DEF Environment, ServeStart, ServeSteer, Reject, ServeRefresh, TurnEnds,
       OthersStart, Cut, Repeat, Begin, Emitted
<1> QED
  BY <1>1, <1>2, <1>3, <1>4, <1>5 DEF Next, vars

\* The kinds of step, by what they do with the events.
Serving == ServeStart \/ TurnEnds \/ OthersStart
Losing == Lag \/ ReconnectIdle \/ ReconnectRetry \/ Cut \/ Repeat

LEMMA QuietSteps ==
  ASSUME Sound, [Next]_vars, ~Listen, ~Serving, ~Losing
  PROVE  Stream' = Stream /\ UNCHANGED <<turns, running>>
<1> USE DEF Stream, server, net
<1>1. CASE UserStep
  BY <1>1 DEF UserStep, UserSends, UserQueues, UserInjects, UserStarts, UserSteers,
       UserDeletes
<1>2. CASE HandleAnswer
  BY <1>2 DEF HandleAnswer, AutoSent, AutoRejected, AutoUnconfirmed, Injected,
       Resumed, Probed, RefreshFails
<1>3. CASE LagRecover \/ LagIdle \/ Reply \/ GiveUp \/ ReconnectFails
           \/ \E r \in requests : Take(r) \/ NobodyTakes(r)
  BY <1>3 DEF LagRecover, LagIdle, Take, NobodyTakes, Reply, GiveUp, ReconnectFails
<1>4. CASE Forward
  BY <1>4, ForwardKeeps DEF Forward
<1>5. CASE ServeSteer \/ Reject \/ ServeRefresh \/ UNCHANGED vars
  BY <1>5 DEF ServeSteer, Reject, ServeRefresh, vars
<1> QED
  BY <1>1, <1>2, <1>3, <1>4, <1>5 DEF Next, WorkerStep, Environment, Serving, Losing

LEMMA LosingThins ==
  ASSUME Sound, Losing
  PROVE  Thinned /\ UNCHANGED <<thread, turns, running>>
BY LossThins, RepeatThins DEF Losing, Lag, ReconnectIdle, ReconnectRetry, Cut, Repeat,
   Reconnected, server, thread

\* What a claim is, and what the listener does when it claims nothing.
Claims(e) ==
    /\ dispatch = None \/ ~dispatch.awaiting
    /\ \E d \in drafts :
          /\ dispatch' = [id |-> d.id, after |-> e.turn, awaiting |-> TRUE]
          /\ requests' = requests \cup {Ask("auto", d.id, 0)}
Clears(e) ==
    /\ e.kind \in {"started", "user"} /\ Dequeue(e)
    /\ drafts' \subseteq drafts /\ UNCHANGED <<requests, stranded>>
    /\ e.kind = "user" => active' = active
    /\ e.kind = "started" => active' = e.turn
Ends(e) ==
    /\ e.kind = "completed" /\ active' = 0
    /\ drafts' = {d \in drafts : d.kind # "PendingSteer"}
    /\ \/ Claims(e)
       \/ /\ UNCHANGED <<dispatch, requests, stranded>>
          /\ \/ drafts' = {}
             \/ dispatch # None /\ (dispatch.awaiting \/ dispatch.after = e.turn)

LEMMA ListenCases ==
  ASSUME Sound, Listen
  PROVE  /\ Head(Stream) \in Event
         /\ Clears(Head(Stream)) \/ Ends(Head(Stream))
         /\ UNCHANGED <<turns, running, worker, answers>>
<1>1. /\ Stream \in Seq(Event) /\ Stream # <<>> /\ Head(Stream) = Head(pipe)
  BY StreamTypes, ListenTakes
<1>2. PICK e : e = Head(Stream)
  OBVIOUS
<1>3. e \in Event /\ e = Head(pipe) /\ e.kind \in {"started", "user", "completed"}
  <2>1. Head(Stream) \in Event
    BY <1>1, HeadTailProperties
  <2> QED
    BY <1>1, <1>2, <2>1 DEF Event
<1>4. UNCHANGED <<turns, running, worker, answers>>
  BY DEF Listen, server
<1>5. CASE e.kind = "started"
  <2>1. ApplyStarted(e)
    BY <1>3, <1>5 DEF Listen
  <2> QED
    BY <1>2, <1>3, <1>4, <1>5, <2>1 DEF ApplyStarted, Clears, Dequeue, Without
<1>6. CASE e.kind = "user"
  <2>1. ApplyUserMessage(e)
    BY <1>3, <1>6 DEF Listen
  <2> QED
    BY <1>2, <1>3, <1>4, <1>6, <2>1 DEF ApplyUserMessage, Clears, Dequeue, Without
<1>7. CASE e.kind = "completed"
  <2>1. ApplyCompleted(e)
    BY <1>3, <1>7 DEF Listen
  <2>2. PICK queue : queue = {d \in drafts : d.kind # "PendingSteer"}
    OBVIOUS
  <2>3. drafts' = queue /\ active' = 0
    BY <2>1, <2>2 DEF ApplyCompleted
  <2>4. CASE Claimable(queue, e.turn)
    <3>1. Claims(e)
      BY <2>1, <2>2, <2>4 DEF ApplyCompleted, Claims, First, Claimable
    <3> QED
      BY <1>2, <1>3, <1>4, <1>7, <2>2, <2>3, <3>1 DEF Ends
  <2>5. CASE ~Claimable(queue, e.turn)
    <3>1. UNCHANGED <<dispatch, requests, stranded>>
      BY <2>1, <2>2, <2>5 DEF ApplyCompleted
    <3>2. queue = {} \/ (dispatch # None /\ (dispatch.awaiting \/ dispatch.after = e.turn))
      BY <2>5 DEF Claimable
    <3> QED
      BY <1>2, <1>3, <1>4, <1>7, <2>2, <2>3, <3>1, <3>2 DEF Ends
  <2> QED
    BY <2>4, <2>5
<1> QED
  BY <1>3, <1>5, <1>6, <1>7

LEMMA DequeueKeeps ==
  ASSUME Sound, NEW e, Dequeue(e)
  PROVE  /\ dispatch' # None => dispatch # None /\ dispatch'.after = dispatch.after
         /\ ~Awaited'
<1>1. dispatch \in Dispatch \cup {None} /\ None \notin Dispatch
  BY NoneAssumption DEF Sound, Typed
<1>2. CASE dispatch = None
  BY <1>1, <1>2 DEF Dequeue, Awaited
<1>3. CASE dispatch # None
  <2>1. dispatch' = [dispatch EXCEPT !.awaiting = FALSE]
    BY <1>3 DEF Dequeue
  <2> QED
    BY <1>1, <1>3, <2>1 DEF Awaited, Dispatch
<1> QED
  BY <1>2, <1>3

LEMMA ClaimPends ==
  ASSUME Sound, NEW e \in Event, Claims(e)
  PROVE  /\ Pending' /\ \A m : m = dispatch'.id => Unsettled(m)'
         /\ dispatch'.after = e.turn
<1>1. PICK d \in drafts : /\ dispatch' = [id |-> d.id, after |-> e.turn, awaiting |-> TRUE]
                          /\ requests' = requests \cup {Ask("auto", d.id, 0)}
  BY DEF Claims
<1>2. d.id \in Messages
  BY DEF Sound, Typed, Draft
<1>3. PICK r : r = Ask("auto", d.id, 0)
  OBVIOUS
<1>4. r.via = "auto" /\ r.msg = d.id /\ r \in requests'
  BY <1>1, <1>3, Asks
<1>5. \A m : m = d.id => Unsettled(m)'
  BY <1>4 DEF Unsettled
<1>6. dispatch'.id = d.id /\ dispatch'.after = e.turn
  BY <1>1
<1>7. Pending'
  BY <1>2, <1>5 DEF Pending
<1> QED
  BY <1>5, <1>6, <1>7

\* What the server emits: the beginning of a turn, a message that joins it, or
\* its end.
LEMMA ServingEmits ==
  ASSUME Sound, Serving
  PROVE  \E events \in Seq(Event) :
            /\ Extended(events) /\ events # <<>> /\ InOrder(events)
            /\ \/ /\ running' /\ turns <= turns'
                  /\ running => turns' = turns
                  /\ ~running => turns' = turns + 1
                  /\ \A e \in Range(events) : e.kind # "completed" /\ e.turn = turns'
               \/ /\ TurnEnds /\ running /\ ~running' /\ turns' = turns
                  /\ \A e \in Range(events) : e.kind = "completed" /\ e.turn = turns
<1>1. turns \in 1..MaxSteps /\ faults \in 0..MaxSteps /\ MaxSteps \in Nat
      /\ running \in BOOLEAN
  BY BoundsAssumption DEF Sound, Typed
<1>2. turns \in Turns
  BY <1>1 DEF Turns
<1>3. ASSUME NEW e \in Event
      PROVE  <<e>> \in Seq(Event) /\ <<e>> # <<>> /\ Range(<<e>>) = {e} /\ InOrder(<<e>>)
  <2>1. PICK s : s = <<e>>
    OBVIOUS
  <2>2. s \in Seq(Event) /\ Len(s) = 1 /\ s[1] = e /\ s # <<>>
    BY <2>1
  <2>3. Range(s) = {s[i] : i \in 1..1}
    BY <2>2, RangeEquality
  <2>4. e.turn \in Turns
    BY DEF Event
  <2>5. InOrder(s)
    BY <2>2, <2>4 DEF InOrder, Precedes, Turns
  <2> QED
    BY <2>1, <2>2, <2>3, <2>5
<1>4. ASSUME NEW m \in Messages \cup {None}, Begin(m), UNCHANGED pipe
      PROVE  /\ Beginning(turns + 1, m) \in Seq(Event) /\ Beginning(turns + 1, m) # <<>>
             /\ InOrder(Beginning(turns + 1, m)) /\ Extended(Beginning(turns + 1, m))
             /\ \A e \in Range(Beginning(turns + 1, m)) :
                   e.kind # "completed" /\ e.turn = turns'
  <2>1. turns + 1 \in Turns /\ turns' = turns + 1 /\ Emitted(Beginning(turns + 1, m))
    BY <1>1, <1>4 DEF Begin, Turns
  <2>2. PICK a : a = [kind |-> "started", turn |-> turns + 1, msg |-> m]
    OBVIOUS
  <2>3. PICK b : b = [kind |-> "user", turn |-> turns + 1, msg |-> m]
    OBVIOUS
  <2>4. a \in Event /\ b \in Event /\ a.turn = turns' /\ b.turn = turns'
        /\ a.kind # "completed" /\ b.kind # "completed"
    BY <2>1, <2>2, <2>3 DEF Event
  <2>5. PICK s : s = <<a, b>>
    OBVIOUS
  <2>6. s \in Seq(Event) /\ Len(s) = 2 /\ s[1] = a /\ s[2] = b /\ s # <<>>
    BY <2>4, <2>5
  <2>7. Range(s) = {s[i] : i \in 1..2}
    BY <2>6, RangeEquality
  <2>8. \A i \in 1..2 : s[i] \in {a, b}
    BY <2>6
  <2>9. InOrder(s)
    BY <1>1, <2>1, <2>4, <2>6, <2>8 DEF InOrder, Precedes
  <2>10. s = Beginning(turns + 1, m)
    BY <2>2, <2>3, <2>5 DEF Beginning
  <2>11. Extended(s)
    BY <1>4, <2>1, <2>6, <2>10, EmittedExtends
  <2> QED
    BY <2>4, <2>6, <2>7, <2>8, <2>9, <2>10, <2>11
<1>5. CASE OthersStart \/ (ServeStart /\ Begin(worker.request.msg))
  <2>1. PICK m \in Messages \cup {None} : Begin(m)
    <3>1. CASE OthersStart
      BY <3>1 DEF OthersStart
    <3>2. CASE ServeStart /\ Begin(worker.request.msg)
      <4>1. worker.request \in Request
        BY <3>2, WorkerTypes DEF ServeStart, Served, Sound, Asked
      <4> QED
        BY <3>2, <4>1 DEF Request
    <3> QED
      BY <1>5, <3>1, <3>2
  <2>2. UNCHANGED pipe
    BY <1>5 DEF OthersStart, ServeStart
  <2>3. ~running /\ running' /\ turns' = turns + 1
    BY <2>1 DEF Begin
  <2> QED
    BY <1>1, <1>4, <2>1, <2>2, <2>3
<1>6. CASE ServeStart /\ running
  <2>1. worker.request \in Asking
    BY <1>6, WorkerTypes, RequestTypes DEF ServeStart, Served, Sound, Shape, Carrying
  <2>2. PICK e : e = [kind |-> "user", turn |-> turns, msg |-> worker.request.msg]
    OBVIOUS
  <2>3. e \in Event /\ e.kind # "completed" /\ e.turn = turns
    BY <1>2, <2>1, <2>2 DEF Event, Asking
  <2>4. Emitted(<<e>>) /\ UNCHANGED <<turns, running, pipe>>
    BY <1>6, <2>2 DEF ServeStart, Begin
  <2>5. Extended(<<e>>)
    BY <1>3, <2>3, <2>4, EmittedExtends
  <2>6. \A f \in Range(<<e>>) : f.kind # "completed" /\ f.turn = turns'
    BY <1>3, <2>3, <2>4
  <2>7. running /\ running' /\ turns' = turns /\ turns <= turns'
    BY <1>1, <1>6, <2>4
  <2> QED
    BY <1>3, <2>3, <2>5, <2>6, <2>7
<1>7. CASE TurnEnds
  <2>1. PICK e : e = [kind |-> "completed", turn |-> turns, msg |-> None]
    OBVIOUS
  <2>2. e \in Event /\ e.kind = "completed" /\ e.turn = turns
    BY <1>2, <2>1 DEF Event
  <2>3. Emitted(<<e>>) /\ UNCHANGED <<turns, pipe>> /\ running /\ ~running'
    BY <1>7, <2>1 DEF TurnEnds
  <2>4. Extended(<<e>>)
    BY <1>3, <2>2, <2>3, EmittedExtends
  <2> QED
    BY <1>1, <1>3, <1>7, <2>2, <2>3, <2>4
<1> QED
  BY <1>5, <1>6, <1>7 DEF Serving, ServeStart

LEMMA EventTypes ==
  ASSUME Sound
  PROVE  /\ turns \in Nat /\ \A e \in Event : e.turn \in Nat \ {0}
         /\ \A e \in Range(Stream) : e \in Event
         /\ dispatch # None => dispatch \in Dispatch /\ dispatch.after \in Nat
<1>1. turns \in Nat
  BY BoundsAssumption DEF Sound, Typed
<1>2. \A e \in Event : e.turn \in Nat \ {0}
  BY BoundsAssumption DEF Event, Turns
<1>3. \A e \in Range(Stream) : e \in Event
  BY StreamTypes, RangeOfSeq
<1>4. dispatch # None => dispatch \in Dispatch /\ dispatch.after \in Nat
  BY BoundsAssumption DEF Sound, Typed, Dispatch, Turns
<1> QED
  BY <1>1, <1>2, <1>3, <1>4

LEMMA NextTypes == Sound' => Stream' \in Seq(Event) /\ turns' \in Nat
<1> SUFFICES ASSUME Sound' PROVE Stream' \in Seq(Event) /\ turns' \in Nat
  OBVIOUS
<1>1. pipe' \in Seq(Event) /\ wire' \in Seq(Event)
  BY SeqMonotonic DEF Sound, Streams, Told
<1>2. turns' \in Nat
  BY BoundsAssumption DEF Sound, Typed
<1> QED
  BY <1>1, <1>2, JoinFacts DEF Stream

LEMMA OrderlyStep ==
  ASSUME Sound, Sound', Orderly, [Next]_vars
  PROVE  Orderly'
<1>1. Stream \in Seq(Event) /\ Stream' \in Seq(Event)
  BY StreamTypes, NextTypes
<1>2. /\ turns \in Nat /\ turns' \in Nat /\ \A e \in Event : e.turn \in Nat \ {0}
      /\ \A e \in Range(Stream) : e \in Event
      /\ dispatch # None => dispatch \in Dispatch /\ dispatch.after \in Nat
  BY EventTypes, NextTypes
<1>3. ASSUME Range(Stream') \subseteq Range(Stream), UNCHANGED <<turns, running>>
      PROVE  /\ Past' /\ \A n : After(n) => After(n)'
  BY <1>3 DEF Orderly, Past, After
<1>4. CASE ~Listen /\ ~Serving
  <2>1. dispatch' # None => dispatch # None /\ dispatch'.after = dispatch.after
    BY <1>4, AfterKept
  <2>2. /\ Derives(Stream', Stream) \/ Stream' = Stream
        /\ UNCHANGED <<turns, running>>
    BY <1>4, QuietSteps, LosingThins DEF Thinned
  <2>3. Range(Stream') \subseteq Range(Stream) /\ InOrder(Stream')
    BY <1>1, <2>2, Derived DEF Orderly
  <2> QED
    BY <1>3, <2>1, <2>2, <2>3 DEF Orderly
<1>5. CASE Listen
  <2>1. PICK e : e = Head(Stream)
    OBVIOUS
  <2>2. Stream # <<>> /\ Stream' = Tail(Stream) /\ e \in Range(Stream) /\ e \in Event
        /\ \A f \in Range(Stream) : Precedes(e, f)
    BY <1>1, <1>5, <2>1, ListenTakes, ListenCases, LatestIsLast DEF Orderly
  <2>3. Range(Stream') \subseteq Range(Stream) /\ InOrder(Stream')
    BY <1>1, <2>2, TailDerives, Derived DEF Orderly
  <2>4. UNCHANGED <<turns, running>> /\ (Clears(e) \/ Ends(e))
    BY <1>5, <2>1, ListenCases
  <2>5. Past' /\ \A n : After(n) => After(n)'
    BY <1>3, <2>3, <2>4
  <2>6. CASE Clears(e)
    BY <2>3, <2>5, <2>6, DequeueKeeps DEF Clears, Orderly
  <2>7. CASE Ends(e) /\ UNCHANGED dispatch
    BY <2>3, <2>5, <2>7 DEF Orderly
  <2>8. CASE Ends(e) /\ Claims(e)
    <3>1. e.kind = "completed" /\ dispatch'.after = e.turn
      BY <2>2, <2>8, ClaimPends DEF Ends
    <3>2. After(e.turn)
      <4>1. e.turn <= turns /\ (running => e.turn < turns)
        BY <2>2, <3>1 DEF Orderly, Past
      <4>2. \A f \in Range(Stream) : f.kind # "completed" => f.turn > e.turn
        BY <1>2, <2>2, <3>1 DEF Precedes
      <4> QED
        BY <4>1, <4>2 DEF After
    <3> QED
      BY <2>3, <2>5, <3>1, <3>2 DEF Orderly
  <2> QED
    BY <2>4, <2>6, <2>7, <2>8 DEF Ends
<1>6. CASE Serving
  <2>1. dispatch' = dispatch
    BY <1>6 DEF Serving, ServeStart, TurnEnds, OthersStart, thread
  <2>2. PICK events \in Seq(Event) :
            /\ Extended(events) /\ events # <<>> /\ InOrder(events)
            /\ \/ /\ running' /\ turns <= turns'
                  /\ running => turns' = turns
                  /\ ~running => turns' = turns + 1
                  /\ \A e \in Range(events) : e.kind # "completed" /\ e.turn = turns'
               \/ /\ TurnEnds /\ running /\ ~running' /\ turns' = turns
                  /\ \A e \in Range(events) : e.kind = "completed" /\ e.turn = turns
    BY <1>6, ServingEmits
  <2>3. \A e \in Range(events) : e \in Event
    BY RangeOfSeq
  <2>4. \A e \in Range(Stream), f \in Range(events) : Precedes(e, f)
    BY <1>2, <2>2, <2>3 DEF Precedes, Orderly, Past
  <2>5. InOrder(Stream \o events) /\ Range(Stream \o events) = Range(Stream) \cup Range(events)
    BY <1>1, <2>2, <2>4, JoinInOrder, JoinFacts DEF Orderly
  <2>6. InOrder(Stream') /\ Range(Stream') \subseteq Range(Stream) \cup Range(events)
    BY <2>2, <2>5 DEF Extended, Orderly
  <2>7. Past'
    <3> SUFFICES ASSUME NEW e \in Range(Stream')
                 PROVE  /\ e.turn <= turns'
                        /\ (running' /\ e.kind = "completed" => e.turn < turns')
      BY DEF Past
    <3>1. CASE e \in Range(Stream)
      BY <1>2, <2>2, <3>1 DEF Orderly, Past
    <3>2. CASE e \in Range(events)
      BY <1>2, <2>2, <3>2
    <3> QED
      BY <2>6, <3>1, <3>2
  <2>8. ASSUME dispatch # None PROVE After(dispatch.after)'
    <3>1. After(dispatch.after) /\ dispatch.after \in Nat
      BY <1>2, <2>8 DEF Orderly
    <3>2. dispatch.after <= turns' /\ (running' => dispatch.after < turns')
      BY <1>2, <2>2, <3>1 DEF After
    <3>3. ASSUME NEW e \in Range(Stream'), e.kind # "completed" PROVE e.turn > dispatch.after
      BY <1>2, <2>2, <2>6, <3>1, <3>2, <3>3 DEF After
    <3> QED
      BY <2>1, <3>2, <3>3 DEF After
  <2> QED
    BY <2>1, <2>6, <2>7, <2>8 DEF Orderly
<1> QED
  BY <1>4, <1>5, <1>6

LEMMA AnnouncedStep ==
  ASSUME Sound, Sound', Announced, [Next]_vars
  PROVE  Announced'
<1>1. Stream \in Seq(Event) /\ Stream' \in Seq(Event)
  BY StreamTypes, NextTypes
<1> SUFFICES ASSUME Awaited', ~stranded', \A e \in Range(Stream') : e.kind = "completed"
             PROVE  Unsettled(dispatch.id)'
  BY DEF Announced
<1>2. CASE \E d \in drafts : /\ dispatch'.id = d.id
                             /\ requests' = requests \cup {Ask("auto", d.id, 0)}
  <2>1. PICK d \in drafts : /\ dispatch'.id = d.id
                            /\ requests' = requests \cup {Ask("auto", d.id, 0)}
    BY <1>2
  <2>2. PICK r : r = Ask("auto", d.id, 0)
    OBVIOUS
  <2>3. r.via = "auto" /\ r.msg = dispatch'.id /\ r \in requests'
    BY <2>1, <2>2, Asks
  <2> QED
    BY <2>3 DEF Unsettled
<1>3. CASE UNCHANGED dispatch
  <2>1. Awaited /\ dispatch.id \in Messages
    BY <1>3 DEF Awaited, Dispatch
  <2>2. PICK m \in Messages : m = dispatch.id
    BY <2>1
  <2>3. ASSUME Listen
        PROVE  UNCHANGED stranded /\ Head(Stream).kind = "completed"
    <3>1. PICK e : e = Head(Stream)
      OBVIOUS
    <3>2. e \in Event /\ (Clears(e) \/ Ends(e))
      BY <2>3, <3>1, ListenCases
    <3>3. Ends(e)
      BY <3>2, DequeueKeeps DEF Clears
    <3>4. CASE Claims(e)
      <4>1. ~dispatch.awaiting \/ dispatch = None
        BY <3>4 DEF Claims
      <4> QED
        BY <2>1, <4>1, NoneAssumption DEF Awaited
    <3> QED
      BY <3>1, <3>3, <3>4 DEF Ends
  <2>4. ~stranded
    BY <2>3, StrandedKept
  <2>5. CASE Unsettled(m)
    <3>1. ASSUME ServeStart, worker.request.via = "auto", worker.request.msg = m
          PROVE  FALSE
      <4>1. PICK events \in Seq(Event) :
                /\ Extended(events) /\ events # <<>>
                /\ running' /\ \A e \in Range(events) : e.kind # "completed"
        <5>1. running'
          BY <3>1 DEF ServeStart, Begin
        <5> QED
          BY <3>1, <5>1, ServingEmits DEF Serving
      <4>2. Stream' = Stream \o events
        BY <4>1 DEF Extended
      <4>3. Latest(events) \in Range(events) /\ Range(events) \subseteq Range(Stream')
        BY <1>1, <4>1, <4>2, LatestIsLast, JoinFacts
      <4> QED
        BY <4>1, <4>3
    <3>2. Unsettled(m)'
      BY <2>5, <3>1, UnsettledKept
    <3> QED
      BY <1>3, <2>2, <3>2
  <2>6. ASSUME NEW e \in Range(Stream), e.kind # "completed" PROVE FALSE
    <3>1. CASE Listen
      <4>1. e \in Range(Stream')
        BY <1>1, <2>3, <2>6, <3>1, ListenTakes, TailDerives
      <4> QED
        BY <2>6, <4>1
    <3>2. CASE Serving
      <4>1. PICK events \in Seq(Event) : Extended(events)
        BY <3>2, ServingEmits
      <4>2. Range(Stream \o events) = Range(Stream) \cup Range(events)
        BY <1>1, JoinFacts
      <4>3. Stream' = Stream \/ Stream' = Stream \o events
        BY <4>1 DEF Extended
      <4> QED
        BY <2>6, <4>2, <4>3
    <3>3. CASE ~Listen /\ ~Serving
      <4>1. Range(Stream') = Range(Stream)
        BY <3>3, QuietSteps, LosingThins DEF Thinned
      <4> QED
        BY <2>6, <4>1
    <3> QED
      BY <3>1, <3>2, <3>3
  <2> QED
    BY <2>1, <2>2, <2>4, <2>5, <2>6 DEF Announced
<1> QED
  BY <1>2, <1>3, AwaitedStep

LEMMA PendingKept ==
  ASSUME Sound, [Next]_vars, Pending, ~Pending', ~Listen
  PROVE  TurnEnds
<1>1. ~stranded' /\ ~running' /\ \A m \in Messages : ~Unsettled(m)'
  BY DEF Pending
<1>2. ~ServeStart /\ ~OthersStart
  BY <1>1 DEF ServeStart, OthersStart, Begin
<1>3. ~stranded
  BY <1>1, StrandedKept
<1>4. \A m \in Messages : ~Unsettled(m)
  BY <1>1, <1>2, UnsettledKept
<1>5. running
  BY <1>3, <1>4 DEF Pending
<1>6. Serving
  BY <1>1, <1>5, QuietSteps, LosingThins
<1> QED
  BY <1>2, <1>6 DEF Serving

LEMMA WantingKept ==
  ASSUME Sound, [Next]_vars, ~Listen, Wanting', ~stranded'
  PROVE  Wanting
<1> USE DEF Wanting, thread
<1>1. CASE active' = active /\ drafts' \subseteq drafts
  BY <1>1
<1>2. ASSUME NEW m \in Messages, UserQueues(m) PROVE Wanting
  BY <1>2 DEF UserQueues
<1>3. ASSUME NEW m \in Messages, UserSteers(m) PROVE Wanting
  <2>1. PICK d \in drafts : drafts' = (drafts \ {d}) \cup {[d EXCEPT !.kind = "PendingSteer"]}
    BY <1>3 DEF UserSteers
  <2>2. PICK c : c = [d EXCEPT !.kind = "PendingSteer"]
    OBVIOUS
  <2>3. c.kind = "PendingSteer"
    BY <2>2 DEF Sound, Typed, Draft
  <2>4. active' = active
    BY <1>3 DEF UserSteers
  <2> QED
    BY <2>1, <2>2, <2>3, <2>4
<1>4. CASE UserStep
  BY <1>1, <1>2, <1>3, <1>4 DEF UserStep, UserSends, UserInjects, UserStarts, UserDeletes,
     Without
<1>5. CASE HandleAnswer
  BY <1>1, <1>5 DEF HandleAnswer, AutoSent, AutoRejected, AutoUnconfirmed, Injected,
       Resumed, Probed, RefreshFails, Refresh, Without
<1>6. CASE Lag \/ LagRecover \/ LagIdle \/ WorkerStep \/ UNCHANGED vars
  BY <1>1, <1>6 DEF Lag, LagRecover, LagIdle, WorkerStep, Take, NobodyTakes, Reply, Forward,
       ReconnectIdle, ReconnectRetry, GiveUp, ReconnectFails, vars
<1>7. CASE Environment
  BY <1>1, <1>7 DEF Environment, ServeStart, ServeSteer, Reject, ServeRefresh, TurnEnds,
       OthersStart, Cut, Repeat
<1> QED
  BY <1>4, <1>5, <1>6, <1>7 DEF Next

LEMMA ListenPends ==
  ASSUME Sound, Listen, ~Pending'
  PROVE  ~Pending /\ ~Claims(Head(Stream))
<1>1. PICK e : e = Head(Stream)
  OBVIOUS
<1>2. /\ e \in Event /\ (Clears(e) \/ Ends(e))
      /\ UNCHANGED <<turns, running, worker, answers>>
  BY <1>1, ListenCases
<1>3. ~Claims(e)
  BY <1>2, ClaimPends
<1>4. UNCHANGED <<requests, stranded, running, worker, answers>>
  BY <1>2, <1>3 DEF Clears, Ends
<1>5. \A m : Unsettled(m)' <=> Unsettled(m)
  BY <1>4 DEF Unsettled, Carrying
<1> QED
  BY <1>1, <1>3, <1>4, <1>5 DEF Pending

LEMMA OwedStep ==
  ASSUME Sound, Sound', Moving, [Next]_vars
  PROVE  Closed' /\ Owed'
<1>1. Stream \in Seq(Event) /\ Stream' \in Seq(Event)
  BY StreamTypes, NextTypes
<1>2. /\ turns \in Nat /\ turns' \in Nat /\ \A e \in Event : e.turn \in Nat \ {0}
      /\ \A e \in Range(Stream) : e \in Event
      /\ dispatch # None => dispatch \in Dispatch /\ dispatch.after \in Nat
  BY EventTypes, NextTypes
<1> SUFFICES ASSUME ~Pending'
             PROVE  /\ Stream' # <<>> => Latest(Stream').kind = "completed"
                    /\ Wanting' => /\ Stream' # <<>>
                                   /\ dispatch' # None
                                         => Latest(Stream').turn > dispatch'.after
  BY DEF Closed, Owed
<1>3. ~stranded' /\ ~running'
  BY DEF Pending
<1>4. CASE ~Listen /\ ~Serving
  <2>1. ~Pending
    BY <1>4, PendingKept DEF Serving
  <2>2. /\ Stream' = <<>> <=> Stream = <<>>
        /\ Latest(Stream') = Latest(Stream)
    BY <1>3, <1>4, QuietSteps, LosingThins DEF Thinned
  <2>3. dispatch' # None => dispatch # None /\ dispatch'.after = dispatch.after
    BY <1>4, AfterKept
  <2>4. Wanting' => Wanting
    BY <1>3, <1>4, WantingKept
  <2>5. Stream' # <<>> => Latest(Stream').kind = "completed"
    BY <2>1, <2>2 DEF Moving, Closed
  <2>6. Wanting' => Stream' # <<>> /\ (dispatch' # None => Latest(Stream').turn > dispatch'.after)
    BY <2>1, <2>2, <2>3, <2>4 DEF Moving, Owed
  <2> QED
    BY <2>5, <2>6
<1>5. CASE Serving
  <2>1. ~ServeStart /\ ~OthersStart
    BY <1>3 DEF ServeStart, OthersStart, Begin
  <2>2. TurnEnds /\ dispatch' = dispatch
    BY <1>5, <2>1 DEF Serving, TurnEnds, thread
  <2>3. PICK events \in Seq(Event) :
            /\ Extended(events) /\ events # <<>>
            /\ running /\ \A e \in Range(events) : e.kind = "completed" /\ e.turn = turns
    BY <1>3, <1>5, ServingEmits
  <2>4. Stream' = Stream \o events
    BY <1>3, <2>3 DEF Extended
  <2>5. Stream' # <<>> /\ Latest(Stream') = Latest(events) /\ Latest(events) \in Range(events)
    BY <1>1, <2>3, <2>4, JoinFacts, LatestIsLast
  <2>6. dispatch # None => dispatch.after < turns
    BY <2>3 DEF Moving, Orderly, After
  <2> QED
    BY <1>2, <2>2, <2>3, <2>5, <2>6
<1>6. CASE Listen
  <2>1. PICK e : e = Head(Stream)
    OBVIOUS
  <2>2. /\ Stream # <<>> /\ Stream' = Tail(Stream)
        /\ e \in Event /\ (Clears(e) \/ Ends(e)) /\ ~Pending /\ ~Claims(e)
    BY <1>6, <2>1, ListenTakes, ListenCases, ListenPends
  <2>3. /\ \A f \in Range(Stream) : f = e \/ f \in Range(Stream')
        /\ Stream' # <<>> => Latest(Stream') = Latest(Stream)
        /\ Stream' = <<>> => Latest(Stream) = e
        /\ e \in Range(Stream) /\ Precedes(e, Latest(Stream)) /\ Latest(Stream) \in Event
    BY <1>1, <2>1, <2>2, TailDerives, LatestIsLast DEF Moving, Orderly
  <2>4. Latest(Stream).kind = "completed"
    BY <2>2 DEF Moving, Closed
  <2>5. CASE Clears(e)
    <3>1. Stream' # <<>>
      BY <2>3, <2>4, <2>5 DEF Clears
    <3>2. dispatch' # None => dispatch # None /\ dispatch'.after = dispatch.after
      BY <2>5, DequeueKeeps DEF Clears
    <3>3. dispatch # None => e.turn > dispatch.after
      BY <2>3, <2>5 DEF Clears, Moving, Orderly, After
    <3>4. e.turn <= Latest(Stream).turn
      BY <2>3 DEF Precedes
    <3> QED
      BY <1>2, <2>2, <2>3, <2>4, <3>1, <3>2, <3>3, <3>4
  <2>6. CASE Ends(e)
    <3>1. /\ UNCHANGED dispatch /\ active' = 0
          /\ drafts' = {d \in drafts : d.kind # "PendingSteer"}
          /\ \/ drafts' = {}
             \/ dispatch # None /\ (dispatch.awaiting \/ dispatch.after = e.turn)
          /\ UNCHANGED stranded /\ e.kind = "completed"
      BY <2>2, <2>6 DEF Ends
    <3>2. ASSUME Wanting'
          PROVE  Stream' # <<>> /\ (dispatch' # None => Latest(Stream').turn > dispatch'.after)
      <4>1. Wanting
        BY <3>1, <3>2 DEF Wanting
      <4>2. dispatch # None => Latest(Stream).turn > dispatch.after
        BY <2>2, <4>1 DEF Moving, Owed
      <4>3. dispatch # None /\ (dispatch.awaiting \/ dispatch.after = e.turn)
        BY <3>1, <3>2 DEF Wanting
      <4>4. CASE dispatch.after = e.turn
        <5>1. Latest(Stream) # e
          BY <1>2, <2>2, <4>2, <4>3, <4>4
        <5> QED
          BY <2>3, <3>1, <4>2, <5>1
      <4>5. CASE dispatch.awaiting
        <5>1. Awaited /\ dispatch.id \in Messages
          BY <1>2, <4>3, <4>5 DEF Awaited, Dispatch
        <5>2. ~stranded /\ ~Unsettled(dispatch.id)
          BY <2>2, <5>1 DEF Pending
        <5>3. PICK f \in Range(Stream) : f.kind # "completed"
          BY <5>1, <5>2 DEF Moving, Announced
        <5>4. f \in Range(Stream')
          BY <2>3, <3>1, <5>3
        <5>5. Stream' # <<>>
          BY <1>1, <5>4, RangeEquality
        <5> QED
          BY <2>3, <3>1, <4>2, <5>5
      <4> QED
        BY <4>3, <4>4, <4>5
    <3> QED
      BY <2>3, <2>4, <3>2
  <2> QED
    BY <2>2, <2>5, <2>6
<1> QED
  BY <1>4, <1>5, <1>6

LEMMA MovingStep == Sound /\ Sound' /\ Moving /\ [Next]_vars => Moving'
BY OrderlyStep, AnnouncedStep, OwedStep DEF Moving

LEMMA MovingInit == Init => Moving
<1> SUFFICES ASSUME Init PROVE Moving
  OBVIOUS
<1>1. Stream = <<>> /\ running /\ dispatch = None
  BY ConcatEmptySeq, EmptySeq DEF Init, Stream
<1>2. Orderly
  BY <1>1, NoEvents DEF Orderly, InOrder, Past
<1>3. ~Awaited /\ Pending
  BY <1>1, NoneAssumption DEF Awaited, Pending
<1> QED
  BY <1>2, <1>3 DEF Moving, Announced, Closed, Owed

\* QueueMoves: at rest, with no turn in progress, no draft waits to be sent by
\* itself, unless it was noted that nothing will send it.
THEOREM QueueAlwaysMoves == Spec => []QueueMoves
<1>1. Sound /\ Moving => QueueMoves
  <2> SUFFICES ASSUME Sound, Moving, AtRest, active = 0, ~stranded,
                      NEW d \in drafts, d.kind = "Message"
               PROVE  FALSE
    BY DEF QueueMoves
  <2>1. Stream = <<>>
    BY ConcatEmptySeq, EmptySeq DEF AtRest, Stream
  <2>2. ~running /\ requests = {} /\ answers = {} /\ worker.pc = "loop"
    BY DEF AtRest, Loop
  <2>3. \A m \in Messages : ~Unsettled(m)
    BY <2>2 DEF Unsettled, Carrying
  <2>4. ~Pending
    BY <2>2, <2>3 DEF Pending
  <2> QED
    BY <2>1, <2>4 DEF Moving, Owed, Wanting
<1> QED
  BY <1>1, MovingInit, MovingStep, SoundHolds, PTL DEF Spec

-----------------------------------------------------------------------------
(* No ghost turn.                                                          *)

Known == paginated /\ ~unrefreshed

\* A refresh whose last probe has yet to reach the server is on its way.
Unprobed(r, result) == r.via = "resume" \/ (r.via = "probe" /\ result # "ok")
ToProbe ==
    \/ link = "dead" \/ lag.pending
    \/ \E r \in requests : Unprobed(r, "none")
    \/ worker.pc = "asked" /\ Unprobed(worker.request, "none")
    \/ worker.pc = "taken" /\ Unprobed(worker.request, worker.answer.result)
    \/ \E a \in answers : Unprobed(a.request, a.result)
\* The answers of probes that have not been applied.
Probes ==
    {a \in answers : a.request.via = "probe" /\ a.result = "ok"} \cup
    {a \in {worker.answer} : worker.pc = "taken" /\ a.request.via = "probe" /\ a.result = "ok"}

\* A connection without a subscription has a resume that will ask for it.
Subscribing ==
    \/ \E r \in requests : r.via = "resume"
    \/ worker.pc = "asked" /\ worker.request.via = "resume"
    \/ worker.pc = "taken" /\ worker.request.via = "resume" /\ worker.answer.result # "ok"
    \/ \E a \in answers : a.request.via = "resume" /\ a.result # "ok"
Subbed == Known /\ link = "up" /\ ~sub => Subscribing
Lagging == lag.pending => lag.scheduled
\* What a live connection still has to deliver ends with the end of the turn.
Wired ==
    link = "up" /\ wire # <<>> => sub /\ (running \/ Latest(wire).kind = "completed")

\* A turn that an event of s begins and none ends.
Opens(s, n) ==
    \E i \in 1..Len(s) :
        /\ s[i].kind = "started" /\ s[i].turn = n
        /\ \A j \in i..Len(s) : s[j].kind # "completed"
\* The store shows n, or will, and no event will end it.
Ghost(n) ==
    \/ n = active /\ n # 0 /\ \A e \in Range(Stream) : e.kind # "completed"
    \/ Opens(Stream, n)
\* While no turn runs there is for each such turn the answer of a probe that
\* clears it.
Probing ==
    Known /\ ~ToProbe /\ ~running =>
        \A n \in Nat : Ghost(n) => \E a \in Probes : a.turn # n
Seeing == Subbed /\ Lagging /\ Wired /\ Probing

LEMMA KnownKept ==
  ASSUME Sound, [Next]_vars, Known'
  PROVE  Known
<1> USE DEF Known, history, refreshing
<1>1. CASE UNCHANGED <<paginated, unrefreshed>>
  BY <1>1
<1>2. CASE UserStep
  BY <1>1, <1>2 DEF UserStep, UserSends, UserQueues, UserInjects, UserStarts, UserSteers,
       UserDeletes
<1>3. CASE HandleAnswer
  BY <1>1, <1>3 DEF HandleAnswer, AutoSent, AutoRejected, AutoUnconfirmed, Injected,
       Resumed, Probed, RefreshFails, Refresh
<1>4. CASE Lag \/ LagRecover \/ LagIdle \/ WorkerStep \/ Listen \/ UNCHANGED vars
  BY <1>1, <1>4 DEF Lag, LagRecover, LagIdle, WorkerStep, Take, NobodyTakes, Reply, Forward,
       ReconnectIdle, ReconnectRetry, GiveUp, ReconnectFails, Listen, vars
<1>5. CASE Environment
  BY <1>1, <1>5 DEF Environment, ServeStart, ServeSteer, Reject, ServeRefresh, TurnEnds,
       OthersStart, Cut, Repeat
<1> QED
  BY <1>2, <1>3, <1>4, <1>5 DEF Next

\* Probes and resumes are answered with success or not at all.
LEMMA RefreshRequests ==
  ASSUME Sound, worker.pc = "asked", worker.request.via \in {"resume", "probe"}
  PROVE  /\ worker \in Asked /\ worker.request.msg = None
         /\ ~ServeStart /\ ~ServeSteer /\ ~Reject
<1>1. worker \in Asked /\ worker.request \in Asking \cup Refreshing
  BY WorkerTypes DEF Sound, Shape, Carrying
<1>2. worker.request.msg = None
  BY <1>1, RequestTypes
<1> QED
  BY <1>1, <1>2 DEF ServeStart, ServeSteer, Reject

LEMMA ToProbeKept ==
  ASSUME Sound, [Next]_vars, Known', ToProbe
  PROVE  ToProbe' \/ (ServeRefresh /\ worker.request.via = "probe")
<1> USE DEF ToProbe, rpc, net, refreshing
<1>1. ASSUME requests \subseteq requests', answers \subseteq answers', UNCHANGED worker,
             link' = link \/ link' = "dead", lag.pending => lag'.pending
      PROVE  ToProbe'
  BY <1>1
<1>2. CASE UserStep \/ UNCHANGED vars
  BY <1>1, <1>2 DEF UserStep, UserSends, UserQueues, UserInjects, UserStarts, UserSteers,
       UserDeletes, vars
<1>3. CASE Listen
  <2>1. requests \subseteq requests'
    <3>1. PICK e \in Event : Applies(e)
      BY <1>3, ListenApplies DEF Sound
    <3> QED
      BY <3>1 DEF Applies, ApplyStarted, ApplyUserMessage, ApplyCompleted
  <2> QED
    BY <1>1, <1>3, <2>1 DEF Listen
<1>4. CASE HandleAnswer
  <2>1. PICK a \in answers :
            \/ AutoSent(a) \/ AutoRejected(a) \/ AutoUnconfirmed(a)
            \/ Injected(a) \/ Resumed(a) \/ Probed(a) \/ RefreshFails(a)
    BY <1>4 DEF HandleAnswer
  <2>2. CASE RefreshFails(a)
    BY <2>2 DEF RefreshFails, Known
  <2>3. CASE Resumed(a)
    <3>1. PICK r : r = Ask("probe", None, a.request.turn)
      OBVIOUS
    <3>2. r.via = "probe" /\ r \in requests'
      BY <2>3, <3>1 DEF Resumed, Known, Ask
    <3> QED
      BY <3>2 DEF Unprobed
  <2>4. CASE ~Resumed(a) /\ ~RefreshFails(a)
    <3>1. /\ requests \subseteq requests' /\ answers' = answers \ {a} /\ UNCHANGED <<worker, link>>
          /\ ~Unprobed(a.request, a.result)
      BY <2>1, <2>4 DEF AutoSent, AutoRejected, AutoUnconfirmed, Injected, Probed, Handle,
         Unprobed
    <3>2. lag.pending => lag'.pending
      BY <2>1, <2>4 DEF AutoSent, AutoRejected, AutoUnconfirmed, Injected, Probed, Refresh,
         RefreshEnds, Sound, Typed
    <3> QED
      BY <3>1, <3>2
  <2> QED
    BY <2>2, <2>3, <2>4
<1>5. ASSUME NEW q \in requests, Take(q) \/ NobodyTakes(q)
      PROVE  ToProbe'
  <2>1. CASE Take(q)
    BY <2>1 DEF Take, Loop
  <2>2. CASE NobodyTakes(q)
    <3>1. Failed(q).request = q /\ Failed(q).result # "ok"
      BY DEF Failed
    <3>2. Unprobed(q, "none") => Unprobed(Failed(q).request, Failed(q).result)
                                 /\ Failed(q) \in Heard(Failed(q))
      BY <3>1 DEF Unprobed, Heard
    <3> QED
      BY <2>2, <3>2 DEF NobodyTakes
  <2> QED
    BY <1>5, <2>1, <2>2
<1>6. CASE Reply
  BY <1>6 DEF Reply, Heard, Loop, Sound, Shape, Unprobed
<1>7. CASE GiveUp
  BY <1>7 DEF GiveUp
<1>8. CASE ReconnectFails
  BY <1>8 DEF ReconnectFails
<1>9. CASE ReconnectRetry \/ ReconnectIdle
  <2>1. PICK r : r = Ask("resume", None, 1)
    OBVIOUS
  <2>2. r.via = "resume" /\ r \in requests'
    BY <1>9, <2>1 DEF ReconnectRetry, ReconnectIdle, Resubscribe, Ask
  <2> QED
    BY <2>2 DEF Unprobed
<1>10. CASE ServeStart \/ ServeSteer \/ Reject
  <2>1. UNCHANGED <<requests, answers, link, lag>> /\ worker.pc = "asked"
    BY <1>10 DEF ServeStart, ServeSteer, Reject, Served
  <2>2. ~Unprobed(worker.request, "none")
    BY <1>10, <2>1, RefreshRequests DEF Unprobed
  <2> QED
    BY <2>1, <2>2
<1>11. CASE ServeRefresh /\ worker.request.via = "resume"
  <2>1. worker \in Asked
    BY <1>11, RefreshRequests DEF ServeRefresh, Served
  <2>2. worker'.pc = "taken" /\ worker'.request = worker.request
    BY <1>11, <2>1, AnswerSets DEF ServeRefresh
  <2> QED
    BY <1>11, <2>2 DEF Unprobed
<1>12. CASE LagRecover
  <2>1. PICK r : r = Ask("resume", None, 0)
    OBVIOUS
  <2>2. r.via = "resume" /\ r \in requests'
    BY <1>12, <2>1 DEF LagRecover, Ask
  <2> QED
    BY <2>2 DEF Unprobed
<1>13. CASE Lag \/ LagIdle
  <2>1. lag.pending => lag'.pending
    BY <1>13 DEF Lag, LagIdle, Sound, Typed
  <2> QED
    BY <1>1, <1>13, <2>1 DEF Lag, LagIdle
<1>14. CASE Forward \/ TurnEnds \/ OthersStart \/ Cut \/ Repeat
  BY <1>1, <1>14 DEF Forward, TurnEnds, OthersStart, Cut, Repeat
<1> QED
  BY <1>2, <1>3, <1>4, <1>5, <1>6, <1>7, <1>8, <1>9, <1>10, <1>11, <1>12, <1>13, <1>14
  DEF Next, WorkerStep, Environment, ServeRefresh

LEMMA SubbedStep ==
  ASSUME Sound, [Next]_vars, Subbed
  PROVE  Subbed'
<1> USE DEF Subscribing, rpc, net
<1> SUFFICES ASSUME Known', link' = "up", ~sub' PROVE Subscribing'
  BY DEF Subbed
<1>0. Known
  BY KnownKept
<1>1. ASSUME requests \subseteq requests', answers \subseteq answers', UNCHANGED worker,
             UNCHANGED <<link, sub>>
      PROVE  Subscribing'
  BY <1>0, <1>1 DEF Subbed
<1>2. CASE UserStep \/ UNCHANGED vars
  BY <1>1, <1>2 DEF UserStep, UserSends, UserQueues, UserInjects, UserStarts, UserSteers,
       UserDeletes, vars
<1>3. CASE Listen
  <2>1. requests \subseteq requests'
    <3>1. PICK e \in Event : Applies(e)
      BY <1>3, ListenApplies DEF Sound
    <3> QED
      BY <3>1 DEF Applies, ApplyStarted, ApplyUserMessage, ApplyCompleted
  <2> QED
    BY <1>1, <1>3, <2>1 DEF Listen
<1>4. CASE HandleAnswer
  <2>1. PICK a \in answers :
            \/ AutoSent(a) \/ AutoRejected(a) \/ AutoUnconfirmed(a)
            \/ Injected(a) \/ Resumed(a) \/ Probed(a) \/ RefreshFails(a)
    BY <1>4 DEF HandleAnswer
  <2>2. CASE RefreshFails(a)
    BY <2>2 DEF RefreshFails, Known
  <2>3. CASE ~RefreshFails(a)
    <3>1. /\ requests \subseteq requests' /\ answers' = answers \ {a}
          /\ UNCHANGED <<worker, link, sub>>
          /\ a.request.via # "resume" \/ a.result = "ok"
      BY <2>1, <2>3 DEF AutoSent, AutoRejected, AutoUnconfirmed, Injected, Resumed, Probed,
         Handle
    <3> QED
      BY <1>0, <3>1 DEF Subbed
  <2> QED
    BY <2>2, <2>3
<1>5. ASSUME NEW q \in requests, Take(q) \/ NobodyTakes(q)
      PROVE  Subscribing'
  <2>1. Subscribing
    BY <1>0, <1>5 DEF Take, NobodyTakes, Subbed
  <2>2. CASE Take(q)
    BY <2>1, <2>2 DEF Take, Loop
  <2>3. CASE NobodyTakes(q)
    <3>1. Failed(q).request = q /\ Failed(q).result # "ok"
      BY DEF Failed
    <3> QED
      BY <2>1, <2>3, <3>1 DEF NobodyTakes, Heard
  <2> QED
    BY <1>5, <2>2, <2>3
<1>6. CASE Reply
  BY <1>0, <1>6 DEF Reply, Heard, Loop, Sound, Shape, Subbed
<1>7. CASE GiveUp \/ Cut
  BY <1>7 DEF GiveUp, Cut
<1>8. CASE ReconnectFails
  BY <1>8 DEF ReconnectFails
<1>9. CASE ReconnectRetry \/ ReconnectIdle
  <2>1. PICK r : r = Ask("resume", None, 1)
    OBVIOUS
  <2>2. r.via = "resume" /\ r \in requests'
    BY <1>9, <2>1 DEF ReconnectRetry, ReconnectIdle, Resubscribe, Ask
  <2> QED
    BY <2>2
<1>10. CASE ServeStart \/ ServeSteer \/ Reject \/ ServeRefresh
  <2>1. UNCHANGED <<requests, answers, link>> /\ worker.pc = "asked"
    BY <1>10 DEF ServeStart, ServeSteer, Reject, ServeRefresh, Served
  <2>2. ~sub
    BY <1>10 DEF ServeStart, ServeSteer, Reject, ServeRefresh, Sound, Typed
  <2>3. worker.request.via # "resume"
    <3>1. CASE ServeRefresh
      BY <3>1 DEF ServeRefresh, Sound, Typed
    <3>2. CASE ~ServeRefresh
      BY <1>10, <2>1, <3>2, RefreshRequests
    <3> QED
      BY <3>1, <3>2
  <2> QED
    BY <1>0, <2>1, <2>2, <2>3 DEF Subbed
<1>11. CASE Lag \/ LagRecover \/ LagIdle \/ Forward \/ TurnEnds \/ OthersStart \/ Repeat
  BY <1>1, <1>11 DEF Lag, LagRecover, LagIdle, Forward, TurnEnds, OthersStart, Repeat
<1> QED
  BY <1>2, <1>3, <1>4, <1>5, <1>6, <1>7, <1>8, <1>9, <1>10, <1>11
  DEF Next, WorkerStep, Environment

LEMMA LaggingStep ==
  ASSUME Sound, [Next]_vars, Lagging
  PROVE  Lagging'
<1> USE DEF Lagging
<1>1. CASE UNCHANGED lag
  BY <1>1
<1>2. CASE UserStep \/ Listen \/ WorkerStep \/ Environment \/ UNCHANGED vars
  BY <1>1, <1>2 DEF UserStep, UserSends, UserQueues, UserInjects, UserStarts, UserSteers,
       UserDeletes, Listen, WorkerStep, Take, NobodyTakes, Reply, Forward, ReconnectIdle,
       ReconnectRetry, GiveUp, ReconnectFails, Environment, ServeStart, ServeSteer, Reject,
       ServeRefresh, TurnEnds, OthersStart, Cut, Repeat, refreshing, vars
<1>3. CASE HandleAnswer
  <2>1. UNCHANGED lag \/ lag' = [lag EXCEPT !.busy = FALSE]
    BY <1>3 DEF HandleAnswer, AutoSent, AutoRejected, AutoUnconfirmed, Injected,
       Resumed, Probed, RefreshFails, Refresh, RefreshEnds, refreshing
  <2> QED
    BY <2>1 DEF Sound, Typed
<1>4. CASE Lag
  BY <1>4 DEF Lag, Sound, Typed
<1>5. CASE LagRecover \/ LagIdle
  BY <1>5 DEF LagRecover, LagIdle, Sound, Typed
<1> QED
  BY <1>2, <1>3, <1>4, <1>5 DEF Next

\* What the server adds to the wire begins or goes on with a turn, or ends it.
LEMMA WiredEmits ==
  ASSUME Sound, Wired, Serving, link' = "up", wire' # <<>>
  PROVE  sub' /\ (running' \/ Latest(wire').kind = "completed")
<1>0. pipe \in Seq(Event) /\ wire \in Seq(Event)
  BY StreamTypes
<1>1. link = "up" /\ sub' = sub /\ running \in BOOLEAN /\ sub \in BOOLEAN
  BY DEF Serving, ServeStart, TurnEnds, OthersStart, Sound, Typed
<1>2. CASE TurnEnds
  <2>1. PICK e : e = [kind |-> "completed", turn |-> turns, msg |-> None]
    OBVIOUS
  <2>2. Emitted(<<e>>) /\ running /\ ~running'
    BY <1>2, <2>1 DEF TurnEnds
  <2>3. CASE ~sub
    BY <1>1, <2>2, <2>3 DEF Emitted, Wired
  <2>4. CASE sub
    <3>1. wire' = wire \o <<e>>
      BY <1>1, <2>2, <2>4 DEF Emitted
    <3>2. e \in Event
      BY <2>1, BoundsAssumption DEF Event, Sound, Typed, Turns
    <3>3. PICK s : s = <<e>>
      OBVIOUS
    <3>4. s \in Seq(Event) /\ s # <<>> /\ Latest(s) = e
      BY <3>2, <3>3 DEF Latest
    <3>5. Latest(wire') = e
      BY <1>0, <3>1, <3>3, <3>4, JoinFacts
    <3> QED
      BY <1>1, <2>1, <2>4, <3>5
  <2> QED
    BY <2>3, <2>4
<1>3. CASE ServeStart \/ OthersStart
  <2>1. running'
    BY <1>3 DEF ServeStart, OthersStart, Begin
  <2>2. CASE sub
    BY <1>1, <2>1, <2>2
  <2>3. CASE ~sub
    <3>1. PICK events : Emitted(events)
      BY <1>3 DEF ServeStart, OthersStart, Begin
    <3>2. wire' = wire
      BY <2>3, <3>1 DEF Emitted
    <3> QED
      BY <1>1, <2>3, <3>2 DEF Wired
  <2> QED
    BY <2>2, <2>3
<1> QED
  BY <1>2, <1>3 DEF Serving

LEMMA WiredStep ==
  ASSUME Sound, [Next]_vars, Wired
  PROVE  Wired'
<1>0. pipe \in Seq(Event) /\ wire \in Seq(Event)
  BY StreamTypes
<1> SUFFICES ASSUME link' = "up", wire' # <<>>
             PROVE  sub' /\ (running' \/ Latest(wire').kind = "completed")
  BY DEF Wired, Latest
<1>1. CASE UNCHANGED <<wire, link, sub, running>>
  BY <1>1 DEF Wired
<1>2. CASE UserStep \/ Listen \/ UNCHANGED vars
  BY <1>1, <1>2 DEF UserStep, UserSends, UserQueues, UserInjects, UserStarts, UserSteers,
       UserDeletes, Listen, net, server, vars
<1>3. CASE HandleAnswer
  BY <1>1, <1>3 DEF HandleAnswer, AutoSent, AutoRejected, AutoUnconfirmed, Injected,
       Resumed, Probed, RefreshFails, net, server
<1>4. CASE Lag \/ LagRecover \/ LagIdle
  BY <1>1, <1>4 DEF Lag, LagRecover, LagIdle, net, server
<1>5. CASE \E r \in requests : Take(r) \/ NobodyTakes(r)
  BY <1>1, <1>5 DEF Take, NobodyTakes, net, server
<1>6. CASE Reply \/ GiveUp \/ ReconnectFails
  BY <1>1, <1>6 DEF Reply, GiveUp, ReconnectFails, net, server
<1>7. CASE ReconnectIdle \/ ReconnectRetry
  BY <1>7 DEF ReconnectIdle, ReconnectRetry, Reconnected
<1>8. CASE Forward
  <2>1. wire # <<>> /\ wire' = Tail(wire) /\ UNCHANGED <<link, sub, running>>
    BY <1>8 DEF Forward, server
  <2>2. Latest(wire') = Latest(wire)
    BY <1>0, <2>1, TailDerives
  <2> QED
    BY <2>1, <2>2 DEF Wired
<1>9. CASE ServeSteer \/ Reject
  BY <1>1, <1>9 DEF ServeSteer, Reject, net, server
<1>10. CASE ServeRefresh
  BY <1>10 DEF ServeRefresh, server, Wired
<1>11. CASE Serving
  BY <1>11, WiredEmits
<1>12. CASE Cut
  BY <1>12 DEF Cut
<1>13. CASE Repeat
  <2>1. wire # <<>> /\ wire' = <<Head(wire)>> \o wire /\ UNCHANGED <<link, sub, running>>
    BY <1>13 DEF Repeat, server
  <2>2. Head(wire) \in Event
    BY <1>0, <2>1, HeadTailProperties
  <2>3. PICK h : h = <<Head(wire)>>
    OBVIOUS
  <2>4. h \in Seq(Event)
    BY <2>2, <2>3
  <2>5. Latest(wire') = Latest(wire)
    BY <1>0, <2>1, <2>3, <2>4, JoinFacts
  <2> QED
    BY <2>1, <2>5 DEF Wired
<1> QED
  BY <1>2, <1>3, <1>4, <1>5, <1>6, <1>7, <1>8, <1>9, <1>10, <1>11, <1>12, <1>13
  DEF Next, WorkerStep, Environment, Serving

LEMMA NothingOpens ==
  ASSUME NEW s \in Seq(Event), s # <<>>, Latest(s).kind = "completed"
  PROVE  /\ \E e \in Range(s) : e.kind = "completed"
         /\ \A n : ~Opens(s, n)
<1>1. Len(s) \in Nat \ {0} /\ Latest(s) \in Range(s)
  BY LatestIsLast
<1> QED
  BY <1>1 DEF Opens, Latest

LEMMA TailOpens ==
  ASSUME NEW s \in Seq(Event), s # <<>>
  PROVE  /\ \A n : Opens(Tail(s), n) => Opens(s, n)
         /\ Head(s).kind = "started" /\ (\A e \in Range(Tail(s)) : e.kind # "completed")
               => Opens(s, Head(s).turn)
<1>1. Len(s) \in Nat \ {0} /\ Head(s) = s[1]
  BY LatestIsLast
<1>2. /\ Tail(s) \in Seq(Event) /\ Len(Tail(s)) = Len(s) - 1
      /\ \A i \in 1..Len(Tail(s)) : Tail(s)[i] = s[i + 1]
  BY HeadTailProperties
<1>3. ASSUME NEW n, Opens(Tail(s), n)
      PROVE  Opens(s, n)
  <2>1. PICK i \in 1..Len(Tail(s)) :
            /\ Tail(s)[i].kind = "started" /\ Tail(s)[i].turn = n
            /\ \A j \in i..Len(Tail(s)) : Tail(s)[j].kind # "completed"
    BY <1>3 DEF Opens
  <2>2. i + 1 \in 1..Len(s) /\ s[i + 1] = Tail(s)[i]
    BY <1>1, <1>2
  <2>3. ASSUME NEW j \in i + 1..Len(s)
        PROVE  s[j].kind # "completed"
    <3>1. j - 1 \in i..Len(Tail(s)) /\ j - 1 \in 1..Len(Tail(s)) /\ j - 1 + 1 = j
      BY <1>1, <1>2
    <3> QED
      BY <1>2, <2>1, <3>1
  <2> QED
    BY <2>1, <2>2, <2>3 DEF Opens
<1>4. ASSUME Head(s).kind = "started", \A e \in Range(Tail(s)) : e.kind # "completed"
      PROVE  Opens(s, Head(s).turn)
  <2>1. 1 \in 1..Len(s)
    BY <1>1
  <2>2. ASSUME NEW j \in 1..Len(s)
        PROVE  s[j].kind # "completed"
    <3>1. CASE j = 1
      BY <1>1, <1>4, <3>1
    <3>2. CASE j # 1
      <4>1. j - 1 \in 1..Len(Tail(s)) /\ j - 1 + 1 = j
        BY <1>1, <1>2, <3>2
      <4>2. Tail(s)[j - 1] \in Range(Tail(s))
        BY <1>2, <4>1, RangeEquality
      <4> QED
        BY <1>2, <1>4, <4>1, <4>2
    <3> QED
      BY <3>1, <3>2
  <2> QED
    BY <1>1, <1>4, <2>1, <2>2 DEF Opens
<1> QED
  BY <1>3, <1>4

\* An answer of a probe waits until it is applied.
LEMMA ProbesKept ==
  ASSUME Sound, [Next]_vars, Known', ~ToProbe', NEW a \in Probes
  PROVE  a \in Probes' \/ (a \in answers /\ Probed(a))
<1> USE DEF Probes, rpc
<1>1. ASSUME answers \subseteq answers', UNCHANGED worker \/ worker.pc # "taken"
      PROVE  a \in Probes'
  BY <1>1
<1>2. CASE UserStep \/ Listen \/ UNCHANGED vars
  BY <1>1, <1>2 DEF UserStep, UserSends, UserQueues, UserInjects, UserStarts, UserSteers,
       UserDeletes, Listen, vars
<1>3. CASE HandleAnswer
  <2>1. PICK b \in answers :
            \/ AutoSent(b) \/ AutoRejected(b) \/ AutoUnconfirmed(b)
            \/ Injected(b) \/ Resumed(b) \/ Probed(b) \/ RefreshFails(b)
    BY <1>3 DEF HandleAnswer
  <2>2. CASE RefreshFails(b)
    BY <2>2 DEF RefreshFails, Known
  <2>3. CASE ~RefreshFails(b)
    <3>1. answers' = answers \ {b} /\ UNCHANGED worker
      BY <2>1, <2>3 DEF AutoSent, AutoRejected, AutoUnconfirmed, Injected, Resumed, Probed,
         Handle
    <3>2. CASE a # b
      BY <3>1, <3>2
    <3>3. CASE a = b
      BY <2>1, <2>3, <3>3 DEF AutoSent, AutoRejected, AutoUnconfirmed, Injected, Resumed
    <3> QED
      BY <3>2, <3>3
  <2> QED
    BY <2>2, <2>3
<1>4. CASE Lag \/ LagRecover \/ LagIdle
  BY <1>1, <1>4 DEF Lag, LagRecover, LagIdle
<1>5. CASE \E r \in requests : Take(r) \/ NobodyTakes(r)
  BY <1>1, <1>5 DEF Take, NobodyTakes
<1>6. CASE Reply
  BY <1>6 DEF Reply, Heard
<1>7. CASE Forward
  BY <1>1, <1>7 DEF Forward
<1>8. CASE ReconnectIdle \/ ReconnectRetry
  <2>1. PICK r : r = Ask("resume", None, 1)
    OBVIOUS
  <2>2. r.via = "resume" /\ r \in requests'
    BY <1>8, <2>1 DEF ReconnectRetry, ReconnectIdle, Resubscribe, Ask
  <2> QED
    BY <2>2 DEF ToProbe, Unprobed
<1>9. CASE GiveUp \/ ReconnectFails
  BY <1>9 DEF GiveUp, ReconnectFails, ToProbe, net
<1>10. CASE Environment
  BY <1>1, <1>10 DEF Environment, ServeStart, ServeSteer, Reject, ServeRefresh, Served,
       TurnEnds, OthersStart, Cut, Repeat
<1> QED
  BY <1>2, <1>3, <1>4, <1>5, <1>6, <1>7, <1>8, <1>9, <1>10 DEF Next, WorkerStep

\* No step makes a ghost but the end of a turn, whose event is on the wire; and
\* an answer that is applied leaves no turn but its own.
LEMMA GhostKept ==
  ASSUME Sound, Sound', [Next]_vars, Known', ~ToProbe', wire' = <<>>, ~Serving,
         NEW n \in Nat, Ghost(n)'
  PROVE  /\ Ghost(n) /\ UNCHANGED running
         /\ \A a \in answers : Probed(a) => a.turn = n
<1> USE DEF Ghost
<1>0. Stream \in Seq(Event)
  BY StreamTypes
<1>1. CASE Listen
  <2>1. /\ Stream # <<>> /\ Stream' = Tail(Stream)
        /\ \A e \in Range(Stream) : e = Head(Stream) \/ e \in Range(Tail(Stream))
    BY <1>0, <1>1, ListenTakes, TailDerives
  <2>2. PICK e : e = Head(Stream)
    OBVIOUS
  <2>3. (Clears(e) \/ Ends(e)) /\ UNCHANGED <<running, answers>>
    BY <1>1, <2>2, ListenCases
  <2>4. \A a \in answers : ~Probed(a)
    BY <2>3 DEF Probed, Handle
  <2>5. CASE Opens(Stream', n)
    BY <1>0, <2>1, <2>3, <2>4, <2>5, TailOpens
  <2>6. CASE n = active' /\ n # 0 /\ \A f \in Range(Stream') : f.kind # "completed"
    <3>1. e.kind = "started" => Opens(Stream, n)
      BY <1>0, <2>1, <2>2, <2>3, <2>6, TailOpens DEF Clears, Ends
    <3>2. e.kind # "started" => e.kind = "user" /\ active' = active
      BY <2>3, <2>6 DEF Clears, Ends
    <3> QED
      BY <2>1, <2>2, <2>3, <2>4, <2>6, <3>1, <3>2
  <2> QED
    BY <2>5, <2>6
<1>2. CASE Losing
  <2>1. CASE Lag
    BY <2>1 DEF Lag, ToProbe, Sound, Typed
  <2>2. CASE Cut
    BY <2>2 DEF Cut, ToProbe
  <2>3. CASE ReconnectIdle \/ ReconnectRetry
    <3>1. PICK r : r = Ask("resume", None, 1)
      OBVIOUS
    <3>2. r.via = "resume" /\ r \in requests'
      BY <2>3, <3>1 DEF ReconnectRetry, ReconnectIdle, Resubscribe, Ask
    <3> QED
      BY <3>2 DEF ToProbe, Unprobed
  <2>4. CASE Repeat
    <3>1. pipe \in Seq(Event) /\ wire \in Seq(Event)
      BY StreamTypes
    <3>2. wire # <<>> /\ wire' = <<Head(wire)>> \o wire
      BY <2>4 DEF Repeat
    <3>3. Head(wire) \in Event
      BY <3>1, <3>2, HeadTailProperties
    <3>4. PICK h : h = <<Head(wire)>>
      OBVIOUS
    <3>5. h \in Seq(Event)
      BY <3>3, <3>4
    <3>6. wire' # <<>>
      BY <3>1, <3>2, <3>4, <3>5, JoinFacts
    <3> QED
      BY <3>6
  <2> QED
    BY <1>2, <2>1, <2>2, <2>3, <2>4 DEF Losing
<1>3. CASE ~Listen /\ ~Losing
  <2>1. Stream' = Stream /\ UNCHANGED running
    BY <1>3, QuietSteps
  <2>2. ASSUME active' = active, \A a \in answers : ~Probed(a)
        PROVE  Ghost(n) /\ \A a \in answers : Probed(a) => a.turn = n
    BY <2>1, <2>2
  <2>3. CASE HandleAnswer
    <3>1. PICK b \in answers :
              \/ AutoSent(b) \/ AutoRejected(b) \/ AutoUnconfirmed(b)
              \/ Injected(b) \/ Resumed(b) \/ Probed(b) \/ RefreshFails(b)
      BY <2>3 DEF HandleAnswer
    <3>2. answers' = answers \ {b}
      BY <3>1 DEF AutoSent, AutoRejected, AutoUnconfirmed, Injected, Resumed, Probed,
         RefreshFails, Handle
    <3>3. \A a \in answers : Probed(a) => a = b
      BY <3>2 DEF Probed, Handle
    <3>4. CASE Probed(b)
      <4>1. b.request.via = "probe" /\ UNCHANGED <<pipe, wire>>
        BY <3>4 DEF Probed, net
      <4>2. \A i \in DOMAIN pipe : pipe[i].kind # "started"
        BY <3>4 DEF Probed, Refresh, Known
      <4>3. Stream = pipe /\ pipe \in Seq(Event)
        BY <4>1, StreamTypes, JoinFacts DEF Stream
      <4>4. \A i \in 1..Len(pipe) : pipe[i].kind # "started"
        BY <4>2, <4>3
      <4>5. ~Opens(Stream', n)
        BY <2>1, <4>3, <4>4 DEF Opens
      <4>6. active' = Reconciled("probe", b.turn) /\ active' # 0
        BY <3>4, <4>1, <4>5 DEF Probed, Refresh
      <4>7. active' = active /\ b.turn = active
        BY <4>6 DEF Reconciled
      <4> QED
        BY <2>1, <3>3, <4>5, <4>7
    <3>5. CASE Resumed(b)
      <4>1. PICK r : r = Ask("probe", None, b.request.turn)
        OBVIOUS
      <4>2. r.via = "probe" /\ r \in requests'
        BY <3>5, <4>1 DEF Resumed, Known, Ask
      <4> QED
        BY <4>2 DEF ToProbe, Unprobed
    <3>6. CASE RefreshFails(b)
      BY <3>6 DEF RefreshFails, Known
    <3>7. CASE AutoSent(b) \/ AutoRejected(b) \/ AutoUnconfirmed(b) \/ Injected(b)
      <4>1. b.request.via \in {"auto", "inject"} /\ active' = active
        BY <3>7 DEF AutoSent, AutoRejected, AutoUnconfirmed, Injected, thread
      <4>2. \A a \in answers : ~Probed(a)
        BY <3>3, <4>1 DEF Probed
      <4> QED
        BY <2>1, <2>2, <4>1, <4>2
    <3> QED
      BY <3>1, <3>4, <3>5, <3>6, <3>7
  <2>4. CASE ~HandleAnswer
    <3>1. active' = active
      BY <1>3, <2>4 DEF Next, UserStep, UserSends, UserQueues, UserInjects, UserStarts,
         UserSteers, UserDeletes, LagRecover, LagIdle, WorkerStep, Take, NobodyTakes, Reply,
         Forward, GiveUp, ReconnectFails, Environment, ServeSteer, Reject, ServeRefresh,
         Losing, Serving, vars, thread
    <3>2. \A a \in answers : ~Probed(a)
      BY <2>4 DEF HandleAnswer
    <3> QED
      BY <2>1, <2>2, <3>1, <3>2
  <2> QED
    BY <2>1, <2>3, <2>4
<1> QED
  BY <1>1, <1>2, <1>3

LEMMA ProbingStep ==
  ASSUME Sound, Sound', [Next]_vars, Subbed, Wired, Wired', Probing
  PROVE  Probing'
<1> SUFFICES ASSUME Known', ~ToProbe', ~running', NEW n \in Nat, Ghost(n)'
             PROVE  (\E a \in Probes : a.turn # n)'
  BY DEF Probing
<1>0. /\ pipe \in Seq(Event) /\ wire \in Seq(Event)
      /\ pipe' \in Seq(Event) /\ wire' \in Seq(Event) /\ Stream' \in Seq(Event)
  BY StreamTypes, NextTypes, SeqMonotonic DEF Sound, Streams, Told
<1>1. Known
  BY KnownKept
<1>2. link' = "up"
  BY DEF ToProbe, Sound, Typed
<1>3. wire' = <<>>
  <2> SUFFICES ASSUME wire' # <<>> PROVE FALSE
    OBVIOUS
  <2>1. Latest(wire').kind = "completed"
    BY <1>2 DEF Wired, Latest
  <2>2. Stream' # <<>> /\ Latest(Stream').kind = "completed"
    BY <1>0, <2>1, JoinFacts DEF Stream
  <2> QED
    BY <1>0, <2>2, NothingOpens DEF Ghost
<1>4. CASE ServeRefresh /\ worker.request.via = "probe"
  <2>1. worker \in Asked /\ running' = running
    BY <1>4, RefreshRequests DEF ServeRefresh, Served, server
  <2>2. AnswerIs("ok", 0)
    BY <1>4, <2>1 DEF ServeRefresh
  <2>3. /\ worker'.pc = "taken" /\ worker'.answer.request = worker.request
        /\ worker'.answer.result = "ok" /\ worker'.answer.turn = 0
    BY <2>1, <2>2, AnswerSets
  <2>4. n # 0
    <3>1. CASE Opens(Stream', n)
      <4>1. PICK i \in 1..Len(Stream') : Stream'[i].turn = n
        BY <3>1 DEF Opens
      <4>2. Stream'[i] \in Event
        BY <1>0, <4>1, ElementOfSeq
      <4> QED
        BY <4>1, <4>2, EventTypes
    <3> QED
      BY <3>1 DEF Ghost
  <2> QED
    BY <1>4, <2>3, <2>4 DEF Probes
<1>5. CASE ~(ServeRefresh /\ worker.request.via = "probe")
  <2>1. ~ToProbe
    BY <1>5, ToProbeKept
  <2>2. ~Serving
    <3>1. ASSUME Serving PROVE FALSE
      <4>1. TurnEnds /\ link = "up"
        BY <1>2, <3>1 DEF Serving, ServeStart, OthersStart, TurnEnds, Begin
      <4>2. PICK e : e = [kind |-> "completed", turn |-> turns, msg |-> None]
        OBVIOUS
      <4>3. Emitted(<<e>>) /\ e \in Event
        BY <4>1, <4>2, BoundsAssumption DEF TurnEnds, Event, Sound, Typed, Turns
      <4>4. PICK s : s = <<e>>
        OBVIOUS
      <4>5. s \in Seq(Event) /\ s # <<>>
        BY <4>3, <4>4
      <4>6. ~sub
        BY <1>0, <1>3, <4>1, <4>3, <4>4, <4>5, JoinFacts DEF Emitted
      <4>7. Subscribing
        BY <1>1, <4>1, <4>6 DEF Subbed
      <4> QED
        BY <2>1, <4>7 DEF ToProbe, Subscribing, Unprobed
    <3> QED
      BY <3>1
  <2>3. /\ Ghost(n) /\ UNCHANGED running
        /\ \A a \in answers : Probed(a) => a.turn = n
    BY <1>3, <2>2, GhostKept
  <2>4. PICK a \in Probes : a.turn # n
    BY <1>1, <2>1, <2>3 DEF Probing
  <2>5. a \in Probes'
    BY <2>3, <2>4, ProbesKept
  <2> QED
    BY <2>4, <2>5
<1> QED
  BY <1>4, <1>5

LEMMA SeeingStep == Sound /\ Sound' /\ Seeing /\ [Next]_vars => Seeing'
BY SubbedStep, LaggingStep, WiredStep, ProbingStep DEF Seeing

\* NoGhostTurn: whatever events were lost, the store shows no turn in progress
\* at rest, once a refresh has probed the turns.
THEOREM NeverAGhostTurn == Spec => []NoGhostTurn
<1>1. Init => Seeing
  BY DEF Init, Seeing, Subbed, Lagging, Wired, Probing
<1>2. Sound /\ Seeing => NoGhostTurn
  <2> SUFFICES ASSUME Sound, Seeing, AtRest, Known, active # 0
               PROVE  FALSE
    BY DEF NoGhostTurn, Known
  <2>1. Stream = <<>>
    BY ConcatEmptySeq, EmptySeq DEF AtRest, Stream
  <2>2. Range(Stream) = {}
    BY <2>1, NoEvents
  <2>3. ~running /\ requests = {} /\ answers = {} /\ worker.pc = "loop" /\ link = "up"
        /\ ~lag.pending
    BY DEF AtRest, Loop, Seeing, Lagging
  <2>4. ~ToProbe /\ Probes = {}
    BY <2>3 DEF ToProbe, Probes
  <2>5. active \in Nat /\ Ghost(active)
    BY <2>2, BoundsAssumption DEF Ghost, Sound, Typed
  <2> QED
    BY <2>3, <2>4, <2>5 DEF Seeing, Probing
<1> QED
  BY <1>1, <1>2, SeeingStep, SoundHolds, PTL DEF Spec

=============================================================================
