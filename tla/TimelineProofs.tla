---------------------------- MODULE TimelineProofs ----------------------------
(***************************************************************************)
(* Proofs about Timeline, for any items, any scripts of the server that    *)
(* satisfy ScriptAssumption and StartAssumption, any capacity of the       *)
(* channel and any number of faults: its type invariant, that a refresh    *)
(* repairs the store, and that the copy of the view model follows it.      *)
(***************************************************************************)
EXTENDS Timeline, SequenceTheorems, FiniteSetTheorems, TLAPS

\* A thread without its header, and with it.
Sketches == {f \in Thread : /\ f[Header] \in State \cup {Absent}
                            /\ \A x \in Items : f[x] \in Value \cup {Absent}}
Threads == {f \in Sketches : f[Header] \in State}
\* What a refresh holds of an answer: a value for some cells.
Answers == UNION {[S -> Value \cup State \cup {Absent}] : S \in SUBSET Cells}

Messages ==
    [t : {"delta"}, x : Items, n : Nat]
        \cup [t : {"cell"}, x : {Header}, v : State, fresh : BOOLEAN]
        \cup [t : {"cell"}, x : Items, v : Value, fresh : BOOLEAN]
        \cup [t : {"upsert"}, v : Threads, mixed : SUBSET Cells]
        \cup [t : {"reload", "resync"}]
Refreshes ==
    [stage : {"idle", "resume", "probe", "page", "end"},
     pc : {"idle", "ask", "answered", "copied", "written"},
     got : Answers, copy : Threads \cup {Absent},
     crossed : SUBSET Cells, resync : BOOLEAN]
Pulls == [{"loop", "side"} ->
             [due : BOOLEAN, copy : Threads \cup {Absent}, crossed : SUBSET Cells]]

ServerTypes == /\ script \in Scripts /\ made \in 0..Len(script)
               /\ seen \in 0..made /\ paged \in BOOLEAN
\* What the listener has still to broadcast says what it takes.
Todo == /\ todo.t \in {"none", "head", "item", "byId", "delta"}
        /\ todo.x \in Cells
        /\ todo.t = "none" => todo = Nothing
        /\ todo.t = "head" => todo.x = Header
        /\ todo.t \in {"item", "byId", "delta"} => todo.x \in Items
        /\ todo.t = "item" => todo.v \in Value
        /\ todo.t = "delta" => todo.n \in Nat
StoreTypes == /\ store \in Threads /\ cache \in Sketches
              /\ due \in {"no", "cut", "lag"}
\* Where a refresh is ...
Stages ==
    /\ refresh.stage \in {"probe", "page"} => paged
    /\ refresh.pc = "idle" <=> refresh.stage \in {"idle", "end"}
    /\ refresh.pc = "ask" => refresh.stage \in {"probe", "page"}
\* ... and what it holds there: cells of its stage, and values of their kind.
Holds ==
    /\ refresh.pc = "answered" =>
          /\ ~paged => refresh.got \in Threads
          /\ paged /\ refresh.stage = "resume" => DOMAIN refresh.got = {}
          /\ refresh.stage = "probe" =>
                DOMAIN refresh.got = {Header} /\ refresh.got[Header] \in State
          /\ refresh.stage = "page" =>
                /\ DOMAIN refresh.got = Items
                /\ \A x \in Items : refresh.got[x] \in Value \cup {Absent}
    /\ refresh.pc = "copied" => refresh.copy \in Threads
RefreshTypes == refresh \in Refreshes /\ Stages /\ Holds
BusTypes == /\ bus \in Seq(Messages) /\ Len(bus) <= Capacity /\ lagged \in BOOLEAN
PhoneTypes == ui \in Threads /\ batch \in Sketches /\ pulls \in Pulls
HistoryTypes == /\ faults \in 0..MaxFaults
                /\ missed \cup silent \subseteq Items /\ raced \cup odd \subseteq Cells
Types == /\ ServerTypes /\ Todo /\ StoreTypes /\ RefreshTypes /\ BusTypes
         /\ PhoneTypes /\ HistoryTypes

-----------------------------------------------------------------------------
(* Threads are given by their cells.                                       *)

LEMMA ThreadKinds ==
    ASSUME NEW f \in Threads
    PROVE  /\ f \in Thread /\ f \in Sketches /\ f[Header] \in State
           /\ \A x \in Items : f[x] \in Value \cup {Absent}
BY AbsentAssumption DEF Threads, Sketches, Thread

LEMMA AThread ==
    ASSUME NEW f, f = [x \in Cells |-> f[x]], f[Header] \in State,
           \A x \in Items : f[x] \in Value \cup {Absent}
    PROVE  f \in Threads
BY DEF Threads, Sketches, Thread, Cells

LEMMA ASketch ==
    ASSUME NEW f, f = [x \in Cells |-> f[x]], f[Header] \in State \cup {Absent},
           \A x \in Items : f[x] \in Value \cup {Absent}
    PROVE  f \in Sketches
BY DEF Sketches, Thread, Cells

LEMMA TypesGiveTypeOK == Types => TypeOK
<1> SUFFICES ASSUME Types PROVE TypeOK OBVIOUS
<1> USE DEF Types, ServerTypes, Todo, StoreTypes, RefreshTypes, Stages, Holds, BusTypes, PhoneTypes, HistoryTypes
<1>1. \A f \in {store, ui} : f \in Thread /\ f[Header] \in State
  BY DEF Threads, Sketches
<1>2. \A f \in {cache, batch} : f \in Thread
  BY DEF Sketches
<1>3. DOMAIN refresh.got \subseteq Cells
  BY DEF Refreshes, Answers
<1>4. refresh.copy \in Thread \cup {Absent}
  BY DEF Refreshes, Threads, Sketches
<1>5. \A k \in DOMAIN bus : bus[k].t \in {"delta", "cell", "upsert", "reload", "resync"}
  BY DEF Messages
<1>6. \A p \in {"loop", "side"} :
          pulls[p].due \in BOOLEAN /\ pulls[p].copy \in Thread \cup {Absent}
  BY DEF Pulls, Threads, Sketches
<1>7. /\ refresh.stage \in {"idle", "resume", "probe", "page", "end"}
      /\ refresh.pc \in {"idle", "ask", "answered", "copied", "written"}
  BY DEF Refreshes
<1> QED BY <1>1, <1>2, <1>3, <1>4, <1>5, <1>6, <1>7 DEF TypeOK

-----------------------------------------------------------------------------
(* The server's script.                                                    *)

Event == [kind : Kinds, x : Cells]

LEMMA ScriptEvents ==
    ASSUME ServerTypes
    PROVE  /\ script \in Seq(Event) /\ Len(script) \in Nat
           /\ DOMAIN script = 1..Len(script)
           /\ \A k \in 1..Len(script) :
                 /\ script[k] \in Event /\ script[k].kind \in Kinds
                 /\ script[k].x \in Cells
                 /\ script[k].x = Header <=> script[k].kind \in {"plan", "end"}
                 /\ script[k].kind = "completed" =>
                       \A j \in k + 1..Len(script) : script[j].x # script[k].x
<1>1. script \in Seq(Event)
  BY ScriptAssumption DEF ServerTypes, Event
<1>2. Len(script) \in Nat /\ DOMAIN script = 1..Len(script)
  BY <1>1
<1>3. \A k \in 1..Len(script) : script[k] \in Event
  BY <1>1
<1>4. \A k \in 1..Len(script) : script[k].kind \in Kinds /\ script[k].x \in Cells
  BY <1>3 DEF Event
<1>5. \A k \in DOMAIN script :
          /\ script[k].x = Header <=> script[k].kind \in {"plan", "end"}
          /\ script[k].kind = "completed" =>
                \A j \in k + 1..Len(script) : script[j].x # script[k].x
  BY ScriptAssumption DEF ServerTypes
<1> QED BY <1>1, <1>2, <1>3, <1>4, <1>5

LEMMA PartsCounted ==
    ASSUME ServerTypes, NEW x
    PROVE  Parts(x) \in Nat
<1>1. Len(script) \in Nat /\ DOMAIN script = 1..Len(script)
  BY ScriptEvents
<1>2. IsFiniteSet(1..Len(script))
  BY <1>1, FS_Interval
<1>3. IsFiniteSet({j \in DOMAIN script : script[j] = [kind |-> "delta", x |-> x]})
  BY <1>1, <1>2, FS_Subset
<1> QED BY <1>3, FS_CardinalityType DEF Parts

LEMMA PartCounted ==
    ASSUME NEW k \in Nat
    PROVE  Part(k) \in Nat
<1>1. IsFiniteSet(1..k)
  BY FS_Interval
<1>2. IsFiniteSet({j \in 1..k : script[j] = script[k]})
  BY <1>1, FS_Subset
<1> QED BY <1>2, FS_CardinalityType DEF Part

LEMMA CountsUp == ASSUME NEW n \in Nat PROVE [k \in 1..n |-> k] \in Seq(Nat)
OBVIOUS

LEMMA FinalValue ==
    ASSUME ServerTypes, NEW x, NEW from \in {"event", "turns"}
    PROVE  Final(x, from) \in Value
<1>1. [n \in 1..Parts(x) |-> n] \in Seq(Nat)
  BY PartsCounted, CountsUp
<1>2. (IF x \in Commands THEN "done" ELSE "bare") \in {"bare", "named", "done"}
  OBVIOUS
<1> QED BY <1>1, <1>2 DEF Final, Value

-----------------------------------------------------------------------------
(* Types.                                                                  *)

LEMMA PutThread ==
    ASSUME NEW f \in Threads, NEW x \in Cells, NEW v,
           x = Header => v \in State, x \in Items => v \in Value \cup {Absent}
    PROVE  [f EXCEPT ![x] = v] \in Threads
<1> DEFINE g == [f EXCEPT ![x] = v]
<1>1. f = [y \in Cells |-> f[y]] /\ f[Header] \in State
      /\ \A y \in Items : f[y] \in Value \cup {Absent}
  BY DEF Threads, Sketches, Thread
<1>2. g = [y \in Cells |-> g[y]]
  BY <1>1
<1>3. g[Header] \in State
  BY <1>1 DEF Cells
<1>4. \A y \in Items : g[y] \in Value \cup {Absent}
  BY <1>1 DEF Cells
<1>5. g \in Threads
  <2> HIDE DEF g
  <2> QED BY <1>2, <1>3, <1>4, AThread
<1> QED BY <1>5

LEMMA PutSketch ==
    ASSUME NEW f \in Sketches, NEW x \in Cells, NEW v,
           x = Header => v \in State \cup {Absent}, x \in Items => v \in Value \cup {Absent}
    PROVE  [f EXCEPT ![x] = v] \in Sketches
<1> DEFINE g == [f EXCEPT ![x] = v]
<1>1. f = [y \in Cells |-> f[y]] /\ f[Header] \in State \cup {Absent}
      /\ \A y \in Items : f[y] \in Value \cup {Absent}
  BY DEF Sketches, Thread
<1>2. g = [y \in Cells |-> g[y]]
  BY <1>1
<1>3. g[Header] \in State \cup {Absent}
  BY <1>1 DEF Cells
<1>4. \A y \in Items : g[y] \in Value \cup {Absent}
  BY <1>1 DEF Cells
<1>5. g \in Sketches
  <2> HIDE DEF g
  <2> QED BY <1>2, <1>3, <1>4, ASketch
<1> QED BY <1>5

LEMMA InitTypes == Init => Types
<1> SUFFICES ASSUME Init PROVE Types OBVIOUS
<1>1. ServerTypes
  <2>1. script \in Seq([kind : Kinds, x : Cells])
    BY ScriptAssumption DEF Init
  <2>2. Len(script) \in Nat
    BY <2>1
  <2> QED BY <2>2 DEF Init, ServerTypes
<1>2. Todo
  BY DEF Todo, Init, Nothing, Cells
<1>3. Nowhere \in Sketches
  BY DEF Sketches, Thread, Nowhere, Cells
<1>4. store \in Threads
  <2>1. [turn |-> TRUE, plan |-> 0] \in State
    BY DEF State
  <2>2. store = [x \in Cells |-> store[x]] /\ store[Header] \in State
        /\ \A x \in Items : store[x] = Absent
    BY <2>1, NamesAssumption DEF Init, Nowhere, Cells
  <2> QED BY <2>2, AThread
<1>5. StoreTypes /\ ui \in Threads /\ batch \in Sketches
  BY <1>3, <1>4 DEF StoreTypes, Init
<1>6. RefreshTypes
  <2>1. <<>> \in [{} -> Value \cup State \cup {Absent}]
    OBVIOUS
  <2>2. <<>> \in Answers
    <3>1. {} \in SUBSET Cells
      OBVIOUS
    <3> QED BY <2>1, <3>1 DEF Answers
  <2>3. Idle \in Refreshes
    BY <2>2 DEF Idle, Refreshes
  <2> QED BY <2>3 DEF RefreshTypes, Init, Stages, Holds, Idle
<1>7. BusTypes
  <2>1. Capacity \in Nat
    BY BoundsAssumption
  <2>2. bus = <<>> /\ lagged = FALSE
    BY DEF Init
  <2>3. bus \in Seq(Messages) /\ Len(bus) = 0
    BY <2>2
  <2>4. lagged \in BOOLEAN
    BY <2>2
  <2> QED BY <2>1, <2>3, <2>4 DEF BusTypes
<1>8. pulls \in Pulls
  <2>1. NoPull \in [due : BOOLEAN, copy : Threads \cup {Absent}, crossed : SUBSET Cells]
    BY DEF NoPull
  <2>2. pulls = [loop |-> NoPull, side |-> NoPull]
    BY DEF Init
  <2> HIDE DEF NoPull
  <2> QED BY <2>1, <2>2 DEF Pulls
<1>9. HistoryTypes
  BY BoundsAssumption DEF HistoryTypes, Init
<1> QED BY <1>1, <1>2, <1>5, <1>6, <1>7, <1>8, <1>9 DEF Types, PhoneTypes

LEMMA PushKeeps ==
    ASSUME BusTypes, NEW m \in Messages, Push(m)
    PROVE  BusTypes'
<1>1. Capacity \in Nat \ {0}
  BY BoundsAssumption
<1>2. bus \in Seq(Messages) /\ Len(bus) \in Nat /\ Len(bus) <= Capacity
  BY DEF BusTypes
<1> DEFINE rest == IF Len(bus) < Capacity THEN bus ELSE Tail(bus)
<1>3. rest \in Seq(Messages) /\ Len(rest) < Capacity
  <2>1. CASE Len(bus) < Capacity
    BY <1>2, <2>1
  <2>2. CASE ~(Len(bus) < Capacity)
    <3>1. Len(bus) = Capacity /\ bus # <<>>
      BY <1>1, <1>2, <2>2
    <3>2. Tail(bus) \in Seq(Messages) /\ Len(Tail(bus)) = Len(bus) - 1
      BY <1>2, <3>1
    <3> QED BY <1>1, <1>2, <2>2, <3>1, <3>2
  <2> QED BY <2>1, <2>2
<1>4. bus' = Append(rest, m)
  BY DEF Push
<1>5. bus' \in Seq(Messages) /\ Len(bus') = Len(rest) + 1
  <2> HIDE DEF rest
  <2> QED BY <1>3, <1>4
<1>6. Len(bus') <= Capacity
  <2>1. Len(rest) \in Nat
    <3> HIDE DEF rest
    <3> QED BY <1>3
  <2> HIDE DEF rest
  <2> QED BY <1>1, <1>3, <1>5, <2>1
<1>7. lagged' \in BOOLEAN
  <2>1. lagged' = (lagged \/ Len(bus) = Capacity)
    BY DEF Push
  <2> QED BY <2>1
<1> QED BY <1>5, <1>6, <1>7 DEF BusTypes

LEMMA CrossedFields ==
    ASSUME RefreshTypes, NEW S \in SUBSET Cells
    PROVE  /\ Crossed(S) \in Refreshes
           /\ Crossed(S).stage = refresh.stage /\ Crossed(S).pc = refresh.pc
           /\ Crossed(S).got = refresh.got /\ Crossed(S).copy = refresh.copy
           /\ Crossed(S).resync = refresh.resync
           /\ Crossed(S).crossed = refresh.crossed
                  \cup IF refresh.pc = "copied" THEN S ELSE S \cap DOMAIN refresh.got
<1>1. refresh \in Refreshes
  BY DEF RefreshTypes
<1> DEFINE new == refresh.crossed
                      \cup IF refresh.pc = "copied" THEN S ELSE S \cap DOMAIN refresh.got
<1>2. Crossed(S) = [refresh EXCEPT !.crossed = new]
  BY <1>1 DEF Crossed, Refreshes
<1>3. new \in SUBSET Cells
  BY <1>1 DEF Refreshes
<1> HIDE DEF new
<1>4. /\ Crossed(S) \in Refreshes
      /\ Crossed(S).stage = refresh.stage /\ Crossed(S).pc = refresh.pc
      /\ Crossed(S).got = refresh.got /\ Crossed(S).copy = refresh.copy
      /\ Crossed(S).resync = refresh.resync
      /\ Crossed(S).crossed = new
  BY <1>1, <1>2, <1>3 DEF Refreshes
<1> QED BY <1>4 DEF new

LEMMA CrossedKeeps ==
    ASSUME RefreshTypes, NEW S \in SUBSET Cells, refresh' = Crossed(S), UNCHANGED paged
    PROVE  RefreshTypes'
<1> DEFINE r == Crossed(S)
<1>1. /\ r \in Refreshes /\ r.stage = refresh.stage /\ r.pc = refresh.pc
      /\ r.got = refresh.got /\ r.copy = refresh.copy
  BY CrossedFields
<1>2. refresh' = r
  OBVIOUS
<1> HIDE DEF r
<1>3. /\ refresh' \in Refreshes /\ refresh'.stage = refresh.stage
      /\ refresh'.pc = refresh.pc
      /\ refresh'.got = refresh.got /\ refresh'.copy = refresh.copy
  BY <1>1, <1>2
<1>4. Stages'
  BY <1>3 DEF RefreshTypes, Stages
<1>5. Holds'
  BY <1>3 DEF RefreshTypes, Holds
<1> QED BY <1>3, <1>4, <1>5 DEF RefreshTypes

LEMMA HearsKeeps ==
    ASSUME ServerTypes, NEW last \in 0..Len(script), Hears(last),
           seen' \in {seen, last}, UNCHANGED <<script, paged>>
    PROVE  ServerTypes' /\ made <= made' /\ last <= made' /\ made \in Nat /\ made' \in Nat
<1>1. Len(script) \in Nat
  BY ScriptEvents
<1>2. made \in 0..Len(script) /\ seen \in 0..made
  BY DEF ServerTypes
<1>3. made' = IF made < last THEN last ELSE made
  BY DEF Hears
<1>4. made' \in 0..Len(script) /\ made <= made' /\ last <= made'
  BY <1>1, <1>2, <1>3
<1>5. seen' \in 0..made'
  BY <1>1, <1>2, <1>4
<1>6. ServerTypes'
  BY <1>4, <1>5 DEF ServerTypes
<1> QED BY <1>1, <1>2, <1>4, <1>6

\* The event the listener has next.
LEMMA NextEvent ==
    ASSUME Types, seen < Len(script)
    PROVE  /\ seen \in Nat /\ seen + 1 \in 1..Len(script) /\ seen + 1 \in 0..Len(script)
           /\ script[seen + 1].kind \in Kinds /\ script[seen + 1].x \in Cells
           /\ script[seen + 1].kind \in {"plan", "end"} <=> script[seen + 1].x = Header
           /\ script[seen + 1].kind \notin {"plan", "end"} => script[seen + 1].x \in Items
<1>1. ServerTypes
  BY DEF Types
<1>2. Len(script) \in Nat
  BY <1>1, ScriptEvents
<1>3. seen \in Nat
  BY <1>1, <1>2 DEF ServerTypes
<1>4. seen + 1 \in 1..Len(script)
  BY <1>2, <1>3
<1>5. /\ script[seen + 1].kind \in Kinds /\ script[seen + 1].x \in Cells
      /\ script[seen + 1].x = Header <=> script[seen + 1].kind \in {"plan", "end"}
  BY <1>1, <1>4, ScriptEvents
<1> QED BY <1>3, <1>4, <1>5 DEF Cells

LEMMA ItemTypes ==
    ASSUME Types, seen < Len(script), ApplyItem
    PROVE  /\ store' \in Threads /\ Todo'
           /\ script[seen + 1].x \in Items /\ refresh' = Crossed({script[seen + 1].x})
           /\ missed' \cup silent' \subseteq Items /\ raced' \subseteq Cells
<1> DEFINE x == script[seen + 1].x
           new == IF script[seen + 1].kind = "completed" THEN Final(x, "event")
                  ELSE [text |-> <<>>, state |-> "named", from |-> "event"]
           tells == Tells(x, store[x], new)
<1>1. x \in Items /\ x \in Cells /\ x # Header
  BY NextEvent, NamesAssumption DEF ApplyItem, Cells
<1>2. new \in Value
  <2>1. Final(x, "event") \in Value
    BY FinalValue DEF Types
  <2>2. [text |-> <<>>, state |-> "named", from |-> "event"] \in Value
    BY DEF Value
  <2> QED BY <2>1, <2>2
<1>3. /\ store' = [store EXCEPT ![x] = new]
      /\ todo' = IF tells THEN [t |-> "item", x |-> x, v |-> new] ELSE Nothing
      /\ silent' = silent \cup {y \in {x} : ~tells /\ ~Same(x, store[x], new)}
      /\ refresh' = Crossed({x})
      /\ missed' \subseteq missed /\ raced' \subseteq raced
  BY DEF ApplyItem
<1> HIDE DEF new, tells
<1>4. store' \in Threads
  <2>1. store \in Threads
    BY DEF Types, StoreTypes
  <2> HIDE DEF x
  <2> QED BY <1>1, <1>2, <1>3, <2>1, PutThread
<1>5. Todo'
  <2>1. CASE todo' = Nothing
    BY <2>1 DEF Todo, Nothing, Cells
  <2>2. CASE todo' = [t |-> "item", x |-> x, v |-> new]
    <3> HIDE DEF x
    <3> QED BY <1>1, <1>2, <2>2 DEF Todo
  <2> QED BY <1>3, <2>1, <2>2
<1>6. missed' \cup silent' \subseteq Items /\ raced' \subseteq Cells
  BY <1>1, <1>3 DEF Types, HistoryTypes
<1> QED BY <1>1, <1>3, <1>4, <1>5, <1>6

LEMMA DeltaTypes ==
    ASSUME Types, seen < Len(script), ApplyDelta
    PROVE  /\ store' \in Threads /\ Todo'
           /\ script[seen + 1].x \in Items /\ refresh' = Crossed({script[seen + 1].x})
           /\ missed' \cup silent' \subseteq Items /\ raced' \subseteq Cells
<1> DEFINE x == script[seen + 1].x
           n == Part(seen + 1)
<1>1. x \in Items /\ x \in Cells /\ x # Header
  BY NextEvent, NamesAssumption DEF ApplyDelta, Cells
<1>2. n \in Nat
  <2>1. seen + 1 \in Nat
    BY NextEvent
  <2> QED BY <2>1, PartCounted
<1>3. store \in Threads /\ store[x] \in Value \cup {Absent}
  <2>1. store \in Threads
    BY DEF Types, StoreTypes
  <2> QED BY <1>1, <2>1, ThreadKinds
<1>4. \/ /\ store' = [store EXCEPT ![x] =
                         [text |-> <<n>>, state |-> "bare", from |-> "event"]]
         /\ todo' = [t |-> "byId", x |-> x]
      \/ /\ store[x] # Absent
         /\ store' = [store EXCEPT ![x].text = Append(@, n)]
         /\ todo' = [t |-> "delta", x |-> x, n |-> n]
  BY DEF ApplyDelta
<1> HIDE DEF x, n
<1>5. store' \in Threads /\ Todo'
  <2>1. ASSUME store' = [store EXCEPT ![x] =
                         [text |-> <<n>>, state |-> "bare", from |-> "event"]],
               todo' = [t |-> "byId", x |-> x]
        PROVE  store' \in Threads /\ Todo'
    <3>1. [text |-> <<n>>, state |-> "bare", from |-> "event"] \in Value
      BY <1>2 DEF Value
    <3>2. store' \in Threads
      BY <1>1, <1>3, <2>1, <3>1, PutThread
    <3> QED BY <1>1, <2>1, <3>2 DEF Todo
  <2>2. ASSUME store[x] # Absent, store' = [store EXCEPT ![x].text = Append(@, n)],
               todo' = [t |-> "delta", x |-> x, n |-> n]
        PROVE  store' \in Threads /\ Todo'
    <3> DEFINE v == [store[x] EXCEPT !.text = Append(@, n)]
    <3>1. store[x] \in Value
      BY <1>3, <2>2
    <3>2. v \in Value
      <4>1. store[x].text \in Seq(Nat)
        BY <3>1 DEF Value
      <4>2. Append(store[x].text, n) \in Seq(Nat)
        BY <1>2, <4>1
      <4> QED BY <3>1, <4>2 DEF Value
    <3>3. store' = [store EXCEPT ![x] = v]
      BY <1>1, <1>3, <2>2 DEF Threads, Sketches, Thread
    <3> HIDE DEF v
    <3>4. store' \in Threads
      BY <1>1, <1>3, <3>2, <3>3, PutThread
    <3> QED BY <1>1, <1>2, <2>2, <3>4 DEF Todo
  <2> QED BY <1>4, <2>1, <2>2
<1>6. missed' \cup silent' \subseteq Items /\ raced' \subseteq Cells
  BY DEF Types, HistoryTypes, ApplyDelta
<1>7. refresh' = Crossed({x})
  BY DEF ApplyDelta, x
<1> QED BY <1>1, <1>5, <1>6, <1>7 DEF x

LEMMA HeaderTypes ==
    ASSUME Types, seen < Len(script), ApplyHeader
    PROVE  /\ store' \in Threads /\ Todo'
           /\ script[seen + 1].x = Header /\ refresh' = Crossed({script[seen + 1].x})
           /\ missed' \cup silent' \subseteq Items /\ raced' \subseteq Cells
<1>1. script[seen + 1].x = Header /\ Header \in Cells
  BY NextEvent DEF ApplyHeader, Cells
<1>2. store \in Threads /\ store[Header] \in State
  <2>1. store \in Threads
    BY DEF Types, StoreTypes
  <2> QED BY <2>1, ThreadKinds
<1> DEFINE v == IF script[seen + 1].kind = "end" THEN [turn |-> FALSE, plan |-> 0]
                ELSE [store[Header] EXCEPT !.plan = seen + 1]
<1>3. v \in State
  <2>1. seen + 1 \in Nat
    BY NextEvent
  <2> QED BY <1>2, <2>1 DEF State
<1>4. store' = [store EXCEPT ![Header] = v]
  BY <1>2 DEF ApplyHeader, Threads, Sketches, Thread
<1> HIDE DEF v
<1>5. store' \in Threads
  BY <1>1, <1>2, <1>3, <1>4, PutThread, NamesAssumption
<1>6. Todo'
  BY <1>1 DEF Todo, ApplyHeader
<1>7. missed' \cup silent' \subseteq Items /\ raced' \subseteq Cells
  BY DEF Types, HistoryTypes, ApplyHeader
<1>8. refresh' = Crossed({Header})
  BY DEF ApplyHeader
<1> QED BY <1>1, <1>5, <1>6, <1>7, <1>8

LEMMA ApplyTypes ==
    ASSUME Types, Apply
    PROVE  Types'
<1>1. seen < Len(script) /\ seen' = seen + 1 /\ Hears(seen + 1)
  BY DEF Apply
<1>2. /\ store' \in Threads /\ Todo'
      /\ missed' \cup silent' \subseteq Items /\ raced' \subseteq Cells
  BY <1>1, ItemTypes, DeltaTypes, HeaderTypes DEF Apply
<1>3. \E S \in SUBSET Cells : refresh' = Crossed(S)
  <2>1. refresh' = Crossed({script[seen + 1].x})
    BY <1>1, ItemTypes, DeltaTypes, HeaderTypes DEF Apply
  <2>2. {script[seen + 1].x} \in SUBSET Cells
    BY <1>1, NextEvent
  <2> QED BY <2>1, <2>2
<1>4. ServerTypes'
  <2>1. seen + 1 \in 0..Len(script)
    BY <1>1, NextEvent
  <2> QED BY <1>1, <2>1, HearsKeeps DEF Apply, Types
<1>5. RefreshTypes'
  BY <1>3, CrossedKeeps DEF Types, Apply
<1>6. StoreTypes'
  BY <1>2 DEF Types, StoreTypes, Apply
<1>7. BusTypes' /\ PhoneTypes'
  BY DEF Types, BusTypes, PhoneTypes, Apply, subscription, phone
<1>8. HistoryTypes'
  BY <1>2 DEF Types, HistoryTypes, Apply, phone
<1> QED BY <1>2, <1>4, <1>5, <1>6, <1>7, <1>8 DEF Types

\* A cell as it is broadcast.
LEMMA ValueTypes ==
    ASSUME Types, NEW x \in Cells, NEW v, EmitValue(x, v),
           x = Header => v \in State, x \in Items => v \in Value
    PROVE  cache' \in Sketches /\ BusTypes' /\ silent' \subseteq silent
<1>1. CASE UNCHANGED <<cache, bus, lagged, silent>>
  BY <1>1 DEF Types, StoreTypes, BusTypes
<1>2. CASE ~UNCHANGED <<cache, bus, lagged, silent>>
  <2> DEFINE b == Same(x, store[x], v)
             m == [t |-> "cell", x |-> x, v |-> v, fresh |-> b]
  <2>1. cache' = [cache EXCEPT ![x] = v] /\ Push(m) /\ silent' = silent \ {x}
    BY <1>2 DEF EmitValue
  <2>2. m \in Messages
    <3>1. b \in BOOLEAN
      BY DEF Same
    <3> HIDE DEF b
    <3>2. ASSUME x = Header PROVE m \in [t : {"cell"}, x : {Header}, v : State, fresh : BOOLEAN]
      BY <3>1, <3>2
    <3>3. ASSUME x \in Items PROVE m \in [t : {"cell"}, x : Items, v : Value, fresh : BOOLEAN]
      BY <3>1, <3>3
    <3> HIDE DEF m
    <3> QED BY <3>2, <3>3 DEF Cells, Messages
  <2> HIDE DEF b, m
  <2>3. BusTypes'
    BY <2>1, <2>2, PushKeeps DEF Types
  <2>4. cache' \in Sketches
    <3>1. cache \in Sketches
      BY DEF Types, StoreTypes
    <3> QED BY <2>1, <3>1, PutSketch
  <2> QED BY <2>1, <2>3, <2>4
<1> QED BY <1>1, <1>2

LEMMA EmitTypes ==
    ASSUME Types, Emit
    PROVE  Types'
<1>1. Todo'
  BY DEF Todo, Emit, Nothing, Cells
<1>2. cache' \in Sketches /\ BusTypes' /\ silent' \subseteq silent
  <2>1. ASSUME todo.t = "item", EmitValue(todo.x, todo.v)
        PROVE  cache' \in Sketches /\ BusTypes' /\ silent' \subseteq silent
    <3>1. todo.x \in Items /\ todo.x \in Cells /\ todo.v \in Value /\ todo.x # Header
      BY <2>1, NamesAssumption DEF Types, Todo
    <3> QED BY <2>1, <3>1, ValueTypes
  <2>2. ASSUME todo.t \in {"byId", "head"},
               IF store[todo.x] = Absent THEN UNCHANGED <<cache, bus, lagged, silent>>
               ELSE EmitValue(todo.x, store[todo.x])
        PROVE  cache' \in Sketches /\ BusTypes' /\ silent' \subseteq silent
    <3>1. CASE UNCHANGED <<cache, bus, lagged, silent>>
      BY <3>1 DEF Types, StoreTypes, BusTypes
    <3>2. ASSUME store[todo.x] # Absent, EmitValue(todo.x, store[todo.x])
          PROVE  cache' \in Sketches /\ BusTypes' /\ silent' \subseteq silent
      <4>1. store \in Threads /\ todo.x \in Cells
        BY DEF Types, StoreTypes, Todo
      <4>2. /\ todo.x = Header => store[todo.x] \in State
            /\ todo.x \in Items => store[todo.x] \in Value
        BY <3>2, <4>1, ThreadKinds
      <4> QED BY <3>2, <4>1, <4>2, ValueTypes
    <3> QED BY <2>2, <3>1, <3>2
  <2>3. ASSUME todo.t = "delta", Push([t |-> "delta", x |-> todo.x, n |-> todo.n]),
               UNCHANGED <<cache, silent>>
        PROVE  cache' \in Sketches /\ BusTypes' /\ silent' \subseteq silent
    <3>1. [t |-> "delta", x |-> todo.x, n |-> todo.n] \in Messages
      BY <2>3 DEF Types, Todo, Messages
    <3>2. BusTypes'
      BY <2>3, <3>1, PushKeeps DEF Types
    <3> QED BY <2>3, <3>2 DEF Types, StoreTypes
  <2> QED BY <2>1, <2>2, <2>3 DEF Emit
<1>3. ServerTypes' /\ RefreshTypes' /\ PhoneTypes' /\ StoreTypes'
  BY <1>2 DEF Types, ServerTypes, RefreshTypes, Stages, Holds, PhoneTypes, StoreTypes,
     Emit, server, phone
<1>4. HistoryTypes'
  BY <1>2 DEF Types, HistoryTypes, Emit, phone
<1> QED BY <1>1, <1>2, <1>3, <1>4 DEF Types

LEMMA LoseTypes ==
    ASSUME Types, NEW why \in {"lag", "cut"}, Lose(why)
    PROVE  Types'
<1>1. PICK last \in seen + 1..Len(script) :
          /\ seen' = last /\ Hears(last)
          /\ missed' = missed \cup ({script[k].x : k \in seen + 1..last} \ {Header})
          /\ refresh' = Crossed({script[k].x : k \in seen + 1..last})
  BY DEF Lose
<1>2. ServerTypes /\ Len(script) \in Nat
  BY ScriptEvents DEF Types
<1>3. seen \in Nat
  BY <1>2 DEF ServerTypes
<1>4. last \in 0..Len(script) /\ seen + 1..last \subseteq 1..Len(script)
  BY <1>2, <1>3
<1> DEFINE lost == {script[k].x : k \in seen + 1..last}
<1>5. lost \in SUBSET Cells
  BY <1>2, <1>4, ScriptEvents
<1>6. ServerTypes'
  BY <1>1, <1>2, <1>4, HearsKeeps DEF Lose
<1>7. RefreshTypes'
  BY <1>1, <1>5, CrossedKeeps DEF Types, Lose
<1>8. Todo' /\ StoreTypes' /\ BusTypes' /\ PhoneTypes'
  BY DEF Types, Todo, StoreTypes, BusTypes, PhoneTypes, Lose, subscription, phone
<1>9. HistoryTypes'
  <2>1. missed' = missed \cup (lost \ {Header})
    BY <1>1
  <2>2. missed' \subseteq Items
    BY <1>5, <2>1 DEF Types, HistoryTypes, Cells
  <2>3. faults' \in 0..MaxFaults
    BY BoundsAssumption DEF Types, HistoryTypes, Lose
  <2> QED BY <2>2, <2>3 DEF Types, HistoryTypes, Lose, phone
<1> QED BY <1>6, <1>7, <1>8, <1>9 DEF Types

\* An answer of the server: its cells, and what they hold.
AnswerCells(stage) == IF ~paged THEN Cells
                      ELSE CASE stage = "resume" -> {}
                             [] stage = "probe" -> {Header}
                             [] stage = "page" -> Items

LEMMA AnswerTypes ==
    ASSUME ServerTypes, NEW stage \in {"resume", "probe", "page"}, NEW n
    PROVE  /\ DOMAIN Answer(stage, n) = AnswerCells(stage)
           /\ AnswerCells(stage) \subseteq Cells
           /\ \A x \in AnswerCells(stage) :
                 /\ x = Header => /\ Answer(stage, n)[x] \in State
                                  /\ Answer(stage, n)[x].turn = ~By(n, "end", Header)
                 /\ x \in Items =>
                       /\ Answer(stage, n)[x] =
                             IF By(n, "completed", x) THEN Final(x, "turns") ELSE Absent
                       /\ Answer(stage, n)[x] \in Value \cup {Absent}
           /\ Answer(stage, n) \in Answers
           /\ ~paged => Answer(stage, n) \in Threads
<1> DEFINE S == AnswerCells(stage)
           ended == ~By(n, "end", Header)
           at(x) == IF x = Header THEN [turn |-> ended, plan |-> 0]
                    ELSE IF By(n, "completed", x) THEN Final(x, "turns") ELSE Absent
           answer == Answer(stage, n)
<1>1. answer = [x \in S |-> at(x)]
  BY DEF Answer, AnswerCells
<1>2. S \subseteq Cells
  BY DEF AnswerCells, Cells
<1>3. [turn |-> ended, plan |-> 0] \in State
  <2>1. ended \in BOOLEAN
    BY DEF By
  <2> HIDE DEF ended
  <2> QED BY <2>1 DEF State
<1>4. \A x : Final(x, "turns") \in Value
  BY FinalValue
<1>5. at(Header) \in State /\ at(Header).turn = ended
  <2> HIDE DEF ended
  <2> QED BY <1>3
<1>6. \A x \in Items : /\ at(x) = IF By(n, "completed", x) THEN Final(x, "turns") ELSE Absent
                       /\ at(x) \in Value \cup {Absent}
  <2> HIDE DEF ended
  <2> QED BY <1>4, NamesAssumption
<1> HIDE DEF at, answer, S
<1>7. /\ DOMAIN answer = S
      /\ \A x \in S : /\ answer[x] = at(x)
                      /\ x = Header => answer[x] \in State /\ answer[x].turn = ended
                      /\ x \in Items => answer[x] \in Value \cup {Absent}
  BY <1>1, <1>5, <1>6
<1>8. answer \in Answers
  <2>1. \A x \in S : answer[x] \in Value \cup State \cup {Absent}
    BY <1>2, <1>7 DEF Cells
  <2>2. answer \in [S -> Value \cup State \cup {Absent}]
    <3>1. answer = [x \in S |-> answer[x]]
      BY <1>1
    <3> QED BY <2>1, <3>1
  <2>3. S \in SUBSET Cells
    BY <1>2
  <2> QED BY <2>2, <2>3 DEF Answers
<1>9. ~paged => answer \in Threads
  <2> SUFFICES ASSUME ~paged PROVE answer \in Threads
    OBVIOUS
  <2>1. S = Cells
    BY DEF S, AnswerCells
  <2>2. /\ answer = [x \in Cells |-> answer[x]] /\ answer[Header] \in State
        /\ \A x \in Items : answer[x] \in Value \cup {Absent}
    BY <1>1, <1>7, <2>1 DEF Cells
  <2> QED BY <2>2, AThread
<1> USE DEF answer, S
<1>10. \A x \in S \cap Items : answer[x] =
          IF By(n, "completed", x) THEN Final(x, "turns") ELSE Absent
  <2> HIDE DEF answer, S
  <2> QED BY <1>6, <1>7
<1> QED BY <1>2, <1>7, <1>8, <1>9, <1>10

\* What an answer that has come is to its stage.
LEMMA AnswerHolds ==
    ASSUME ServerTypes, NEW stage \in {"resume", "probe", "page"}, NEW n, NEW r \in Refreshes,
           r.stage = stage, r.pc = "answered", r.got = Answer(stage, n),
           stage \in {"probe", "page"} => paged,
           refresh' = r, UNCHANGED paged
    PROVE  RefreshTypes'
<1>1. Stages'
  BY DEF Stages
<1>2. Holds'
  <2>1. ~paged => refresh'.got \in Threads
    BY AnswerTypes
  <2>2. ASSUME paged
        PROVE  /\ stage = "resume" => DOMAIN refresh'.got = {}
               /\ stage = "probe" =>
                     DOMAIN refresh'.got = {Header} /\ refresh'.got[Header] \in State
               /\ stage = "page" =>
                     /\ DOMAIN refresh'.got = Items
                     /\ \A x \in Items : refresh'.got[x] \in Value \cup {Absent}
    <3>1. /\ stage = "resume" => AnswerCells(stage) = {}
          /\ stage = "probe" => AnswerCells(stage) = {Header}
          /\ stage = "page" => AnswerCells(stage) = Items
      BY <2>2 DEF AnswerCells
    <3> QED BY <3>1, AnswerTypes
  <2> QED BY <2>1, <2>2 DEF Holds
<1> QED BY <1>1, <1>2 DEF RefreshTypes

LEMMA StartTypes ==
    ASSUME Types, RefreshStarts
    PROVE  Types'
<1>1. PICK n \in IF paged THEN {made} ELSE Lead :
          /\ Hears(n)
          /\ refresh' = [Idle EXCEPT !.stage = "resume", !.pc = "answered",
                 !.got = Answer("resume", n), !.resync = (due = "lag")]
  BY DEF RefreshStarts
<1>2. ServerTypes /\ Len(script) \in Nat
  BY ScriptEvents DEF Types
<1>3. n \in 0..Len(script)
  <2>1. made \in 0..Len(script) /\ seen \in 0..made /\ MaxAhead \in Nat
    BY <1>2, BoundsAssumption DEF ServerTypes
  <2> QED BY <1>2, <2>1 DEF Lead
<1>4. ServerTypes'
  BY <1>1, <1>2, <1>3, HearsKeeps DEF RefreshStarts, listener
<1>5. RefreshTypes'
  <2> DEFINE r == [Idle EXCEPT !.stage = "resume", !.pc = "answered",
                 !.got = Answer("resume", n), !.resync = (due = "lag")]
  <2>1. Answer("resume", n) \in Answers
    BY <1>2, AnswerTypes
  <2>2. r \in Refreshes /\ r.stage = "resume" /\ r.pc = "answered"
        /\ r.got = Answer("resume", n)
    BY <2>1 DEF Refreshes, Idle
  <2>3. refresh' = r
    BY <1>1
  <2> HIDE DEF r
  <2>4. UNCHANGED paged
    BY DEF RefreshStarts
  <2> QED BY <1>2, <2>2, <2>3, <2>4, AnswerHolds
<1>6. Todo' /\ StoreTypes' /\ BusTypes' /\ PhoneTypes'
  BY DEF Types, Todo, StoreTypes, BusTypes, PhoneTypes, RefreshStarts, subscription, phone,
     listener
<1>7. HistoryTypes'
  BY BoundsAssumption DEF Types, HistoryTypes, RefreshStarts, phone
<1> QED BY <1>4, <1>5, <1>6, <1>7 DEF Types

LEMMA AnswersTypes ==
    ASSUME Types, ServerAnswers
    PROVE  Types'
<1>1. PICK n \in Lead :
          /\ Hears(n)
          /\ refresh' = [refresh EXCEPT !.pc = "answered", !.got = Answer(refresh.stage, n)]
  BY DEF ServerAnswers
<1>2. ServerTypes /\ Len(script) \in Nat /\ refresh \in Refreshes
  BY ScriptEvents DEF Types, RefreshTypes
<1>3. n \in 0..Len(script)
  <2>1. made \in 0..Len(script) /\ seen \in 0..made /\ MaxAhead \in Nat
    BY <1>2, BoundsAssumption DEF ServerTypes
  <2> QED BY <1>2, <2>1 DEF Lead
<1>4. ServerTypes'
  BY <1>1, <1>2, <1>3, HearsKeeps DEF ServerAnswers, listener
<1>5. RefreshTypes'
  <2> DEFINE stage == refresh.stage
             r == [refresh EXCEPT !.pc = "answered", !.got = Answer(stage, n)]
  <2>0. stage \in {"probe", "page"} /\ paged
    BY DEF ServerAnswers, Types, RefreshTypes, Stages
  <2>1. Answer(stage, n) \in Answers
    BY <1>2, <2>0, AnswerTypes
  <2>2. r \in Refreshes /\ r.stage = stage /\ r.pc = "answered" /\ r.got = Answer(stage, n)
    BY <1>2, <2>1 DEF Refreshes
  <2>3. refresh' = r
    BY <1>1
  <2> HIDE DEF r
  <2>4. UNCHANGED paged
    BY DEF ServerAnswers
  <2> HIDE DEF stage
  <2> QED BY <1>2, <2>0, <2>2, <2>3, <2>4, AnswerHolds
<1>6. Todo' /\ StoreTypes' /\ BusTypes' /\ PhoneTypes' /\ HistoryTypes'
  BY DEF Types, Todo, StoreTypes, BusTypes, PhoneTypes, HistoryTypes, ServerAnswers,
     subscription, phone, listener
<1> QED BY <1>4, <1>5, <1>6 DEF Types

LEMMA TargetTypes ==
    ASSUME Types, refresh.pc = "answered"
    PROVE  Target \in Threads
<1>1. store \in Threads /\ store[Header] \in State /\ refresh \in Refreshes
      /\ store = [x \in Cells |-> store[x]]
  BY DEF Types, StoreTypes, RefreshTypes, Threads, Sketches, Thread
<1>2. Stages /\ Holds /\ Header \in Cells
  BY DEF Types, RefreshTypes, Cells
<1>3. refresh.stage \in {"resume", "probe", "page"}
  BY <1>1, <1>2 DEF Refreshes, Stages
<1>4. CASE refresh.stage = "resume" /\ ~paged
  BY <1>2, <1>4 DEF Target, Holds
<1>5. CASE refresh.stage = "resume" /\ paged
  <2> DEFINE v == [store[Header] EXCEPT !.plan = 0]
  <2>1. v \in State
    BY <1>1 DEF State
  <2>2. Target = [store EXCEPT ![Header] = v]
    BY <1>1, <1>2, <1>5 DEF Target
  <2> HIDE DEF v
  <2> QED BY <1>1, <1>2, <2>1, <2>2, PutThread, NamesAssumption
<1>6. CASE refresh.stage = "probe"
  <2> DEFINE turn == store[Header].turn /\ refresh.got[Header].turn
             v == [store[Header] EXCEPT !.turn = turn]
  <2>1. turn \in BOOLEAN
    OBVIOUS
  <2>2. Target = [store EXCEPT ![Header] = v]
    <3>1. Target = [store EXCEPT ![Header].turn = turn]
      BY <1>6 DEF Target
    <3> HIDE DEF turn
    <3> QED BY <1>1, <1>2, <3>1
  <2>3. v \in State
    <3> HIDE DEF turn
    <3> QED BY <1>1, <2>1 DEF State
  <2> HIDE DEF v, turn
  <2> QED BY <1>1, <1>2, <2>2, <2>3, PutThread, NamesAssumption
<1>7. CASE refresh.stage = "page"
  <2> DEFINE page == refresh.got
             new == MergePage(page)
  <2>1. Target = new
    BY <1>7 DEF Target
  <2>2. \A x \in Items : page[x] \in Value \cup {Absent}
    BY <1>2, <1>7 DEF Holds, Types
  <2>3. \A x \in Items : store[x] \in Value \cup {Absent}
    BY <1>1, ThreadKinds
  <2> HIDE DEF page
  <2>4. /\ new = [x \in Cells |-> new[x]] /\ new[Header] = store[Header]
        /\ \A x \in Items : new[x] \in {page[x], store[x], Absent}
    BY NamesAssumption DEF MergePage, Cells
  <2>5. \A x \in Items : new[x] \in Value \cup {Absent}
    <3> HIDE DEF new
    <3> QED BY <2>2, <2>3, <2>4
  <2>6. new[Header] \in State
    BY <1>1, <2>4
  <2> HIDE DEF new
  <2> QED BY <2>1, <2>4, <2>5, <2>6, AThread
<1> QED BY <1>3, <1>4, <1>5, <1>6, <1>7

LEMMA NothingHeld == <<>> \in Answers
<1>1. <<>> \in [{} -> Value \cup State \cup {Absent}]
  OBVIOUS
<1>2. {} \in SUBSET Cells
  OBVIOUS
<1> QED BY <1>1, <1>2 DEF Answers

LEMMA ReadsTypes ==
    ASSUME Types, RefreshReads
    PROVE  Types'
<1>1. refresh \in Refreshes /\ Stages /\ refresh.pc = "answered"
  BY DEF Types, RefreshTypes, RefreshReads
<1>2. RefreshTypes'
  <2>1. ASSUME refresh' = [refresh EXCEPT !.stage = "end", !.pc = "idle"]
        PROVE  RefreshTypes'
    <3>1. refresh' \in Refreshes /\ refresh'.stage = "end" /\ refresh'.pc = "idle"
      BY <1>1, <2>1 DEF Refreshes
    <3> QED BY <3>1 DEF RefreshTypes, Stages, Holds
  <2>2. ASSUME refresh' = [refresh EXCEPT !.pc = "copied", !.copy = Target, !.got = <<>>]
        PROVE  RefreshTypes'
    <3> DEFINE target == Target
    <3>1. target \in Threads
      BY <1>1, TargetTypes
    <3>2. refresh' = [refresh EXCEPT !.pc = "copied", !.copy = target, !.got = <<>>]
      BY <2>2
    <3> HIDE DEF target
    <3>3. /\ refresh' \in Refreshes /\ refresh'.stage = refresh.stage /\ refresh'.pc = "copied"
          /\ refresh'.copy = target
      BY <1>1, <3>1, <3>2, NothingHeld DEF Refreshes
    <3>4. paged' = paged
      BY DEF RefreshReads, server
    <3>5. Stages'
      BY <1>1, <3>3, <3>4 DEF Stages
    <3> QED BY <3>1, <3>3, <3>5 DEF RefreshTypes, Holds
  <2> QED BY <2>1, <2>2 DEF RefreshReads
<1>3. ServerTypes' /\ Todo' /\ StoreTypes' /\ BusTypes' /\ PhoneTypes' /\ HistoryTypes'
  BY DEF Types, ServerTypes, Todo, StoreTypes, BusTypes, PhoneTypes, HistoryTypes,
     RefreshReads, server, subscription, phone, listener
<1> QED BY <1>2, <1>3 DEF Types

LEMMA OrItemsThread ==
    ASSUME NEW f \in Threads, NEW g \in Threads
    PROVE  /\ OrItems(f, g) \in Threads /\ OrItems(f, g)[Header] = f[Header]
           /\ \A x \in Items : OrItems(f, g)[x] = IF Empty(f) THEN g[x] ELSE f[x]
<1> DEFINE new == OrItems(f, g)
<1>1. /\ new = [x \in Cells |-> new[x]] /\ new[Header] = f[Header]
      /\ \A x \in Items : new[x] = IF Empty(f) THEN g[x] ELSE f[x]
  BY NamesAssumption DEF OrItems, Cells
<1>2. /\ f[Header] \in State
      /\ \A x \in Items : f[x] \in Value \cup {Absent} /\ g[x] \in Value \cup {Absent}
  BY ThreadKinds
<1> HIDE DEF new
<1>3. new \in Threads
  BY <1>1, <1>2, AThread
<1> QED BY <1>1, <1>3 DEF new

\* What a refresh leaves in the store.
LEMMA WrittenThread ==
    ASSUME Types, RefreshWrites
    PROVE  /\ store' \in Threads
           /\ store'[Header].turn = refresh.copy[Header].turn
           /\ \A x \in Items :
                 store'[x] = IF Empty(refresh.copy) THEN store[x] ELSE refresh.copy[x]
<1> DEFINE copy == refresh.copy
           plan == IF copy[Header].plan = 0 THEN store[Header].plan ELSE copy[Header].plan
           mixed == OrItems(copy, store)
           v == [mixed[Header] EXCEPT !.plan = plan]
<1>1. store \in Threads /\ copy \in Threads
  BY DEF Types, StoreTypes, RefreshTypes, Holds, RefreshWrites
<1>2. store' = [mixed EXCEPT ![Header].plan = plan]
  BY DEF RefreshWrites
<1>3. store[Header] \in State /\ copy[Header] \in State
  BY <1>1, ThreadKinds
<1> HIDE DEF copy
<1>4. /\ mixed \in Threads /\ mixed[Header] = copy[Header]
      /\ \A x \in Items : mixed[x] = IF Empty(copy) THEN store[x] ELSE copy[x]
  BY <1>1, OrItemsThread
<1>5. plan \in Nat
  BY <1>3 DEF State
<1> HIDE DEF mixed, plan
<1>6. v \in State /\ v.turn = copy[Header].turn
  BY <1>3, <1>4, <1>5 DEF State
<1>7. store' = [mixed EXCEPT ![Header] = v] /\ Header \in Cells
      /\ mixed = [x \in Cells |-> mixed[x]]
  BY <1>2, <1>4 DEF Cells, Threads, Sketches, Thread
<1> HIDE DEF v
<1>8. store' \in Threads
  BY <1>4, <1>6, <1>7, PutThread, NamesAssumption
<1>9. store'[Header] = v /\ \A x \in Items : store'[x] = mixed[x]
  BY <1>7, NamesAssumption DEF Cells
<1> QED BY <1>4, <1>6, <1>8, <1>9 DEF copy

LEMMA WritesTypes ==
    ASSUME Types, RefreshWrites
    PROVE  Types'
<1>1. refresh \in Refreshes /\ Stages
  BY DEF Types, RefreshTypes
<1>2. refresh' = [refresh EXCEPT !.pc = "written", !.copy = Absent] /\ refresh.pc = "copied"
  BY DEF RefreshWrites
<1>3. refresh' \in Refreshes /\ refresh'.stage = refresh.stage /\ refresh'.pc = "written"
  BY <1>1, <1>2 DEF Refreshes
<1>4. RefreshTypes'
  BY <1>1, <1>2, <1>3 DEF RefreshTypes, Stages, Holds, RefreshWrites, server
<1>5. StoreTypes'
  BY WrittenThread DEF Types, StoreTypes, RefreshWrites
<1>6. ServerTypes' /\ Todo' /\ BusTypes' /\ PhoneTypes'
  BY DEF Types, ServerTypes, Todo, BusTypes, PhoneTypes, RefreshWrites, server,
     subscription, phone, listener
<1>7. HistoryTypes'
  <2>1. missed' \subseteq missed /\ raced' \subseteq raced \cup refresh.crossed
        /\ UNCHANGED <<faults, silent, odd>>
    BY DEF RefreshWrites, phone
  <2>2. refresh.crossed \subseteq Cells
    BY <1>1 DEF Refreshes
  <2> QED BY <2>1, <2>2 DEF Types, HistoryTypes
<1> QED BY <1>4, <1>5, <1>6, <1>7 DEF Types

LEMMA EmitsTypes ==
    ASSUME Types, RefreshEmits
    PROVE  Types'
<1>1. refresh \in Refreshes /\ Stages /\ refresh.pc = "written"
  BY DEF Types, RefreshTypes, RefreshEmits
<1> DEFINE pc == IF paged /\ refresh.stage # "page" THEN "ask" ELSE "idle"
           stage == CASE refresh.stage = "resume" /\ paged -> "probe"
                      [] refresh.stage = "probe" -> "page"
                      [] OTHER -> "end"
<1>2. refresh' = [refresh EXCEPT !.crossed = {}, !.pc = pc, !.stage = stage]
  BY DEF RefreshEmits
<1>3. pc \in {"ask", "idle"} /\ stage \in {"probe", "page", "end"}
  OBVIOUS
<1>4. refresh' \in Refreshes /\ refresh'.stage = stage /\ refresh'.pc = pc
  <2> HIDE DEF pc, stage
  <2> QED BY <1>1, <1>2, <1>3 DEF Refreshes
<1>5. /\ stage \in {"probe", "page"} => paged
      /\ pc = "idle" <=> stage = "end"
  <2>1. refresh.stage \in {"resume", "probe", "page"}
    BY <1>1 DEF Refreshes, Stages
  <2> QED BY <1>1, <2>1 DEF Stages
<1>6. RefreshTypes'
  <2>1. paged' = paged
    BY DEF RefreshEmits, server
  <2> HIDE DEF pc, stage
  <2>2. Stages'
    BY <1>3, <1>4, <1>5, <2>1 DEF Stages
  <2> QED BY <1>3, <1>4, <2>2 DEF RefreshTypes, Holds
<1>7. BusTypes'
  <2> DEFINE m == [t |-> "upsert", v |-> store,
                   mixed |-> IF todo.t = "delta" THEN {todo.x} ELSE {}]
  <2>1. m \in Messages
    BY DEF Types, StoreTypes, Todo, Messages
  <2>2. Push(m)
    BY DEF RefreshEmits
  <2> HIDE DEF m
  <2> QED BY <2>1, <2>2, PushKeeps DEF Types
<1>8. Nowhere \in Sketches
  BY DEF Sketches, Thread, Nowhere, Cells
<1>9. ServerTypes' /\ Todo' /\ StoreTypes' /\ PhoneTypes' /\ HistoryTypes'
  BY <1>8 DEF Types, ServerTypes, Todo, StoreTypes, PhoneTypes, HistoryTypes,
     RefreshEmits, server, phone, listener
<1> QED BY <1>6, <1>7, <1>9 DEF Types

LEMMA EndsTypes ==
    ASSUME Types, RefreshEnds
    PROVE  Types'
<1>1. RefreshTypes'
  <2>1. Idle \in Refreshes
    BY NothingHeld DEF Idle, Refreshes
  <2>2. refresh' = Idle
    BY DEF RefreshEnds
  <2> QED BY <2>1, <2>2 DEF RefreshTypes, Stages, Holds, Idle
<1>2. BusTypes'
  <2>1. [t |-> "resync"] \in Messages
    BY DEF Messages
  <2>2. Push([t |-> "resync"]) \/ UNCHANGED subscription
    BY DEF RefreshEnds
  <2> QED BY <2>1, <2>2, PushKeeps DEF Types, BusTypes, subscription
<1>3. ServerTypes' /\ Todo' /\ StoreTypes' /\ PhoneTypes' /\ HistoryTypes'
  BY DEF Types, ServerTypes, Todo, StoreTypes, PhoneTypes, HistoryTypes,
     RefreshEnds, server, phone, listener
<1> QED BY <1>1, <1>2, <1>3 DEF Types

\* What merge_app_update makes one update of.
LEMMA RunIsRun ==
    ASSUME bus \in Seq(Messages), bus # <<>>
    PROVE  /\ Run \in 1..Len(bus)
           /\ \A j \in 2..Run : Merge(bus[1], bus[j])
           /\ Run < Len(bus) => ~Merge(bus[1], bus[Run + 1])
<1> DEFINE n == Len(bus)
           T == {i \in 1..n : i = n \/ ~Merge(bus[1], bus[i + 1])}
<1>1. n \in Nat /\ n >= 1 /\ DOMAIN bus = 1..n
  OBVIOUS
<1> HIDE DEF n
<1>2. T # {} /\ T \subseteq Nat
  BY <1>1
<1>3. PICK k \in T : \A j \in T : ~(<<j, k>> \in OpToRel(<, Nat))
  BY <1>2, NatLessThanWellFounded, WFMin
<1>4. k \in 1..n /\ (k = n \/ ~Merge(bus[1], bus[k + 1]))
  BY <1>3
<1>5. ASSUME NEW j \in 2..k PROVE Merge(bus[1], bus[j])
  <2>1. /\ j - 1 \in 1..n /\ j - 1 < k /\ (j - 1) + 1 = j /\ j - 1 # n
        /\ j - 1 \in Nat /\ k \in Nat
    BY <1>1, <1>4
  <2>2. <<j - 1, k>> \in OpToRel(<, Nat)
    BY <2>1 DEF OpToRel
  <2>3. j - 1 \notin T
    BY <1>3, <2>2
  <2> QED BY <2>1, <2>3
<1>6. \E l \in 1..n :
         /\ \A j \in 2..l : Merge(bus[1], bus[j])
         /\ l < n => ~Merge(bus[1], bus[l + 1])
  <2>1. k < n => ~Merge(bus[1], bus[k + 1])
    BY <1>1, <1>4
  <2> QED BY <1>4, <1>5, <2>1
<1>7. /\ Run \in 1..n
      /\ \A j \in 2..Run : Merge(bus[1], bus[j])
      /\ Run < n => ~Merge(bus[1], bus[Run + 1])
  BY <1>1, <1>6 DEF Run, n
<1> QED BY <1>7 DEF n

LEMMA MessageKinds ==
    ASSUME NEW m \in Messages
    PROVE  /\ m.t \in {"delta", "cell", "upsert", "reload", "resync"}
           /\ m.t = "delta" => m.x \in Items /\ m.n \in Nat
           /\ m.t = "cell" => /\ m.x \in Cells /\ m.fresh \in BOOLEAN
                              /\ m.x = Header => m.v \in State
                              /\ m.x \in Items => m.v \in Value
           /\ m.t = "upsert" => m.v \in Threads /\ m.mixed \subseteq Cells
<1>1. CASE m \in [t : {"delta"}, x : Items, n : Nat]
  BY <1>1
<1>2. CASE m \in [t : {"cell"}, x : {Header}, v : State, fresh : BOOLEAN]
  BY <1>2, NamesAssumption DEF Cells
<1>3. CASE m \in [t : {"cell"}, x : Items, v : Value, fresh : BOOLEAN]
  BY <1>3, NamesAssumption DEF Cells
<1>4. CASE m \in [t : {"upsert"}, v : Threads, mixed : SUBSET Cells]
  BY <1>4
<1>5. CASE m \in [t : {"reload", "resync"}]
  BY <1>5
<1> QED BY <1>1, <1>2, <1>3, <1>4, <1>5 DEF Messages

\* The numbers of the deltas that have become one.
LEMMA RunOfDeltas ==
    ASSUME bus \in Seq(Messages), bus # <<>>, bus[Run].t = "delta"
    PROVE  /\ bus[Run].x \in Items
           /\ \A j \in 1..Run : bus[j].t = "delta" /\ bus[j].x = bus[Run].x
           /\ [k \in 1..Run |-> bus[k].n] \in Seq(Nat)
<1>1. /\ Run \in 1..Len(bus) /\ Len(bus) \in Nat
      /\ \A j \in 2..Run : Merge(bus[1], bus[j])
  BY RunIsRun
<1>2. bus[1].t = "delta" /\ bus[1].x = bus[Run].x
  <2>1. CASE Run = 1
    BY <2>1
  <2>2. CASE Run # 1
    <3>1. Merge(bus[1], bus[Run])
      BY <1>1, <2>2
    <3> QED BY <3>1 DEF Merge
  <2> QED BY <2>1, <2>2
<1>3. ASSUME NEW j \in 1..Run PROVE bus[j].t = "delta" /\ bus[j].x = bus[Run].x
  <2>1. CASE j = 1
    BY <1>2, <2>1
  <2>2. CASE j # 1
    <3>1. Merge(bus[1], bus[j])
      BY <1>1, <2>2
    <3> QED BY <1>2, <3>1 DEF Merge
  <2> QED BY <2>1, <2>2
<1>4. \A j \in 1..Run : bus[j] \in Messages
  BY <1>1
<1>5. \A j \in 1..Run : bus[j].n \in Nat
  BY <1>3, <1>4, MessageKinds
<1>6. bus[Run].x \in Items
  BY <1>1, <1>4, MessageKinds
<1>7. Run \in Nat
  BY <1>1
<1> DEFINE n == Run
<1>8. [k \in 1..n |-> bus[k].n] \in Seq(Nat)
  <2>1. n \in Nat /\ \A j \in 1..n : bus[j].n \in Nat
    BY <1>5, <1>7
  <2> HIDE DEF n
  <2> QED BY <2>1
<1> QED BY <1>3, <1>6, <1>8

LEMMA TouchedTypes ==
    ASSUME NEW S \in SUBSET Cells, NEW ps \in Pulls
    PROVE  /\ Touched(S, ps) \in Pulls
           /\ \A p \in {"loop", "side"} :
                 /\ Touched(S, ps)[p].due = ps[p].due
                 /\ Touched(S, ps)[p].copy = ps[p].copy
                 /\ Touched(S, ps)[p].crossed =
                       IF ps[p].copy = Absent THEN ps[p].crossed ELSE ps[p].crossed \cup S
<1> DEFINE new == Touched(S, ps)
           PullSet == [due : BOOLEAN, copy : Threads \cup {Absent}, crossed : SUBSET Cells]
<1>1. DOMAIN ps = {"loop", "side"} /\ \A p \in {"loop", "side"} : ps[p] \in PullSet
  BY DEF Pulls
<1>2. new = [p \in {"loop", "side"} |->
                IF ps[p].copy = Absent THEN ps[p] ELSE [ps[p] EXCEPT !.crossed = @ \cup S]]
  BY <1>1 DEF Touched
<1>3. \A p \in {"loop", "side"} :
          /\ new[p] \in PullSet
          /\ new[p].due = ps[p].due /\ new[p].copy = ps[p].copy
          /\ new[p].crossed =
                IF ps[p].copy = Absent THEN ps[p].crossed ELSE ps[p].crossed \cup S
  BY <1>1, <1>2
<1>4. new \in [{"loop", "side"} -> PullSet]
  <2>1. new = [p \in {"loop", "side"} |-> new[p]]
    BY <1>2
  <2> HIDE DEF new, PullSet
  <2> QED BY <1>3, <2>1
<1> QED BY <1>3, <1>4 DEF Pulls

LEMMA WantsTypes ==
    ASSUME pulls \in Pulls, NEW p \in {"loop", "side"}
    PROVE  Wants(p) \in Pulls
BY DEF Wants, Pulls

LEMMA SideTypes ==
    ASSUME Types, UNCHANGED <<server, listener, store, cache, due, refresh>>
    PROVE  ServerTypes' /\ Todo' /\ StoreTypes' /\ RefreshTypes'
BY DEF Types, ServerTypes, Todo, StoreTypes, RefreshTypes, Stages, Holds, server, listener

LEMMA LaggedTypes ==
    ASSUME Types, ReceiveLagged
    PROVE  Types'
<1>1. ServerTypes' /\ Todo' /\ StoreTypes' /\ RefreshTypes'
  BY SideTypes DEF ReceiveLagged
<1>2. BusTypes'
  BY DEF Types, BusTypes, ReceiveLagged
<1>3. PhoneTypes'
  BY WantsTypes DEF Types, PhoneTypes, ReceiveLagged
<1>4. HistoryTypes'
  BY DEF Types, HistoryTypes, ReceiveLagged
<1> QED BY <1>1, <1>2, <1>3, <1>4 DEF Types

LEMMA HandleDeltaTypes ==
    ASSUME Types, bus # <<>>, HandleDelta(bus[Run], Run)
    PROVE  PhoneTypes' /\ odd' \subseteq Cells
<1> DEFINE m == bus[Run]
           text == [k \in 1..Run |-> bus[k].n]
<1>1. m.t = "delta" /\ UNCHANGED batch
  BY DEF HandleDelta
<1>2. m.x \in Items /\ m.x \in Cells /\ text \in Seq(Nat)
  BY <1>1, RunOfDeltas DEF Types, BusTypes, Cells
<1>3. \/ /\ pulls' = Wants("side")
         /\ odd' = odd \cup {m.x} /\ UNCHANGED ui
      \/ /\ ui[m.x] # Absent
         /\ ui' = [ui EXCEPT ![m.x].text = @ \o text]
         /\ pulls' = Touched({m.x}, pulls)
         /\ odd' = odd \cup Older({m.x})
  BY DEF HandleDelta
<1> DEFINE x == m.x
<1>4. ui \in Threads /\ batch \in Sketches /\ pulls \in Pulls /\ odd \subseteq Cells
      /\ ui = [y \in Cells |-> ui[y]]
  BY DEF Types, PhoneTypes, HistoryTypes, Threads, Sketches, Thread
<1> HIDE DEF text, m
<1>5. odd' \subseteq Cells
  BY <1>2, <1>3, <1>4 DEF Older
<1>6. CASE pulls' = Wants("side") /\ UNCHANGED ui
  BY <1>1, <1>4, <1>5, <1>6, WantsTypes DEF PhoneTypes
<1>7. ASSUME ui[x] # Absent, ui' = [ui EXCEPT ![x].text = @ \o text],
             pulls' = Touched({x}, pulls)
      PROVE  PhoneTypes'
  <2> DEFINE v == [ui[x] EXCEPT !.text = @ \o text]
  <2>0. x \in Items /\ x \in Cells
    BY <1>2
  <2> HIDE DEF x
  <2>1. ui[x] \in Value
    BY <1>4, <1>7, <2>0, ThreadKinds
  <2>2. v \in Value
    <3>1. ui[x].text \o text \in Seq(Nat)
      BY <1>2, <2>1 DEF Value
    <3> QED BY <2>1, <3>1 DEF Value
  <2>3. ui' = [ui EXCEPT ![x] = v]
    BY <1>4, <1>7, <2>0
  <2> HIDE DEF v
  <2>4. ui' \in Threads
    BY <1>4, <2>0, <2>2, <2>3, PutThread, NamesAssumption
  <2>5. pulls' \in Pulls
    BY <1>4, <1>7, <2>0, TouchedTypes
  <2> QED BY <1>1, <1>4, <2>4, <2>5 DEF PhoneTypes
<1> QED BY <1>3, <1>5, <1>6, <1>7

LEMMA HandleCellTypes ==
    ASSUME Types, NEW m \in Messages, HandleCell(m)
    PROVE  PhoneTypes' /\ odd' \subseteq Cells
<1> DEFINE x == m.x
<1>1. m.t = "cell"
  BY DEF HandleCell
<1>2. x \in Cells /\ (x = Header => m.v \in State) /\ (x \in Items => m.v \in Value)
  BY <1>1, MessageKinds
<1>3. /\ \/ batch' = [batch EXCEPT ![x] = m.v] /\ UNCHANGED ui
         \/ ui' = [ui EXCEPT ![x] = m.v] /\ UNCHANGED batch
      /\ pulls' = Touched({x}, pulls)
      /\ odd' \subseteq odd \cup {x}
  BY DEF HandleCell
<1>4. ui \in Threads /\ batch \in Sketches /\ pulls \in Pulls /\ odd \subseteq Cells
  BY DEF Types, PhoneTypes, HistoryTypes
<1> HIDE DEF x
<1>5. ui' \in Threads
  BY <1>2, <1>3, <1>4, PutThread
<1>6. batch' \in Sketches
  BY <1>2, <1>3, <1>4, PutSketch
<1>7. pulls' \in Pulls
  BY <1>2, <1>3, <1>4, TouchedTypes
<1> QED BY <1>2, <1>3, <1>4, <1>5, <1>6, <1>7 DEF PhoneTypes

LEMMA HandleUpsertTypes ==
    ASSUME Types, NEW m \in Messages, HandleUpsert(m)
    PROVE  PhoneTypes' /\ odd' \subseteq Cells
<1>1. m.t = "upsert" /\ UNCHANGED batch
  BY DEF HandleUpsert
<1>2. m.v \in Threads /\ m.mixed \subseteq Cells
  BY <1>1, MessageKinds
<1>3. ui \in Threads /\ batch \in Sketches /\ pulls \in Pulls /\ odd \subseteq Cells
  BY DEF Types, PhoneTypes, HistoryTypes
<1> DEFINE w == OrItems(m.v, ui)
<1>4. w \in Threads
  BY <1>2, <1>3, OrItemsThread
<1> HIDE DEF w
<1>5. /\ ui' = [x \in Cells |-> ui'[x]]
      /\ ui'[Header] = w[Header]
      /\ \A x \in Items : ui'[x] \in {ui[x], w[x]}
  <2> DEFINE Longer(x) == /\ ui[Header].turn /\ x \in Items \ Commands
                          /\ ui[x] # Absent /\ m.v[x] # Absent
                          /\ ui[x].text # m.v[x].text /\ IsPrefix(m.v[x].text, ui[x].text)
  <2>1. ui' = [x \in Cells |-> IF Longer(x) THEN ui[x] ELSE w[x]]
    BY DEF HandleUpsert, w
  <2>2. ~Longer(Header)
    BY NamesAssumption
  <2> HIDE DEF Longer
  <2> QED BY <2>1, <2>2 DEF Cells
<1>6. ui' \in Threads
  <2>1. w[Header] \in State
        /\ \A x \in Items : w[x] \in Value \cup {Absent} /\ ui[x] \in Value \cup {Absent}
    BY <1>3, <1>4, ThreadKinds
  <2>2. ui'[Header] \in State /\ \A x \in Items : ui'[x] \in Value \cup {Absent}
    BY <1>5, <2>1
  <2> QED BY <1>5, <2>2, AThread
<1>7. pulls' \in Pulls
  BY <1>3, TouchedTypes DEF HandleUpsert
<1>8. odd' \subseteq Cells
  BY <1>2 DEF HandleUpsert, Older
<1> QED BY <1>1, <1>3, <1>6, <1>7, <1>8 DEF PhoneTypes

LEMMA ReceiveTypes ==
    ASSUME Types, Receive
    PROVE  Types'
<1>1. ServerTypes' /\ Todo' /\ StoreTypes' /\ RefreshTypes'
  BY SideTypes DEF Receive
<1>2. bus \in Seq(Messages) /\ bus # <<>> /\ Len(bus) \in Nat /\ Len(bus) <= Capacity
      /\ lagged \in BOOLEAN /\ UNCHANGED lagged
  BY DEF Types, BusTypes, Receive
<1>3. Run \in 1..Len(bus)
  BY <1>2, RunIsRun
<1>4. ASSUME bus' = <<>> \/ bus' = Tail(bus), pulls' = Wants("loop"), UNCHANGED <<ui, batch, odd>>
      PROVE  BusTypes' /\ PhoneTypes' /\ odd' \subseteq Cells
  <2>1. Capacity \in Nat
    BY BoundsAssumption
  <2>2. bus' \in Seq(Messages) /\ Len(bus') <= Capacity
    <3>1. CASE bus' = <<>>
      BY <2>1, <3>1
    <3>2. CASE bus' = Tail(bus)
      <4>1. Tail(bus) \in Seq(Messages) /\ Len(Tail(bus)) = Len(bus) - 1
        BY <1>2
      <4> QED BY <1>2, <2>1, <3>2, <4>1
    <3> QED BY <1>4, <3>1, <3>2
  <2>3. BusTypes'
    BY <1>2, <2>2 DEF BusTypes
  <2> QED BY <1>4, <2>3, WantsTypes DEF Types, PhoneTypes, HistoryTypes
<1>5. ASSUME bus' = SubSeq(bus, Run + 1, Len(bus)),
             HandleDelta(bus[Run], Run) \/ HandleCell(bus[Run]) \/ HandleUpsert(bus[Run])
      PROVE  BusTypes' /\ PhoneTypes' /\ odd' \subseteq Cells
  <2> DEFINE k == Run
  <2>1. bus' \in Seq(Messages) /\ Len(bus') <= Capacity
    <3>1. k \in 1..Len(bus) /\ bus' = SubSeq(bus, k + 1, Len(bus))
      BY <1>3, <1>5
    <3> HIDE DEF k
    <3>2. SubSeq(bus, k + 1, Len(bus)) \in Seq(Messages)
          /\ Len(SubSeq(bus, k + 1, Len(bus))) = Len(bus) - k
      BY <1>2, <3>1
    <3>3. Capacity \in Nat
      BY BoundsAssumption
    <3> QED BY <1>2, <3>1, <3>2, <3>3
  <2>2. bus[Run] \in Messages
    BY <1>2, <1>3
  <2>3. PhoneTypes' /\ odd' \subseteq Cells
    BY <1>2, <1>5, <2>2, HandleDeltaTypes, HandleCellTypes, HandleUpsertTypes
  <2> QED BY <1>2, <2>1, <2>3 DEF BusTypes
<1>6. BusTypes' /\ PhoneTypes' /\ odd' \subseteq Cells
  BY <1>4, <1>5 DEF Receive
<1>7. HistoryTypes'
  BY <1>6 DEF Types, HistoryTypes, Receive
<1> QED BY <1>1, <1>6, <1>7 DEF Types

LEMMA ReloadTypes ==
    ASSUME Types, Reload
    PROVE  Types'
<1>1. ServerTypes' /\ Todo' /\ StoreTypes' /\ RefreshTypes'
  BY SideTypes DEF Reload
<1>2. BusTypes'
  <2>1. [t |-> "reload"] \in Messages
    BY DEF Messages
  <2> QED BY <2>1, PushKeeps DEF Types, Reload
<1>3. PhoneTypes'
  BY DEF Types, PhoneTypes, Reload, phone
<1>4. HistoryTypes'
  BY BoundsAssumption DEF Types, HistoryTypes, Reload, phone
<1> QED BY <1>1, <1>2, <1>3, <1>4 DEF Types

LEMMA PullReadsTypes ==
    ASSUME Types, NEW p \in {"loop", "side"}, PullReads(p)
    PROVE  Types'
<1>1. ServerTypes' /\ Todo' /\ StoreTypes' /\ RefreshTypes'
  BY SideTypes DEF PullReads
<1>2. BusTypes' /\ HistoryTypes'
  BY DEF Types, BusTypes, HistoryTypes, PullReads, subscription
<1>3. PhoneTypes'
  <2> DEFINE S == {x \in Items : \/ todo.t = "delta" /\ todo.x = x
                                 \/ \E k \in DOMAIN bus : bus[k].t = "delta" /\ bus[k].x = x}
  <2>1. pulls' = [pulls EXCEPT ![p] = [due |-> FALSE, copy |-> store, crossed |-> S]]
    BY DEF PullReads
  <2>2. S \subseteq Cells
    BY DEF Cells
  <2> HIDE DEF S
  <2>3. pulls' \in Pulls
    BY <2>1, <2>2 DEF Types, PhoneTypes, StoreTypes, Pulls
  <2> QED BY <2>3 DEF Types, PhoneTypes, PullReads
<1> QED BY <1>1, <1>2, <1>3 DEF Types

LEMMA PullAppliesTypes ==
    ASSUME Types, NEW p \in {"loop", "side"}, PullApplies(p)
    PROVE  Types'
<1>1. ServerTypes' /\ Todo' /\ StoreTypes' /\ RefreshTypes'
  BY SideTypes DEF PullApplies
<1>2. BusTypes'
  BY DEF Types, BusTypes, PullApplies, subscription
<1>3. pulls \in Pulls /\ ui \in Threads /\ pulls[p].copy \in Threads
      /\ pulls[p].crossed \subseteq Cells
  BY DEF Types, PhoneTypes, PullApplies, Pulls
<1>4. ui' \in Threads
  BY <1>3, OrItemsThread DEF PullApplies
<1>5. pulls' \in Pulls
  <2> DEFINE ps == [pulls EXCEPT ![p].copy = Absent, ![p].crossed = {}]
  <2>1. ps \in Pulls
    BY <1>3 DEF Pulls
  <2>2. pulls' = Touched(Cells, ps)
    BY DEF PullApplies
  <2> HIDE DEF ps
  <2> QED BY <2>1, <2>2, TouchedTypes
<1>6. PhoneTypes'
  BY <1>4, <1>5 DEF Types, PhoneTypes, PullApplies
<1>7. HistoryTypes'
  BY <1>3 DEF Types, HistoryTypes, PullApplies, Older
<1> QED BY <1>1, <1>2, <1>6, <1>7 DEF Types

LEMMA FlushTypes ==
    ASSUME Types, Flush
    PROVE  Types'
<1>1. ServerTypes' /\ Todo' /\ StoreTypes' /\ RefreshTypes'
  BY SideTypes DEF Flush
<1>2. BusTypes' /\ HistoryTypes'
  BY DEF Types, BusTypes, HistoryTypes, Flush, subscription
<1>3. pulls \in Pulls /\ ui \in Threads /\ batch \in Sketches
  BY DEF Types, PhoneTypes
<1>4. ui' \in Threads
  <2>1. /\ batch[Header] \in State \cup {Absent} /\ ui[Header] \in State
        /\ \A x \in Items : batch[x] \in Value \cup {Absent} /\ ui[x] \in Value \cup {Absent}
    BY <1>3 DEF Threads, Sketches
  <2>2. ui' = [x \in Cells |-> ui'[x]]
        /\ \A x \in Cells : ui'[x] = IF batch[x] # Absent THEN batch[x] ELSE ui[x]
    BY DEF Flush
  <2>3. ui'[Header] \in State /\ \A x \in Items : ui'[x] \in Value \cup {Absent}
    BY <2>1, <2>2 DEF Cells
  <2> QED BY <2>2, <2>3, AThread
<1>5. pulls' \in Pulls
  <2>1. {x \in Cells : batch[x] # Absent} \in SUBSET Cells
    OBVIOUS
  <2> QED BY <1>3, <2>1, TouchedTypes DEF Flush
<1>6. batch' \in Sketches
  BY DEF Flush, Sketches, Thread, Nowhere, Cells
<1> QED BY <1>1, <1>2, <1>4, <1>5, <1>6 DEF Types, PhoneTypes

LEMMA StepTypes == Types /\ [Next]_vars => Types'
<1> SUFFICES ASSUME Types, [Next]_vars PROVE Types'
  OBVIOUS
<1>1. CASE UNCHANGED vars
  BY <1>1 DEF Types, ServerTypes, Todo, StoreTypes, RefreshTypes, Stages, Holds, BusTypes,
     PhoneTypes, HistoryTypes, vars, server, listener, subscription, phone
<1>2. CASE Next
  BY <1>2, ApplyTypes, EmitTypes, LoseTypes, StartTypes, AnswersTypes, ReadsTypes,
     WritesTypes, EmitsTypes, EndsTypes, LaggedTypes, ReceiveTypes, ReloadTypes,
     PullReadsTypes, PullAppliesTypes, FlushTypes DEF Next
<1> QED BY <1>1, <1>2

\* Every value has its type: the cells of the store, of a refresh, of the
\* broadcasts and of the view model's copies hold what their kind allows.
THEOREM AlwaysTyped == Spec => []TypeOK
<1>1. Spec => []Types
  BY InitTypes, StepTypes, PTL DEF Spec
<1> QED BY <1>1, TypesGiveTypeOK, PTL

-----------------------------------------------------------------------------
(* What a refresh repairs.                                                 *)

Over(x) == By(seen, "completed", x)
Ended == By(seen, "end", Header)
Complete(x) == Final(x, "event")

\* The listener keeps what it has completed, but for what was lost or raced.
Kept == \A x \in Items \ (raced \cup missed) : Over(x) => Same(x, store[x], Complete(x))

\* An answer has what was over when it was given, but for what crossed it.
Answered == refresh.pc = "answered" =>
    /\ DOMAIN refresh.got = AnswerCells(refresh.stage)
    /\ \A x \in Items \cap DOMAIN refresh.got :
          Over(x) /\ x \notin refresh.crossed => refresh.got[x] = Final(x, "turns")
    /\ Header \in DOMAIN refresh.got /\ Ended /\ Header \notin refresh.crossed =>
          ~refresh.got[Header].turn

\* So has what is to be written; where the answer has no items, the thread has.
Copied == refresh.pc = "copied" =>
    /\ \A x \in Items \ refresh.crossed :
          Over(x) /\ (paged => x \notin raced \cup missed)
              => Same(x, refresh.copy[x], Complete(x))
    /\ Ended /\ Header \notin raced \cup refresh.crossed =>
          \/ ~refresh.copy[Header].turn
          \/ due # "no"
          \/ paged /\ refresh.stage = "resume"

\* Without pagination what was lost is in the store, or will be.
Whole == ~paged => \A x \in Items \ raced :
    Over(x) => \/ Same(x, store[x], Complete(x)) \/ due # "no"
               \/ refresh.pc \in {"answered", "copied"}

\* Nobody says that the turn is over before it is.
EndsOnly ==
    /\ ~store[Header].turn => Made("end", Header)
    /\ /\ refresh.pc = "answered" /\ Header \in DOMAIN refresh.got
       /\ ~refresh.got[Header].turn
       => Made("end", Header)
    /\ refresh.pc = "copied" /\ ~refresh.copy[Header].turn => Made("end", Header)

\* The refresh has still to ask for the turn, or to write that it is over.
Pending ==
    \/ paged /\ refresh.stage = "resume"
    \/ refresh.stage = "probe" /\ refresh.pc = "ask"
    \/ /\ refresh.pc = "answered" /\ Header \in DOMAIN refresh.got
       /\ ~refresh.got[Header].turn
    \/ refresh.pc = "copied" /\ refresh.stage # "page"
Stopped == Ended /\ Header \notin raced => ~store[Header].turn \/ due # "no" \/ Pending

Mended == Kept /\ Answered /\ Copied /\ Whole /\ EndsOnly /\ Stopped

LEMMA ByGrows ==
    ASSUME NEW n \in Nat, NEW m \in Nat, n <= m, NEW kind, NEW x, By(n, kind, x)
    PROVE  By(m, kind, x)
<1>1. 1..n \subseteq 1..m
  OBVIOUS
<1> QED BY <1>1 DEF By

LEMMA Shows ==
    ASSUME ServerTypes, NEW x \in Items
    PROVE  /\ Same(x, Final(x, "turns"), Complete(x)) /\ Same(x, Complete(x), Complete(x))
           /\ ~Same(x, Absent, Complete(x))
           /\ \A v : Same(x, v, Final(x, "turns")) => Same(x, v, Complete(x))
           /\ Final(x, "turns") # Absent
<1>1. Final(x, "turns") \in Value /\ Complete(x) \in Value
  BY FinalValue DEF Complete
<1>2. Final(x, "turns") # Absent /\ Complete(x) # Absent
  BY <1>1, AbsentAssumption
<1>3. /\ Final(x, "turns").text = Complete(x).text
      /\ Final(x, "turns").state = Complete(x).state
  BY DEF Final, Complete
<1> QED BY <1>2, <1>3, NamesAssumption DEF Same

LEMMA SameScript ==
    ASSUME UNCHANGED script
    PROVE  /\ \A x : Complete(x)' = Complete(x)
           /\ \A x : Final(x, "turns")' = Final(x, "turns")
           /\ \A n, kind, x : By(n, kind, x)' = By(n, kind, x)
BY DEF Complete, Final, Parts, By

LEMMA InitMended == Init => Mended
<1> SUFFICES ASSUME Init PROVE Mended
  OBVIOUS
<1>1. seen = 0 /\ refresh.pc = "idle" /\ refresh.stage = "idle"
  BY DEF Init, Idle
<1>2. \A x : ~Over(x) /\ ~Ended
  BY <1>1 DEF Over, Ended, By
<1>3. store[Header].turn
  BY DEF Init, Nowhere, Cells
<1> QED BY <1>1, <1>2, <1>3 DEF Mended, Kept, Answered, Copied, Whole, EndsOnly, Stopped

LEMMA MadeGrows ==
    ASSUME ServerTypes, UNCHANGED script, made' \in Nat, made <= made', NEW kind, NEW x,
           Made(kind, x)
    PROVE  Made(kind, x)'
<1>1. made \in Nat
  BY ScriptEvents DEF ServerTypes
<1>2. By(made', kind, x)
  BY <1>1, ByGrows DEF Made
<1> QED BY <1>2 DEF Made, By

\* Steps that leave the store and the refresh alone.
LEMMA AsideMended ==
    ASSUME Types, Mended,
           UNCHANGED <<server, seen, store, due, refresh, missed, raced>>
    PROVE  Mended'
<1>1. /\ \A x : Over(x)' = Over(x)
      /\ \A x : Complete(x)' = Complete(x)
      /\ \A x : Final(x, "turns")' = Final(x, "turns")
  BY SameScript DEF Over, server
<1>2. Ended' = Ended /\ Made("end", Header)' = Made("end", Header)
  BY DEF Ended, Made, By, server
<1>3. paged' = paged
  BY DEF server
<1>4. Kept'
  BY <1>1 DEF Mended, Kept
<1>5. Answered'
  <2>1. \A stage : AnswerCells(stage)' = AnswerCells(stage)
    BY <1>3 DEF AnswerCells
  <2> QED BY <1>1, <1>2, <2>1 DEF Mended, Answered
<1>6. Copied' /\ Whole'
  BY <1>1, <1>2, <1>3 DEF Mended, Copied, Whole
<1>7. EndsOnly'
  BY <1>2 DEF Mended, EndsOnly
<1>8. Stopped'
  BY <1>2, <1>3 DEF Mended, Stopped, Pending
<1> QED BY <1>4, <1>5, <1>6, <1>7, <1>8 DEF Mended

\* The listener passes events: what they are about is all that changes.
LEMMA Passed ==
    ASSUME ServerTypes, seen' \in Nat, UNCHANGED script,
           NEW kind, NEW x, By(seen', kind, x), ~By(seen, kind, x)
    PROVE  \E k \in seen + 1..seen' : script[k] = [kind |-> kind, x |-> x]
<1>1. PICK k \in 1..seen' : script[k] = [kind |-> kind, x |-> x]
  BY DEF By
<1>2. seen \in Nat
  BY ScriptEvents DEF ServerTypes
<1>3. k \notin 1..seen
  BY <1>1 DEF By
<1>4. k \in seen + 1..seen'
  BY <1>2, <1>3
<1> QED BY <1>1, <1>4

\* An item that is over has no more events.
LEMMA OverIsOver ==
    ASSUME Types, NEW x, Over(x), NEW k \in seen + 1..Len(script)
    PROVE  script[k].x # x
<1>1. ServerTypes /\ Len(script) \in Nat
  BY ScriptEvents DEF Types
<1>2. seen \in 0..Len(script)
  BY <1>1 DEF ServerTypes
<1>3. PICK j \in 1..seen : script[j] = [kind |-> "completed", x |-> x]
  BY DEF Over, By
<1>4. j \in 1..Len(script) /\ k \in j + 1..Len(script)
  BY <1>1, <1>2
<1>5. script[j].kind = "completed" /\ script[j].x = x
  BY <1>3
<1> QED BY <1>1, <1>4, <1>5, ScriptEvents

\* What the listener does crosses the refresh.
LEMMA CrossedMended ==
    ASSUME Types, Mended, NEW S \in SUBSET Cells, refresh' = Crossed(S),
           UNCHANGED <<script, paged>>,
           \A x \in Cells \ S : /\ Over(x)' => Over(x)
                                /\ x \in raced => x \in raced'
                                /\ x \in missed => x \in missed',
           Header \notin S => (Ended' => Ended),
           due # "no" => due' # "no"
    PROVE  Answered' /\ Copied'
<1> DEFINE r == refresh
<1>1. /\ refresh'.stage = r.stage /\ refresh'.pc = r.pc
      /\ refresh'.got = r.got /\ refresh'.copy = r.copy
      /\ refresh'.crossed = r.crossed
             \cup IF r.pc = "copied" THEN S ELSE S \cap DOMAIN r.got
  BY CrossedFields DEF Types
<1>2. /\ \A x : Complete(x)' = Complete(x)
      /\ \A x : Final(x, "turns")' = Final(x, "turns")
  BY SameScript
<1>3. Answered'
  <2> SUFFICES ASSUME refresh'.pc = "answered"
               PROVE  /\ DOMAIN r.got = AnswerCells(refresh.stage)'
                      /\ \A x \in Items \cap DOMAIN r.got :
                            Over(x)' /\ x \notin refresh'.crossed => r.got[x] = Final(x, "turns")
                      /\ Header \in DOMAIN r.got /\ Ended' /\ Header \notin refresh'.crossed =>
                            ~r.got[Header].turn
    BY <1>1, <1>2 DEF Answered
  <2>1. r.pc = "answered" /\ r.pc # "copied"
    BY <1>1
  <2>2. DOMAIN r.got = AnswerCells(refresh.stage)'
    <3>1. DOMAIN r.got = AnswerCells(refresh.stage)
      BY <2>1 DEF Mended, Answered
    <3> QED BY <1>1, <3>1 DEF AnswerCells
  <2>3. ASSUME NEW x \in Items \cap DOMAIN r.got, Over(x)', x \notin refresh'.crossed
        PROVE  r.got[x] = Final(x, "turns")
    <3>1. x \notin S /\ x \in Cells /\ x \notin r.crossed
      BY <1>1, <2>1, <2>3 DEF Cells
    <3>2. Over(x)
      BY <2>3, <3>1
    <3> QED BY <2>1, <2>3, <3>1, <3>2 DEF Mended, Answered
  <2>4. ASSUME Header \in DOMAIN r.got, Ended', Header \notin refresh'.crossed
        PROVE  ~r.got[Header].turn
    <3>1. Header \notin S /\ Header \notin r.crossed
      BY <1>1, <2>1, <2>4
    <3> QED BY <2>1, <2>4, <3>1 DEF Mended, Answered
  <2> QED BY <2>2, <2>3, <2>4
<1>4. Copied'
  <2> SUFFICES ASSUME refresh'.pc = "copied"
               PROVE  /\ \A x \in Items \ refresh'.crossed :
                            Over(x)' /\ (paged => x \notin raced' \cup missed')
                                => Same(x, r.copy[x], Complete(x))
                      /\ Ended' /\ Header \notin raced' \cup refresh'.crossed =>
                             \/ ~r.copy[Header].turn
                             \/ due' # "no"
                             \/ paged /\ r.stage = "resume"
    BY <1>1, <1>2 DEF Copied
  <2>1. r.pc = "copied" /\ refresh'.crossed = r.crossed \cup S
    BY <1>1
  <2>2. ASSUME NEW x \in Items \ refresh'.crossed, Over(x)',
               paged => x \notin raced' \cup missed'
        PROVE  Same(x, r.copy[x], Complete(x))
    <3>1. x \in Cells \ S /\ x \in Items \ r.crossed
      BY <2>1 DEF Cells
    <3>2. Over(x) /\ (paged => x \notin raced \cup missed)
      BY <2>2, <3>1
    <3> QED BY <2>1, <3>1, <3>2 DEF Mended, Copied
  <2>3. ASSUME Ended', Header \notin raced' \cup refresh'.crossed
        PROVE  \/ ~r.copy[Header].turn
               \/ due' # "no"
               \/ paged /\ r.stage = "resume"
    <3>1. Header \in Cells \ S /\ Header \notin r.crossed
      BY <2>1, <2>3 DEF Cells
    <3>2. Ended /\ Header \notin raced \cup r.crossed
      BY <2>3, <3>1
    <3> QED BY <2>1, <3>2 DEF Mended, Copied
  <2> QED BY <2>2, <2>3
<1> QED BY <1>3, <1>4

\* What Apply does to the store, in the words of the invariant.
LEMMA Applied ==
    ASSUME Types, Apply, NEW e, e = script[seen + 1]
    PROVE  /\ refresh' = Crossed({e.x})
           /\ \A x \in Cells \ {e.x} : /\ store'[x] = store[x]
                                       /\ x \in raced' <=> x \in raced
                                       /\ x \in missed' <=> x \in missed
           /\ e.kind = "completed" => store'[e.x] = Complete(e.x) /\ e.x \in Items
           /\ e.x = Header => /\ e.kind \in {"plan", "end"}
                              /\ e.kind = "end" => ~store'[Header].turn
                              /\ e.kind # "end" => /\ store'[Header].turn = store[Header].turn
                                                   /\ raced' = raced
<1>0. seen < Len(script)
  BY DEF Apply
<1>1. /\ e.x \in Cells /\ e.kind \in Kinds
      /\ e.kind \in {"plan", "end"} <=> e.x = Header
      /\ e.kind \notin {"plan", "end"} => e.x \in Items
  BY <1>0, NextEvent
<1>2. store \in Threads /\ store[Header] \in State
      /\ store = [x \in Cells |-> store[x]]
  BY DEF Types, StoreTypes, Threads, Sketches, Thread
<1>3. CASE ApplyItem
  <2> DEFINE new == IF e.kind = "completed" THEN Final(e.x, "event")
                    ELSE [text |-> <<>>, state |-> "named", from |-> "event"]
  <2>1. /\ e.kind \in {"started", "completed"}
        /\ store' = [store EXCEPT ![e.x] = new]
        /\ refresh' = Crossed({e.x})
        /\ missed' = IF e.kind = "completed" THEN missed \ {e.x} ELSE missed
        /\ raced' = IF e.kind = "completed" THEN raced \ {e.x} ELSE raced
    BY <1>3 DEF ApplyItem
  <2>2. e.kind = "completed" => new = Complete(e.x)
    BY DEF Complete
  <2> HIDE DEF new
  <2>3. store'[e.x] = new /\ \A x \in Cells \ {e.x} : store'[x] = store[x]
    BY <1>1, <1>2, <2>1
  <2>4. e.x \in Items /\ e.x # Header
    BY <1>1, <2>1
  <2> QED BY <2>1, <2>2, <2>3, <2>4
<1>4. CASE ApplyDelta
  <2>1. e.kind = "delta" /\ refresh' = Crossed({e.x}) /\ UNCHANGED <<missed, raced>>
    BY <1>4 DEF ApplyDelta
  <2>2. \E v : store' = [store EXCEPT ![e.x] = v]
    <3>1. \/ store' = [store EXCEPT ![e.x] =
                [text |-> <<Part(seen + 1)>>, state |-> "bare", from |-> "event"]]
          \/ store' = [store EXCEPT ![e.x].text = Append(@, Part(seen + 1))]
      BY <1>4 DEF ApplyDelta
    <3> QED BY <3>1
  <2>3. \A x \in Cells \ {e.x} : store'[x] = store[x]
    BY <1>2, <2>2
  <2> QED BY <1>1, <2>1, <2>3
<1>5. CASE ApplyHeader
  <2>1. /\ e.kind \in {"plan", "end"} /\ refresh' = Crossed({Header}) /\ UNCHANGED missed
        /\ store' = [store EXCEPT ![Header] =
              IF e.kind = "end" THEN [turn |-> FALSE, plan |-> 0]
              ELSE [store[Header] EXCEPT !.plan = seen + 1]]
        /\ raced' = IF e.kind = "end" THEN raced \ {Header} ELSE raced
    BY <1>2, <1>5 DEF ApplyHeader
  <2>2. e.x = Header /\ Header \in Cells
    BY <1>1, <2>1
  <2>3. \A x \in Cells \ {Header} : store'[x] = store[x]
    BY <1>2, <2>1
  <2>4. store'[Header] = IF e.kind = "end" THEN [turn |-> FALSE, plan |-> 0]
                         ELSE [store[Header] EXCEPT !.plan = seen + 1]
    BY <1>2, <2>1, <2>2
  <2>5. e.kind = "end" => ~store'[Header].turn
    BY <2>4
  <2>6. e.kind # "end" => store'[Header].turn = store[Header].turn
    BY <1>2, <2>4 DEF State
  <2> QED BY <2>1, <2>2, <2>3, <2>5, <2>6
<1> QED BY <1>3, <1>4, <1>5 DEF Apply

LEMMA ApplyMended ==
    ASSUME Types, Types', Mended, Apply
    PROVE  Mended'
<1> DEFINE e == script[seen + 1]
<1>1. /\ refresh' = Crossed({e.x})
      /\ \A x \in Cells \ {e.x} : /\ store'[x] = store[x]
                                  /\ x \in raced' <=> x \in raced
                                  /\ x \in missed' <=> x \in missed
      /\ e.kind = "completed" => store'[e.x] = Complete(e.x) /\ e.x \in Items
      /\ e.x = Header => /\ e.kind \in {"plan", "end"}
                         /\ e.kind = "end" => ~store'[Header].turn
                         /\ e.kind # "end" => /\ store'[Header].turn = store[Header].turn
                                              /\ raced' = raced
  BY Applied
<1>2. /\ seen < Len(script) /\ seen' = seen + 1 /\ Hears(seen + 1)
      /\ UNCHANGED <<script, paged, due>>
  BY DEF Apply
<1>3. /\ e.x \in Cells /\ seen \in Nat /\ seen + 1 \in 0..Len(script)
      /\ seen + 1 \in seen + 1..Len(script)
  BY <1>2, NextEvent DEF Types, ServerTypes
<1>4. ServerTypes /\ made \in Nat /\ made' \in Nat /\ made <= made' /\ seen + 1 <= made'
  BY <1>2, <1>3, HearsKeeps DEF Types
\* The event is all that is new.
<1>5. \A kind, x : By(seen', kind, x) =>
          By(seen, kind, x) \/ (e.kind = kind /\ e.x = x)
  <2> SUFFICES ASSUME NEW kind, NEW x, By(seen', kind, x), ~By(seen, kind, x)
               PROVE  e.kind = kind /\ e.x = x
    OBVIOUS
  <2>1. PICK k \in seen + 1..seen' : script[k] = [kind |-> kind, x |-> x]
    BY <1>2, <1>3, <1>4, Passed
  <2>2. k = seen + 1
    BY <1>2, <1>3, <2>1
  <2> QED BY <2>1, <2>2
<1>6. \A x : Over(x)' => Over(x) \/ (e.kind = "completed" /\ e.x = x)
  <2>1. \A x : Over(x)' = By(seen', "completed", x)
    BY <1>2 DEF Over, By
  <2> QED BY <1>5, <2>1 DEF Over
<1>7. Ended' => Ended \/ (e.kind = "end" /\ e.x = Header)
  <2>1. Ended' = By(seen', "end", Header)
    BY <1>2 DEF Ended, By
  <2> QED BY <1>5, <2>1 DEF Ended
<1>8. \A x : Over(x) => e.x # x
  BY <1>3, OverIsOver
<1>9. \A x : Complete(x)' = Complete(x)
  BY <1>2, SameScript
<1> HIDE DEF e
<1>10. Answered' /\ Copied'
  <2>1. {e.x} \in SUBSET Cells
    BY <1>3
  <2>2. \A x \in Cells \ {e.x} : /\ Over(x)' => Over(x)
                                 /\ x \in raced => x \in raced'
                                 /\ x \in missed => x \in missed'
    BY <1>1, <1>6
  <2>3. Header \notin {e.x} => (Ended' => Ended)
    BY <1>7
  <2> QED BY <1>1, <1>2, <2>1, <2>2, <2>3, CrossedMended
<1>11. ASSUME NEW x \in Items, Over(x)'
       PROVE  \/ store'[x] = Complete(x)
              \/ Over(x) /\ store'[x] = store[x]
                 /\ (x \in raced' <=> x \in raced) /\ (x \in missed' <=> x \in missed)
  <2>1. CASE e.kind = "completed" /\ e.x = x
    BY <1>1, <2>1
  <2>2. CASE Over(x)
    <3>1. x \in Cells \ {e.x}
      BY <1>8, <2>2 DEF Cells
    <3> QED BY <1>1, <2>2, <3>1
  <2> QED BY <1>6, <1>11, <2>1, <2>2
<1>12. \A x \in Items : Same(x, Complete(x), Complete(x))
  BY DEF Same
<1>13. Kept'
  <2> SUFFICES ASSUME NEW x \in Items \ (raced' \cup missed'), Over(x)'
               PROVE  Same(x, store'[x], Complete(x))
    BY <1>9 DEF Kept
  <2> QED BY <1>11, <1>12 DEF Mended, Kept
<1>14. refresh'.pc = refresh.pc /\ refresh'.stage = refresh.stage
       /\ refresh'.got = refresh.got /\ refresh'.copy = refresh.copy
  <2>1. {e.x} \in SUBSET Cells
    BY <1>3
  <2> QED BY <1>1, <2>1, CrossedFields DEF Types
<1>15. Whole'
  <2> SUFFICES ASSUME ~paged, NEW x \in Items \ raced', Over(x)'
               PROVE  \/ Same(x, store'[x], Complete(x)) \/ due' # "no"
                      \/ refresh'.pc \in {"answered", "copied"}
    BY <1>2, <1>9 DEF Whole
  <2> QED BY <1>2, <1>11, <1>12, <1>14 DEF Mended, Whole
<1>16. Made("end", Header) => Made("end", Header)'
  BY <1>2, <1>4, MadeGrows
<1>17. ~store'[Header].turn => Made("end", Header)'
  <2>1. CASE e.x = Header /\ e.kind = "end"
    <3>1. script[seen + 1] = [kind |-> "end", x |-> Header]
      <4>1. seen + 1 \in 1..Len(script) /\ script \in Seq(Event)
        BY <1>2, <1>4, NextEvent, ScriptEvents
      <4>2. script[seen + 1] \in Event
        BY <4>1
      <4> QED BY <2>1, <4>2 DEF e, Event
    <3>2. seen + 1 \in 1..made'
      BY <1>3, <1>4
    <3> QED BY <1>2, <3>1, <3>2 DEF Made, By
  <2>2. CASE ~(e.x = Header /\ e.kind = "end")
    <3>1. store'[Header].turn = store[Header].turn
      BY <1>1, <2>2 DEF Cells
    <3> QED BY <1>16, <3>1 DEF Mended, EndsOnly
  <2> QED BY <2>1, <2>2
<1>18. EndsOnly'
  BY <1>14, <1>16, <1>17 DEF Mended, EndsOnly
<1>19. Stopped'
  <2> SUFFICES ASSUME Ended', Header \notin raced', store'[Header].turn, due' = "no"
               PROVE  Pending'
    BY DEF Stopped
  <2>1. ~(e.kind = "end" /\ e.x = Header)
    BY <1>1
  <2>2. Ended /\ store[Header].turn /\ Header \notin raced
    BY <1>1, <1>7, <2>1 DEF Cells
  <2>3. Pending
    BY <1>2, <2>2 DEF Mended, Stopped
  <2> QED BY <1>2, <1>14, <2>3 DEF Pending
<1> QED BY <1>10, <1>13, <1>15, <1>18, <1>19 DEF Mended

LEMMA LoseMended ==
    ASSUME Types, Mended, NEW why \in {"lag", "cut"}, Lose(why)
    PROVE  Mended'
<1>1. PICK last \in seen + 1..Len(script) :
          /\ seen' = last /\ Hears(last)
          /\ missed' = missed \cup ({script[k].x : k \in seen + 1..last} \ {Header})
          /\ refresh' = Crossed({script[k].x : k \in seen + 1..last})
  BY DEF Lose
<1>2. UNCHANGED <<script, paged, store, raced>> /\ due' # "no"
  BY DEF Lose
<1>3. ServerTypes /\ Len(script) \in Nat
  BY ScriptEvents DEF Types
<1>4. seen \in Nat
  BY <1>3 DEF ServerTypes
<1>5. last \in 0..Len(script) /\ last \in Nat /\ seen + 1..last \subseteq 1..Len(script)
  BY <1>3, <1>4
<1>6. made \in Nat /\ made' \in Nat /\ made <= made'
  BY <1>1, <1>2, <1>3, <1>5, HearsKeeps
<1> DEFINE lost == {script[k].x : k \in seen + 1..last}
<1>7. lost \in SUBSET Cells
  BY <1>3, <1>5, ScriptEvents
<1>8. missed' = missed \cup (lost \ {Header}) /\ refresh' = Crossed(lost)
  BY <1>1
<1>9. \A kind, x : By(seen', kind, x) => By(seen, kind, x) \/ x \in lost
  <2> SUFFICES ASSUME NEW kind, NEW x, By(seen', kind, x), ~By(seen, kind, x)
               PROVE  x \in lost
    OBVIOUS
  <2>1. PICK k \in seen + 1..seen' : script[k] = [kind |-> kind, x |-> x]
    BY <1>1, <1>2, <1>3, <1>5, Passed
  <2> QED BY <1>1, <2>1
<1> HIDE DEF lost
<1>10. (\A x : Over(x)' => Over(x) \/ x \in lost) /\ (Ended' => Ended \/ Header \in lost)
  <2>1. (\A x : Over(x)' = By(seen', "completed", x)) /\ Ended' = By(seen', "end", Header)
    BY <1>2 DEF Over, Ended, By
  <2> QED BY <1>9, <2>1 DEF Over, Ended
<1>11. Answered' /\ Copied'
  <2>1. \A x \in Cells \ lost : /\ Over(x)' => Over(x)
                                /\ x \in raced => x \in raced'
                                /\ x \in missed => x \in missed'
    BY <1>2, <1>8, <1>10
  <2> QED BY <1>2, <1>7, <1>8, <1>10, <2>1, CrossedMended
<1>12. \A x : Complete(x)' = Complete(x)
  BY <1>2, SameScript
<1>13. Kept'
  <2> SUFFICES ASSUME NEW x \in Items \ (raced' \cup missed'), Over(x)'
               PROVE  Same(x, store'[x], Complete(x))
    BY <1>12 DEF Kept
  <2>1. x \notin lost /\ x \notin raced \cup missed
    BY <1>2, <1>8, NamesAssumption
  <2> QED BY <1>2, <1>10, <2>1 DEF Mended, Kept
<1>14. Whole' /\ Stopped'
  BY <1>2 DEF Whole, Stopped
<1>15. refresh'.pc = refresh.pc /\ refresh'.got = refresh.got /\ refresh'.copy = refresh.copy
  BY <1>7, <1>8, CrossedFields DEF Types
<1>16. Made("end", Header) => Made("end", Header)'
  BY <1>2, <1>3, <1>6, MadeGrows
<1>17. EndsOnly'
  BY <1>2, <1>15, <1>16 DEF Mended, EndsOnly
<1> QED BY <1>11, <1>13, <1>14, <1>17 DEF Mended

\* The server answers with all that the listener has passed, and more.
LEMMA Asked ==
    ASSUME Types, Mended, NEW n \in Nat, seen <= n, n <= made', made' \in Nat, made <= made',
           NEW stage \in {"resume", "probe", "page"}, stage \in {"probe", "page"} => paged,
           refresh'.pc = "answered", refresh'.stage = stage, refresh'.got = Answer(stage, n),
           UNCHANGED <<script, paged, seen, store, missed, raced>>
    PROVE  Kept' /\ Answered' /\ Copied' /\ Whole' /\ EndsOnly'
           /\ (Ended /\ Header \in DOMAIN refresh'.got => Pending')
<1>1. ServerTypes /\ seen \in Nat
  BY ScriptEvents DEF Types, ServerTypes
<1>2. /\ \A x : Complete(x)' = Complete(x) /\ Over(x)' = Over(x)
      /\ \A x : Final(x, "turns")' = Final(x, "turns")
      /\ Ended' = Ended
  BY SameScript DEF Over, Ended, By
<1> DEFINE got == Answer(stage, n)
<1>3. /\ DOMAIN got = AnswerCells(stage)
      /\ \A x \in AnswerCells(stage) :
            /\ x = Header => got[x].turn = ~By(n, "end", Header)
            /\ x \in Items =>
                  got[x] = IF By(n, "completed", x) THEN Final(x, "turns") ELSE Absent
  BY <1>1, AnswerTypes
<1>4. (\A x : Over(x) => By(n, "completed", x)) /\ (Ended => By(n, "end", Header))
  BY <1>1, ByGrows DEF Over, Ended
<1>5. refresh'.got = got
  OBVIOUS
<1> HIDE DEF got
<1>6. Answered'
  <2>1. DOMAIN got = AnswerCells(refresh.stage)'
    BY <1>3 DEF AnswerCells
  <2>2. \A x \in Items \cap DOMAIN got : Over(x) => got[x] = Final(x, "turns")
    BY <1>3, <1>4
  <2>3. Header \in DOMAIN got /\ Ended => ~got[Header].turn
    BY <1>3, <1>4
  <2> QED BY <1>2, <1>5, <2>1, <2>2, <2>3 DEF Answered
<1>7. Kept' /\ Copied' /\ Whole'
  BY <1>2 DEF Mended, Kept, Copied, Whole
<1>8. EndsOnly'
  <2>1. Made("end", Header) => Made("end", Header)'
    BY <1>1, MadeGrows
  <2>2. ASSUME Header \in DOMAIN got, ~got[Header].turn PROVE Made("end", Header)'
    <3>1. By(n, "end", Header)
      BY <1>3, <2>2
    <3>2. By(made', "end", Header)
      BY <3>1, ByGrows
    <3> QED BY <3>2 DEF Made, By
  <2> QED BY <1>5, <2>1, <2>2 DEF Mended, EndsOnly
<1>9. Ended /\ Header \in DOMAIN refresh'.got => Pending'
  BY <1>3, <1>4, <1>5 DEF Pending
<1> QED BY <1>6, <1>7, <1>8, <1>9

LEMMA LeadIsAhead ==
    ASSUME ServerTypes, NEW n \in Lead \cup {made}
    PROVE  n \in Nat /\ seen <= n /\ n \in 0..Len(script)
<1>1. Len(script) \in Nat /\ made \in 0..Len(script) /\ seen \in 0..made /\ MaxAhead \in Nat
  BY ScriptEvents, BoundsAssumption DEF ServerTypes
<1> QED BY <1>1 DEF Lead

LEMMA StartMended ==
    ASSUME Types, Mended, RefreshStarts
    PROVE  Mended'
<1>1. PICK n \in IF paged THEN {made} ELSE Lead :
          /\ Hears(n)
          /\ refresh' = [Idle EXCEPT !.stage = "resume", !.pc = "answered",
                 !.got = Answer("resume", n), !.resync = (due = "lag")]
  BY DEF RefreshStarts
<1>2. UNCHANGED <<script, paged, seen, store, missed, raced>>
  BY DEF RefreshStarts, listener
<1>3. ServerTypes /\ n \in Nat /\ seen <= n /\ n \in 0..Len(script)
  <2>1. n \in Lead \cup {made}
    BY <1>1
  <2> QED BY <2>1, LeadIsAhead DEF Types
<1>4. n <= made' /\ made' \in Nat /\ made <= made'
  BY <1>1, <1>2, <1>3, HearsKeeps
<1>5. refresh'.pc = "answered" /\ refresh'.stage = "resume" /\ refresh'.got = Answer("resume", n)
  BY <1>1 DEF Idle
<1>6. Kept' /\ Answered' /\ Copied' /\ Whole' /\ EndsOnly'
      /\ (Ended /\ Header \in DOMAIN refresh'.got => Pending')
  BY <1>2, <1>3, <1>4, <1>5, Asked
<1>7. Stopped'
  <2>1. Ended' = Ended
    BY <1>2 DEF Ended, By
  <2>2. CASE paged
    BY <1>2, <1>5, <2>2 DEF Stopped, Pending
  <2>3. CASE ~paged
    <3>1. DOMAIN refresh'.got = Cells
      BY <1>3, <1>5, <2>3, AnswerTypes DEF AnswerCells
    <3> QED BY <1>6, <2>1, <3>1 DEF Stopped, Cells
  <2> QED BY <2>2, <2>3
<1> QED BY <1>6, <1>7 DEF Mended

LEMMA AnswersMended ==
    ASSUME Types, Mended, ServerAnswers
    PROVE  Mended'
<1> DEFINE stage == refresh.stage
<1>1. PICK n \in Lead :
          /\ Hears(n)
          /\ refresh' = [refresh EXCEPT !.pc = "answered", !.got = Answer(stage, n)]
  BY DEF ServerAnswers
<1>2. UNCHANGED <<script, paged, seen, store, missed, raced, due>> /\ refresh.pc = "ask"
  BY DEF ServerAnswers, listener
<1>3. ServerTypes /\ n \in Nat /\ seen <= n /\ n \in 0..Len(script)
  BY LeadIsAhead DEF Types
<1>4. n <= made' /\ made' \in Nat /\ made <= made'
  BY <1>1, <1>2, <1>3, HearsKeeps
<1>5. refresh \in Refreshes /\ stage \in {"probe", "page"} /\ paged
  BY <1>2 DEF Types, RefreshTypes, Stages
<1> HIDE DEF stage
<1>6. refresh'.pc = "answered" /\ refresh'.stage = stage /\ refresh'.got = Answer(stage, n)
  BY <1>1, <1>5 DEF Refreshes, stage
<1>7. Kept' /\ Answered' /\ Copied' /\ Whole' /\ EndsOnly'
      /\ (Ended /\ Header \in DOMAIN refresh'.got => Pending')
  BY <1>2, <1>3, <1>4, <1>5, <1>6, Asked
<1>8. Stopped'
  <2> SUFFICES ASSUME Ended', Header \notin raced', store'[Header].turn, due' = "no"
               PROVE  Pending'
    BY DEF Stopped
  <2>1. Ended
    BY <1>2 DEF Ended, By
  <2>2. Pending
    BY <1>2, <2>1 DEF Mended, Stopped
  <2>3. stage = "probe"
    BY <1>2, <1>5, <2>2 DEF Pending, stage
  <2>4. DOMAIN refresh'.got = {Header}
    <3>1. AnswerCells(stage) = {Header}
      BY <1>5, <2>3 DEF AnswerCells
    <3>2. DOMAIN Answer(stage, n) = AnswerCells(stage)
      BY <1>3, <1>5, AnswerTypes
    <3> QED BY <1>6, <3>1, <3>2
  <2> QED BY <1>7, <2>1, <2>4
<1> QED BY <1>7, <1>8 DEF Mended

\* What the refresh is going to write: an item is the server's or the store's,
\* and the turn is over only where one of them says so.
LEMMA TargetHolds ==
    ASSUME Types, Mended, refresh.pc = "answered"
    PROVE  /\ \A x \in Items \ refresh.crossed :
                 Over(x) /\ (paged => x \notin raced \cup missed)
                     => Same(x, Target[x], Complete(x))
           /\ Ended /\ Header \notin raced \cup refresh.crossed =>
                  \/ ~Target[Header].turn
                  \/ due # "no"
                  \/ paged /\ refresh.stage = "resume"
           /\ ~Target[Header].turn => Made("end", Header)
           /\ refresh.stage = "probe" /\ Ended /\ ~refresh.got[Header].turn
                  => ~Target[Header].turn
<1> DEFINE got == refresh.got
<1>1. store \in Threads /\ store[Header] \in State /\ refresh \in Refreshes
      /\ store = [x \in Cells |-> store[x]]
  BY DEF Types, StoreTypes, RefreshTypes, Threads, Sketches, Thread
<1>2. Stages /\ Holds /\ ServerTypes /\ Header \in Cells /\ Items \subseteq Cells
      /\ Header \notin Items
  BY NamesAssumption DEF Types, RefreshTypes, Cells
<1>3. refresh.stage \in {"resume", "probe", "page"}
  BY <1>1, <1>2 DEF Refreshes, Stages
<1>4. \A x \in Items : /\ Same(x, Final(x, "turns"), Complete(x))
                       /\ ~Same(x, Absent, Complete(x)) /\ Final(x, "turns") # Absent
  BY <1>2, Shows
<1>5. /\ \A x \in Items \cap DOMAIN got :
            Over(x) /\ x \notin refresh.crossed => got[x] = Final(x, "turns")
      /\ Header \in DOMAIN got /\ Ended /\ Header \notin refresh.crossed =>
            ~got[Header].turn
  BY DEF Mended, Answered
<1>6. /\ ~store[Header].turn => Made("end", Header)
      /\ Header \in DOMAIN got /\ ~got[Header].turn => Made("end", Header)
  BY DEF Mended, EndsOnly
<1>7. CASE refresh.stage = "resume" /\ ~paged
  <2>1. Target = got
    BY <1>7 DEF Target
  <2>2. DOMAIN got = Cells
    BY <1>2, <1>7 DEF Holds, Threads, Sketches, Thread
  <2> HIDE DEF got
  <2>3. \A x \in Items \ refresh.crossed : Over(x) => Same(x, got[x], Complete(x))
    BY <1>2, <1>4, <1>5, <2>2
  <2> QED BY <1>2, <1>5, <1>6, <1>7, <2>1, <2>2, <2>3
<1>8. CASE refresh.stage = "resume" /\ paged
  <2>1. Target = [store EXCEPT ![Header].plan = 0]
    BY <1>8 DEF Target
  <2>2. Target[Header].turn = store[Header].turn /\ \A x \in Items : Target[x] = store[x]
    BY <1>1, <1>2, <2>1 DEF State
  <2>3. \A x \in Items \ (raced \cup missed) : Over(x) => Same(x, store[x], Complete(x))
    BY DEF Mended, Kept
  <2> QED BY <1>6, <1>8, <2>2, <2>3
<1>9. CASE refresh.stage = "probe"
  <2> DEFINE turn == store[Header].turn /\ got[Header].turn
  <2>1. Target = [store EXCEPT ![Header].turn = turn]
    BY <1>9 DEF Target
  <2> HIDE DEF turn
  <2>2. Target[Header].turn = turn /\ \A x \in Items : Target[x] = store[x]
    BY <1>1, <1>2, <2>1 DEF State
  <2>3. \A x \in Items \ (raced \cup missed) : Over(x) => Same(x, store[x], Complete(x))
    BY DEF Mended, Kept
  <2>4. paged /\ DOMAIN got = {Header}
    BY <1>2, <1>9 DEF Stages, Holds
  <2>5. ~turn => Made("end", Header)
    BY <1>6, <2>4 DEF turn
  <2>6. ~got[Header].turn => ~turn
    BY DEF turn
  <2>7. Ended /\ Header \notin refresh.crossed => ~turn
    BY <1>5, <2>4, <2>6
  <2> HIDE DEF got
  <2>8. ~refresh.got[Header].turn => ~turn
    BY <2>6 DEF got
  <2> QED BY <2>2, <2>3, <2>4, <2>5, <2>7, <2>8
<1>10. CASE refresh.stage = "page"
  <2> DEFINE new == MergePage(got)
  <2>1. Target = new
    BY <1>10 DEF Target
  <2>2. DOMAIN got = Items /\ paged
    BY <1>2, <1>10 DEF Stages, Holds
  <2> HIDE DEF got
  <2>3. /\ new[Header] = store[Header]
        /\ \A x \in Items : store[x] # Absent =>
              new[x] = IF got[x] # Absent THEN got[x] ELSE store[x]
    BY <1>2 DEF MergePage
  <2>4. \A x \in Items \ (raced \cup missed) : Over(x) => Same(x, store[x], Complete(x))
    BY DEF Mended, Kept
  <2>5. ASSUME NEW x \in Items \ refresh.crossed, Over(x), x \notin raced \cup missed
        PROVE  Same(x, new[x], Complete(x))
    <3>1. store[x] # Absent
      BY <1>4, <2>4, <2>5
    <3>2. got[x] = Final(x, "turns")
      BY <1>5, <2>2, <2>5
    <3> QED BY <1>4, <2>3, <3>1, <3>2
  <2>6. Ended /\ Header \notin raced => ~store[Header].turn \/ due # "no"
    <3>1. ~Pending
      BY <1>2, <1>10, <2>2 DEF Pending, got
    <3> QED BY <3>1 DEF Mended, Stopped
  <2> HIDE DEF new
  <2> QED BY <1>6, <1>10, <2>1, <2>2, <2>3, <2>5, <2>6
<1> QED BY <1>3, <1>7, <1>8, <1>9, <1>10

LEMMA ReadsMended ==
    ASSUME Types, Mended, RefreshReads
    PROVE  Mended'
<1>1. /\ UNCHANGED <<script, paged, made, seen, store, due, missed, raced>>
      /\ refresh.pc = "answered"
  BY DEF RefreshReads, server, listener
<1>2. /\ \A x : Complete(x)' = Complete(x) /\ Over(x)' = Over(x)
      /\ Ended' = Ended /\ Made("end", Header)' = Made("end", Header)
  BY <1>1, SameScript DEF Over, Ended, Made, By
<1>3. Kept'
  BY <1>1, <1>2 DEF Mended, Kept
<1>4. refresh \in Refreshes /\ Stages /\ Holds
  BY DEF Types, RefreshTypes
<1>5. ~store[Header].turn => Made("end", Header)
  BY DEF Mended, EndsOnly
<1>6. Ended /\ Header \notin raced => ~store[Header].turn \/ due # "no" \/ Pending
  BY DEF Mended, Stopped
<1> DEFINE target == Target
<1>7. /\ \A x \in Items \ refresh.crossed :
            Over(x) /\ (paged => x \notin raced \cup missed)
                => Same(x, target[x], Complete(x))
      /\ Ended /\ Header \notin raced \cup refresh.crossed =>
             \/ ~target[Header].turn
             \/ due # "no"
             \/ paged /\ refresh.stage = "resume"
      /\ ~target[Header].turn => Made("end", Header)
      /\ refresh.stage = "probe" /\ Ended /\ ~refresh.got[Header].turn
             => ~target[Header].turn
  BY <1>1, TargetHolds
<1>8. IF refresh.stage = "probe" /\ target = store
      THEN refresh' = [refresh EXCEPT !.stage = "end", !.pc = "idle"]
      ELSE refresh' = [refresh EXCEPT !.pc = "copied", !.copy = target, !.got = <<>>]
  BY DEF RefreshReads
<1> HIDE DEF target
<1>9. ASSUME refresh.stage = "probe", target = store,
             refresh' = [refresh EXCEPT !.stage = "end", !.pc = "idle"]
      PROVE  Mended'
  <2>1. refresh'.pc = "idle" /\ paged
    BY <1>4, <1>9 DEF Refreshes, Stages
  <2>2. Answered' /\ Copied' /\ Whole' /\ EndsOnly'
    BY <1>1, <1>2, <1>5, <2>1 DEF Answered, Copied, Whole, EndsOnly
  <2>3. Pending => Header \in DOMAIN refresh.got /\ ~refresh.got[Header].turn
    BY <1>1, <1>9 DEF Pending
  <2>4. Stopped'
    BY <1>1, <1>2, <1>6, <1>7, <1>9, <2>3 DEF Stopped
  <2> QED BY <1>3, <2>2, <2>4 DEF Mended
<1>10. ASSUME refresh' = [refresh EXCEPT !.pc = "copied", !.copy = target, !.got = <<>>]
       PROVE  Mended'
  <2>1. /\ refresh'.pc = "copied" /\ refresh'.copy = target
        /\ refresh'.stage = refresh.stage /\ refresh'.crossed = refresh.crossed
    BY <1>4, <1>10 DEF Refreshes
  <2>2. Answered' /\ Whole'
    BY <2>1 DEF Answered, Whole
  <2>3. Copied'
    BY <1>1, <1>2, <1>7, <2>1 DEF Copied
  <2>4. EndsOnly'
    BY <1>1, <1>2, <1>5, <1>7, <2>1 DEF EndsOnly
  <2>5. Stopped'
    <3>1. CASE refresh.stage # "page"
      BY <2>1, <3>1 DEF Stopped, Pending
    <3>2. CASE refresh.stage = "page"
      <4>1. DOMAIN refresh.got = Items
        BY <1>1, <1>4, <3>2 DEF Stages, Holds
      <4>2. ~Pending
        BY <1>1, <3>2, <4>1, NamesAssumption DEF Pending
      <4> QED BY <1>1, <1>2, <1>6, <4>2 DEF Stopped
    <3> QED BY <3>1, <3>2
  <2> QED BY <1>3, <2>2, <2>3, <2>4, <2>5 DEF Mended
<1> QED BY <1>8, <1>9, <1>10

LEMMA WritesMended ==
    ASSUME Types, Mended, RefreshWrites
    PROVE  Mended'
<1> DEFINE copy == refresh.copy
           Right(x) == IF x = Header THEN store'[x].turn = Running
                       ELSE Same(x, store'[x], Final(x, "turns"))
<1>1. /\ UNCHANGED <<script, paged, made, seen, due>> /\ refresh.pc = "copied"
      /\ refresh' = [refresh EXCEPT !.pc = "written", !.copy = Absent]
      /\ raced' = {x \in raced \cup refresh.crossed : ~Right(x)}
      /\ missed' = {x \in missed : ~Right(x)}
  BY DEF RefreshWrites, server, listener
<1>2. /\ \A x : Complete(x)' = Complete(x) /\ Over(x)' = Over(x)
      /\ Ended' = Ended /\ Made("end", Header)' = Made("end", Header)
  BY <1>1, SameScript DEF Over, Ended, Made, By
<1>3. refresh \in Refreshes /\ ServerTypes /\ Stages
  BY DEF Types, RefreshTypes
<1>4. refresh'.pc = "written" /\ refresh'.stage = refresh.stage
  BY <1>1, <1>3 DEF Refreshes
<1>5. /\ store'[Header].turn = copy[Header].turn
      /\ \A x \in Items : store'[x] = IF Empty(copy) THEN store[x] ELSE copy[x]
  BY WrittenThread
<1>6. \A x \in Items : /\ ~Same(x, Absent, Complete(x))
                       /\ Right(x) => Same(x, store'[x], Complete(x))
  BY <1>3, Shows, NamesAssumption
<1>7. /\ \A x \in Items \ refresh.crossed :
            Over(x) /\ (paged => x \notin raced \cup missed)
                => Same(x, copy[x], Complete(x))
      /\ Ended /\ Header \notin raced \cup refresh.crossed =>
             \/ ~copy[Header].turn
             \/ due # "no"
             \/ paged /\ refresh.stage = "resume"
  BY <1>1 DEF Mended, Copied
<1>8. \A x \in Items : Same(x, copy[x], Complete(x)) => store'[x] = copy[x]
  BY <1>5, <1>6 DEF Empty
<1>9. Ended => Made("end", Header)
  <2>1. seen \in Nat /\ made \in Nat /\ seen <= made
    BY <1>3, ScriptEvents DEF ServerTypes
  <2> QED BY <2>1, ByGrows DEF Ended, Made
<1> HIDE DEF copy, Right
<1>10. Kept'
  <2> SUFFICES ASSUME NEW x \in Items \ (raced' \cup missed'), Over(x)
               PROVE  Same(x, store'[x], Complete(x))
    BY <1>2 DEF Kept
  <2>1. CASE x \in raced \cup refresh.crossed \cup missed
    BY <1>1, <1>6, <2>1
  <2>2. CASE x \notin raced \cup refresh.crossed \cup missed
    BY <1>7, <1>8, <2>2
  <2> QED BY <2>1, <2>2
<1>11. Answered' /\ Copied'
  BY <1>4 DEF Answered, Copied
<1>12. Whole'
  <2> SUFFICES ASSUME ~paged, NEW x \in Items \ raced', Over(x)
               PROVE  Same(x, store'[x], Complete(x))
    BY <1>1, <1>2 DEF Whole
  <2>1. CASE x \in refresh.crossed
    BY <1>1, <1>6, <2>1
  <2>2. CASE x \notin refresh.crossed
    BY <1>7, <1>8, <2>2
  <2> QED BY <2>1, <2>2
<1>13. EndsOnly'
  BY <1>1, <1>2, <1>4, <1>5 DEF Mended, EndsOnly, copy
<1>14. Stopped'
  <2> SUFFICES ASSUME Ended, Header \notin raced', store'[Header].turn, due = "no"
               PROVE  Pending'
    BY <1>1, <1>2 DEF Stopped
  <2>1. ~Right(Header)
    BY <1>9 DEF Right, Running
  <2>2. Header \notin raced \cup refresh.crossed
    BY <1>1, <2>1
  <2>3. paged /\ refresh.stage = "resume"
    BY <1>5, <1>7, <2>2
  <2> QED BY <1>1, <1>4, <2>3 DEF Pending
<1> QED BY <1>10, <1>11, <1>12, <1>13, <1>14 DEF Mended

LEMMA EmitsMended ==
    ASSUME Types, Mended, RefreshEmits
    PROVE  Mended'
<1>1. /\ UNCHANGED <<script, paged, made, seen, store, due, missed, raced>>
      /\ refresh.pc = "written"
  BY DEF RefreshEmits, server, listener
<1>2. /\ \A x : Complete(x)' = Complete(x) /\ Over(x)' = Over(x)
      /\ Ended' = Ended /\ Made("end", Header)' = Made("end", Header)
  BY <1>1, SameScript DEF Over, Ended, Made, By
<1>3. refresh \in Refreshes
  BY DEF Types, RefreshTypes
<1>4. /\ refresh'.pc = IF paged /\ refresh.stage # "page" THEN "ask" ELSE "idle"
      /\ paged /\ refresh.stage = "resume" => refresh'.stage = "probe"
  BY <1>3 DEF RefreshEmits, Refreshes
<1>5. Kept' /\ Whole'
  BY <1>1, <1>2 DEF Mended, Kept, Whole
<1>6. Answered' /\ Copied' /\ EndsOnly'
  BY <1>1, <1>2, <1>4 DEF Mended, Answered, Copied, EndsOnly
<1>7. Stopped'
  BY <1>1, <1>2, <1>4 DEF Mended, Stopped, Pending
<1> QED BY <1>5, <1>6, <1>7 DEF Mended

LEMMA EndsMended ==
    ASSUME Types, Mended, RefreshEnds
    PROVE  Mended'
<1>1. /\ UNCHANGED <<script, paged, made, seen, store, due, missed, raced>>
      /\ refresh.stage = "end" /\ refresh' = Idle
  BY DEF RefreshEnds, server, listener
<1>2. /\ \A x : Complete(x)' = Complete(x) /\ Over(x)' = Over(x)
      /\ Ended' = Ended /\ Made("end", Header)' = Made("end", Header)
  BY <1>1, SameScript DEF Over, Ended, Made, By
<1>3. refresh.pc = "idle"
  BY <1>1 DEF Types, RefreshTypes, Stages
<1>4. refresh'.pc = "idle"
  BY <1>1 DEF Idle
<1>5. Kept' /\ Whole'
  BY <1>1, <1>2, <1>3 DEF Mended, Kept, Whole
<1>6. Answered' /\ Copied' /\ EndsOnly'
  BY <1>1, <1>2, <1>4 DEF Mended, Answered, Copied, EndsOnly
<1>7. Stopped'
  BY <1>1, <1>2, <1>3 DEF Mended, Stopped, Pending
<1> QED BY <1>5, <1>6, <1>7 DEF Mended

LEMMA StepMended == Types /\ Types' /\ Mended /\ [Next]_vars => Mended'
<1> SUFFICES ASSUME Types, Types', Mended, [Next]_vars PROVE Mended'
  OBVIOUS
<1>1. CASE UNCHANGED vars
  BY <1>1, AsideMended DEF vars, listener
<1>2. CASE Emit \/ ReceiveLagged \/ Receive \/ Reload \/ Flush
           \/ \E p \in {"loop", "side"} : PullReads(p) \/ PullApplies(p)
  <2>1. UNCHANGED <<server, seen, store, due, refresh, missed, raced>>
    BY <1>2 DEF Emit, ReceiveLagged, Receive, Reload, Flush, PullReads, PullApplies, listener
  <2> QED BY <2>1, AsideMended
<1>3. CASE Apply \/ Lose("lag") \/ Lose("cut")
  BY <1>3, ApplyMended, LoseMended
<1>4. CASE RefreshStarts \/ ServerAnswers \/ RefreshReads \/ RefreshWrites
           \/ RefreshEmits \/ RefreshEnds
  BY <1>4, StartMended, AnswersMended, ReadsMended, WritesMended, EmitsMended, EndsMended
<1> QED BY <1>1, <1>2, <1>3, <1>4 DEF Next

LEMMA MendedRepairs == Types /\ Mended => RecoveryRepairs
<1> SUFFICES ASSUME Types, Mended, StoreRests PROVE RecoveryRepairs
  BY DEF RecoveryRepairs
<1>1. seen = made /\ due = "no" /\ refresh.pc = "idle" /\ refresh.stage = "idle"
  BY DEF StoreRests, Idle
<1>2. Ended = Made("end", Header) /\ \A x : Over(x) = Made("completed", x)
  BY <1>1 DEF Ended, Over, Made
<1>3. ASSUME Header \notin raced PROVE store[Header].turn = Running
  <2>1. Ended => ~store[Header].turn
    BY <1>1, <1>3 DEF Mended, Stopped, Pending
  <2>2. ~store[Header].turn => Made("end", Header)
    BY DEF Mended, EndsOnly
  <2>3. store[Header].turn \in BOOLEAN
    BY DEF Types, StoreTypes, Threads, State
  <2> QED BY <1>2, <2>1, <2>2, <2>3 DEF Running
<1>4. ASSUME NEW x \in Items \ (raced \cup IF paged THEN missed ELSE {}), Made("completed", x)
      PROVE  Same(x, store[x], Final(x, "event"))
  <2>1. CASE paged
    BY <1>2, <1>4, <2>1 DEF Mended, Kept, Complete
  <2>2. CASE ~paged
    BY <1>1, <1>2, <1>4, <2>2 DEF Mended, Whole, Complete
  <2> QED BY <2>1, <2>2
<1> QED BY <1>3, <1>4 DEF RecoveryRepairs

\* When nothing is under way at the store, it has every item the server has
\* completed and knows whether the turn is running, whatever was lost.
THEOREM RecoveryAlwaysRepairs == Spec => []RecoveryRepairs
<1>1. Spec => []Types
  BY InitTypes, StepTypes, PTL DEF Spec
<1>2. Spec => []Mended
  BY <1>1, InitMended, StepMended, PTL DEF Spec
<1> QED BY <1>1, <1>2, MendedRepairs, PTL

-----------------------------------------------------------------------------
(* What the broadcasts on their way will make of a cell of the copy.       *)

Values(x) == IF x = Header THEN State \cup {Absent} ELSE Value \cup {Absent}
\* The value with more text.
App(v, text) == IF v = Absent THEN v ELSE [v EXCEPT !.text = @ \o text]
Concerns(m, x) == (m.t \in {"delta", "cell"} /\ m.x = x) \/ m.t = "upsert"
\* The message tells the value that the store had when it was sent.
Tell(m, x) == \/ m.t = "cell" /\ m.x = x /\ m.fresh
              \/ m.t = "upsert" /\ x \notin m.mixed
Told(m, x) == IF m.t = "cell" THEN m.v ELSE m.v[x]
Runs(b, i, j, x) == \A k \in i + 1..j : b[k].t = "delta" /\ b[k].x = x
Text(b, i, j) == [k \in 1..j - i |-> b[i + k].n]

\* The cell is h[i] when i of the messages in b have been received, for the i
\* in K: for the others nothing is claimed.
Chain(b, h, K, x) ==
    /\ K \subseteq 0..Len(b)
    /\ \A i \in K : h[i] \in Values(x)
    /\ \A i \in K, j \in 0..Len(b) :
          i <= j /\ (\A k \in i + 1..j : ~Concerns(b[k], x)) => j \in K /\ h[j] = h[i]
    /\ \A i \in K, j \in 0..Len(b) :
          i < j /\ Runs(b, i, j, x) => j \in K /\ h[j] = App(h[i], Text(b, i, j))
    /\ \A k \in 1..Len(b) : Tell(b[k], x) => k \in K /\ h[k] = Told(b[k], x)

LEMMA SameIsEquivalence ==
    ASSUME NEW x, NEW u, NEW v, NEW w, Same(x, u, v)
    PROVE  Same(x, v, u) /\ (Same(x, v, w) => Same(x, u, w))
BY DEF Same

LEMMA AppValue ==
    ASSUME NEW v \in Value \cup {Absent}, NEW s \in Seq(Nat)
    PROVE  /\ App(v, s) \in Value \cup {Absent}
           /\ v = Absent <=> App(v, s) = Absent
           /\ v # Absent => /\ App(v, s).text = v.text \o s
                            /\ App(v, s).state = v.state
                            /\ App(v, s).from = v.from
<1>1. v = Absent => App(v, s) = Absent
  BY DEF App
<1>2. ASSUME v # Absent
      PROVE  /\ App(v, s) \in Value /\ App(v, s).text = v.text \o s
             /\ App(v, s).state = v.state /\ App(v, s).from = v.from
  <2>1. v \in Value /\ v.text \in Seq(Nat)
    BY <1>2 DEF Value
  <2>2. v.text \o s \in Seq(Nat)
    BY <2>1
  <2> QED BY <1>2, <2>1, <2>2 DEF App, Value
<1> QED BY <1>1, <1>2, AbsentAssumption

LEMMA ValueParts ==
    ASSUME NEW v \in Value
    PROVE  v = [text |-> v.text, state |-> v.state, from |-> v.from]
BY DEF Value

LEMMA AppSame ==
    ASSUME NEW x \in Items, NEW v \in Value \cup {Absent}, NEW w \in Value \cup {Absent},
           NEW s \in Seq(Nat), Same(x, v, w)
    PROVE  Same(x, App(v, s), App(w, s))
<1>1. CASE v = w
  BY <1>1 DEF Same
<1>2. CASE v # w
  <2>1. v # Absent /\ w # Absent /\ v.text = w.text /\ v.state = w.state /\ x # Header
    BY <1>2 DEF Same
  <2>2. /\ App(v, s) # Absent /\ App(v, s).text = v.text \o s
        /\ App(v, s).state = v.state
    BY <2>1, AppValue
  <2>3. /\ App(w, s) # Absent /\ App(w, s).text = w.text \o s
        /\ App(w, s).state = w.state
    BY <2>1, AppValue
  <2> QED BY <2>1, <2>2, <2>3 DEF Same
<1> QED BY <1>1, <1>2

\* One more delta.
LEMMA AppLonger ==
    ASSUME NEW v \in Value \cup {Absent}, NEW s \in Seq(Nat), NEW n \in Nat
    PROVE  App(App(v, s), <<n>>) = App(v, Append(s, n))
<1>1. CASE v = Absent
  BY <1>1 DEF App
<1>2. CASE v # Absent
  <2> DEFINE one == <<n>>
             more == Append(s, n)
  <2>1. v \in Value /\ v.text \in Seq(Nat)
    BY <1>2 DEF Value
  <2>2. one \in Seq(Nat) /\ more \in Seq(Nat) /\ more = s \o one
    OBVIOUS
  <2> HIDE DEF one, more
  <2>3. (v.text \o s) \o one = v.text \o more
    <3>1. \A t \in Seq(Nat) : (t \o s) \o one = t \o (s \o one)
      BY <2>2, ConcatAssociative
    <3> QED BY <2>1, <2>2, <3>1, Zenon
  <2> DEFINE w == App(v, s)
  <2>4. /\ w \in Value \cup {Absent} /\ w # Absent /\ w.text = v.text \o s
        /\ w.state = v.state /\ w.from = v.from
    BY <1>2, AppValue
  <2> HIDE DEF w
  <2>5. /\ App(w, one) \in Value /\ App(w, one).text = w.text \o one
        /\ App(w, one).state = w.state /\ App(w, one).from = w.from
    BY <2>2, <2>4, AppValue
  <2>6. /\ App(v, more) \in Value /\ App(v, more).text = v.text \o more
        /\ App(v, more).state = v.state /\ App(v, more).from = v.from
    BY <1>2, <2>2, AppValue
  <2>7. App(w, one) = App(v, more)
    BY <2>3, <2>4, <2>5, <2>6, ValueParts
  <2> QED BY <2>7 DEF w, one, more
<1> QED BY <1>1, <1>2

\* The value that a message makes of the cell is v, if L is not empty.
Makes(b, m, h, K, x, v, L) ==
    /\ ~Concerns(m, x) /\ Len(b) \in K => L # {} /\ v = h[Len(b)]
    /\ m.t = "delta" /\ m.x = x /\ Len(b) \in K =>
           L # {} /\ v = App(h[Len(b)], <<m.n>>)
    /\ Tell(m, x) => L # {} /\ v = Told(m, x)
Longer(b, m, h, K, x, v, L) ==
    \E h2, K2 : /\ Chain(Append(b, m), h2, K2, x)
                /\ h2[0] = h[0] /\ (0 \in K2 <=> 0 \in K)
                /\ h2[Len(b) + 1] = v /\ (Len(b) + 1 \in K2 <=> L # {})

LEMMA AppendChain ==
    ASSUME NEW b \in Seq(Messages), NEW m \in Messages, NEW x \in Cells, NEW h, NEW K,
           NEW v \in Values(x), NEW L \in SUBSET {0},
           Chain(b, h, K, x), Makes(b, m, h, K, x, v, L)
    PROVE  Longer(b, m, h, K, x, v, L)
<1> DEFINE n == Len(b)
           c == Append(b, m)
           g == [i \in 0..n + 1 |-> IF i <= n THEN h[i] ELSE v]
           M == K \cup IF L = {} THEN {} ELSE {n + 1}
<1>1. n \in Nat /\ Len(c) = n + 1 /\ c[n + 1] = m /\ \A i \in 1..n : c[i] = b[i]
  OBVIOUS
<1>2. /\ K \subseteq 0..n /\ \A i \in K : h[i] \in Values(x)
      /\ \A i \in K, j \in 0..n :
            i <= j /\ (\A k \in i + 1..j : ~Concerns(b[k], x)) => j \in K /\ h[j] = h[i]
      /\ \A i \in K, j \in 0..n :
            i < j /\ Runs(b, i, j, x) => j \in K /\ h[j] = App(h[i], Text(b, i, j))
      /\ \A k \in 1..n : Tell(b[k], x) => k \in K /\ h[k] = Told(b[k], x)
  BY DEF Chain
<1>3. \A i \in 1..n : b[i] \in Messages
  OBVIOUS
<1>5. /\ ~Concerns(m, x) /\ n \in K => L # {} /\ v = h[n]
      /\ m.t = "delta" /\ m.x = x /\ n \in K => L # {} /\ v = App(h[n], <<m.n>>)
      /\ Tell(m, x) => L # {} /\ v = Told(m, x)
  BY DEF Makes
<1> HIDE DEF n, c
<1>6. /\ \A i \in 0..n : g[i] = h[i]
      /\ g[n + 1] = v
  BY <1>1
<1>7. M \subseteq 0..n + 1 /\ (n + 1 \in M <=> L # {}) /\ \A i \in 0..n : i \in M <=> i \in K
  <2>1. n + 1 \notin K
    BY <1>1, <1>2
  <2>2. M = K \cup IF L = {} THEN {} ELSE {n + 1}
    OBVIOUS
  <2> HIDE DEF M
  <2>3. CASE L = {}
    <3>1. M = K
      BY <2>2, <2>3
    <3> QED BY <1>1, <1>2, <2>1, <2>3, <3>1
  <2>4. CASE L # {}
    <3>1. M = K \cup {n + 1}
      BY <2>2, <2>4
    <3> QED BY <1>1, <1>2, <2>1, <2>4, <3>1
  <2> QED BY <2>3, <2>4
<1>8. \A i \in M : g[i] \in Values(x)
  BY <1>1, <1>2, <1>6, <1>7
<1> HIDE DEF g, M
<1>9. ASSUME NEW i \in M, NEW j \in 0..n + 1, i <= j,
             \A k \in i + 1..j : ~Concerns(c[k], x)
      PROVE  j \in M /\ g[j] = g[i]
  <2>1. CASE i = n + 1
    BY <1>1, <1>9, <2>1
  <2>2. CASE i \in 0..n /\ j \in 0..n
    <3>1. \A k \in i + 1..j : ~Concerns(b[k], x)
      BY <1>1, <1>9, <2>2
    <3> QED BY <1>2, <1>6, <1>7, <1>9, <2>2, <3>1
  <2>3. CASE i \in 0..n /\ j = n + 1
    <3>1. \A k \in i + 1..n : ~Concerns(b[k], x)
      BY <1>1, <1>9, <2>3
    <3>2. n \in K /\ h[n] = h[i]
      BY <1>1, <1>2, <1>7, <2>3, <3>1
    <3>3. ~Concerns(m, x)
      BY <1>1, <1>9, <2>3
    <3> QED BY <1>5, <1>6, <1>7, <2>3, <3>2, <3>3
  <2> QED BY <1>1, <1>7, <1>9, <2>1, <2>2, <2>3
<1>10. ASSUME NEW i \in M, NEW j \in 0..n + 1, i < j, Runs(c, i, j, x)
       PROVE  j \in M /\ g[j] = App(g[i], Text(c, i, j))
  <2>0. i \in 0..n /\ i \in K /\ g[i] = h[i]
    BY <1>1, <1>6, <1>7, <1>10
  <2>1. CASE j \in 0..n
    <3>1. Runs(b, i, j, x)
      BY <1>1, <1>10, <2>0, <2>1 DEF Runs
    <3>2. Text(c, i, j) = Text(b, i, j)
      BY <1>1, <2>0, <2>1 DEF Text
    <3> QED BY <1>2, <1>6, <1>7, <1>10, <2>0, <2>1, <3>1, <3>2
  <2>2. CASE j = n + 1
    <3>1. m.t = "delta" /\ m.x = x
      BY <1>1, <1>10, <2>0, <2>2 DEF Runs
    <3>2. x \in Items /\ m.n \in Nat
      BY <3>1, NamesAssumption DEF Messages
    <3>3. h[i] \in Value \cup {Absent}
      BY <1>2, <2>0, <3>2, NamesAssumption DEF Values
    <3>4. CASE i = n
      <4>1. Text(c, i, j) = <<m.n>>
        <5>1. j - i = 1 /\ c[i + 1] = m
          BY <1>1, <2>2, <3>4
        <5>2. Text(c, i, j) = [k \in 1..1 |-> c[i + k].n]
          BY <5>1 DEF Text
        <5> QED BY <5>1, <5>2
      <4> QED BY <1>5, <1>6, <1>7, <2>0, <2>2, <3>1, <3>4, <4>1
    <3>5. CASE i < n
      <4>1. Runs(b, i, n, x)
        BY <1>1, <1>10, <2>0, <2>2 DEF Runs
      <4>2. n \in K /\ h[n] = App(h[i], Text(b, i, n))
        BY <1>1, <1>2, <2>0, <3>5, <4>1
      <4>3. \A k \in i + 1..n : b[k].n \in Nat
        BY <1>1, <1>3, <2>0, <4>1 DEF Runs, Messages
      <4>4. Text(b, i, n) \in Seq(Nat) /\ Len(Text(b, i, n)) = n - i
        <5>1. n - i \in Nat /\ \A k \in 1..n - i : i + k \in i + 1..n
          BY <1>1, <2>0
        <5>2. \A k \in 1..n - i : b[i + k].n \in Nat
          BY <4>3, <5>1
        <5> QED BY <5>1, <5>2 DEF Text
      <4>5. Text(c, i, j) = Append(Text(b, i, n), m.n)
        <5>1. j - i = (n - i) + 1 /\ n - i \in Nat /\ i + (n - i) + 1 = n + 1
          BY <1>1, <2>0, <2>2
        <5>2. \A k \in 1..n - i : i + k \in 1..n
          BY <1>1, <2>0
        <5>3. Text(c, i, j) = [k \in 1..(n - i) + 1 |-> c[i + k].n]
          BY <5>1 DEF Text
        <5>4. \A k \in 1..n - i : c[i + k].n = Text(b, i, n)[k]
          BY <1>1, <5>2 DEF Text
        <5>5. c[i + ((n - i) + 1)].n = m.n
          BY <1>1, <2>0, <5>1
        <5> QED BY <4>4, <5>1, <5>3, <5>4, <5>5, <3>2
      <4>6. App(App(h[i], Text(b, i, n)), <<m.n>>) = App(h[i], Text(c, i, j))
        BY <3>2, <3>3, <4>4, <4>5, AppLonger
      <4> QED BY <1>5, <1>6, <1>7, <2>0, <2>2, <3>1, <4>2, <4>6
    <3> QED BY <1>1, <2>0, <3>4, <3>5
  <2> QED BY <1>1, <2>1, <2>2
<1>11. ASSUME NEW k \in 1..n + 1, Tell(c[k], x)
       PROVE  k \in M /\ g[k] = Told(c[k], x)
  <2>1. CASE k \in 1..n
    BY <1>1, <1>2, <1>6, <1>7, <1>11, <2>1
  <2>2. CASE k = n + 1
    BY <1>1, <1>5, <1>6, <1>7, <1>11, <2>2
  <2> QED BY <1>1, <2>1, <2>2
<1>12. Chain(c, g, M, x)
  BY <1>1, <1>7, <1>8, <1>9, <1>10, <1>11 DEF Chain
<1>13. g[0] = h[0] /\ (0 \in M <=> 0 \in K)
  BY <1>1, <1>6, <1>7
<1> QED BY <1>6, <1>7, <1>12, <1>13 DEF n, c, Longer

\* Messages that have been received leave the chain.
Shorter(b, d, h, K, x) ==
    \E h2, K2 : /\ Chain(SubSeq(b, d + 1, Len(b)), h2, K2, x)
                /\ h2[0] = h[d] /\ (0 \in K2 <=> d \in K)
                /\ h2[Len(b) - d] = h[Len(b)] /\ (Len(b) - d \in K2 <=> Len(b) \in K)

LEMMA DropChain ==
    ASSUME NEW b \in Seq(Messages), NEW x \in Cells, NEW h, NEW K, NEW d \in 0..Len(b),
           Chain(b, h, K, x)
    PROVE  Shorter(b, d, h, K, x)
<1> DEFINE n == Len(b)
           c == SubSeq(b, d + 1, n)
           g == [i \in 0..n - d |-> h[i + d]]
           M == {i \in 0..n - d : i + d \in K}
<1>1. /\ n \in Nat /\ d \in 0..n /\ n - d \in Nat /\ Len(c) = n - d
      /\ \A i \in 1..n - d : c[i] = b[i + d]
  <2>1. n \in Nat /\ d \in 0..n /\ n - d \in Nat
    OBVIOUS
  <2>2. /\ Len(c) = IF d + 1 <= n THEN n - (d + 1) + 1 ELSE 0
        /\ \A i \in 1..n - (d + 1) + 1 : c[i] = b[d + 1 + i - 1]
    BY <2>1, SubSeqProperties
  <2> QED BY <2>1, <2>2
<1>2. /\ K \subseteq 0..n /\ \A i \in K : h[i] \in Values(x)
      /\ \A i \in K, j \in 0..n :
            i <= j /\ (\A k \in i + 1..j : ~Concerns(b[k], x)) => j \in K /\ h[j] = h[i]
      /\ \A i \in K, j \in 0..n :
            i < j /\ Runs(b, i, j, x) => j \in K /\ h[j] = App(h[i], Text(b, i, j))
      /\ \A k \in 1..n : Tell(b[k], x) => k \in K /\ h[k] = Told(b[k], x)
  BY DEF Chain
<1> HIDE DEF n, c
<1>3. \A i \in 0..n - d : g[i] = h[i + d] /\ (i \in M <=> i + d \in K) /\ i + d \in 0..n
  BY <1>1
<1>4. M \subseteq 0..n - d /\ \A i \in M : g[i] \in Values(x)
  BY <1>2, <1>3
<1> HIDE DEF g, M
<1>5. ASSUME NEW i \in M, NEW j \in 0..n - d, i <= j,
             \A k \in i + 1..j : ~Concerns(c[k], x)
      PROVE  j \in M /\ g[j] = g[i]
  <2>1. i \in 0..n - d /\ i + d \in K /\ j + d \in 0..n /\ i + d <= j + d
    BY <1>1, <1>3, <1>4, <1>5
  <2>2. \A k \in (i + d) + 1..j + d : ~Concerns(b[k], x)
    <3> SUFFICES ASSUME NEW k \in (i + d) + 1..j + d PROVE ~Concerns(b[k], x)
      OBVIOUS
    <3>1. k - d \in i + 1..j /\ k - d \in 1..n - d /\ (k - d) + d = k
      BY <1>1, <2>1
    <3> QED BY <1>1, <1>5, <3>1
  <2>3. j + d \in K /\ h[j + d] = h[i + d]
    BY <1>2, <2>1, <2>2
  <2> QED BY <1>3, <2>1, <2>3
<1>6. ASSUME NEW i \in M, NEW j \in 0..n - d, i < j, Runs(c, i, j, x)
      PROVE  j \in M /\ g[j] = App(g[i], Text(c, i, j))
  <2>1. i \in 0..n - d /\ i + d \in K /\ j + d \in 0..n /\ i + d < j + d
    BY <1>1, <1>3, <1>4, <1>6
  <2>2. Runs(b, i + d, j + d, x)
    <3> SUFFICES ASSUME NEW k \in (i + d) + 1..j + d PROVE b[k].t = "delta" /\ b[k].x = x
      BY DEF Runs
    <3>1. k - d \in i + 1..j /\ k - d \in 1..n - d /\ (k - d) + d = k
      BY <1>1, <2>1
    <3> QED BY <1>1, <1>6, <3>1 DEF Runs
  <2>3. Text(c, i, j) = Text(b, i + d, j + d)
    <3>1. (j + d) - (i + d) = j - i
      BY <1>1, <2>1
    <3>2. \A k \in 1..j - i : c[i + k] = b[(i + d) + k]
      <4> SUFFICES ASSUME NEW k \in 1..j - i PROVE c[i + k] = b[(i + d) + k]
        OBVIOUS
      <4>1. i + k \in 1..n - d /\ (i + k) + d = (i + d) + k
        BY <1>1, <2>1
      <4> QED BY <1>1, <4>1
    <3> QED BY <3>1, <3>2 DEF Text
  <2>4. j + d \in K /\ h[j + d] = App(h[i + d], Text(b, i + d, j + d))
    BY <1>2, <2>1, <2>2
  <2> QED BY <1>3, <2>1, <2>3, <2>4
<1>7. ASSUME NEW k \in 1..n - d, Tell(c[k], x)
      PROVE  k \in M /\ g[k] = Told(c[k], x)
  <2>1. k + d \in 1..n /\ c[k] = b[k + d] /\ k \in 0..n - d
    BY <1>1
  <2> QED BY <1>2, <1>3, <1>7, <2>1
<1>8. Chain(c, g, M, x)
  BY <1>1, <1>4, <1>5, <1>6, <1>7 DEF Chain
<1>9. /\ g[0] = h[d] /\ (0 \in M <=> d \in K)
      /\ g[n - d] = h[n] /\ (n - d \in M <=> n \in K)
  BY <1>1, <1>3
<1> QED BY <1>8, <1>9 DEF n, c, Shorter

LEMMA DropOne ==
    ASSUME NEW b \in Seq(Messages), NEW x \in Cells, NEW h, NEW K, b # <<>>,
           Chain(b, h, K, x)
    PROVE  \E h2, K2 : /\ Chain(Tail(b), h2, K2, x)
                       /\ h2[Len(Tail(b))] = h[Len(b)]
                       /\ Len(Tail(b)) \in K2 <=> Len(b) \in K
<1> DEFINE d == 1
<1>1. d \in 0..Len(b)
  OBVIOUS
<1>2. SubSeq(b, d + 1, Len(b)) = Tail(b) /\ Len(b) - d = Len(Tail(b))
  OBVIOUS
<1> HIDE DEF d
<1>3. Shorter(b, d, h, K, x)
  BY <1>1, DropChain
<1> QED BY <1>2, <1>3 DEF Shorter

\* A full channel loses its oldest message to the new one.
LEMMA ShiftChain ==
    ASSUME NEW b \in Seq(Messages), NEW m \in Messages, NEW x \in Cells, NEW h, NEW K,
           NEW v \in Values(x), NEW L \in SUBSET {0}, b # <<>>,
           Chain(b, h, K, x), Makes(b, m, h, K, x, v, L)
    PROVE  \E h2, K2 : /\ Chain(Append(Tail(b), m), h2, K2, x)
                       /\ h2[Len(b)] = v /\ (Len(b) \in K2 <=> L # {})
<1> DEFINE c == Tail(b)
<1>1. PICK h1, K1 : /\ Chain(c, h1, K1, x)
                    /\ h1[Len(c)] = h[Len(b)]
                    /\ Len(c) \in K1 <=> Len(b) \in K
  BY DropOne
<1>2. c \in Seq(Messages) /\ Len(c) + 1 = Len(b)
  OBVIOUS
<1> HIDE DEF c
<1>3. Makes(c, m, h1, K1, x, v, L)
  BY <1>1 DEF Makes
<1>4. Longer(c, m, h1, K1, x, v, L)
  BY <1>1, <1>2, <1>3, AppendChain
<1>5. \E h2, K2 : /\ Chain(Append(c, m), h2, K2, x)
                  /\ h2[Len(b)] = v /\ (Len(b) \in K2 <=> L # {})
  BY <1>2, <1>4 DEF Longer
<1> QED BY <1>5 DEF c

\* A reader of the store has the value w already, and takes what is told on the
\* way, if no delta is.
Reread(b, h, K, x, w) ==
    \E h2, K2 : /\ Chain(b, h2, K2, x) /\ 0 \in K2 /\ h2[0] = w
                /\ \/ h2[Len(b)] = w
                   \/ h2[Len(b)] = h[Len(b)] /\ (Len(b) \in K2 <=> Len(b) \in K)

LEMMA ReadChain ==
    ASSUME NEW b \in Seq(Messages), NEW x \in Cells, NEW h, NEW K, NEW w \in Values(x),
           Chain(b, h, K, x), \A k \in 1..Len(b) : ~(b[k].t = "delta" /\ b[k].x = x)
    PROVE  Reread(b, h, K, x, w)
<1> DEFINE n == Len(b)
           Late(i) == \E k \in 1..i : Concerns(b[k], x)
           g == [i \in 0..n |-> IF Late(i) THEN h[i] ELSE w]
           M == {i \in 0..n : Late(i) => i \in K}
<1>1. n \in Nat
  OBVIOUS
<1>2. /\ K \subseteq 0..n /\ \A i \in K : h[i] \in Values(x)
      /\ \A i \in K, j \in 0..n :
            i <= j /\ (\A k \in i + 1..j : ~Concerns(b[k], x)) => j \in K /\ h[j] = h[i]
      /\ \A k \in 1..n : Tell(b[k], x) => k \in K /\ h[k] = Told(b[k], x)
  BY DEF Chain
<1>3. \A i \in 0..n : /\ Late(i) => g[i] = h[i]
                      /\ ~Late(i) => g[i] = w
                      /\ i \in M <=> (Late(i) => i \in K)
  OBVIOUS
<1>4. \A i, j \in 0..n : i <= j /\ Late(i) => Late(j)
  BY <1>1
<1>5. ~Late(0)
  OBVIOUS
<1>6. M \subseteq 0..n /\ \A i \in M : g[i] \in Values(x)
  BY <1>2, <1>3
<1>7. \A k \in 1..n : Tell(b[k], x) => Late(k)
  BY <1>1 DEF Tell, Concerns
<1>8. \A i, j \in 0..n : i <= j /\ ~Late(i) /\ (\A k \in i + 1..j : ~Concerns(b[k], x))
                             => ~Late(j)
  BY <1>1
<1> HIDE DEF n, Late, g, M
<1>9. ASSUME NEW i \in M, NEW j \in 0..n, i <= j, \A k \in i + 1..j : ~Concerns(b[k], x)
      PROVE  j \in M /\ g[j] = g[i]
  <2>1. i \in 0..n
    BY <1>6
  <2>2. CASE Late(i)
    BY <1>2, <1>3, <1>4, <1>9, <2>1, <2>2
  <2>3. CASE ~Late(i)
    BY <1>3, <1>8, <1>9, <2>1, <2>3
  <2> QED BY <2>2, <2>3
<1>10. \A i \in M, j \in 0..n : i < j => ~Runs(b, i, j, x)
  <2> SUFFICES ASSUME NEW i \in M, NEW j \in 0..n, i < j, Runs(b, i, j, x) PROVE FALSE
    OBVIOUS
  <2>1. i \in 0..n /\ j \in i + 1..j /\ j \in 1..n
    BY <1>1, <1>6
  <2> QED BY <2>1 DEF Runs, n
<1>11. \A k \in 1..n : Tell(b[k], x) => k \in M /\ g[k] = Told(b[k], x)
  BY <1>1, <1>2, <1>3, <1>7
<1>12. Chain(b, g, M, x)
  BY <1>6, <1>9, <1>10, <1>11 DEF Chain, n
<1>13. 0 \in M /\ g[0] = w
  BY <1>1, <1>3, <1>5
<1>14. g[n] = w \/ (g[n] = h[n] /\ (n \in M <=> n \in K))
  BY <1>1, <1>3
<1> QED BY <1>12, <1>13, <1>14 DEF n, Reread

-----------------------------------------------------------------------------
(* The copy follows the store.                                             *)

\* What the user will see of a cell when the batch is flushed.
Held(x) == IF batch[x] # Absent THEN batch[x] ELSE ui[x]
\* The copy of a cell, or of the read that is under way, is at the start of the
\* chain ...
Calm(x) == /\ ~lagged /\ x \notin odd
           /\ \A p \in {"loop", "side"} : ~pulls[p].due /\ pulls[p].copy = Absent
Read(p, x) == /\ ~lagged /\ pulls[p].copy # Absent /\ x \notin pulls[p].crossed
              /\ \A q \in {"loop", "side"} : ~pulls[q].due /\ (q # p => pulls[q].copy = Absent)
Begins(h, K, x) ==
    /\ Calm(x) => 0 \in K /\ Same(x, Held(x), h[0])
    /\ \A p \in {"loop", "side"} :
          Read(p, x) => 0 \in K /\ Same(x, pulls[p].copy[x], h[0])
\* ... and the store at its end, unless it has yet to tell the value.
Waits(x) ==
    \/ refresh.pc = "written" \/ x \in silent
    \/ todo.t \in {"head", "byId"} /\ todo.x = x /\ store[x] # Absent /\ cache[x] # store[x]
    \/ todo.t = "item" /\ todo.x = x /\ cache[x] # todo.v
Arrived(x, v) == Same(x, IF todo.t = "delta" /\ todo.x = x THEN App(v, <<todo.n>>) ELSE v,
                   store[x])
Ends(h, K, x) == Len(bus) \in K /\ ~Waits(x) => Arrived(x, h[Len(bus)])
Path(x) == \E h, K : Chain(bus, h, K, x) /\ Begins(h, K, x) /\ Ends(h, K, x)
Paths == \A x \in Cells : Path(x)

\* What the listener broadcast last is what the store has, or is older than it.
\* For a refresh the cache is empty.
\* (s is the script, n the number of its events that the listener has passed.)
Was(s, n, kind, x) == \E k \in 1..n : s[k] = [kind |-> kind, x |-> x]
Count(s, n, x) == Cardinality({k \in 1..n : s[k] = [kind |-> "delta", x |-> x]})
Known(s, n, v, x) == v # Absent =>
    /\ v.state = "named" => Was(s, n, "started", x)
    /\ v.state = "done" /\ v.from = "event" => Was(s, n, "completed", x)
    /\ x \notin Commands => v.state = "bare"
    /\ x \notin Commands /\ v.from = "event" /\ ~Was(s, n, "completed", x) =>
           Len(v.text) <= Count(s, n, x)
Knows ==
    \A x \in Items :
        /\ Known(script, seen, store[x], x) /\ Known(script, seen, cache[x], x)
        /\ refresh.pc = "copied" => Known(script, seen, refresh.copy[x], x)
        /\ x \in DOMAIN refresh.got => refresh.got[x] \in {Absent, Final(x, "turns")}
Carries ==
    todo.t = "item" =>
        \/ Was(script, seen, "completed", todo.x) /\ todo.v = Complete(todo.x)
        \/ /\ todo.x \in Commands /\ Was(script, seen, "started", todo.x)
           /\ todo.v.state = "named"
Cached ==
    refresh.pc # "written" =>
        /\ \A x \in Items : cache[x] # Absent /\ store[x] = Absent =>
               Was(script, seen, "completed", x) \/ cache[x].state = "named"
        /\ \A x \in Items \ Commands : cache[x] # Absent /\ ~Was(script, seen, "completed", x) =>
               /\ store[x] # Absent /\ store[x].from = cache[x].from
               /\ IsPrefix(cache[x].text, store[x].text)
        /\ cache[Header] # Absent /\ todo.t # "head" => store[Header] = cache[Header]
Remembers == Cached /\ Carries /\ Knows
Follows == Paths /\ Remembers

-----------------------------------------------------------------------------
(* What the listener remembers.                                            *)

LEMMA WasGrows ==
    ASSUME NEW s, NEW n \in Nat, NEW m \in Nat, n <= m, NEW kind, NEW x, Was(s, n, kind, x)
    PROVE  Was(s, m, kind, x)
<1>1. 1..n \subseteq 1..m
  OBVIOUS
<1> QED BY <1>1 DEF Was

LEMMA CountGrows ==
    ASSUME NEW s, NEW n \in Nat, NEW m \in Nat, n <= m, NEW x
    PROVE  /\ Count(s, n, x) \in Nat /\ Count(s, m, x) \in Nat
           /\ Count(s, n, x) <= Count(s, m, x)
<1> DEFINE D(i) == {k \in 1..i : s[k] = [kind |-> "delta", x |-> x]}
<1>1. \A i \in Nat : IsFiniteSet(D(i)) /\ Cardinality(D(i)) \in Nat
  <2> SUFFICES ASSUME NEW i \in Nat PROVE IsFiniteSet(D(i)) /\ Cardinality(D(i)) \in Nat
    OBVIOUS
  <2>1. IsFiniteSet(1..i) /\ D(i) \subseteq 1..i
    BY FS_Interval
  <2>2. IsFiniteSet(D(i))
    BY <2>1, FS_Subset
  <2> QED BY <2>2, FS_CardinalityType
<1>2. D(n) \subseteq D(m)
  OBVIOUS
<1>3. Cardinality(D(n)) <= Cardinality(D(m))
  BY <1>1, <1>2, FS_Subset
<1> QED BY <1>1, <1>3 DEF Count

LEMMA CountNext ==
    ASSUME NEW s, NEW n \in Nat, NEW x, s[n + 1] = [kind |-> "delta", x |-> x]
    PROVE  Count(s, n + 1, x) = Count(s, n, x) + 1
<1> DEFINE D == {k \in 1..n : s[k] = [kind |-> "delta", x |-> x]}
           E == {k \in 1..n + 1 : s[k] = [kind |-> "delta", x |-> x]}
<1>1. IsFiniteSet(D)
  <2>1. IsFiniteSet(1..n) /\ D \subseteq 1..n
    BY FS_Interval
  <2> QED BY <2>1, FS_Subset
<1>2. E = D \cup {n + 1} /\ n + 1 \notin D
  <2>1. 1..n + 1 = (1..n) \cup {n + 1} /\ n + 1 \notin 1..n
    OBVIOUS
  <2> QED BY <2>1
<1>3. Cardinality(E) = Cardinality(D) + 1
  BY <1>1, <1>2, FS_AddElement
<1> QED BY <1>3 DEF Count

LEMMA KnownGrows ==
    ASSUME NEW s, NEW n \in Nat, NEW m \in Nat, n <= m, NEW x, NEW v \in Value \cup {Absent},
           Known(s, n, v, x)
    PROVE  Known(s, m, v, x)
<1>1. CASE v = Absent
  BY <1>1 DEF Known
<1>2. CASE v # Absent
  <2>1. Len(v.text) \in Nat
    BY <1>2 DEF Value
  <2>2. Count(s, n, x) \in Nat /\ Count(s, m, x) \in Nat /\ Count(s, n, x) <= Count(s, m, x)
    BY CountGrows
  <2>3. \A kind : Was(s, n, kind, x) => Was(s, m, kind, x)
    BY WasGrows
  <2> QED BY <1>2, <2>1, <2>2, <2>3 DEF Known
<1> QED BY <1>1, <1>2

\* An item as the server has it; what is not there.
LEMMA KnownFinal ==
    ASSUME NEW s, NEW n, NEW x
    PROVE  /\ Known(s, n, Absent, x) /\ Known(s, n, Final(x, "turns"), x)
           /\ Was(s, n, "completed", x) => Known(s, n, Complete(x), x)
<1>1. /\ Final(x, "turns").from = "turns"
      /\ Final(x, "turns").state = IF x \in Commands THEN "done" ELSE "bare"
      /\ Complete(x).from = "event"
      /\ Complete(x).state = IF x \in Commands THEN "done" ELSE "bare"
  BY DEF Final, Complete
<1> QED BY <1>1 DEF Known

LEMMA KnowsLater ==
    ASSUME Types, Types', Knows, UNCHANGED script, seen <= seen',
           \A x \in Items : \/ store'[x] = store[x]
                            \/ Known(script, seen', store'[x], x),
           \A x \in Items : \/ cache'[x] = cache[x]
                            \/ Known(script, seen', cache'[x], x),
           refresh'.pc = "copied" => \A x \in Items :
                            \/ refresh.pc = "copied" /\ refresh'.copy = refresh.copy
                            \/ Known(script, seen', refresh'.copy[x], x),
           \A x \in Items \cap DOMAIN refresh'.got :
                            \/ x \in DOMAIN refresh.got /\ refresh'.got[x] = refresh.got[x]
                            \/ refresh'.got[x] \in {Absent, Final(x, "turns")}
    PROVE  Knows'
<1>1. seen \in Nat /\ seen' \in Nat
  <2>1. ServerTypes /\ ServerTypes'
    BY DEF Types
  <2>2. Len(script) \in Nat /\ script' = script
    BY <2>1, ScriptEvents
  <2> QED BY <2>1, <2>2 DEF ServerTypes
<1>2. ASSUME NEW x \in Items, NEW v \in Value \cup {Absent}, Known(script, seen, v, x)
      PROVE  Known(script, seen', v, x)
  BY <1>1, <1>2, KnownGrows
<1>3. /\ store \in Threads /\ cache \in Sketches
      /\ refresh.pc = "copied" => refresh.copy \in Threads
  BY DEF Types, StoreTypes, RefreshTypes, Holds
<1>4. \A x \in Items : /\ store[x] \in Value \cup {Absent} /\ cache[x] \in Value \cup {Absent}
                       /\ refresh.pc = "copied" => refresh.copy[x] \in Value \cup {Absent}
  BY <1>3, ThreadKinds DEF Sketches
<1>5. ASSUME NEW x \in Items
      PROVE  /\ Known(script, seen', store'[x], x) /\ Known(script, seen', cache'[x], x)
             /\ refresh'.pc = "copied" => Known(script, seen', refresh'.copy[x], x)
             /\ x \in DOMAIN refresh'.got => refresh'.got[x] \in {Absent, Final(x, "turns")}
  <2>1. /\ Known(script, seen, store[x], x) /\ Known(script, seen, cache[x], x)
        /\ refresh.pc = "copied" => Known(script, seen, refresh.copy[x], x)
        /\ x \in DOMAIN refresh.got => refresh.got[x] \in {Absent, Final(x, "turns")}
    BY DEF Knows
  <2>2. /\ Known(script, seen', store[x], x) /\ Known(script, seen', cache[x], x)
        /\ refresh.pc = "copied" => Known(script, seen', refresh.copy[x], x)
    BY <1>2, <1>4, <2>1
  <2>3. Known(script, seen', store'[x], x) /\ Known(script, seen', cache'[x], x)
    BY <2>2
  <2>4. refresh'.pc = "copied" => Known(script, seen', refresh'.copy[x], x)
    BY <2>2
  <2>5. x \in DOMAIN refresh'.got => refresh'.got[x] \in {Absent, Final(x, "turns")}
    BY <2>1
  <2> QED BY <2>3, <2>4, <2>5
<1>6. \A x : Final(x, "turns")' = Final(x, "turns")
  BY SameScript
<1> QED BY <1>5, <1>6 DEF Knows

\* Steps that leave the store and the cache alone.
LEMMA AsideRemembers ==
    ASSUME Types, Types', Remembers, UNCHANGED <<script, store, cache, todo>>, seen <= seen',
           refresh.pc = "written" => refresh'.pc = "written",
           refresh'.pc = "copied" => \A x \in Items :
                            \/ refresh.pc = "copied" /\ refresh'.copy = refresh.copy
                            \/ Known(script, seen', refresh'.copy[x], x),
           \A x \in Items \cap DOMAIN refresh'.got :
                            \/ x \in DOMAIN refresh.got /\ refresh'.got[x] = refresh.got[x]
                            \/ refresh'.got[x] \in {Absent, Final(x, "turns")}
    PROVE  Remembers'
<1>1. seen \in Nat /\ seen' \in Nat
  <2>1. ServerTypes /\ ServerTypes'
    BY DEF Types
  <2>2. Len(script) \in Nat /\ script' = script
    BY <2>1, ScriptEvents
  <2> QED BY <2>1, <2>2 DEF ServerTypes
<1>2. \A kind, x : Was(script, seen, kind, x) => Was(script, seen', kind, x)
  BY <1>1, WasGrows
<1>3. \A x : Complete(x)' = Complete(x)
  BY SameScript
<1>4. Cached'
  BY <1>2 DEF Remembers, Cached
<1>5. Carries'
  BY <1>2, <1>3 DEF Remembers, Carries
<1>6. Knows'
  BY KnowsLater DEF Remembers
<1> QED BY <1>4, <1>5, <1>6 DEF Remembers

\* What a refresh wants to write of an item is in the store or from the server.
LEMMA TargetKnown ==
    ASSUME Types, Knows, refresh.pc = "answered", NEW x \in Items
    PROVE  Target[x] \in {store[x], Absent, Final(x, "turns")}
<1> DEFINE got == refresh.got
<1>1. store \in Threads /\ store = [y \in Cells |-> store[y]] /\ x \in Cells /\ x # Header
  BY NamesAssumption DEF Types, StoreTypes, Threads, Sketches, Thread, Cells
<1>2. refresh.stage \in {"resume", "probe", "page"} /\ Holds
  BY DEF Types, RefreshTypes, Refreshes, Stages
<1>3. /\ ~paged => got \in Threads
      /\ refresh.stage = "page" => DOMAIN got = Items
      /\ x \in DOMAIN got => got[x] \in {Absent, Final(x, "turns")}
  BY <1>2 DEF Holds, Knows
<1> HIDE DEF got
<1>4. CASE refresh.stage = "resume" /\ ~paged
  <2>1. Target = got
    BY <1>4 DEF Target, got
  <2>2. x \in DOMAIN got
    BY <1>1, <1>3, <1>4 DEF Threads, Sketches, Thread
  <2> QED BY <1>3, <2>1, <2>2
<1>5. CASE refresh.stage = "resume" /\ paged
  <2>1. Target = [store EXCEPT ![Header].plan = 0]
    BY <1>5 DEF Target
  <2> QED BY <1>1, <2>1
<1>6. CASE refresh.stage = "probe"
  <2>1. \E turn : Target = [store EXCEPT ![Header].turn = turn]
    BY <1>6 DEF Target
  <2> QED BY <1>1, <2>1
<1>7. CASE refresh.stage = "page"
  <2>1. Target = MergePage(got)
    BY <1>7 DEF Target, got
  <2>2. Target[x] \in {store[x], got[x], Absent}
    BY <1>1, <2>1 DEF MergePage
  <2> QED BY <1>3, <1>7, <2>2
<1> QED BY <1>2, <1>4, <1>5, <1>6, <1>7

LEMMA LoseRemembers ==
    ASSUME Types, Types', Remembers, NEW why, Lose(why)
    PROVE  Remembers' /\ UNCHANGED script /\ refresh'.pc = refresh.pc
<1>1. /\ UNCHANGED <<script, store, cache, todo>>
      /\ \E last \in seen + 1..Len(script) :
            seen' = last /\ refresh' = Crossed({script[k].x : k \in seen + 1..last})
  BY DEF Lose
<1>2. PICK last \in seen + 1..Len(script) :
            seen' = last /\ refresh' = Crossed({script[k].x : k \in seen + 1..last})
  BY <1>1
<1>3. /\ seen \in Nat /\ Len(script) \in Nat /\ \A k \in 1..Len(script) : script[k].x \in Cells
  BY ScriptEvents DEF Types, ServerTypes
<1> DEFINE S == {script[k].x : k \in seen + 1..last}
           r == Crossed(S)
<1>4. S \in SUBSET Cells /\ seen <= seen'
  BY <1>2, <1>3
<1> HIDE DEF S
<1>5. r.pc = refresh.pc /\ r.got = refresh.got /\ r.copy = refresh.copy
  BY <1>4, CrossedFields DEF Types
<1>6. refresh' = r
  BY <1>2 DEF S
<1> HIDE DEF r
<1>7. refresh'.pc = refresh.pc /\ refresh'.got = refresh.got /\ refresh'.copy = refresh.copy
  BY <1>5, <1>6
<1> QED BY <1>1, <1>4, <1>7, AsideRemembers

LEMMA StartRemembers ==
    ASSUME Types, Types', Remembers, RefreshStarts
    PROVE  Remembers' /\ refresh.pc = "idle" /\ refresh'.pc = "answered"
<1>1. /\ UNCHANGED <<script, seen, store, cache, todo>> /\ refresh = Idle
      /\ \E n : refresh' = [Idle EXCEPT !.stage = "resume", !.pc = "answered",
                               !.got = Answer("resume", n), !.resync = (due = "lag")]
  BY DEF RefreshStarts, listener
<1>2. PICK n : refresh' = [Idle EXCEPT !.stage = "resume", !.pc = "answered",
                               !.got = Answer("resume", n), !.resync = (due = "lag")]
  BY <1>1
<1>3. refresh.pc = "idle" /\ refresh'.pc = "answered" /\ refresh'.got = Answer("resume", n)
  BY <1>1, <1>2 DEF Idle
<1> DEFINE got == Answer("resume", n)
<1>4. \A x \in Items \cap DOMAIN got : got[x] \in {Absent, Final(x, "turns")}
  <2>1. /\ DOMAIN got = AnswerCells("resume")
        /\ \A x \in AnswerCells("resume") : x \in Items =>
              got[x] = IF By(n, "completed", x) THEN Final(x, "turns") ELSE Absent
    BY AnswerTypes DEF Types
  <2> HIDE DEF got
  <2> QED BY <2>1
<1>5. refresh'.got = got
  BY <1>3
<1> HIDE DEF got
<1>6. seen <= seen'
  BY <1>1, ScriptEvents DEF Types, ServerTypes
<1> QED BY <1>1, <1>3, <1>4, <1>5, <1>6, AsideRemembers

LEMMA AnswersRemembers ==
    ASSUME Types, Types', Remembers, ServerAnswers
    PROVE  Remembers' /\ refresh.pc = "ask" /\ refresh'.pc = "answered"
<1>1. /\ UNCHANGED <<script, seen, store, cache, todo>> /\ refresh.pc = "ask"
      /\ \E n : refresh' = [refresh EXCEPT !.pc = "answered",
                                          !.got = Answer(refresh.stage, n)]
  BY DEF ServerAnswers, listener
<1>2. PICK n : refresh' = [refresh EXCEPT !.pc = "answered",
                                          !.got = Answer(refresh.stage, n)]
  BY <1>1
<1>3. refresh \in Refreshes /\ refresh.stage \in {"probe", "page"}
  BY <1>1 DEF Types, RefreshTypes, Stages
<1> DEFINE got == Answer(refresh.stage, n)
<1>4. \A x \in Items \cap DOMAIN got : got[x] \in {Absent, Final(x, "turns")}
  <2> DEFINE stage == refresh.stage
  <2>1. stage \in {"resume", "probe", "page"}
    BY <1>3
  <2>2. got = Answer(stage, n)
    OBVIOUS
  <2> HIDE DEF got, stage
  <2>3. /\ DOMAIN got = AnswerCells(stage)
        /\ \A x \in AnswerCells(stage) : x \in Items =>
              got[x] = IF By(n, "completed", x) THEN Final(x, "turns") ELSE Absent
    BY <2>1, <2>2, AnswerTypes DEF Types
  <2> QED BY <2>3
<1>5. refresh' = [refresh EXCEPT !.pc = "answered", !.got = got]
  BY <1>2
<1> HIDE DEF got
<1>6. refresh'.got = got /\ refresh'.pc = "answered"
  BY <1>3, <1>5 DEF Refreshes
<1>7. seen <= seen'
  BY <1>1, ScriptEvents DEF Types, ServerTypes
<1> QED BY <1>1, <1>4, <1>6, <1>7, AsideRemembers

LEMMA ReadsRemembers ==
    ASSUME Types, Types', Remembers, RefreshReads
    PROVE  Remembers' /\ refresh.pc = "answered" /\ refresh'.pc \in {"idle", "copied"}
<1>1. /\ UNCHANGED <<script, seen, store, cache, todo>> /\ refresh.pc = "answered"
  BY DEF RefreshReads, listener, server
<1>2. refresh \in Refreshes /\ seen <= seen'
  BY <1>1, ScriptEvents DEF Types, RefreshTypes, ServerTypes
<1> DEFINE target == Target
<1>3. \A x \in Items : target[x] \in {store[x], Absent, Final(x, "turns")}
  BY <1>1, TargetKnown DEF Remembers
<1>4. \/ refresh' = [refresh EXCEPT !.stage = "end", !.pc = "idle"]
      \/ refresh' = [refresh EXCEPT !.pc = "copied", !.copy = target, !.got = <<>>]
  BY DEF RefreshReads
<1> HIDE DEF target
<1>5. CASE refresh' = [refresh EXCEPT !.stage = "end", !.pc = "idle"]
  <2>1. refresh'.pc = "idle" /\ refresh'.got = refresh.got
    BY <1>2, <1>5 DEF Refreshes
  <2> QED BY <1>1, <1>2, <2>1, AsideRemembers
<1>6. CASE refresh' = [refresh EXCEPT !.pc = "copied", !.copy = target, !.got = <<>>]
  <2>1. refresh'.pc = "copied" /\ refresh'.copy = target /\ refresh'.got = <<>>
    BY <1>2, <1>6 DEF Refreshes
  <2>2. \A x \in Items : Known(script, seen', target[x], x)
    BY <1>1, <1>3, KnownFinal DEF Remembers, Knows
  <2>3. DOMAIN refresh'.got = {}
    BY <2>1
  <2> QED BY <1>1, <1>2, <2>1, <2>2, <2>3, AsideRemembers
<1> QED BY <1>4, <1>5, <1>6

LEMMA WritesRemembers ==
    ASSUME Types, Types', Remembers, RefreshWrites
    PROVE  Remembers' /\ refresh'.pc = "written"
<1>1. /\ UNCHANGED <<script, seen, cache, todo>> /\ refresh.pc = "copied"
      /\ refresh' = [refresh EXCEPT !.pc = "written", !.copy = Absent]
  BY DEF RefreshWrites, listener, server
<1>2. refresh \in Refreshes /\ seen <= seen'
  BY <1>1, ScriptEvents DEF Types, RefreshTypes, ServerTypes
<1>3. refresh'.pc = "written" /\ refresh'.got = refresh.got
  BY <1>1, <1>2 DEF Refreshes
<1>4. \A x \in Items : store'[x] = store[x] \/ store'[x] = refresh.copy[x]
  BY WrittenThread
<1>5. \A x \in Items : Known(script, seen, refresh.copy[x], x)
  BY <1>1 DEF Remembers, Knows
<1>6. \A x \in Items : store'[x] = store[x] \/ Known(script, seen', store'[x], x)
  BY <1>1, <1>4, <1>5
<1>7. Knows'
  BY <1>1, <1>2, <1>3, <1>6, KnowsLater DEF Remembers
<1>8. Carries'
  <2>1. \A x : Complete(x)' = Complete(x)
    BY <1>1, SameScript
  <2> QED BY <1>1, <2>1 DEF Remembers, Carries
<1> QED BY <1>3, <1>7, <1>8 DEF Remembers, Cached

LEMMA EmitsRemembers ==
    ASSUME Types, Types', Remembers, RefreshEmits
    PROVE  Remembers' /\ refresh.pc = "written" /\ refresh'.pc # "written"
<1>1. /\ UNCHANGED <<script, seen, store, todo>> /\ refresh.pc = "written"
      /\ cache' = Nowhere
  BY DEF RefreshEmits, listener, server
<1>2. refresh \in Refreshes /\ seen <= seen'
  BY <1>1, ScriptEvents DEF Types, RefreshTypes, ServerTypes
<1>3. refresh'.pc \in {"ask", "idle"} /\ refresh'.got = refresh.got
  BY <1>2 DEF RefreshEmits, Refreshes
<1>4. \A x \in Cells : cache'[x] = Absent
  BY <1>1 DEF Nowhere
<1>5. Items \subseteq Cells /\ Header \in Cells
  BY DEF Cells
<1>6. \A x \in Items : Known(script, seen', cache'[x], x)
  BY <1>4, <1>5, KnownFinal
<1>7. Knows'
  BY <1>1, <1>2, <1>3, <1>6, KnowsLater DEF Remembers
<1>8. Carries'
  <2>1. \A x : Complete(x)' = Complete(x)
    BY <1>1, SameScript
  <2> QED BY <1>1, <2>1 DEF Remembers, Carries
<1>9. Cached'
  BY <1>4, <1>5 DEF Cached
<1> QED BY <1>1, <1>3, <1>7, <1>8, <1>9 DEF Remembers

LEMMA Prefixes3 ==
    ASSUME NEW s \in Seq(Nat), NEW t \in Seq(Nat), NEW n \in Nat
    PROVE  /\ IsPrefix(s, s)
           /\ IsPrefix(s, t) => IsPrefix(s, Append(t, n))
           /\ IsPrefix(s, t) /\ Len(t) <= Len(s) => s = t
<1>1. IsPrefix(s, s)
  BY DEF IsPrefix
<1>2. ASSUME IsPrefix(s, t)
      PROVE  /\ Len(s) \in Nat /\ Len(t) \in Nat /\ Len(s) <= Len(t)
             /\ \A i \in 1..Len(s) : s[i] = t[i]
  <2>1. Len(s) \in Nat /\ Len(t) \in Nat /\ Len(s) <= Len(t)
    BY <1>2 DEF IsPrefix
  <2>2. SubSeq(s, 1, Len(s)) = SubSeq(t, 1, Len(s))
    BY <1>2 DEF IsPrefix
  <2>3. \A i \in 1..Len(s) : SubSeq(s, 1, Len(s))[i] = s[i] /\ SubSeq(t, 1, Len(s))[i] = t[i]
    BY <2>1
  <2> QED BY <2>1, <2>2, <2>3
<1>3. ASSUME IsPrefix(s, t) PROVE IsPrefix(s, Append(t, n))
  <2> DEFINE u == Append(t, n)
  <2>1. u \in Seq(Nat) /\ Len(u) = Len(t) + 1 /\ \A i \in 1..Len(t) : u[i] = t[i]
    OBVIOUS
  <2> HIDE DEF u
  <2>2. Len(s) <= Len(u) /\ \A i \in 1..Len(s) : s[i] = u[i]
    BY <1>2, <1>3, <2>1
  <2>3. SubSeq(s, 1, Len(s)) = SubSeq(u, 1, Len(s))
    BY <1>2, <1>3, <2>1, <2>2
  <2>4. IsPrefix(s, u)
    BY <2>2, <2>3 DEF IsPrefix
  <2> QED BY <2>4 DEF u
<1>4. ASSUME IsPrefix(s, t), Len(t) <= Len(s) PROVE s = t
  <2>1. Len(s) = Len(t) /\ \A i \in 1..Len(s) : s[i] = t[i]
    BY <1>2, <1>4
  <2> QED BY <2>1, SeqEqual
<1> QED BY <1>1, <1>3, <1>4

\* What the listener broadcasts of a cell.
Spoken == IF todo.t = "item" THEN todo.v ELSE store[todo.x]

LEMMA Emitted ==
    ASSUME Types, Emit
    PROVE  /\ UNCHANGED <<script, paged, made, seen, store, due, refresh, ui, batch, pulls, odd>>
           /\ todo' = Nothing /\ todo.x \in Cells
           /\ \/ /\ todo.t = "delta" /\ todo.x \in Items /\ todo.n \in Nat
                 /\ Push([t |-> "delta", x |-> todo.x, n |-> todo.n])
                 /\ UNCHANGED <<cache, silent>>
              \/ /\ todo.t \in {"item", "byId", "head"}
                 /\ UNCHANGED <<cache, bus, lagged, silent>>
                 /\ Spoken = Absent \/ cache[todo.x] = Spoken
                 /\ todo.t = "item" => cache[todo.x] = todo.v
              \/ /\ todo.t \in {"item", "byId", "head"} /\ Spoken # Absent
                 /\ Spoken \in Values(todo.x)
                 /\ \A x \in Cells : cache'[x] = IF x = todo.x THEN Spoken ELSE cache[x]
                 /\ Push([t |-> "cell", x |-> todo.x, v |-> Spoken,
                          fresh |-> Same(todo.x, store[todo.x], Spoken)])
                 /\ silent' = silent \ {todo.x}
<1>1. /\ UNCHANGED <<script, paged, made, seen, store, due, refresh, ui, batch, pulls, odd>>
      /\ todo' = Nothing
  BY DEF Emit, server, phone
<1>2. /\ todo.x \in Cells
      /\ todo.t = "head" => todo.x = Header
      /\ todo.t \in {"item", "byId", "delta"} => todo.x \in Items
      /\ todo.t = "item" => todo.v \in Value
      /\ todo.t = "delta" => todo.n \in Nat
  BY DEF Types, Todo
<1>3. cache = [x \in Cells |-> cache[x]]
  BY DEF Types, StoreTypes, Sketches, Thread
<1>4. store[todo.x] \in Values(todo.x) /\ (todo.t = "item" => todo.v \in Values(todo.x))
  <2>1. store \in Threads
    BY DEF Types, StoreTypes
  <2> QED BY <1>2, <2>1, ThreadKinds, NamesAssumption DEF Values, Cells
<1>5. \/ /\ todo.t = "delta" /\ Push([t |-> "delta", x |-> todo.x, n |-> todo.n])
         /\ UNCHANGED <<cache, silent>>
      \/ todo.t = "item" /\ EmitValue(todo.x, todo.v)
      \/ /\ todo.t \in {"byId", "head"}
         /\ IF store[todo.x] = Absent THEN UNCHANGED <<cache, bus, lagged, silent>>
            ELSE EmitValue(todo.x, store[todo.x])
  BY DEF Emit
<1>6. CASE todo.t = "delta"
  BY <1>1, <1>2, <1>5, <1>6
<1>7. CASE todo.t = "item"
  <2>1. EmitValue(todo.x, todo.v) /\ Spoken = todo.v
    BY <1>5, <1>7 DEF Spoken
  <2>2. todo.v # Absent
    BY <1>2, <1>7, AbsentAssumption
  <2>3. CASE cache[todo.x] = todo.v
    BY <1>1, <1>2, <1>7, <2>1, <2>3 DEF EmitValue
  <2>4. CASE cache[todo.x] # todo.v
    BY <1>1, <1>2, <1>3, <1>4, <1>7, <2>1, <2>2, <2>4 DEF EmitValue
  <2> QED BY <2>3, <2>4
<1>8. CASE todo.t \in {"byId", "head"}
  <2>1. Spoken = store[todo.x]
    BY <1>8 DEF Spoken
  <2>2. CASE Spoken = Absent
    BY <1>1, <1>2, <1>5, <1>8, <2>1, <2>2
  <2>3. CASE Spoken # Absent
    <3>1. EmitValue(todo.x, Spoken)
      BY <1>5, <1>8, <2>1, <2>3
    <3>2. CASE cache[todo.x] = Spoken
      BY <1>1, <1>2, <1>8, <3>1, <3>2 DEF EmitValue
    <3>3. CASE cache[todo.x] # Spoken
      BY <1>1, <1>2, <1>3, <1>4, <1>8, <2>1, <2>3, <3>1, <3>3 DEF EmitValue
    <3> QED BY <3>2, <3>3
  <2> QED BY <2>2, <2>3
<1> QED BY <1>5, <1>6, <1>7, <1>8

LEMMA EmitRemembers ==
    ASSUME Types, Types', Remembers, Emit
    PROVE  Remembers'
<1>1. /\ UNCHANGED <<script, seen, store, refresh>> /\ todo' = Nothing /\ seen <= seen'
  BY Emitted, ScriptEvents DEF Types, ServerTypes
<1>2. Carries'
  BY <1>1 DEF Carries, Nothing
<1>3. \/ cache' = cache /\ (Spoken = Absent \/ cache[todo.x] = Spoken)
         /\ todo.t \in {"item", "byId", "head"}
      \/ cache' = cache /\ todo.t = "delta"
      \/ /\ todo.t \in {"item", "byId", "head"} /\ Spoken # Absent
         /\ \A x \in Cells : cache'[x] = IF x = todo.x THEN Spoken ELSE cache[x]
  BY Emitted
<1>4. /\ todo.t = "head" => todo.x = Header
      /\ todo.t \in {"item", "byId", "delta"} => todo.x \in Items
      /\ todo.t = "item" => todo.v \in Value
  BY DEF Types, Todo
<1>5. \A x \in Items : store[x] \in Value \cup {Absent}
  BY ThreadKinds DEF Types, StoreTypes
<1>6. ASSUME todo.t \in {"item", "byId"}
      PROVE  Known(script, seen, Spoken, todo.x)
  <2>1. CASE todo.t = "byId"
    BY <1>4, <2>1 DEF Spoken, Remembers, Knows
  <2>2. CASE todo.t = "item"
    <3>1. \/ Was(script, seen, "completed", todo.x) /\ todo.v = Complete(todo.x)
          \/ /\ todo.x \in Commands /\ Was(script, seen, "started", todo.x)
             /\ todo.v.state = "named"
      BY <2>2 DEF Remembers, Carries
    <3>2. Spoken = todo.v
      BY <2>2 DEF Spoken
    <3>3. CASE Was(script, seen, "completed", todo.x) /\ todo.v = Complete(todo.x)
      BY <3>2, <3>3, KnownFinal
    <3>4. CASE /\ todo.x \in Commands /\ Was(script, seen, "started", todo.x)
               /\ todo.v.state = "named"
      BY <3>2, <3>4 DEF Known
    <3> QED BY <3>1, <3>3, <3>4
  <2> QED BY <1>6, <2>1, <2>2
<1>7. Items \subseteq Cells /\ Header \in Cells /\ Header \notin Items
  BY NamesAssumption DEF Cells
<1>8. \A x \in Items : cache'[x] = cache[x] \/ Known(script, seen', cache'[x], x)
  BY <1>1, <1>3, <1>4, <1>6, <1>7
<1>9. Knows'
  BY <1>1, <1>8, KnowsLater DEF Remembers
<1>10. Cached'
  <2> SUFFICES ASSUME refresh.pc # "written" PROVE Cached'
    BY <1>1 DEF Cached
  <2>1. /\ \A x \in Items : cache[x] # Absent /\ store[x] = Absent =>
               Was(script, seen, "completed", x) \/ cache[x].state = "named"
        /\ \A x \in Items \ Commands :
               cache[x] # Absent /\ ~Was(script, seen, "completed", x) =>
                   /\ store[x] # Absent /\ store[x].from = cache[x].from
                   /\ IsPrefix(cache[x].text, store[x].text)
        /\ cache[Header] # Absent /\ todo.t # "head" => store[Header] = cache[Header]
    BY DEF Remembers, Cached
  <2>2. ASSUME NEW x \in Items, cache'[x] # Absent, store[x] = Absent
        PROVE  Was(script, seen, "completed", x) \/ cache'[x].state = "named"
    <3>1. CASE cache'[x] = cache[x]
      BY <2>1, <2>2, <3>1
    <3>2. CASE x = todo.x /\ cache'[x] = Spoken /\ todo.t \in {"item", "byId", "head"}
      <4>1. todo.t = "item"
        BY <1>4, <1>7, <2>2, <3>2 DEF Spoken
      <4>2. Spoken = todo.v
        BY <4>1 DEF Spoken
      <4> QED BY <3>2, <4>1, <4>2 DEF Remembers, Carries
    <3> QED BY <1>3, <1>7, <3>1, <3>2
  <2>3. ASSUME NEW x \in Items \ Commands, cache'[x] # Absent,
               ~Was(script, seen, "completed", x)
        PROVE  /\ store[x] # Absent /\ store[x].from = cache'[x].from
               /\ IsPrefix(cache'[x].text, store[x].text)
    <3>1. CASE cache'[x] = cache[x]
      BY <2>1, <2>3, <3>1
    <3>2. CASE x = todo.x /\ cache'[x] = Spoken /\ todo.t \in {"item", "byId", "head"}
      <4>1. todo.t # "item"
        BY <2>3, <3>2 DEF Remembers, Carries
      <4>2. cache'[x] = store[x] /\ store[x] \in Value
        BY <1>5, <2>3, <3>2, <4>1 DEF Spoken
      <4>3. store[x].text \in Seq(Nat)
        BY <4>2 DEF Value
      <4> QED BY <2>3, <4>2, <4>3, Prefixes3
    <3> QED BY <1>3, <1>7, <3>1, <3>2
  <2>4. ASSUME cache'[Header] # Absent PROVE store[Header] = cache'[Header]
    <3>1. CASE todo.t = "head"
      <4>1. Spoken = store[Header] /\ store[Header] # Absent
        BY <1>4, <3>1, ThreadKinds, AbsentAssumption DEF Spoken, Types, StoreTypes
      <4> QED BY <1>3, <1>4, <1>7, <3>1, <4>1
    <3>2. CASE todo.t # "head"
      BY <1>3, <1>4, <1>7, <2>1, <2>4, <3>2
    <3> QED BY <3>1, <3>2
  <2> QED BY <1>1, <2>2, <2>3, <2>4 DEF Cached
<1> QED BY <1>2, <1>9, <1>10 DEF Remembers

LEMMA ApplyLeaves ==
    ASSUME Types, Apply
    PROVE  /\ seen < Len(script) /\ seen \in Nat /\ seen' = seen + 1 /\ todo = Nothing
           /\ UNCHANGED <<script, paged, cache, due, bus, lagged, ui, batch, pulls, odd>>
           /\ refresh'.pc = refresh.pc /\ refresh'.got = refresh.got
           /\ refresh'.copy = refresh.copy
           /\ \A x \in Cells \ {script[seen + 1].x} : store'[x] = store[x]
           /\ script[seen + 1] =
                 [kind |-> script[seen + 1].kind, x |-> script[seen + 1].x]
           /\ script[seen + 1].x \in Cells
<1>1. /\ seen < Len(script) /\ seen' = seen + 1 /\ todo = Nothing
      /\ UNCHANGED <<script, paged, cache, due, bus, lagged, ui, batch, pulls, odd>>
  BY DEF Apply, subscription, phone
<1>2. seen \in Nat /\ script[seen + 1].x \in Cells /\ seen + 1 \in 1..Len(script)
  BY <1>1, NextEvent
<1> DEFINE e == script[seen + 1]
           S == {e.x}
           r == Crossed(S)
<1>3. refresh' = r /\ \A x \in Cells \ {e.x} : store'[x] = store[x]
  BY Applied
<1>4. e \in Event
  BY <1>2, ScriptEvents DEF Types
<1>5. e = [kind |-> e.kind, x |-> e.x]
  <2> HIDE DEF e
  <2> QED BY <1>4 DEF Event
<1>6. S \in SUBSET Cells
  BY <1>2
<1> HIDE DEF S
<1>7. r.pc = refresh.pc /\ r.got = refresh.got /\ r.copy = refresh.copy
  BY <1>6, CrossedFields DEF Types
<1> HIDE DEF r
<1>8. refresh'.pc = refresh.pc /\ refresh'.got = refresh.got /\ refresh'.copy = refresh.copy
  BY <1>3, <1>7
<1> QED BY <1>1, <1>2, <1>3, <1>5, <1>8

LEMMA DeltaApplied ==
    ASSUME Types, Apply, ApplyDelta, NEW x, x = script[seen + 1].x
    PROVE  /\ script[seen + 1].kind = "delta" /\ x \in Items /\ silent' = silent
           /\ store'[x] \in Value
           /\ \E n \in Nat :
                 \/ /\ store[x] = Absent /\ todo' = [t |-> "byId", x |-> x]
                    /\ store'[x] = [text |-> <<n>>, state |-> "bare", from |-> "event"]
                 \/ /\ store[x] \in Value /\ todo' = [t |-> "delta", x |-> x, n |-> n]
                    /\ store'[x] = App(store[x], <<n>>)
                    /\ store'[x].text = Append(store[x].text, n)
                    /\ store'[x].state = store[x].state /\ store'[x].from = store[x].from
<1>1. script[seen + 1].kind = "delta" /\ silent' = silent
  BY DEF ApplyDelta
<1>2. x \in Items /\ x \in Cells /\ seen + 1 \in Nat
  <2>1. seen < Len(script)
    BY DEF Apply
  <2> QED BY <1>1, <2>1, NextEvent DEF Cells
<1>3. store \in Threads /\ store = [y \in Cells |-> store[y]]
      /\ store[x] \in Value \cup {Absent}
  BY <1>2, ThreadKinds DEF Types, StoreTypes, Thread
<1> DEFINE n == Part(seen + 1)
           one == <<n>>
<1>4. n \in Nat
  BY <1>2, PartCounted
<1>5. \/ /\ store[x] = Absent /\ todo' = [t |-> "byId", x |-> x]
         /\ store' = [store EXCEPT ![x] =
                         [text |-> one, state |-> "bare", from |-> "event"]]
      \/ /\ store[x] # Absent /\ todo' = [t |-> "delta", x |-> x, n |-> n]
         /\ store' = [store EXCEPT ![x].text = Append(@, n)]
  BY DEF ApplyDelta
<1>6. one \in Seq(Nat)
  BY <1>4
<1>7. ASSUME store[x] = Absent, todo' = [t |-> "byId", x |-> x],
             store' = [store EXCEPT ![x] = [text |-> one, state |-> "bare", from |-> "event"]]
      PROVE  /\ store'[x] = [text |-> one, state |-> "bare", from |-> "event"]
             /\ store'[x] \in Value
  <2> HIDE DEF one
  <2> QED BY <1>2, <1>3, <1>6, <1>7 DEF Value
<1>8. ASSUME store[x] # Absent, store' = [store EXCEPT ![x].text = Append(@, n)]
      PROVE  /\ store[x] \in Value /\ store'[x] \in Value
             /\ store'[x] = App(store[x], one)
             /\ store'[x].text = Append(store[x].text, n)
             /\ store'[x].state = store[x].state /\ store'[x].from = store[x].from
  <2> DEFINE v == store[x]
             w == [v EXCEPT !.text = Append(@, n)]
  <2>1. v \in Value /\ v.text \in Seq(Nat)
    BY <1>3, <1>8 DEF Value
  <2>2. store'[x] = w
    BY <1>2, <1>3, <1>8
  <2> HIDE DEF v, n
  <2>3. Append(v.text, n) = v.text \o one /\ Append(v.text, n) \in Seq(Nat)
    BY <1>4, <2>1
  <2> HIDE DEF one
  <2>4. /\ w \in Value /\ w.text = Append(v.text, n)
        /\ w.state = v.state /\ w.from = v.from
    BY <2>1, <2>3 DEF Value
  <2>5. w = App(v, one)
    BY <1>8, <2>3 DEF App, v
  <2> HIDE DEF w
  <2> QED BY <2>1, <2>2, <2>4, <2>5 DEF v
<1> HIDE DEF n
<1>9. \E m \in Nat :
                 \/ /\ store[x] = Absent /\ todo' = [t |-> "byId", x |-> x]
                    /\ store'[x] = [text |-> <<m>>, state |-> "bare", from |-> "event"]
                 \/ /\ store[x] \in Value /\ todo' = [t |-> "delta", x |-> x, n |-> m]
                    /\ store'[x] = App(store[x], <<m>>)
                    /\ store'[x].text = Append(store[x].text, m)
                    /\ store'[x].state = store[x].state /\ store'[x].from = store[x].from
  BY <1>4, <1>5, <1>7, <1>8
<1>10. store'[x] \in Value
  BY <1>5, <1>7, <1>8
<1> QED BY <1>1, <1>2, <1>9, <1>10

LEMMA ItemApplied ==
    ASSUME Types, Apply, ApplyItem, NEW x, x = script[seen + 1].x
    PROVE  /\ x \in Items /\ store'[x] \in Value
           /\ \/ script[seen + 1].kind = "completed" /\ store'[x] = Complete(x)
              \/ /\ script[seen + 1].kind = "started" /\ store'[x].state = "named"
           /\ silent \subseteq silent' /\ silent' \subseteq silent \cup {x}
           /\ \/ todo' = [t |-> "item", x |-> x, v |-> store'[x]]
              \/ todo' = Nothing /\ (x \in silent' \/ Same(x, store[x], store'[x]))
<1> DEFINE new == IF script[seen + 1].kind = "completed" THEN Final(x, "event")
                  ELSE [text |-> <<>>, state |-> "named", from |-> "event"]
           tells == Tells(x, store[x], new)
<1>0. /\ script[seen + 1].kind \in {"started", "completed"}
      /\ store' = [store EXCEPT ![x] = new]
      /\ todo' = IF tells THEN [t |-> "item", x |-> x, v |-> new] ELSE Nothing
      /\ silent' = silent \cup {y \in {x} : ~tells /\ ~Same(x, store[x], new)}
  BY DEF ApplyItem
<1>1. x \in Items /\ x \in Cells
  <2>1. seen < Len(script)
    BY DEF Apply
  <2> QED BY <1>0, <2>1, NextEvent DEF Cells
<1>2. new \in Value
  <2>1. Final(x, "event") \in Value
    BY FinalValue DEF Types
  <2>2. [text |-> <<>>, state |-> "named", from |-> "event"] \in Value
    BY DEF Value
  <2> QED BY <2>1, <2>2
<1>3. \/ script[seen + 1].kind = "completed" /\ new = Complete(x)
      \/ script[seen + 1].kind = "started" /\ new.state = "named"
  BY <1>0 DEF Complete
<1> HIDE DEF new, tells
<1>4. store'[x] = new
  BY <1>0, <1>1 DEF Types, StoreTypes, Threads, Sketches, Thread
<1> QED BY <1>0, <1>1, <1>2, <1>3, <1>4

LEMMA ApplyRemembers ==
    ASSUME Types, Types', Remembers, Apply
    PROVE  Remembers'
<1> DEFINE x == script[seen + 1].x
<1>1. /\ seen < Len(script) /\ seen \in Nat /\ seen' = seen + 1 /\ todo = Nothing
      /\ UNCHANGED <<script, cache>>
      /\ refresh'.pc = refresh.pc /\ refresh'.got = refresh.got /\ refresh'.copy = refresh.copy
      /\ \A y \in Cells \ {x} : store'[y] = store[y]
      /\ script[seen + 1] = [kind |-> script[seen + 1].kind, x |-> x]
      /\ x \in Cells
  BY ApplyLeaves
<1>2. /\ seen' \in Nat /\ seen <= seen' /\ seen + 1 \in 1..seen'
      /\ seen + 1 \in DOMAIN script
  BY <1>1, ScriptEvents DEF Types
<1>3. \A kind : script[seen + 1].kind = kind => Was(script, seen', kind, x)
  BY <1>1, <1>2 DEF Was
<1>4. \A kind, y : Was(script, seen, kind, y) => Was(script, seen', kind, y)
  BY <1>1, <1>2, WasGrows
<1>5. script[seen + 1].kind = "started" => x \in Commands
  BY <1>2, StartAssumption DEF Types, ServerTypes
<1>6. \A y : Complete(y)' = Complete(y)
  BY <1>1, SameScript
<1>7. Items \subseteq Cells /\ Header \in Cells /\ Header \notin Items
      /\ Commands \subseteq Items
  BY NamesAssumption DEF Cells
<1>8. ApplyItem \/ ApplyDelta \/ ApplyHeader
  BY DEF Apply
<1>9. ApplyHeader => x = Header /\ todo' = [t |-> "head", x |-> Header]
  <2>1. ApplyHeader => script[seen + 1].kind \in {"plan", "end"}
    BY DEF ApplyHeader
  <2> QED BY <1>1, <2>1, NextEvent DEF ApplyHeader
<1>10. \A y \in Items : /\ Known(script, seen, store[y], y)
                        /\ store[y] \in Value \cup {Absent} /\ cache[y] \in Value \cup {Absent}
  BY ThreadKinds DEF Remembers, Knows, Types, StoreTypes, Sketches
<1>11. ASSUME ApplyDelta
       PROVE  Known(script, seen', store'[x], x)
  <2>1. PICK n \in Nat :
                 \/ /\ store[x] = Absent
                    /\ store'[x] = [text |-> <<n>>, state |-> "bare", from |-> "event"]
                 \/ /\ store[x] \in Value
                    /\ store'[x].text = Append(store[x].text, n)
                    /\ store'[x].state = store[x].state /\ store'[x].from = store[x].from
    BY <1>11, DeltaApplied
  <2>2. script[seen + 1] = [kind |-> "delta", x |-> x] /\ x \in Items
    BY <1>1, <1>11, DeltaApplied
  <2>3. Count(script, seen', x) = Count(script, seen, x) + 1 /\ Count(script, seen, x) \in Nat
    BY <1>1, <1>2, <2>2, CountNext, CountGrows
  <2>4. CASE store'[x] = [text |-> <<n>>, state |-> "bare", from |-> "event"]
    <3>1. /\ store'[x].state = "bare" /\ Len(store'[x].text) = 1
      BY <2>4
    <3> QED BY <2>3, <3>1 DEF Known
  <2>5. CASE /\ store[x] \in Value
             /\ store'[x].text = Append(store[x].text, n)
             /\ store'[x].state = store[x].state /\ store'[x].from = store[x].from
    <3>1. Known(script, seen, store[x], x) /\ store[x] # Absent
      BY <1>10, <2>2, <2>5, AbsentAssumption
    <3>2. Len(store[x].text) \in Nat /\ Len(store'[x].text) = Len(store[x].text) + 1
      BY <2>5 DEF Value
    <3> QED BY <1>4, <2>3, <2>5, <3>1, <3>2 DEF Known
  <2> QED BY <2>1, <2>4, <2>5
<1>12. ASSUME ApplyItem
       PROVE  Known(script, seen', store'[x], x)
  <2>1. CASE script[seen + 1].kind = "completed" /\ store'[x] = Complete(x)
    BY <1>3, <2>1, KnownFinal
  <2>2. CASE script[seen + 1].kind = "started" /\ store'[x].state = "named"
    BY <1>3, <1>5, <2>2 DEF Known
  <2> QED BY <1>12, <2>1, <2>2, ItemApplied
<1>13. Knows'
  <2>1. \A y \in Items : store'[y] = store[y] \/ Known(script, seen', store'[y], y)
    BY <1>1, <1>7, <1>8, <1>9, <1>11, <1>12
  <2> HIDE DEF x
  <2> QED BY <1>1, <1>2, <2>1, KnowsLater DEF Remembers
<1>14. Carries'
  <2>1. CASE ApplyItem
    <3>1. CASE todo' = Nothing
      BY <3>1 DEF Carries, Nothing
    <3>2. CASE todo' = [t |-> "item", x |-> x, v |-> store'[x]]
      <4>1. todo'.x = x /\ todo'.v = store'[x]
        BY <3>2
      <4>2. \/ Was(script, seen', "completed", x) /\ store'[x] = Complete(x)
            \/ /\ x \in Commands /\ Was(script, seen', "started", x)
               /\ store'[x].state = "named"
        BY <1>3, <1>5, <2>1, ItemApplied
      <4> HIDE DEF x
      <4> QED BY <1>1, <1>6, <4>1, <4>2 DEF Carries
    <3> QED BY <2>1, <3>1, <3>2, ItemApplied
  <2>2. CASE ApplyDelta
    <3>1. \E n : \/ todo' = [t |-> "byId", x |-> x]
                \/ todo' = [t |-> "delta", x |-> x, n |-> n]
      BY <2>2, DeltaApplied
    <3>2. todo'.t \in {"byId", "delta"}
      BY <3>1
    <3> QED BY <3>2 DEF Carries
  <2>3. CASE ApplyHeader
    BY <1>9, <2>3 DEF Carries
  <2> QED BY <1>8, <2>1, <2>2, <2>3
<1>15. Cached'
  <2> SUFFICES ASSUME refresh.pc # "written" PROVE Cached'
    BY <1>1 DEF Cached
  <2>1. /\ \A y \in Items : cache[y] # Absent /\ store[y] = Absent =>
               Was(script, seen, "completed", y) \/ cache[y].state = "named"
        /\ \A y \in Items \ Commands :
               cache[y] # Absent /\ ~Was(script, seen, "completed", y) =>
                   /\ store[y] # Absent /\ store[y].from = cache[y].from
                   /\ IsPrefix(cache[y].text, store[y].text)
        /\ cache[Header] # Absent => store[Header] = cache[Header]
    BY <1>1 DEF Remembers, Cached, Nothing
  <2>2. ASSUME NEW y \in Items, cache[y] # Absent, store'[y] = Absent
        PROVE  Was(script, seen', "completed", y) \/ cache[y].state = "named"
    <3>1. y # x
      <4> SUFFICES ASSUME y = x PROVE store'[x] \in Value
        BY <2>2, AbsentAssumption
      <4> QED BY <1>7, <1>8, <1>9, ItemApplied, DeltaApplied
    <3> QED BY <1>1, <1>4, <1>7, <2>1, <2>2, <3>1
  <2>3. ASSUME NEW y \in Items \ Commands, cache[y] # Absent,
               ~Was(script, seen', "completed", y)
        PROVE  /\ store'[y] # Absent /\ store'[y].from = cache[y].from
               /\ IsPrefix(cache[y].text, store'[y].text)
    <3>1. /\ store[y] # Absent /\ store[y].from = cache[y].from
          /\ IsPrefix(cache[y].text, store[y].text)
      BY <1>4, <2>1, <2>3
    <3>2. CASE y # x
      BY <1>1, <1>7, <3>1, <3>2
    <3>3. CASE y = x
      <4>1. ApplyDelta
        <5>1. ~ApplyHeader
          BY <1>7, <1>9, <3>3
        <5>2. ~ApplyItem
          BY <1>3, <1>5, <2>3, <3>3, ItemApplied
        <5> QED BY <1>8, <5>1, <5>2
      <4>2. PICK n \in Nat :
                    /\ store[x] \in Value
                    /\ store'[x].text = Append(store[x].text, n)
                    /\ store'[x].from = store[x].from
        BY <3>1, <3>3, <4>1, DeltaApplied
      <4>3. store'[x] \in Value /\ store[y].text \in Seq(Nat) /\ cache[y].text \in Seq(Nat)
        BY <1>10, <2>3, <3>3, <4>1, <4>2, DeltaApplied DEF Value
      <4>4. IsPrefix(cache[y].text, Append(store[y].text, n))
        BY <3>1, <4>3, Prefixes3
      <4> QED BY <3>1, <3>3, <4>2, <4>3, <4>4, AbsentAssumption
    <3> QED BY <3>2, <3>3
  <2>4. ASSUME cache[Header] # Absent, todo'.t # "head" PROVE store'[Header] = cache[Header]
    <3>1. ~ApplyHeader
      BY <1>9, <2>4
    <3>2. x # Header
      BY <1>7, <1>8, <3>1, ItemApplied, DeltaApplied
    <3> QED BY <1>1, <1>7, <2>1, <2>4, <3>2
  <2> HIDE DEF x
  <2> QED BY <1>1, <2>2, <2>3, <2>4 DEF Cached
<1> QED BY <1>13, <1>14, <1>15 DEF Remembers

-----------------------------------------------------------------------------
(* The copy follows the store: the steps of the listener and of a refresh. *)

LEMMA InitFollows == Init => Follows
<1> SUFFICES ASSUME Init PROVE Follows
  OBVIOUS
<1>1. /\ store[Header] = [turn |-> TRUE, plan |-> 0] /\ ui = store
      /\ \A x \in Items : store[x] = Absent
      /\ \A x \in Cells : cache[x] = Absent /\ batch[x] = Absent
      /\ todo = Nothing /\ refresh = Idle /\ bus = <<>>
      /\ \A p \in {"loop", "side"} : pulls[p].copy = Absent
  BY NamesAssumption DEF Init, Nowhere, Cells, NoPull
<1>2. Cached /\ Carries
  BY <1>1, NamesAssumption DEF Cached, Carries, Nothing, Idle, Cells
<1>3. Knows
  <2>1. refresh.pc = "idle" /\ DOMAIN refresh.got = {}
    BY <1>1 DEF Idle
  <2> QED BY <1>1, <2>1, KnownFinal, NamesAssumption DEF Knows, Cells
<1>4. ASSUME NEW x \in Cells PROVE Path(x)
  <2> DEFINE h == [i \in {0} |-> ui[x]]
             K == {0}
  <2>1. ui[x] \in Values(x)
    BY <1>1, InitTypes, ThreadKinds, NamesAssumption
       DEF Types, PhoneTypes, Values, Cells
  <2>2. Len(bus) = 0 /\ h[0] = ui[x]
    BY <1>1
  <2>3. Chain(bus, h, K, x)
    <3>1. \A i \in K, j \in 0..Len(bus) : i = 0 /\ j = 0
      BY <2>2
    <3> QED BY <2>1, <2>2, <3>1 DEF Chain
  <2>4. Begins(h, K, x)
    BY <1>1, <2>2 DEF Begins, Read, Held, Same
  <2>5. Ends(h, K, x)
    BY <1>1, <2>2 DEF Ends, Arrived, Same, Nothing
  <2> QED BY <2>3, <2>4, <2>5 DEF Path
<1> QED BY <1>2, <1>3, <1>4 DEF Follows, Paths, Remembers

LEMMA BeginsStays ==
    ASSUME NEW x, NEW h, NEW K, NEW g, NEW L, Begins(h, K, x),
           UNCHANGED <<ui, batch, pulls, odd>>,
           ~lagged' => ~lagged /\ g[0] = h[0] /\ (0 \in L <=> 0 \in K)
    PROVE  Begins(g, L, x)'
<1>1. Calm(x)' => Calm(x)
  BY DEF Calm
<1>2. \A p : Read(p, x)' => Read(p, x)
  BY DEF Read
<1>3. Held(x)' = Held(x)
  BY DEF Held
<1>4. ASSUME Calm(x)' PROVE 0 \in L /\ Same(x, Held(x)', g[0])
  BY <1>1, <1>3, <1>4 DEF Begins, Calm
<1>5. ASSUME NEW p \in {"loop", "side"}, Read(p, x)'
      PROVE  0 \in L /\ Same(x, pulls'[p].copy[x], g[0])
  BY <1>2, <1>5 DEF Begins, Read
<1> QED BY <1>4, <1>5 DEF Begins

\* Steps that broadcast nothing.
LEMMA QuietPaths ==
    ASSUME Types, Paths, UNCHANGED <<bus, lagged, ui, batch, pulls, odd>>,
           \A x \in Cells : ~Waits(x)' =>
               ~Waits(x) /\ \A v \in Values(x) : Arrived(x, v) => Arrived(x, v)'
    PROVE  Paths'
<1> SUFFICES ASSUME NEW x \in Cells PROVE Path(x)'
  BY DEF Paths
<1>1. PICK h, K : Chain(bus, h, K, x) /\ Begins(h, K, x) /\ Ends(h, K, x)
  BY DEF Paths, Path
<1>2. Begins(h, K, x)'
  BY <1>1, BeginsStays
<1>3. Ends(h, K, x)'
  <2>1. Len(bus) \in K => h[Len(bus)] \in Values(x)
    BY <1>1 DEF Chain
  <2> QED BY <1>1, <2>1 DEF Ends
<1> QED BY <1>1, <1>2, <1>3 DEF Path

LEMMA PushChain ==
    ASSUME Types, NEW x \in Cells, NEW h, NEW K, Chain(bus, h, K, x),
           NEW m \in Messages, Push(m), NEW v \in Values(x), NEW L \in SUBSET {0},
           Makes(bus, m, h, K, x, v, L)
    PROVE  \E h2, K2 : /\ Chain(bus', h2, K2, x)
                       /\ ~lagged' => ~lagged /\ h2[0] = h[0] /\ (0 \in K2 <=> 0 \in K)
                       /\ h2[Len(bus')] = v /\ (Len(bus') \in K2 <=> L # {})
<1>1. /\ bus \in Seq(Messages) /\ Len(bus) \in Nat /\ Len(bus) <= Capacity
      /\ Capacity \in Nat \ {0}
  BY BoundsAssumption DEF Types, BusTypes
<1>2. /\ bus' = Append(IF Len(bus) < Capacity THEN bus ELSE Tail(bus), m)
      /\ lagged' = (lagged \/ Len(bus) = Capacity)
  BY DEF Push
<1>3. CASE Len(bus) < Capacity
  <2>1. bus' = Append(bus, m) /\ Len(bus') = Len(bus) + 1
    BY <1>1, <1>2, <1>3
  <2>2. Longer(bus, m, h, K, x, v, L)
    BY <1>1, AppendChain
  <2>3. ~lagged' => ~lagged
    BY <1>2
  <2> QED BY <2>1, <2>2, <2>3 DEF Longer
<1>4. CASE Len(bus) = Capacity
  <2>1. bus # <<>> /\ bus' = Append(Tail(bus), m) /\ lagged'
    <3>1. ~(Len(bus) < Capacity) /\ Len(bus) # 0
      BY <1>1, <1>4
    <3>2. bus # <<>>
      BY <3>1
    <3> QED BY <1>2, <1>4, <3>1, <3>2
  <2>2. Len(bus') = Len(bus)
    BY <1>1, <2>1
  <2>3. \E h2, K2 : /\ Chain(Append(Tail(bus), m), h2, K2, x)
                    /\ h2[Len(bus)] = v /\ (Len(bus) \in K2 <=> L # {})
    BY <1>1, <2>1, ShiftChain
  <2> QED BY <2>1, <2>2, <2>3
<1> QED BY <1>1, <1>3, <1>4

\* Steps that broadcast: what the message makes of the last value arrives.
LEMMA PushPath ==
    ASSUME Types, Types', NEW x \in Cells, Path(x), NEW m \in Messages, Push(m),
           UNCHANGED <<ui, batch, pulls, odd>>,
           ~Concerns(m, x) /\ ~Waits(x)' =>
               ~Waits(x) /\ \A v \in Values(x) : Arrived(x, v) => Arrived(x, v)',
           m.t = "delta" /\ m.x = x /\ ~Waits(x)' =>
               ~Waits(x) /\ \A v \in Values(x) :
                               Arrived(x, v) => Arrived(x, App(v, <<m.n>>))',
           Tell(m, x) /\ ~Waits(x)' => Arrived(x, Told(m, x))'
    PROVE  Path(x)'
<1>1. PICK h, K : Chain(bus, h, K, x) /\ Begins(h, K, x) /\ Ends(h, K, x)
  BY DEF Path
<1> DEFINE last == h[Len(bus)]
<1>2. /\ Len(bus) \in K => last \in Values(x)
      /\ Len(bus) \in K /\ ~Waits(x) => Arrived(x, last)
  BY <1>1 DEF Chain, Ends
<1>3. Absent \in Values(x)
  BY DEF Values
<1>4. /\ m.t \in {"delta", "cell", "upsert", "reload", "resync"}
      /\ m.t = "delta" => m.x \in Items /\ m.n \in Nat
      /\ m.t = "cell" => /\ m.x = Header => m.v \in State
                         /\ m.x \in Items => m.v \in Value
      /\ m.t = "upsert" => m.v \in Threads
  BY MessageKinds
<1>5. /\ ~Concerns(m, x) \/ Tell(m, x) \/ (m.t = "delta" /\ m.x = x)
         \/ (Concerns(m, x) /\ ~Tell(m, x) /\ ~(m.t = "delta" /\ m.x = x))
      /\ ~(~Concerns(m, x) /\ Tell(m, x))
      /\ ~(~Concerns(m, x) /\ m.t = "delta" /\ m.x = x)
      /\ ~(Tell(m, x) /\ m.t = "delta")
  BY <1>4 DEF Concerns, Tell
<1>6. \E v \in Values(x), L \in SUBSET {0} :
          /\ ~Concerns(m, x) /\ Len(bus) \in K => L # {} /\ v = last
          /\ m.t = "delta" /\ m.x = x /\ Len(bus) \in K => L # {} /\ v = App(last, <<m.n>>)
          /\ Tell(m, x) => L # {} /\ v = Told(m, x)
          /\ L # {} /\ ~Waits(x)' => Arrived(x, v)'
  <2> HIDE DEF last
  <2>1. CASE ~Concerns(m, x)
    <3>1. CASE Len(bus) \in K
      <4>1. {0} \in SUBSET {0} /\ {0} # {}
        OBVIOUS
      <4> QED BY <1>2, <1>5, <2>1, <3>1, <4>1
    <3>2. CASE Len(bus) \notin K
      BY <1>3, <1>5, <2>1, <3>2
    <3> QED BY <3>1, <3>2
  <2>2. CASE m.t = "delta" /\ m.x = x
    <3>1. CASE Len(bus) \in K
      <4>1. {0} \in SUBSET {0} /\ {0} # {}
        OBVIOUS
      <4>2. App(last, <<m.n>>) \in Values(x)
        <5>1. x \in Items /\ x # Header /\ last \in Value \cup {Absent} /\ <<m.n>> \in Seq(Nat)
          BY <1>2, <1>4, <2>2, <3>1, NamesAssumption DEF Values
        <5> QED BY <5>1, AppValue DEF Values
      <4> QED BY <1>2, <1>5, <2>2, <3>1, <4>1, <4>2
    <3>2. CASE Len(bus) \notin K
      BY <1>3, <1>5, <2>2, <3>2
    <3> QED BY <3>1, <3>2
  <2>3. CASE Tell(m, x)
    <3>1. {0} \in SUBSET {0} /\ {0} # {}
      OBVIOUS
    <3>2. Told(m, x) \in Values(x)
      <4>1. CASE m.t = "cell"
        BY <1>4, <2>3, <4>1, NamesAssumption DEF Tell, Told, Values, Cells
      <4>2. CASE m.t = "upsert"
        <5>1. m.v \in Threads
          BY <1>4, <4>2
        <5> QED BY <4>2, <5>1, ThreadKinds, NamesAssumption DEF Told, Values, Cells
      <4> QED BY <2>3, <4>1, <4>2 DEF Tell
    <3> QED BY <1>5, <2>3, <3>1, <3>2
  <2>4. CASE Concerns(m, x) /\ ~Tell(m, x) /\ ~(m.t = "delta" /\ m.x = x)
    BY <1>3, <2>4
  <2> QED BY <1>5, <2>1, <2>2, <2>3, <2>4
<1>7. PICK v \in Values(x), L \in SUBSET {0} :
          /\ Makes(bus, m, h, K, x, v, L)
          /\ L # {} /\ ~Waits(x)' => Arrived(x, v)'
  BY <1>6 DEF Makes
<1>8. PICK g, M : /\ Chain(bus', g, M, x)
                  /\ ~lagged' => ~lagged /\ g[0] = h[0] /\ (0 \in M <=> 0 \in K)
                  /\ g[Len(bus')] = v /\ (Len(bus') \in M <=> L # {})
  BY <1>1, <1>7, PushChain
<1>9. Begins(g, M, x)'
  BY <1>1, <1>8, BeginsStays
<1>10. Ends(g, M, x)'
  <2>1. ASSUME Len(bus') \in M, ~Waits(x)' PROVE Arrived(x, v)'
    BY <1>7, <1>8, <2>1
  <2> QED BY <1>8, <2>1 DEF Ends
<1> QED BY <1>8, <1>9, <1>10 DEF Path

\* A change of the store reaches the broadcast: what the cache would hold back
\* is no change.
LEMMA NotHeldBack ==
    ASSUME Types, Types', Remembers, Apply, NEW x, x = script[seen + 1].x,
           refresh.pc # "written", todo'.t # "delta", todo' # Nothing,
           cache[x] = store'[x]
    PROVE  Same(x, store[x], store'[x])
<1>1. /\ seen < Len(script) /\ seen \in Nat /\ todo = Nothing /\ x \in Cells
      /\ script[seen + 1] = [kind |-> script[seen + 1].kind, x |-> x]
      /\ UNCHANGED script
  BY ApplyLeaves
<1>2. /\ ServerTypes /\ Len(script) \in Nat /\ DOMAIN script = 1..Len(script)
      /\ seen + 1 \in seen + 1..Len(script)
  BY <1>1, ScriptEvents DEF Types
<1>3. ~Was(script, seen, "completed", x)
  BY <1>2, OverIsOver DEF Over, By, Was
<1>4. ApplyItem \/ ApplyDelta \/ ApplyHeader
  BY DEF Apply
<1>5. CASE ApplyHeader
  <2>1. x = Header
    <3>1. script[seen + 1].kind \in {"plan", "end"}
      BY <1>5 DEF ApplyHeader
    <3> QED BY <1>1, <3>1, NextEvent
  <2>2. store'[Header] # Absent
    BY ThreadKinds, AbsentAssumption DEF Types, StoreTypes
  <2>3. store[Header] = cache[Header]
    BY <1>1, <2>1, <2>2 DEF Remembers, Cached, Nothing
  <2> QED BY <2>1, <2>3 DEF Same
<1>6. CASE ApplyDelta
  <2>1. PICK n \in Nat :
                 \/ /\ store[x] = Absent /\ todo' = [t |-> "byId", x |-> x]
                    /\ store'[x] = [text |-> <<n>>, state |-> "bare", from |-> "event"]
                 \/ todo' = [t |-> "delta", x |-> x, n |-> n]
    BY <1>6, DeltaApplied
  <2>2. store[x] = Absent /\ x \in Items /\ store'[x].state = "bare" /\ store'[x] # Absent
    BY <1>6, <2>1, DeltaApplied, AbsentAssumption
  <2> QED BY <1>3, <2>2 DEF Remembers, Cached
<1>7. CASE ApplyItem
  <2>1. /\ x \in Items /\ store'[x] \in Value /\ cache[x] # Absent
        /\ \/ script[seen + 1].kind = "completed" /\ store'[x] = Complete(x)
           \/ script[seen + 1].kind = "started" /\ store'[x].state = "named"
    BY <1>7, ItemApplied, AbsentAssumption
  <2>2. Known(script, seen, cache[x], x) /\ Known(script, seen, store[x], x)
    BY <2>1 DEF Remembers, Knows
  <2>3. CASE script[seen + 1].kind = "started" /\ store'[x].state = "named"
    <3>1. Was(script, seen, "started", x)
      BY <2>1, <2>2, <2>3 DEF Known
    <3>2. PICK k \in 1..seen : script[k] = script[seen + 1]
      BY <1>1, <2>3, <3>1 DEF Was
    <3>3. k \in DOMAIN script /\ seen + 1 \in k + 1..Len(script) /\ script[k].kind = "started"
      BY <1>1, <1>2, <2>3, <3>2
    <3> QED BY <1>2, <3>2, <3>3, StartAssumption DEF ServerTypes
  <2>4. CASE store'[x] = Complete(x)
    <3>1. /\ Complete(x).from = "event" /\ Len(Complete(x).text) = Parts(x)
          /\ Complete(x).state = IF x \in Commands THEN "done" ELSE "bare"
          /\ Parts(x) \in Nat
      BY <1>2, PartsCounted DEF Complete, Final
    <3>2. x \notin Commands
      BY <1>3, <2>1, <2>2, <2>4, <3>1 DEF Known
    <3>3. /\ store[x] # Absent /\ store[x].from = "event"
          /\ IsPrefix(Complete(x).text, store[x].text)
      BY <1>3, <2>1, <2>4, <3>1, <3>2 DEF Remembers, Cached
    <3>4. store[x].state = "bare" /\ Len(store[x].text) <= Count(script, seen, x)
      BY <1>3, <2>2, <3>2, <3>3 DEF Known
    <3>5. Parts(x) = Count(script, Len(script), x)
      BY <1>2 DEF Parts, Count
    <3>6. Count(script, seen, x) \in Nat /\ Count(script, seen, x) <= Parts(x)
      BY <1>1, <1>2, <3>5, CountGrows
    <3>7. store[x].text \in Seq(Nat) /\ Complete(x).text \in Seq(Nat)
      <4>1. store[x] \in Value /\ Complete(x) \in Value
        BY <2>1, <2>4, <3>3, ThreadKinds DEF Types, StoreTypes
      <4> QED BY <4>1 DEF Value
    <3>8. Len(store[x].text) \in Nat
      BY <3>7
    <3>9. Len(store[x].text) <= Len(Complete(x).text)
      BY <3>1, <3>4, <3>6, <3>8
    <3>10. store[x].text = Complete(x).text
      BY <3>3, <3>7, <3>9, Prefixes3
    <3> QED BY <2>1, <2>4, <3>1, <3>2, <3>3, <3>4, <3>10, NamesAssumption, AbsentAssumption
            DEF Same
  <2> QED BY <2>1, <2>3, <2>4
<1> QED BY <1>4, <1>5, <1>6, <1>7

LEMMA ApplyPaths ==
    ASSUME Types, Types', Paths, Remembers, Apply
    PROVE  Paths'
<1>0. PICK y : y = script[seen + 1].x
  OBVIOUS
<1>1. /\ todo = Nothing /\ UNCHANGED <<cache, bus, lagged, ui, batch, pulls, odd>>
      /\ refresh'.pc = refresh.pc /\ y \in Cells
      /\ \A x \in Cells \ {y} : store'[x] = store[x]
  BY <1>0, ApplyLeaves
<1>2. ApplyItem \/ ApplyDelta \/ ApplyHeader
  BY DEF Apply
<1>3. ApplyHeader => y = Header /\ todo' = [t |-> "head", x |-> Header] /\ silent' = silent
  <2>1. ApplyHeader => script[seen + 1].kind \in {"plan", "end"}
    BY DEF ApplyHeader
  <2>2. seen < Len(script)
    BY DEF Apply
  <2> QED BY <1>0, <2>1, <2>2, NextEvent DEF ApplyHeader
<1>4. /\ silent \subseteq silent' /\ silent' \subseteq silent \cup {y}
      /\ todo' = Nothing \/ todo'.x = y
      /\ todo'.t # "delta" \/ (ApplyDelta /\ y \in Items)
      /\ todo' = Nothing => y \in silent' \/ Same(y, store[y], store'[y])
      /\ todo'.t = "item" => todo'.v = store'[y]
      /\ todo'.t \in {"none", "item", "byId", "delta", "head"}
      /\ todo'.t = "none" => todo' = Nothing
  <2>1. CASE ApplyHeader
    BY <1>3, <2>1 DEF Nothing
  <2>2. CASE ApplyDelta
    <3>1. \E n : \/ todo' = [t |-> "byId", x |-> y]
                 \/ todo' = [t |-> "delta", x |-> y, n |-> n]
      BY <1>0, <2>2, DeltaApplied
    <3>2. silent' = silent /\ y \in Items
      BY <1>0, <2>2, DeltaApplied
    <3> QED BY <2>2, <3>1, <3>2 DEF Nothing
  <2>3. CASE ApplyItem
    <3>1. /\ silent \subseteq silent' /\ silent' \subseteq silent \cup {y}
          /\ \/ todo' = [t |-> "item", x |-> y, v |-> store'[y]]
             \/ todo' = Nothing /\ (y \in silent' \/ Same(y, store[y], store'[y]))
      BY <1>0, <2>3, ItemApplied
    <3> QED BY <3>1 DEF Nothing
  <2> QED BY <1>2, <2>1, <2>2, <2>3
<1>5. ASSUME NEW x \in Cells, x # y, ~Waits(x)', NEW v, Arrived(x, v)
      PROVE  Arrived(x, v)'
  BY <1>1, <1>4, <1>5 DEF Arrived, Nothing
<1>6. \A x \in Cells : ~Waits(x)' => ~Waits(x)
  BY <1>1, <1>4 DEF Waits, Nothing
<1>7. ASSUME ~Waits(y)', NEW v \in Values(y), Arrived(y, v)
      PROVE  Arrived(y, v)'
  <2>1. Same(y, v, store[y])
    BY <1>1, <1>7 DEF Arrived, Nothing
  <2>2. refresh.pc # "written" /\ y \notin silent'
    BY <1>1, <1>7 DEF Waits
  <2>3. CASE todo' = Nothing
    <3>1. Same(y, store[y], store'[y])
      BY <1>4, <2>2, <2>3
    <3>2. Same(y, v, store'[y])
      BY <2>1, <3>1, SameIsEquivalence
    <3> QED BY <2>3, <3>2 DEF Arrived, Nothing
  <2>4. CASE todo'.t = "delta"
    <3>1. PICK n \in Nat : /\ store[y] \in Value /\ todo' = [t |-> "delta", x |-> y, n |-> n]
                           /\ store'[y] = App(store[y], <<n>>)
      <4>1. \A n : [t |-> "byId", x |-> y] # [t |-> "delta", x |-> y, n |-> n]
        OBVIOUS
      <4>2. todo' # [t |-> "byId", x |-> y]
        BY <2>4
      <4> QED BY <1>0, <1>4, <2>4, <4>2, DeltaApplied
    <3>2. y \in Items /\ y # Header /\ <<n>> \in Seq(Nat)
      BY <1>4, <2>4, NamesAssumption
    <3>3. v \in Value \cup {Absent} /\ store[y] \in Value \cup {Absent}
      BY <1>7, <3>1, <3>2 DEF Values
    <3>4. Same(y, App(v, <<n>>), store'[y])
      BY <2>1, <3>1, <3>2, <3>3, AppSame
    <3>5. todo'.t = "delta" /\ todo'.x = y /\ todo'.n = n
      BY <3>1
    <3> QED BY <3>4, <3>5 DEF Arrived
  <2>5. CASE todo' # Nothing /\ todo'.t # "delta"
    <3>1. todo'.x = y /\ (todo'.t = "item" => todo'.v = store'[y])
      BY <1>4, <2>5
    <3>2. store'[y] # Absent
      <4>1. CASE ApplyHeader
        BY <1>3, <4>1, ThreadKinds, AbsentAssumption DEF Types, StoreTypes
      <4>2. CASE ~ApplyHeader
        BY <1>0, <1>2, <4>2, ItemApplied, DeltaApplied, AbsentAssumption
      <4> QED BY <4>1, <4>2
    <3>3. cache[y] = store'[y]
      BY <1>1, <1>4, <1>7, <2>5, <3>1, <3>2 DEF Waits
    <3>4. Same(y, store[y], store'[y])
      BY <1>0, <2>2, <2>5, <3>3, NotHeldBack
    <3>5. Same(y, v, store'[y])
      BY <2>1, <3>4, SameIsEquivalence
    <3> QED BY <2>5, <3>5 DEF Arrived
  <2> QED BY <2>3, <2>4, <2>5
<1>8. \A x \in Cells : ~Waits(x)' =>
          ~Waits(x) /\ \A v \in Values(x) : Arrived(x, v) => Arrived(x, v)'
  <2> SUFFICES ASSUME NEW x \in Cells, ~Waits(x)', NEW v \in Values(x), Arrived(x, v)
               PROVE  Arrived(x, v)'
    BY <1>6
  <2>1. CASE x # y
    BY <1>5, <2>1
  <2>2. CASE x = y
    <3>1. Waits(x)' = Waits(y)' /\ Arrived(x, v) = Arrived(y, v) /\ Arrived(x, v)' = Arrived(y, v)'
      BY <2>2 DEF Waits, Arrived
    <3> QED BY <1>7, <2>2, <3>1
  <2> QED BY <2>1, <2>2
<1> QED BY <1>1, <1>8, QuietPaths

\* Steps beside the broadcast, and before the one of a refresh.
LEMMA AsidePaths ==
    ASSUME Types, Paths, UNCHANGED <<bus, lagged, ui, batch, pulls, odd>>,
           \/ refresh'.pc = "written"
           \/ refresh.pc # "written" /\ UNCHANGED <<store, cache, todo, silent>>
    PROVE  Paths'
<1>1. \A x \in Cells : ~Waits(x)' =>
          ~Waits(x) /\ \A v \in Values(x) : Arrived(x, v) => Arrived(x, v)'
  <2>1. CASE refresh'.pc = "written"
    BY <2>1 DEF Waits
  <2>2. CASE refresh'.pc # "written" /\ refresh.pc # "written"
             /\ UNCHANGED <<store, cache, todo, silent>>
    BY <2>2 DEF Waits, Arrived
  <2> QED BY <2>1, <2>2
<1> QED BY <1>1, QuietPaths

\* ... and with a word that says nothing of a cell.
LEMMA WordPaths ==
    ASSUME Types, Types', Paths, NEW m \in Messages, m.t \in {"reload", "resync"}, Push(m),
           UNCHANGED <<ui, batch, pulls, odd, store, cache, todo, silent>>,
           refresh'.pc = refresh.pc
    PROVE  Paths'
<1> SUFFICES ASSUME NEW x \in Cells PROVE Path(x)'
  BY DEF Paths
<1>1. ~Waits(x)' => ~Waits(x) /\ \A v \in Values(x) : Arrived(x, v) => Arrived(x, v)'
  BY DEF Waits, Arrived
<1>2. ~Tell(m, x) /\ m.t # "delta"
  BY DEF Tell
<1>3. Path(x)
  BY DEF Paths
<1> QED BY <1>1, <1>2, <1>3, PushPath

LEMMA EmitPaths ==
    ASSUME Types, Types', Paths, Emit
    PROVE  Paths'
<1>1. /\ UNCHANGED <<store, refresh, ui, batch, pulls, odd>>
      /\ todo' = Nothing /\ todo.x \in Cells
  BY Emitted
<1>2. PICK y : y = todo.x
  OBVIOUS
<1>3. \A x \in Cells : (\A v : Arrived(x, v)' <=> Same(x, v, store[x]))
  BY <1>1 DEF Arrived, Nothing
<1>4. \A x \in Cells : Waits(x)' <=> refresh.pc = "written" \/ x \in silent'
  BY <1>1 DEF Waits, Nothing
<1>5. \A x \in Cells \ {y} :
          /\ Waits(x) <=> refresh.pc = "written" \/ x \in silent
          /\ \A v : Arrived(x, v) <=> Same(x, v, store[x])
  BY <1>2 DEF Waits, Arrived
<1>6. CASE /\ todo.t = "delta" /\ todo.x \in Items /\ todo.n \in Nat
           /\ Push([t |-> "delta", x |-> todo.x, n |-> todo.n])
           /\ UNCHANGED <<cache, silent>>
  <2>1. PICK m : m = [t |-> "delta", x |-> todo.x, n |-> todo.n]
    OBVIOUS
  <2>2. m \in Messages /\ Push(m) /\ m.t = "delta" /\ m.x = y /\ m.n = todo.n
    BY <1>2, <1>6, <2>1 DEF Messages
  <2> SUFFICES ASSUME NEW x \in Cells PROVE Path(x)'
    BY DEF Paths
  <2>3. ~Waits(x)' => ~Waits(x)
    BY <1>4, <1>6 DEF Waits
  <2>4. ~Concerns(m, x) => \A v \in Values(x) : Arrived(x, v) => Arrived(x, v)'
    <3>1. ~Concerns(m, x) => x # y
      BY <2>2 DEF Concerns
    <3> QED BY <1>3, <1>5, <3>1
  <2>5. m.t = "delta" /\ m.x = x =>
            \A v \in Values(x) : Arrived(x, v) => Arrived(x, App(v, <<m.n>>))'
    <3> SUFFICES ASSUME m.x = x, NEW v \in Values(x), Arrived(x, v)
                 PROVE  Arrived(x, App(v, <<m.n>>))'
      OBVIOUS
    <3>1. Same(x, App(v, <<m.n>>), store[x])
      BY <1>2, <1>6, <2>2 DEF Arrived
    <3> QED BY <1>1, <3>1 DEF Arrived, Nothing
  <2>6. ~Tell(m, x)
    BY <2>2 DEF Tell
  <2>7. Path(x)
    BY DEF Paths
  <2> QED BY <1>1, <2>2, <2>3, <2>4, <2>5, <2>6, <2>7, PushPath
<1>7. CASE /\ todo.t \in {"item", "byId", "head"}
           /\ UNCHANGED <<cache, bus, lagged, silent>>
           /\ Spoken = Absent \/ cache[todo.x] = Spoken
           /\ todo.t = "item" => cache[todo.x] = todo.v
  <2>1. todo.t # "item" => store[y] = Absent \/ cache[y] = store[y]
    BY <1>2, <1>7 DEF Spoken
  <2>2. \A x \in Cells : ~Waits(x)' => ~Waits(x)
    BY <1>2, <1>4, <1>7, <2>1 DEF Waits
  <2>3. \A x \in Cells : \A v \in Values(x) : Arrived(x, v) => Arrived(x, v)'
    BY <1>3, <1>7 DEF Arrived
  <2> QED BY <1>1, <1>7, <2>2, <2>3, QuietPaths
<1>8. CASE /\ todo.t \in {"item", "byId", "head"} /\ Spoken # Absent
           /\ Spoken \in Values(todo.x)
           /\ Push([t |-> "cell", x |-> todo.x, v |-> Spoken,
                    fresh |-> Same(todo.x, store[todo.x], Spoken)])
           /\ silent' = silent \ {todo.x}
  <2>1. PICK b \in BOOLEAN, w \in Values(y) :
             b = Same(y, store[y], Spoken) /\ w = Spoken /\ w # Absent
    <3>1. Same(y, store[y], Spoken) \in BOOLEAN
      BY DEF Same
    <3> QED BY <1>2, <1>8, <3>1
  <2>2. PICK m : m = [t |-> "cell", x |-> y, v |-> w, fresh |-> b]
    OBVIOUS
  <2>3. m.t = "cell" /\ m.x = y /\ m.v = w /\ m.fresh = b
    BY <2>2
  <2>4. m \in Messages
    <3>1. CASE y = Header
      <4>1. w \in State
        BY <2>1, <3>1 DEF Values
      <4> QED BY <2>2, <3>1, <4>1 DEF Messages
    <3>2. CASE y \in Items
      <4>1. w \in Value
        BY <2>1, <3>2, NamesAssumption DEF Values
      <4> QED BY <2>2, <3>2, <4>1 DEF Messages
    <3> QED BY <1>1, <1>2, <3>1, <3>2 DEF Cells
  <2>5. Push(m)
    <3>1. m = [t |-> "cell", x |-> todo.x, v |-> Spoken,
               fresh |-> Same(todo.x, store[todo.x], Spoken)]
      BY <1>2, <2>1, <2>2
    <3> QED BY <1>8, <3>1
  <2> SUFFICES ASSUME NEW x \in Cells PROVE Path(x)'
    BY DEF Paths
  <2>6. ~Concerns(m, x) /\ ~Waits(x)' =>
            ~Waits(x) /\ \A v \in Values(x) : Arrived(x, v) => Arrived(x, v)'
    <3>1. ~Concerns(m, x) => x # y
      BY <2>3 DEF Concerns
    <3>2. x # y => (x \in silent <=> x \in silent')
      BY <1>2, <1>8
    <3> QED BY <1>3, <1>4, <1>5, <3>1, <3>2
  <2>7. Tell(m, x) => Arrived(x, Told(m, x))'
    <3> SUFFICES ASSUME Tell(m, x) PROVE Same(x, Told(m, x), store[x])
      BY <1>1 DEF Arrived, Nothing
    <3>1. x = y /\ b /\ Told(m, x) = Spoken
      BY <2>1, <2>3 DEF Tell, Told
    <3>2. Same(x, store[x], Spoken)
      BY <2>1, <3>1
    <3> QED BY <3>1, <3>2, SameIsEquivalence
  <2>8. Path(x)
    BY DEF Paths
  <2> QED BY <1>1, <2>3, <2>4, <2>5, <2>6, <2>7, <2>8, PushPath
<1> QED BY <1>6, <1>7, <1>8, Emitted

LEMMA EmitsPaths ==
    ASSUME Types, Types', Paths, RefreshEmits
    PROVE  Paths'
<1>1. PICK m : m = [t |-> "upsert", v |-> store,
                    mixed |-> IF todo.t = "delta" THEN {todo.x} ELSE {}]
  OBVIOUS
<1>2. m \in Messages
  BY <1>1 DEF Types, StoreTypes, Todo, Messages
<1>3. Push(m) /\ UNCHANGED <<ui, batch, pulls, odd, store, todo>>
  BY <1>1 DEF RefreshEmits, phone, listener
<1>4. /\ m.t = "upsert" /\ m.v = store
      /\ m.mixed = IF todo.t = "delta" THEN {todo.x} ELSE {}
  BY <1>1
<1> SUFFICES ASSUME NEW x \in Cells PROVE Path(x)'
  BY DEF Paths
<1>5. Concerns(m, x)
  BY <1>4 DEF Concerns
<1>6. Tell(m, x) => Arrived(x, Told(m, x))'
  <2> SUFFICES ASSUME Tell(m, x) PROVE Arrived(x, Told(m, x))'
    OBVIOUS
  <2>1. x \notin m.mixed /\ Told(m, x) = store[x]
    BY <1>4 DEF Tell, Told
  <2>2. ~(todo.t = "delta" /\ todo.x = x)
    BY <1>4, <2>1
  <2> QED BY <1>3, <2>1, <2>2 DEF Arrived, Same
<1>7. Path(x)
  BY DEF Paths
<1> QED BY <1>2, <1>3, <1>4, <1>5, <1>6, <1>7, PushPath

LEMMA EndsPaths ==
    ASSUME Types, Types', Paths, RefreshEnds
    PROVE  Paths'
<1>1. /\ UNCHANGED <<store, cache, todo, silent, ui, batch, pulls, odd>>
      /\ refresh' = Idle
      /\ Push([t |-> "resync"]) \/ UNCHANGED <<bus, lagged>>
  BY DEF RefreshEnds, listener, phone, subscription
<1>2. refresh.pc = "idle" /\ refresh'.pc = "idle"
  BY <1>1 DEF RefreshEnds, Types, RefreshTypes, Stages, Idle
<1>3. CASE Push([t |-> "resync"])
  <2>1. PICK m : m = [t |-> "resync"]
    OBVIOUS
  <2>2. m \in Messages /\ m.t = "resync"
    BY <2>1 DEF Messages
  <2> QED BY <1>1, <1>2, <1>3, <2>1, <2>2, WordPaths
<1>4. CASE UNCHANGED <<bus, lagged>>
  BY <1>1, <1>2, <1>4, AsidePaths
<1> QED BY <1>1, <1>3, <1>4

LEMMA ReloadPaths ==
    ASSUME Types, Types', Paths, Reload
    PROVE  Paths'
<1>1. UNCHANGED <<store, cache, todo, silent, ui, batch, pulls, odd, refresh>>
  BY DEF Reload, listener, phone
<1>2. PICK m : m = [t |-> "reload"]
  OBVIOUS
<1>3. m \in Messages /\ m.t = "reload" /\ Push(m)
  BY <1>2 DEF Messages, Reload
<1> QED BY <1>1, <1>3, WordPaths

-----------------------------------------------------------------------------
(* The copy follows the store: the steps of the view model.                *)

\* It changes nothing of the store.
LEMMA PhonePath ==
    ASSUME UNCHANGED <<store, cache, todo, silent, refresh>>, NEW x,
           NEW h, NEW K, Ends(h, K, x), NEW g, NEW L, Chain(bus', g, L, x), Begins(g, L, x)',
           g[Len(bus')] = h[Len(bus)], Len(bus') \in L <=> Len(bus) \in K
    PROVE  Path(x)'
<1>1. (Waits(x)' <=> Waits(x)) /\ \A v : Arrived(x, v)' <=> Arrived(x, v)
  BY DEF Waits, Arrived
<1>2. Ends(g, L, x)'
  BY <1>1 DEF Ends
<1> QED BY <1>2 DEF Path

\* What was at the start still is.
LEMMA BeginsLater ==
    ASSUME NEW x, NEW h, NEW K, NEW g, NEW L, Begins(h, K, x),
           g[0] = h[0], 0 \in L <=> 0 \in K,
           Calm(x)' => Calm(x) /\ Held(x)' = Held(x),
           \A p \in {"loop", "side"} :
               Read(p, x)' => Read(p, x) /\ pulls'[p].copy = pulls[p].copy
    PROVE  Begins(g, L, x)'
<1>1. ASSUME Calm(x)' PROVE 0 \in L /\ Same(x, Held(x)', g[0])
  BY <1>1 DEF Begins
<1>2. ASSUME NEW p \in {"loop", "side"}, Read(p, x)'
      PROVE  0 \in L /\ Same(x, pulls'[p].copy[x], g[0])
  BY <1>2 DEF Begins
<1> QED BY <1>1, <1>2 DEF Begins

\* The model reads the store, or will.
LEMMA BeginsReading ==
    ASSUME NEW x, NEW g, NEW L, NEW p \in {"loop", "side"}, pulls'[p].due
    PROVE  Begins(g, L, x)'
<1>1. ~Calm(x)' /\ \A q \in {"loop", "side"} : ~Read(q, x)'
  BY DEF Calm, Read
<1> QED BY <1>1 DEF Begins

LEMMA TouchedReads ==
    ASSUME Types, NEW S \in SUBSET Cells, pulls' = Touched(S, pulls), UNCHANGED lagged,
           NEW x
    PROVE  /\ Calm(x)' /\ (x \notin odd' => x \notin odd) => Calm(x)
           /\ \A p \in {"loop", "side"} :
                 /\ pulls'[p].copy = pulls[p].copy
                 /\ Read(p, x)' => Read(p, x) /\ x \notin S
<1>0. PICK ps : ps = pulls /\ ps \in Pulls
  BY DEF Types, PhoneTypes
<1>1. PICK new : new = Touched(S, ps)
  OBVIOUS
<1>2. \A p \in {"loop", "side"} :
          /\ pulls'[p].due = pulls[p].due /\ pulls'[p].copy = pulls[p].copy
          /\ pulls'[p].crossed =
                IF pulls[p].copy = Absent THEN pulls[p].crossed ELSE pulls[p].crossed \cup S
  <2>1. \A p \in {"loop", "side"} :
            /\ new[p].due = ps[p].due /\ new[p].copy = ps[p].copy
            /\ new[p].crossed =
                  IF ps[p].copy = Absent THEN ps[p].crossed ELSE ps[p].crossed \cup S
    <3>1. \A p \in {"loop", "side"} :
            /\ Touched(S, ps)[p].due = ps[p].due
            /\ Touched(S, ps)[p].copy = ps[p].copy
            /\ Touched(S, ps)[p].crossed =
                  IF ps[p].copy = Absent THEN ps[p].crossed ELSE ps[p].crossed \cup S
      BY <1>0, TouchedTypes, Zenon
    <3> QED BY <1>1, <3>1, Zenon
  <2> QED BY <1>0, <1>1, <2>1
<1>3. Calm(x)' /\ (x \notin odd' => x \notin odd) => Calm(x)
  BY <1>2 DEF Calm
<1>4. \A p \in {"loop", "side"} : Read(p, x)' => Read(p, x) /\ x \notin S
  BY <1>2 DEF Read
<1> QED BY <1>2, <1>3, <1>4

LEMMA LaggedPaths ==
    ASSUME Types, Paths, ReceiveLagged
    PROVE  Paths'
<1> SUFFICES ASSUME NEW x \in Cells PROVE Path(x)'
  BY DEF Paths
<1>1. UNCHANGED <<store, cache, todo, silent, refresh, bus>> /\ pulls'["loop"].due
  BY DEF ReceiveLagged, listener, Wants, Types, PhoneTypes, Pulls
<1>2. PICK h, K : Chain(bus, h, K, x) /\ Begins(h, K, x) /\ Ends(h, K, x)
  BY DEF Paths, Path
<1>3. Begins(h, K, x)'
  BY <1>1, BeginsReading
<1> QED BY <1>1, <1>2, <1>3, PhonePath

LEMMA PullReadsPaths ==
    ASSUME Types, Paths, NEW p \in {"loop", "side"}, PullReads(p)
    PROVE  Paths'
<1> SUFFICES ASSUME NEW x \in Cells PROVE Path(x)'
  BY DEF Paths
<1>1. UNCHANGED <<store, cache, todo, silent, refresh, bus, lagged, ui, batch, odd>>
  BY DEF PullReads, listener, subscription
<1>2. PICK S : S = {i \in Items : \/ todo.t = "delta" /\ todo.x = i
                                  \/ \E k \in DOMAIN bus : bus[k].t = "delta" /\ bus[k].x = i}
  OBVIOUS
<1>3. pulls' = [pulls EXCEPT ![p] = [due |-> FALSE, copy |-> store, crossed |-> S]]
  BY <1>2 DEF PullReads
<1>4. pulls'[p].copy = store /\ pulls'[p].crossed = S
  BY <1>3 DEF Types, PhoneTypes, Pulls
<1>5. store \in Threads /\ store # Absent /\ bus \in Seq(Messages)
  BY AbsentAssumption DEF Types, StoreTypes, BusTypes, Threads, Sketches
<1>6. PICK h, K : Chain(bus, h, K, x) /\ Begins(h, K, x) /\ Ends(h, K, x)
  BY DEF Paths, Path
<1>7. ~Calm(x)' /\ \A q \in {"loop", "side"} : Read(q, x)' => q = p /\ x \notin S
  BY <1>4, <1>5 DEF Calm, Read
<1>8. CASE x \in S
  <2>1. Begins(h, K, x)'
    BY <1>7, <1>8 DEF Begins
  <2> QED BY <1>1, <1>6, <2>1, PhonePath
<1>9. CASE x \notin S
  <2>1. /\ ~(todo.t = "delta" /\ todo.x = x)
        /\ \A k \in 1..Len(bus) : ~(bus[k].t = "delta" /\ bus[k].x = x)
    <3>1. CASE x \in Items
      <4>1. DOMAIN bus = 1..Len(bus)
        BY <1>5
      <4> QED BY <1>2, <1>9, <3>1, <4>1
    <3>2. CASE x \notin Items
      <4>1. todo.t = "delta" => todo.x # x
        BY <3>2 DEF Types, Todo
      <4>2. \A k \in 1..Len(bus) : bus[k] \in Messages
        BY <1>5
      <4> QED BY <3>2, <4>1, <4>2, MessageKinds
    <3> QED BY <3>1, <3>2
  <2>2. store[x] \in Values(x)
    BY <1>5, ThreadKinds, NamesAssumption DEF Values, Cells
  <2>3. PICK g, L : /\ Chain(bus, g, L, x) /\ 0 \in L /\ g[0] = store[x]
                    /\ \/ g[Len(bus)] = store[x]
                       \/ g[Len(bus)] = h[Len(bus)] /\ (Len(bus) \in L <=> Len(bus) \in K)
    <3>1. Reread(bus, h, K, x, store[x])
      BY <1>5, <1>6, <2>1, <2>2, ReadChain
    <3> QED BY <3>1 DEF Reread
  <2>4. Begins(g, L, x)'
    <3>1. Same(x, pulls'[p].copy[x], g[0])
      BY <1>4, <2>3 DEF Same
    <3> QED BY <1>7, <2>3, <3>1 DEF Begins
  <2>5. CASE g[Len(bus)] = store[x]
    <3>1. Ends(g, L, x)'
      BY <1>1, <2>1, <2>5 DEF Ends, Arrived, Same
    <3> QED BY <1>1, <2>3, <2>4, <3>1 DEF Path
  <2>6. CASE g[Len(bus)] = h[Len(bus)] /\ (Len(bus) \in L <=> Len(bus) \in K)
    BY <1>1, <1>6, <2>3, <2>4, <2>6, PhonePath
  <2> QED BY <2>3, <2>5, <2>6
<1> QED BY <1>8, <1>9

LEMMA PullAppliesPaths ==
    ASSUME Types, Paths, NEW p \in {"loop", "side"}, PullApplies(p)
    PROVE  Paths'
<1> SUFFICES ASSUME NEW x \in Cells PROVE Path(x)'
  BY DEF Paths
<1>1. UNCHANGED <<store, cache, todo, silent, refresh, bus, lagged, batch>>
  BY DEF PullApplies, listener, subscription
<1>2. pulls[p].copy # Absent
      /\ odd' = {y \in Cells : ui'[y] # pulls[p].copy[y]} \cup pulls[p].crossed \cup Older(Cells)
  BY DEF PullApplies
<1>3. \A q \in {"loop", "side"} :
          /\ pulls'[q].due = pulls[q].due
          /\ pulls'[q].copy = IF q = p THEN Absent ELSE pulls[q].copy
          /\ pulls'[q].copy # Absent => pulls'[q].crossed = pulls[q].crossed \cup Cells
  <2>1. PICK ps : ps = [pulls EXCEPT ![p].copy = Absent, ![p].crossed = {}]
    OBVIOUS
  <2>2. /\ ps \in Pulls
        /\ \A q \in {"loop", "side"} :
              /\ ps[q].due = pulls[q].due
              /\ ps[q].copy = IF q = p THEN Absent ELSE pulls[q].copy
              /\ ps[q].crossed = IF q = p THEN {} ELSE pulls[q].crossed
    BY <2>1 DEF Types, PhoneTypes, Pulls
  <2>3. \A q \in {"loop", "side"} :
            /\ Touched(Cells, ps)[q].due = ps[q].due
            /\ Touched(Cells, ps)[q].copy = ps[q].copy
            /\ Touched(Cells, ps)[q].crossed =
                  IF ps[q].copy = Absent THEN ps[q].crossed ELSE ps[q].crossed \cup Cells
    <3>1. Cells \in SUBSET Cells
      OBVIOUS
    <3> QED BY <2>2, <3>1, TouchedTypes, Zenon
  <2>4. pulls' = Touched(Cells, ps)
    BY <2>1 DEF PullApplies
  <2> SUFFICES ASSUME NEW q \in {"loop", "side"}
               PROVE  /\ pulls'[q].due = pulls[q].due
                      /\ pulls'[q].copy = IF q = p THEN Absent ELSE pulls[q].copy
                      /\ pulls'[q].copy # Absent => pulls'[q].crossed = pulls[q].crossed \cup Cells
    OBVIOUS
  <2>5. CASE q = p
    <3>1. ps[q].due = pulls[q].due /\ ps[q].copy = Absent
      BY <2>2, <2>5
    <3>2. pulls'[q].due = ps[q].due /\ pulls'[q].copy = ps[q].copy
      BY <2>3, <2>4
    <3> QED BY <2>5, <3>1, <3>2
  <2>6. CASE q # p
    <3>1. ps[q].due = pulls[q].due /\ ps[q].copy = pulls[q].copy /\ ps[q].crossed = pulls[q].crossed
      BY <2>2, <2>6
    <3>2. /\ pulls'[q].due = ps[q].due /\ pulls'[q].copy = ps[q].copy
          /\ pulls'[q].crossed =
                IF ps[q].copy = Absent THEN ps[q].crossed ELSE ps[q].crossed \cup Cells
      BY <2>3, <2>4
    <3> QED BY <2>6, <3>1, <3>2
  <2> QED BY <2>5, <2>6
<1>4. \A q \in {"loop", "side"} : ~Read(q, x)'
  BY <1>3 DEF Read
<1>5. PICK h, K : Chain(bus, h, K, x) /\ Begins(h, K, x) /\ Ends(h, K, x)
  BY DEF Paths, Path
<1>6. ASSUME Calm(x)' PROVE 0 \in K /\ Same(x, Held(x)', h[0])
  <2>1. ~lagged /\ x \notin odd' /\ \A q \in {"loop", "side"} :
                                       ~pulls[q].due /\ (q # p => pulls[q].copy = Absent)
    BY <1>1, <1>3, <1>6 DEF Calm
  <2>2. ui'[x] = pulls[p].copy[x] /\ x \notin pulls[p].crossed /\ batch[x] = Absent
    BY <1>2, <2>1 DEF Older
  <2>3. Read(p, x)
    BY <1>2, <2>1, <2>2 DEF Read
  <2>4. 0 \in K /\ Same(x, pulls[p].copy[x], h[0])
    BY <1>5, <2>3 DEF Begins
  <2> QED BY <1>1, <2>2, <2>4 DEF Held
<1>7. Begins(h, K, x)'
  BY <1>4, <1>6 DEF Begins
<1> QED BY <1>1, <1>5, <1>7, PhonePath

LEMMA FlushPaths ==
    ASSUME Types, Paths, Flush
    PROVE  Paths'
<1> SUFFICES ASSUME NEW x \in Cells PROVE Path(x)'
  BY DEF Paths
<1>1. /\ UNCHANGED <<store, cache, todo, silent, refresh, bus, lagged, odd>>
      /\ ui'[x] = Held(x) /\ batch'[x] = Absent
  BY DEF Flush, listener, subscription, Held, Nowhere
<1>2. PICK S : S = {y \in Cells : batch[y] # Absent}
  OBVIOUS
<1>3. S \in SUBSET Cells /\ pulls' = Touched(S, pulls)
  BY <1>2 DEF Flush
<1>4. /\ Calm(x)' => Calm(x)
      /\ \A p \in {"loop", "side"} :
            /\ pulls'[p].copy = pulls[p].copy
            /\ Read(p, x)' => Read(p, x) /\ x \notin S
  BY <1>1, <1>3, TouchedReads
<1>5. Held(x)' = Held(x)
  BY <1>1 DEF Held
<1>6. PICK h, K : Chain(bus, h, K, x) /\ Begins(h, K, x) /\ Ends(h, K, x)
  BY DEF Paths, Path
<1>7. Begins(h, K, x)'
  BY <1>4, <1>5, <1>6, BeginsLater
<1> QED BY <1>1, <1>6, <1>7, PhonePath

\* The oldest d messages are received.
LEMMA TakePath ==
    ASSUME Types, UNCHANGED <<store, cache, todo, silent, refresh>>, NEW x \in Cells, Path(x),
           NEW d \in 0..Len(bus), bus' = SubSeq(bus, d + 1, Len(bus)),
           \A h, K, g, L :
               Chain(bus, h, K, x) /\ Begins(h, K, x) /\ g[0] = h[d] /\ (0 \in L <=> d \in K)
                   => Begins(g, L, x)'
    PROVE  Path(x)'
<1>1. PICK h, K : Chain(bus, h, K, x) /\ Begins(h, K, x) /\ Ends(h, K, x)
  BY DEF Path
<1>2. bus \in Seq(Messages) /\ Len(bus) \in Nat
  BY DEF Types, BusTypes
<1>3. Len(bus') = Len(bus) - d
  <2>1. d \in Nat /\ d <= Len(bus)
    BY <1>2
  <2> QED BY <1>2, <2>1
<1>4. Shorter(bus, d, h, K, x)
  BY <1>1, <1>2, DropChain
<1>5. PICK g, L : /\ Chain(bus', g, L, x) /\ g[0] = h[d] /\ (0 \in L <=> d \in K)
                  /\ g[Len(bus')] = h[Len(bus)] /\ (Len(bus') \in L <=> Len(bus) \in K)
  BY <1>3, <1>4 DEF Shorter
<1>6. Begins(g, L, x)'
  BY <1>1, <1>5
<1> QED BY <1>1, <1>5, <1>6, PhonePath

\* Of the messages that have become one, the last is handled.
LEMMA RunOfValues ==
    ASSUME bus \in Seq(Messages), bus # <<>>, bus[Run].t \in {"cell", "upsert"}
    PROVE  \A j \in 1..Run : /\ bus[j].t = bus[Run].t
                             /\ bus[Run].t = "cell" => bus[j].x = bus[Run].x
<1>1. Run \in 1..Len(bus) /\ \A j \in 2..Run : Merge(bus[1], bus[j])
  BY RunIsRun
<1>2. /\ bus[1].t = bus[Run].t
      /\ bus[Run].t = "cell" => bus[1].x = bus[Run].x
  <2>1. CASE Run = 1
    BY <2>1
  <2>2. CASE Run # 1
    <3>1. Merge(bus[1], bus[Run])
      BY <1>1, <2>2
    <3> QED BY <3>1 DEF Merge
  <2> QED BY <2>1, <2>2
<1> SUFFICES ASSUME NEW j \in 1..Run
             PROVE  /\ bus[j].t = bus[Run].t
                    /\ bus[Run].t = "cell" => bus[j].x = bus[Run].x
  OBVIOUS
<1>3. CASE j = 1
  BY <1>2, <1>3
<1>4. CASE j # 1
  <2>1. Merge(bus[1], bus[j])
    BY <1>1, <1>4
  <2> QED BY <1>2, <2>1 DEF Merge
<1> QED BY <1>3, <1>4

LEMMA DeltaBegins ==
    ASSUME Types, bus # <<>>, UNCHANGED lagged, HandleDelta(bus[Run], Run),
           NEW x \in Cells, NEW h, NEW K, Chain(bus, h, K, x), Begins(h, K, x),
           NEW g, NEW L, g[0] = h[Run], 0 \in L <=> Run \in K
    PROVE  Begins(g, L, x)'
<1>1. PICK r, y, text : r = Run /\ y = bus[Run].x /\ text = [k \in 1..r |-> bus[k].n]
  OBVIOUS
<1>2. bus \in Seq(Messages) /\ Len(bus) \in Nat /\ r \in 1..Len(bus)
  BY <1>1, RunIsRun DEF Types, BusTypes
<1>3. /\ y \in Items /\ text \in Seq(Nat)
      /\ \A j \in 1..r : bus[j].t = "delta" /\ bus[j].x = y
  <2>1. bus[Run].t = "delta"
    BY DEF HandleDelta
  <2> QED BY <1>1, <1>2, <2>1, RunOfDeltas
<1>4. /\ UNCHANGED batch
      /\ \/ pulls' = Wants("side")
         \/ /\ ui[y] # Absent /\ ui' = [ui EXCEPT ![y].text = @ \o text]
            /\ pulls' = Touched({y}, pulls) /\ odd' = odd \cup Older({y})
  BY <1>1 DEF HandleDelta
<1>5. CASE pulls' = Wants("side")
  <2>1. pulls'["side"].due
    BY <1>5 DEF Wants, Types, PhoneTypes, Pulls
  <2> QED BY <2>1, BeginsReading
<1>6. CASE /\ ui[y] # Absent /\ ui' = [ui EXCEPT ![y].text = @ \o text]
           /\ pulls' = Touched({y}, pulls) /\ odd' = odd \cup Older({y})
  <2>1. /\ Calm(x)' => Calm(x)
        /\ \A p \in {"loop", "side"} :
              /\ pulls'[p].copy = pulls[p].copy
              /\ Read(p, x)' => Read(p, x) /\ x \notin {y}
    <3>1. {y} \in SUBSET Cells /\ (x \notin odd' => x \notin odd)
      BY <1>3, <1>6 DEF Cells
    <3> QED BY <1>6, <3>1, TouchedReads
  <2>2. ui \in Threads /\ DOMAIN ui = Cells
    BY DEF Types, PhoneTypes, Threads, Sketches, Thread
  <2>3. CASE x # y
    <3>1. Held(x)' = Held(x)
      BY <1>4, <1>6, <2>2, <2>3 DEF Held
    <3>2. 0 \in K => r \in K /\ h[r] = h[0]
      <4>1. \A k \in 0 + 1..r : ~Concerns(bus[k], x)
        BY <1>3, <2>3 DEF Concerns
      <4>2. r \in 0..Len(bus) /\ 0 <= r
        BY <1>2
      <4> QED BY <4>1, <4>2 DEF Chain
    <3>3. /\ Calm(x)' => 0 \in L /\ Same(x, Held(x)', g[0])
          /\ \A p \in {"loop", "side"} :
                Read(p, x)' => 0 \in L /\ Same(x, pulls'[p].copy[x], g[0])
      BY <1>1, <2>1, <3>1, <3>2 DEF Begins
    <3> QED BY <3>3 DEF Begins
  <2>4. CASE x = y
    <3>1. \A p \in {"loop", "side"} : ~Read(p, x)'
      BY <2>1, <2>4
    <3>2. ASSUME Calm(x)' PROVE 0 \in L /\ Same(x, Held(x)', g[0])
      <4>1. batch[x] = Absent /\ Calm(x)
        BY <1>6, <2>1, <2>4, <3>2 DEF Calm, Older
      <4>2. Held(x) = ui[x] /\ Held(x)' = App(ui[x], text)
        BY <1>4, <1>6, <2>2, <2>4, <4>1 DEF Held, App
      <4>3. 0 \in K /\ Same(x, ui[x], h[0])
        BY <4>1, <4>2 DEF Begins
      <4>4. ui[x] \in Value \cup {Absent} /\ h[0] \in Value \cup {Absent} /\ x \in Items
        <5>1. h[0] \in Values(x)
          BY <4>3 DEF Chain
        <5> QED BY <1>3, <2>2, <2>4, <5>1, ThreadKinds, NamesAssumption DEF Values
      <4>5. r \in K /\ h[r] = App(h[0], text)
        <5>1. Runs(bus, 0, r, x)
          BY <1>3, <2>4 DEF Runs
        <5>2. r \in 0..Len(bus) /\ 0 < r /\ r - 0 = r /\ \A k \in 1..r : 0 + k = k
          BY <1>2
        <5>3. Text(bus, 0, r) = text
          BY <1>1, <5>2 DEF Text
        <5> QED BY <4>3, <5>1, <5>2, <5>3 DEF Chain
      <4>6. Same(x, App(ui[x], text), App(h[0], text))
        BY <1>3, <4>3, <4>4, AppSame
      <4> QED BY <1>1, <4>2, <4>5, <4>6
    <3> QED BY <3>1, <3>2 DEF Begins
  <2> QED BY <2>3, <2>4
<1> QED BY <1>4, <1>5, <1>6

LEMMA CellBegins ==
    ASSUME Types, bus # <<>>, UNCHANGED lagged, HandleCell(bus[Run]),
           NEW x \in Cells, NEW h, NEW K, Chain(bus, h, K, x), Begins(h, K, x),
           NEW g, NEW L, g[0] = h[Run], 0 \in L <=> Run \in K
    PROVE  Begins(g, L, x)'
<1>1. PICK r, m : r = Run /\ m = bus[Run]
  OBVIOUS
<1>2. bus \in Seq(Messages) /\ Len(bus) \in Nat /\ r \in 1..Len(bus) /\ m \in Messages
  BY <1>1, RunIsRun DEF Types, BusTypes
<1>3. m.t = "cell" /\ m.x \in Cells /\ m.v # Absent
  <2>1. m.t = "cell"
    BY <1>1 DEF HandleCell
  <2> QED BY <1>2, <2>1, MessageKinds, AbsentAssumption DEF Cells
<1>4. \A j \in 1..r : bus[j].t = "cell" /\ bus[j].x = m.x
  BY <1>1, <1>2, <1>3, RunOfValues
<1>5. /\ \/ batch' = [batch EXCEPT ![m.x] = m.v] /\ UNCHANGED ui
         \/ ui' = [ui EXCEPT ![m.x] = m.v] /\ UNCHANGED batch
            /\ (m.x \notin odd' => batch[m.x] = Absent)
      /\ pulls' = Touched({m.x}, pulls)
      /\ m.x \notin odd' => m.fresh
      /\ \A y \in Cells \ {m.x} : y \in odd' <=> y \in odd
  BY <1>1 DEF HandleCell
<1>6. DOMAIN ui = Cells /\ DOMAIN batch = Cells
  BY DEF Types, PhoneTypes, Threads, Sketches, Thread
<1>7. CASE x # m.x
  <2>1. /\ Calm(x)' => Calm(x)
        /\ \A p \in {"loop", "side"} :
              /\ pulls'[p].copy = pulls[p].copy
              /\ Read(p, x)' => Read(p, x) /\ x \notin {m.x}
    <3>1. {m.x} \in SUBSET Cells /\ (x \notin odd' => x \notin odd)
      BY <1>3, <1>5, <1>7
    <3> QED BY <1>5, <3>1, TouchedReads
  <2>2. Held(x)' = Held(x)
    BY <1>5, <1>6, <1>7 DEF Held
  <2>3. 0 \in K => r \in K /\ h[r] = h[0]
    <3>1. \A k \in 0 + 1..r : ~Concerns(bus[k], x)
      BY <1>4, <1>7 DEF Concerns
    <3>2. r \in 0..Len(bus) /\ 0 <= r
      BY <1>2
    <3> QED BY <3>1, <3>2 DEF Chain
  <2>4. /\ Calm(x)' => 0 \in L /\ Same(x, Held(x)', g[0])
        /\ \A p \in {"loop", "side"} :
              Read(p, x)' => 0 \in L /\ Same(x, pulls'[p].copy[x], g[0])
    BY <1>1, <2>1, <2>2, <2>3 DEF Begins
  <2> QED BY <2>4 DEF Begins
<1>8. CASE x = m.x
  <2>1. \A p \in {"loop", "side"} : ~Read(p, x)'
    <3>1. {x} \in SUBSET Cells
      OBVIOUS
    <3> QED BY <1>5, <1>8, <3>1, TouchedReads
  <2>2. ASSUME Calm(x)' PROVE 0 \in L /\ Same(x, Held(x)', g[0])
    <3>1. x \notin odd'
      BY <2>2 DEF Calm
    <3>2. Held(x)' = m.v
      BY <1>3, <1>5, <1>6, <1>8, <3>1 DEF Held
    <3>3. Tell(bus[r], x) /\ Told(bus[r], x) = m.v
      BY <1>1, <1>3, <1>5, <1>8, <3>1 DEF Tell, Told
    <3>4. r \in K /\ h[r] = m.v
      BY <1>2, <3>3 DEF Chain
    <3> QED BY <1>1, <3>2, <3>4 DEF Same
  <2> QED BY <2>1, <2>2 DEF Begins
<1> QED BY <1>7, <1>8

LEMMA UpsertBegins ==
    ASSUME Types, bus # <<>>, UNCHANGED lagged, HandleUpsert(bus[Run]),
           NEW x \in Cells, NEW h, NEW K, Chain(bus, h, K, x), Begins(h, K, x),
           NEW g, NEW L, g[0] = h[Run], 0 \in L <=> Run \in K
    PROVE  Begins(g, L, x)'
<1>1. PICK r, m : r = Run /\ m = bus[Run]
  OBVIOUS
<1>2. bus \in Seq(Messages) /\ Len(bus) \in Nat /\ r \in 1..Len(bus) /\ m \in Messages
  BY <1>1, RunIsRun DEF Types, BusTypes
<1>3. /\ m.t = "upsert" /\ UNCHANGED batch /\ pulls' = Touched(Cells, pulls)
      /\ odd' = {y \in Cells : ~Same(y, ui'[y], m.v[y])} \cup m.mixed \cup Older(Cells)
  <2>1. m.t = "upsert" /\ UNCHANGED batch /\ pulls' = Touched(Cells, pulls)
    BY <1>1 DEF HandleUpsert
  <2>2. odd' = {y \in Cells : ~Same(y, ui'[y], m.v[y])} \cup m.mixed \cup Older(Cells)
    BY <1>1 DEF HandleUpsert
  <2> QED BY <2>1, <2>2
<1>4. \A p \in {"loop", "side"} : ~Read(p, x)'
  <2>1. Cells \in SUBSET Cells
    OBVIOUS
  <2> QED BY <1>3, <2>1, TouchedReads
<1>5. ASSUME Calm(x)' PROVE 0 \in L /\ Same(x, Held(x)', g[0])
  <2>1. Same(x, ui'[x], m.v[x]) /\ x \notin m.mixed /\ batch[x] = Absent
    BY <1>3, <1>5 DEF Calm, Older
  <2>2. Held(x)' = ui'[x]
    BY <1>3, <2>1 DEF Held
  <2>3. Tell(bus[r], x) /\ Told(bus[r], x) = m.v[x]
    BY <1>1, <1>3, <2>1 DEF Tell, Told
  <2>4. r \in K /\ h[r] = m.v[x]
    BY <1>2, <2>3 DEF Chain
  <2> QED BY <1>1, <2>1, <2>2, <2>4
<1> QED BY <1>4, <1>5 DEF Begins

LEMMA ReceivePaths ==
    ASSUME Types, Paths, Receive
    PROVE  Paths'
<1> SUFFICES ASSUME NEW x \in Cells PROVE Path(x)'
  BY DEF Paths
<1>1. UNCHANGED <<store, cache, todo, silent, refresh, lagged>> /\ bus # <<>>
  BY DEF Receive, listener
<1>2. bus \in Seq(Messages) /\ Len(bus) \in Nat /\ Path(x)
  BY DEF Types, BusTypes, Paths
<1>3. CASE bus' \in {<<>>, Tail(bus)} /\ pulls' = Wants("loop")
  <2>1. pulls'["loop"].due
    BY <1>3 DEF Wants, Types, PhoneTypes, Pulls
  <2>2. \E d \in 0..Len(bus) : bus' = SubSeq(bus, d + 1, Len(bus))
    <3>1. SubSeq(bus, 1 + 1, Len(bus)) = Tail(bus) /\ 1 \in 0..Len(bus)
      BY <1>1, <1>2
    <3>2. SubSeq(bus, Len(bus) + 1, Len(bus)) = <<>> /\ Len(bus) \in 0..Len(bus)
      BY <1>2
    <3> QED BY <1>3, <3>1, <3>2
  <2>3. PICK d \in 0..Len(bus) : bus' = SubSeq(bus, d + 1, Len(bus))
    BY <2>2
  <2>4. \A g, L : Begins(g, L, x)'
    BY <2>1, BeginsReading
  <2> QED BY <1>1, <1>2, <2>3, <2>4, TakePath
<1>4. CASE /\ bus' = SubSeq(bus, Run + 1, Len(bus))
           /\ HandleDelta(bus[Run], Run) \/ HandleCell(bus[Run]) \/ HandleUpsert(bus[Run])
  <2>1. PICK d : d = Run
    OBVIOUS
  <2>2. d \in 0..Len(bus)
    <3>1. d \in 1..Len(bus)
      BY <1>1, <1>2, <2>1, RunIsRun
    <3> QED BY <1>2, <3>1
  <2>3. ASSUME NEW h, NEW K, NEW g, NEW L, Chain(bus, h, K, x), Begins(h, K, x),
               g[0] = h[d], 0 \in L <=> d \in K
        PROVE  Begins(g, L, x)'
    BY <1>1, <1>4, <2>1, <2>3, DeltaBegins, CellBegins, UpsertBegins
  <2> QED BY <1>1, <1>2, <1>4, <2>1, <2>2, <2>3, TakePath
<1> QED BY <1>3, <1>4 DEF Receive

-----------------------------------------------------------------------------
(* The copy follows the store.                                             *)

LEMMA StillRemembers ==
    ASSUME Types, Types', Remembers, UNCHANGED <<script, seen, store, cache, todo>>,
           refresh' \in {refresh, Idle}, refresh.pc # "written" \/ refresh' = refresh
    PROVE  Remembers'
<1>1. seen \in Nat
  BY ScriptEvents DEF Types, ServerTypes
<1>2. Idle.pc = "idle" /\ DOMAIN Idle.got = {}
  BY DEF Idle
<1> QED BY <1>1, <1>2, AsideRemembers

LEMMA StepFollows ==
    ASSUME Types, Types', Paths, Remembers, [Next]_vars
    PROVE  Paths' /\ Remembers'
<1>1. CASE Apply
  BY <1>1, ApplyPaths, ApplyRemembers
<1>2. CASE Emit
  BY <1>2, EmitPaths, EmitRemembers
<1>3. ASSUME NEW why, Lose(why) PROVE Paths' /\ Remembers'
  <2>1. UNCHANGED <<store, cache, todo, silent, bus, lagged, ui, batch, pulls, odd>>
    BY <1>3 DEF Lose, subscription, phone
  <2>2. Remembers' /\ refresh'.pc = refresh.pc
    BY <1>3, LoseRemembers
  <2> QED BY <2>1, <2>2, AsidePaths
<1>4. CASE RefreshStarts
  <2>1. UNCHANGED <<store, cache, todo, silent, bus, lagged, ui, batch, pulls, odd>>
    BY <1>4 DEF RefreshStarts, listener, subscription, phone
  <2>2. Remembers' /\ refresh.pc = "idle"
    BY <1>4, StartRemembers
  <2> QED BY <2>1, <2>2, AsidePaths
<1>5. CASE ServerAnswers
  <2>1. UNCHANGED <<store, cache, todo, silent, bus, lagged, ui, batch, pulls, odd>>
    BY <1>5 DEF ServerAnswers, listener, subscription, phone
  <2>2. Remembers' /\ refresh.pc # "written"
    BY <1>5, AnswersRemembers DEF ServerAnswers
  <2> QED BY <2>1, <2>2, AsidePaths
<1>6. CASE RefreshReads
  <2>1. UNCHANGED <<store, cache, todo, silent, bus, lagged, ui, batch, pulls, odd>>
    BY <1>6 DEF RefreshReads, listener, subscription, phone
  <2>2. Remembers' /\ refresh.pc # "written"
    BY <1>6, ReadsRemembers DEF RefreshReads
  <2> QED BY <2>1, <2>2, AsidePaths
<1>7. CASE RefreshWrites
  <2>1. UNCHANGED <<bus, lagged, ui, batch, pulls, odd>>
    BY <1>7 DEF RefreshWrites, subscription, phone
  <2>2. Remembers' /\ refresh'.pc = "written"
    BY <1>7, WritesRemembers
  <2> QED BY <2>1, <2>2, AsidePaths
<1>8. CASE RefreshEmits
  BY <1>8, EmitsPaths, EmitsRemembers
<1>9. CASE RefreshEnds
  <2>1. /\ UNCHANGED <<script, seen, store, cache, todo>> /\ refresh' = Idle
        /\ refresh.pc # "written"
    BY <1>9 DEF RefreshEnds, server, listener, Types, RefreshTypes, Stages
  <2> QED BY <1>9, <2>1, EndsPaths, StillRemembers
<1>10. CASE ReceiveLagged \/ Receive \/ Reload \/ Flush
  <2>1. UNCHANGED <<script, seen, store, cache, todo, refresh>>
    BY <1>10 DEF ReceiveLagged, Receive, Reload, Flush, server, listener
  <2> QED BY <1>10, <2>1, LaggedPaths, ReceivePaths, ReloadPaths, FlushPaths, StillRemembers
<1>11. ASSUME NEW p \in {"loop", "side"}, PullReads(p) \/ PullApplies(p)
       PROVE  Paths' /\ Remembers'
  <2>1. UNCHANGED <<script, seen, store, cache, todo, refresh>>
    BY <1>11 DEF PullReads, PullApplies, server, listener
  <2> QED BY <1>11, <2>1, PullReadsPaths, PullAppliesPaths, StillRemembers
<1>12. CASE UNCHANGED vars
  <2>1. UNCHANGED <<script, seen, store, cache, todo, refresh, silent, bus, lagged, ui,
                    batch, pulls, odd>>
    BY <1>12 DEF vars, server, listener, subscription, phone
  <2> QED BY <2>1, AsidePaths, StillRemembers
<1> QED BY <1>1, <1>2, <1>3, <1>4, <1>5, <1>6, <1>7, <1>8, <1>9, <1>10, <1>11, <1>12 DEF Next

LEMMA FollowsAgree == Types /\ Follows => CopyAgrees
<1> SUFFICES ASSUME Types, Follows, AtRest, NEW x \in Cells, x \notin odd \cup silent
             PROVE  Same(x, ui[x], store[x])
  BY DEF CopyAgrees
<1>1. /\ todo = Nothing /\ refresh.pc = "idle" /\ bus = <<>> /\ ~lagged /\ batch = Nowhere
      /\ \A p \in {"loop", "side"} : ~pulls[p].due /\ pulls[p].copy = Absent
  BY DEF AtRest, StoreRests, Idle, Types, PhoneTypes, Pulls
<1>2. PICK h, K : Chain(bus, h, K, x) /\ Begins(h, K, x) /\ Ends(h, K, x)
  BY DEF Follows, Paths, Path
<1>3. 0 \in K /\ Same(x, ui[x], h[0])
  BY <1>1, <1>2 DEF Begins, Calm, Held, Nowhere
<1>4. Same(x, h[0], store[x])
  <2>1. Len(bus) = 0 /\ ~Waits(x)
    BY <1>1 DEF Waits, Nothing
  <2> QED BY <1>1, <1>2, <1>3, <2>1 DEF Ends, Arrived, Nothing
<1> QED BY <1>3, <1>4, SameIsEquivalence

\* When nothing is under way the screen shows what the store holds, but for the
\* cells of the copy that a read or an older update overtook and the items
\* that the store changed without broadcasting them.
THEOREM CopyAlwaysAgrees == Spec => []CopyAgrees
<1>1. Spec => []Types
  BY InitTypes, StepTypes, PTL DEF Spec
<1>2. Types /\ Types' /\ Follows /\ [Next]_vars => Follows'
  BY StepFollows DEF Follows
<1>3. Spec => []Follows
  BY <1>1, <1>2, InitFollows, PTL DEF Spec
<1> QED BY <1>1, <1>3, FollowsAgree, PTL
=============================================================================
