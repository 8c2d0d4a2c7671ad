-------------------------- MODULE HostChannelProofs --------------------------
(***************************************************************************)
(* Proofs about HostChannel, for every number of devices, turns, events,   *)
(* grants, requests and concurrent handlers and for every value of the     *)
(* time constants that satisfies the assumptions.                          *)
(***************************************************************************)
EXTENDS HostChannel, FiniteSetTheorems, SequenceTheorems, WellFoundedInduction, TLAPS

\* A process that is in the middle of a delivery knows which one.
Busy == {"sending", "dropSub", "dropToken"}

TypeInv ==
  /\ TypeOK
  /\ \A p \in Procs : pc[p] \in Busy => cur[p] # None

-----------------------------------------------------------------------------
LEMMA RecordType ==
  ASSUME TypeOK, NEW state \in States, NEW n \in Nat
  PROVE  deliveryRecord(state, n) \in DeliveryRecord
BY TimesAssumption DEF deliveryRecord, DeliveryRecord, TypeOK

LEMMA EnsureAlarmType ==
  ASSUME NEW a \in Times, NEW t \in Nat
  PROVE  ensureAlarm(a, t) \in Nat
BY DEF ensureAlarm, Times

LEMMA AdmitAlarmType ==
  ASSUME TypeOK
  PROVE  AdmitAlarm \in Nat
<1>1. now + RATE_WINDOW \in Nat /\ now + HOST_NONCE_TTL \in Nat
  BY TimesAssumption DEF TypeOK
<1>2. ensureAlarm(alarm, now + RATE_WINDOW) \in Times
  BY <1>1, EnsureAlarmType DEF TypeOK, Times
<1> QED
  BY <1>1, <1>2, EnsureAlarmType DEF AdmitAlarm

LEMMA RetryDelayType ==
  ASSUME NEW n \in 1..MAX_DELIVERY_ATTEMPTS, NEW hint \in Nat
  PROVE  RetryDelay(n, hint) \in Nat
<1>1. 2^(n-1) \in Nat
  BY PowerAssumption
<1>2. RETRY_BASE * 2^(n-1) \in Nat
  <2> DEFINE x == 2^(n-1)
  <2> HIDE DEF x
  <2>1. x \in Nat
    BY <1>1 DEF x
  <2>2. RETRY_BASE * x \in Nat
    BY <2>1, TimesAssumption
  <2> QED
    BY <2>2 DEF x
<1>3. Backoff(n) \in Nat
  BY <1>2, TimesAssumption DEF Backoff
<1> QED
  BY <1>3, TimesAssumption DEF RetryDelay

LEMMA WindowType ==
  ASSUME TypeOK, NEW b \in Buckets
  PROVE  Window(b) \in Seq(Nat)
<1> DEFINE I == {i \in 1..Len(rl[b]) : RATE_WINDOW <= now - rl[b][i]}
<1>1. rl[b] \in Seq(Nat) /\ Len(rl[b]) \in Nat
  BY LenProperties DEF TypeOK
<1>2. IsFiniteSet(1..Len(rl[b]))
  BY <1>1, FS_Interval
<1>3. IsFiniteSet(I)
  BY <1>2, FS_Subset
<1>4. Cardinality(I) \in Nat
  BY <1>3, FS_CardinalityType
<1>5. \A i \in Cardinality(I) + 1 .. Len(rl[b]) : rl[b][i] \in Nat
  BY <1>1, <1>4, ElementOfSeq
<1>6. SubSeq(rl[b], Cardinality(I) + 1, Len(rl[b])) \in Seq(Nat)
  <2> HIDE DEF I
  <2> QED
    BY <1>1, <1>4, <1>5, SubSeqProperties
<1> QED
  BY <1>6 DEF Window

LEMMA ConsumeRateType ==
  ASSUME TypeOK, NEW b \in Buckets, consumeRate(b)
  PROVE  rl' \in [Buckets -> Seq(Nat)]
<1>1. Append(Window(b), now) \in Seq(Nat)
  BY WindowType, AppendProperties DEF TypeOK
<1> QED
  BY <1>1 DEF consumeRate, TypeOK

LEMMA KeysDeletedType ==
  ASSUME TypeOK, NEW S, deleteKeys(S)
  PROVE  /\ sub' \in [SubIds -> Grants \cup {None}]
         /\ idx' \in [Keys -> SubIds \cup {None}]
         /\ retry' \in [Deliveries -> RetryRecord \cup {None}]
<1>1. sub' \in [SubIds -> Grants \cup {None}]
  BY DEF deleteKeys, TypeOK
<1>2. idx' \in [Keys -> SubIds \cup {None}]
  BY DEF deleteKeys, idxWithout, TypeOK
<1>3. retry' \in [Deliveries -> RetryRecord \cup {None}]
  BY DEF deleteKeys, retryWithout, TypeOK, RetryRecord
<1> QED
  BY <1>1, <1>2, <1>3

LEMMA FinalizedType ==
  ASSUME TypeOK, NEW S, NEW state \in States
  PROVE  finalized(S, state) \in [Deliveries -> DeliveryRecord \cup {None}]
<1>1. \A d \in Deliveries : retry[d] # None => retry[d].attempts \in Nat
  BY DEF TypeOK, RetryRecord
<1>2. \A d \in Deliveries : retry[d] # None =>
        deliveryRecord(state, retry[d].attempts) \in DeliveryRecord
  BY <1>1, RecordType
<1> QED
  BY <1>2 DEF finalized, TypeOK, DeliveryRecord

LEMMA RemovalType ==
  ASSUME TypeOK, NEW S, NEW state \in States, removeSubscriptions(S, state)
  PROVE  /\ sub' \in [SubIds -> Grants \cup {None}]
         /\ idx' \in [Keys -> SubIds \cup {None}]
         /\ retry' \in [Deliveries -> RetryRecord \cup {None}]
         /\ evt' \in [Deliveries -> DeliveryRecord \cup {None}]
BY KeysDeletedType, FinalizedType DEF removeSubscriptions
NatLess == {x \in Nat \X Nat : x[1] < x[2]}

LEMMA NatLessIsWellFounded == IsWellFoundedOn(NatLess, Nat)
BY NatLessThanWellFounded, Zenon DEF OpToRel, NatLess

LEMMA EarliestExists ==
  ASSUME NEW T \in SUBSET Nat, T # {}
  PROVE  Earliest(T) \in T /\ \A t \in T : Earliest(T) <= t
<1>1. \E t \in T : \A u \in T : ~ (<<u, t>> \in NatLess)
  BY NatLessIsWellFounded, WFMin
<1>2. \A t, u \in T : <<u, t>> \notin NatLess => t <= u
  BY DEF NatLess
<1>3. \E t \in T : \A u \in T : t <= u
  BY <1>1, <1>2
<1> QED
  BY <1>3 DEF Earliest

-----------------------------------------------------------------------------
(***************************************************************************)
(* Type correctness.                                                       *)
(***************************************************************************)
LEMMA TypeInit == Init => TypeInv
<1> SUFFICES ASSUME Init PROVE TypeInv
  OBVIOUS
<1>1. rl \in [Buckets -> Seq(Nat)]
  <2>1. <<>> \in Seq(Nat)
    BY EmptySeq
  <2> QED
    BY <2>1 DEF Init
<1> QED
  BY <1>1 DEF Init, TypeInv, TypeOK, Times, Busy

\* What a registration writes.
LEMMA FirstExpiryType ==
  ASSUME TypeOK, NEW g \in Grants, NEW s \in Existing(g)
  PROVE  /\ s \in Subs /\ Held(g, s) \in Grants /\ Held(g, s) \in {g, sub[s]}
         /\ FirstExpiry(g, s) \in Nat /\ g.expiresAt \in Nat /\ Held(g, s).expiresAt \in Nat
         /\ FirstExpiry(g, s) <= Held(g, s).expiresAt /\ FirstExpiry(g, s) <= g.expiresAt
<1>1. s \in Subs /\ sub[s] \in Grants
  BY DEF Existing, Registered, Subs, TypeOK
<1>2. Held(g, s) \in Grants /\ Held(g, s) \in {g, sub[s]}
  BY <1>1 DEF Held
<1>3. Held(g, s).expiresAt \in Nat /\ g.expiresAt \in Nat
  BY <1>2, GrantsAssumption DEF Grant
<1> QED
  BY <1>1, <1>2, <1>3 DEF FirstExpiry

LEMMA RefreshesType ==
  ASSUME TypeOK, NEW g \in Grants, NEW s \in Existing(g), Refreshes(g, s)
  PROVE  /\ sub' \in [SubIds -> Grants \cup {None}]
         /\ used' \subseteq Grants
         /\ idx' \in [Keys -> SubIds \cup {None}]
         /\ evt' \in [Deliveries -> DeliveryRecord \cup {None}]
         /\ retry' \in [Deliveries -> RetryRecord \cup {None}]
         /\ origin' \in [SubIds -> Grants \cup {None}]
<1>1. Held(g, s) \in Grants
  BY FirstExpiryType
<1>2. sub' \in [SubIds -> Grants \cup {None}]
  BY <1>1 DEF Refreshes, TypeOK
<1> QED
  BY <1>2 DEF Refreshes, TypeOK, DeliveryRecord, RetryRecord

LEMMA RegistersType ==
  ASSUME TypeOK, NEW g \in Grants, Registers(g)
  PROVE  /\ sub' \in [SubIds -> Grants \cup {None}]
         /\ used' \subseteq Grants
         /\ idx' \in [Keys -> SubIds \cup {None}]
         /\ evt' \in [Deliveries -> DeliveryRecord \cup {None}]
         /\ retry' \in [Deliveries -> RetryRecord \cup {None}]
         /\ origin' \in [SubIds -> Grants \cup {None}]
<1>1. indexKey(g) \in Keys
  BY GrantsAssumption DEF Grant, indexKey, Keys
<1>2. evt' \in [Deliveries -> DeliveryRecord \cup {None}]
  BY FinalizedType DEF Registers, States
<1>3. retry' \in [Deliveries -> RetryRecord \cup {None}]
  BY DEF Registers, retryWithout, TypeOK, RetryRecord
<1>4. PICK s \in SubIds :
        /\ sub' = [t \in SubIds |-> CASE t = s -> g
                                      [] t \in Stale(g) -> None
                                      [] OTHER -> sub[t]]
        /\ idx' = [idx EXCEPT ![indexKey(g)] = s]
        /\ origin' = [origin EXCEPT ![s] = g]
  BY DEF Registers
<1>5. used' \subseteq Grants
  BY DEF Registers, TypeOK
<1> QED
  BY <1>1, <1>2, <1>3, <1>4, <1>5 DEF TypeOK

LEMMA TypeSubscribe ==
  ASSUME TypeInv, NEW n \in Nonces, NEW g \in Grants, Subscribe(n, g)
  PROVE  TypeInv'
<1> USE DEF TypeInv
<1>1. SubscribeRequest(n, g) 
  BY DEF Subscribe, SubscribeRevoked, SubscribeAgain, SubscribeReused, SubscribeRefresh, SubscribeNew
<1>2. rl' \in [Buckets -> Seq(Nat)]
  BY <1>1, ConsumeRateType DEF SubscribeRequest, Admit, Admitted, Buckets
<1>3. /\ g \in Grant /\ g.expiresAt \in Nat /\ indexKey(g) \in Keys
      /\ \A s \in Subs : sub[s] \in Grants /\ sub[s].expiresAt \in Nat
  BY GrantsAssumption DEF Grant, indexKey, Keys, Subs, TypeOK
<1>4. AdmitAlarm \in Nat
  BY AdmitAlarmType
<1>5. /\ nonce' \in [Nonces -> Times]
      /\ drawn' \subseteq Nonces
      /\ UNCHANGED <<now, fired, blocked, restarts, revoked, pc, at, todo, cur, gate, revPoint,
                     unarmed, torn>>
  BY <1>1, TimesAssumption DEF SubscribeRequest, Admit, Admitted, rememberNonce, TypeOK, Times
<1>6. /\ sub' \in [SubIds -> Grants \cup {None}]
      /\ idx' \in [Keys -> SubIds \cup {None}]
      /\ evt' \in [Deliveries -> DeliveryRecord \cup {None}]
      /\ retry' \in [Deliveries -> RetryRecord \cup {None}]
      /\ used' \subseteq Grants
      /\ alarm' \in Times
      /\ origin' \in [SubIds -> Grants \cup {None}]
  <2>1. CASE SubscribeRevoked(n, g)
    BY <2>1, <1>4 DEF SubscribeRevoked, TypeOK, Times, DeliveryRecord, RetryRecord
  <2>2. CASE SubscribeAgain(n, g)
    BY <2>2, <1>4 DEF SubscribeAgain, TypeOK, Times, DeliveryRecord, RetryRecord
  <2>3. CASE SubscribeReused(n, g)
    <3>1. removeSubscriptions(Stale(g), "failed")
      BY <2>3 DEF SubscribeReused
    <3> QED
      BY <2>3, <3>1, <1>4, RemovalType DEF SubscribeReused, TypeOK, Times, States
  <2>4. CASE SubscribeRefresh(n, g)
    <3>1. PICK s \in Existing(g) : /\ Refreshes(g, s)
                                   /\ alarm' = ensureAlarm(AdmitAlarm, FirstExpiry(g, s))
      BY <2>4 DEF SubscribeRefresh
    <3>2. FirstExpiry(g, s) \in Nat
      BY FirstExpiryType
    <3>3. alarm' \in Times
      BY <3>1, <3>2, <1>4, EnsureAlarmType DEF Times
    <3> QED
      BY <3>1, <3>3, RefreshesType
  <2>5. CASE SubscribeNew(n, g)
    <3>1. alarm' \in Times
      BY <2>5, <1>3, <1>4, EnsureAlarmType DEF SubscribeNew, Times
    <3> QED
      BY <2>5, <3>1, RegistersType DEF SubscribeNew
  <2> QED
    BY <2>1, <2>2, <2>3, <2>4, <2>5 DEF Subscribe
<1> QED
  BY <1>2, <1>5, <1>6 DEF TypeOK, DeliveryRecord, RetryRecord

LEMMA RevocationPointType ==
  ASSUME TypeOK, NEW d \in Devices, NEW ts \in Nat
  PROVE  RevocationPoint(d, ts) \in Nat
BY DEF RevocationPoint, TypeOK, Times

LEMMA RememberType ==
  ASSUME TypeOK, NEW n \in Nonces, rememberNonce(n)
  PROVE  nonce' \in [Nonces -> Times] /\ drawn' \subseteq Nonces
BY TimesAssumption DEF rememberNonce, TypeOK, Times

LEMMA RevokesType ==
  ASSUME TypeOK, NEW n \in Nonces, NEW d \in Devices, NEW ts \in Nat, Revokes(n, d, ts)
  PROVE  /\ sub' \in [SubIds -> Grants \cup {None}]
         /\ idx' \in [Keys -> SubIds \cup {None}]
         /\ retry' \in [Deliveries -> RetryRecord \cup {None}]
         /\ evt' \in [Deliveries -> DeliveryRecord \cup {None}]
         /\ revoked' \in [Devices -> Times] /\ revPoint' \in [Devices -> Times]
         /\ nonce' \in [Nonces -> Times] /\ drawn' \subseteq Nonces
<1>1. removeSubscriptions(DeviceSubs(d), "failed") /\ rememberNonce(n)
  BY DEF Revokes
<1>2. revPoint' \in [Devices -> Times]
  BY DEF Revokes, TypeOK, Times
<1>3. revoked' \in [Devices -> Times]
  BY RevocationPointType DEF Revokes, TypeOK, Times
<1>4. "failed" \in States
  BY DEF States
<1> QED
  BY <1>1, <1>2, <1>3, <1>4, RemovalType, RememberType

LEMMA TypeRevoke ==
  ASSUME TypeInv, NEW n \in Nonces, NEW d \in Devices,
         NEW ts \in 0..(now + SIGNATURE_WINDOW),
         Revoke(n, d, ts) \/ RevokeRefused(n, d, ts)
  PROVE  TypeInv'
<1> USE DEF TypeInv
<1>1. RevokeRequest(n, d, ts)
  BY DEF Revoke, RevokeRefused
<1>2. rl' \in [Buckets -> Seq(Nat)]
  BY <1>1, ConsumeRateType DEF RevokeRequest, RevokeAdmitted, Buckets
<1>3. UNCHANGED <<now, used, fired, pc, at, todo, cur, gate, blocked, restarts, origin,
                  unarmed, torn>>
  BY <1>1 DEF RevokeRequest, memory
<1>4. ts \in Nat /\ now + RATE_WINDOW \in Nat
  BY TimesAssumption DEF TypeOK
<1>5. CASE RevokeRefused(n, d, ts)
  <2>1. alarm' \in Times
    BY <1>4, <1>5, EnsureAlarmType DEF RevokeRefused, TypeOK, Times
  <2> QED
    BY <1>2, <1>3, <1>5, <2>1 DEF RevokeRefused, TypeOK
<1>6. CASE Revoke(n, d, ts)
  <2>1. Revokes(n, d, ts)
        /\ alarm' = ensureAlarm(AdmitAlarm, RevocationPoint(d, ts) + REVOCATION_TTL)
    BY <1>6 DEF Revoke
  <2>2. RevocationPoint(d, ts) + REVOCATION_TTL \in Nat
    BY <1>4, RevocationPointType, TimesAssumption
  <2>3. alarm' \in Times
    BY <2>1, <2>2, AdmitAlarmType, EnsureAlarmType DEF Times
  <2> QED
    BY <1>2, <1>3, <1>4, <2>1, <2>3, RevokesType DEF TypeOK, Times, DeliveryRecord, RetryRecord
<1> QED
  BY <1>5, <1>6

LEMMA TypeUnsubscribe ==
  ASSUME TypeInv, NEW n \in Nonces, NEW s \in SubIds, Unsubscribe(n, s)
  PROVE  TypeInv'
<1> USE DEF TypeInv
<1>1. rl' \in [Buckets -> Seq(Nat)]
  BY ConsumeRateType DEF Unsubscribe, Admit, Admitted, Buckets
<1>2. removeSubscriptions({s}, "failed")
  BY DEF Unsubscribe
<1>3. alarm' \in Times
  BY AdmitAlarmType DEF Unsubscribe, Times
<1>4. nonce' \in [Nonces -> Times] /\ drawn' \subseteq Nonces
  BY RememberType DEF Unsubscribe, Admit, Admitted
<1>5. UNCHANGED <<now, used, revoked, fired, pc, at, todo, cur, gate, blocked, restarts,
                  origin, revPoint, unarmed, torn>>
  BY DEF Unsubscribe, Admit
<1>6. /\ sub' \in [SubIds -> Grants \cup {None}]
      /\ idx' \in [Keys -> SubIds \cup {None}]
      /\ retry' \in [Deliveries -> RetryRecord \cup {None}]
      /\ evt' \in [Deliveries -> DeliveryRecord \cup {None}]
  BY <1>2, RemovalType DEF States
<1> QED
  BY <1>1, <1>3, <1>4, <1>5, <1>6 DEF TypeOK, DeliveryRecord, RetryRecord

LEMMA TypeReport ==
  ASSUME TypeInv, NEW n \in Nonces, NEW p \in Reporters, NEW e \in Events, Report(p, n, e)
  PROVE  TypeInv'
<1> USE DEF TypeInv
<1>1. rl' \in [Buckets -> Seq(Nat)]
  BY ConsumeRateType DEF Report, Admit, Admitted, Buckets
<1>2. alarm' \in Times
  BY AdmitAlarmType DEF Report, Times
<1>3. nonce' \in [Nonces -> Times] /\ drawn' \subseteq Nonces
  BY RememberType DEF Report, Admit, Admitted
<1>4. [event : {e}, sub : Matches(e) \ Seen(e), attempts : {0}] \subseteq Pending
  BY DEF Matches, Pending
<1>5. todo' \in [Procs -> SUBSET Pending]
  BY <1>4 DEF Report, TypeOK
<1>6. UNCHANGED <<now, sub, idx, evt, retry, used, revoked, cur, origin, revPoint,
                  fired, blocked, restarts, unarmed, torn>>
  BY DEF Report, Admit, history
<1>7. pc' = [pc EXCEPT ![p] = "loop"] /\ at' = [at EXCEPT ![p] = now] /\ gate' = p /\ p \in Procs
  BY DEF Report, Procs
<1>8. \A q \in Procs : pc'[q] \in Busy => cur'[q] # None
  BY <1>6, <1>7 DEF TypeOK, Busy
<1> QED
  BY <1>1, <1>2, <1>3, <1>5, <1>6, <1>7, <1>8 DEF TypeOK

LEMMA LeaseType ==
  ASSUME TypeOK, NEW m \in Pending, Lease(m)
  PROVE  /\ evt' \in [Deliveries -> DeliveryRecord \cup {None}]
         /\ retry' \in [Deliveries -> RetryRecord \cup {None}]
<1>1. Key(m) \in Deliveries /\ Attempt(m) \in Nat
  BY DEF Pending, Key, Deliveries, Attempt
<1>2. deliveryRecord("retrying", Attempt(m)) \in DeliveryRecord
  BY <1>1, RecordType DEF States
<1>3. now + SEND_LEASE \in Nat
  BY TimesAssumption DEF TypeOK
<1>4. evt' \in [Deliveries -> DeliveryRecord \cup {None}]
  BY <1>2 DEF Lease, TypeOK, DeliveryRecord
<1> QED
  BY <1>1, <1>3, <1>4 DEF Lease, TypeOK, RetryRecord

LEMMA TypeStartSend ==
  ASSUME TypeInv, NEW p \in Procs, NEW m \in todo[p], sub[m.sub] # None, StartSend(p, m)
  PROVE  TypeInv'
<1> USE DEF TypeInv
<1>1. /\ m \in Pending /\ m.event \in Events /\ m.sub \in SubIds
      /\ m.attempts \in Nat /\ m.attempts + 1 \in Nat \ {0}
  BY DEF TypeOK, Pending
<1>2. sub[m.sub] \in Grants
  BY <1>1 DEF TypeOK
<1>5. evt' \in [Deliveries -> DeliveryRecord \cup {None}]
  BY <1>1, LeaseType DEF StartSend
<1>6. now + SEND_LEASE \in Nat
  BY TimesAssumption DEF TypeOK
<1>7. retry' \in [Deliveries -> RetryRecord \cup {None}]
  BY <1>1, LeaseType DEF StartSend
<1>8. alarm' \in Times
  BY <1>6, EnsureAlarmType DEF StartSend, Attempt, TypeOK, Times
<1>9. [event |-> m.event, sub |-> m.sub, attempts |-> m.attempts + 1,
       grant |-> sub[m.sub], since |-> now] \in Sending
  BY <1>1, <1>2, GrantsAssumption DEF Sending, TypeOK
<1>10. cur' \in [Procs -> Sending \cup {None}]
  BY <1>9 DEF StartSend, Attempt, TypeOK
<1>11. todo' \in [Procs -> SUBSET Pending] /\ gate' = None
       /\ pc' = [pc EXCEPT ![p] = "sending"]
  BY DEF StartSend, Attempt, TypeOK
<1>12. UNCHANGED <<now, sub, idx, used, revoked, nonce, rl, fired, at, blocked, restarts,
                   drawn, origin, revPoint, unarmed, torn>>
  BY DEF StartSend, Attempt, env, history
<1>13. None \notin Sending
  BY NoneAssumption
<1>14. cur'[p] # None
  BY <1>9, <1>13 DEF StartSend, Attempt, TypeOK
<1>15. \A q \in Procs : pc'[q] \in Busy => cur'[q] # None
  BY <1>11, <1>14 DEF StartSend, Attempt, TypeOK
<1> QED
  BY <1>5, <1>7, <1>8, <1>10, <1>11, <1>12, <1>15 DEF TypeOK, DeliveryRecord, RetryRecord

\* What a process in the middle of a delivery holds.
LEMMA CurType ==
  ASSUME TypeInv, NEW p \in Procs, pc[p] \in Busy
  PROVE  /\ cur[p] \in Sending
         /\ cur[p].attempts \in Nat \ {0}
         /\ cur[p].sub \in SubIds
         /\ Key(cur[p]) \in Deliveries
BY DEF TypeInv, TypeOK, Sending, Key, Deliveries

LEMMA ReschedulesType ==
  ASSUME TypeInv, NEW p \in Procs, pc[p] \in Busy, NEW hint \in RetryHints, Reschedules(p, hint)
  PROVE  /\ RetryAt(p, hint) \in Nat
         /\ evt' \in [Deliveries -> DeliveryRecord \cup {None}]
         /\ retry' \in [Deliveries -> RetryRecord \cup {None}]
<1> USE DEF TypeInv
<1>1. cur[p].attempts \in Nat \ {0} /\ Key(cur[p]) \in Deliveries
  BY CurType
<1>2. cur[p].attempts \in 1..MAX_DELIVERY_ATTEMPTS
  BY <1>1, TimesAssumption DEF Reschedules
<1>3. RetryAt(p, hint) \in Nat
  <2>1. RetryDelay(cur[p].attempts, hint) \in Nat
    BY <1>2, RetryDelayType, TimesAssumption
  <2> QED
    BY <2>1 DEF RetryAt, TypeOK
<1>4. deliveryRecord("retrying", cur[p].attempts) \in DeliveryRecord
  BY <1>1, RecordType DEF States
<1>5. evt' \in [Deliveries -> DeliveryRecord \cup {None}]
  BY <1>4 DEF Reschedules, TypeOK, DeliveryRecord
<1>6. retry' \in [Deliveries -> RetryRecord \cup {None}]
  BY <1>1, <1>3 DEF Reschedules, TypeOK, RetryRecord
<1> QED
  BY <1>3, <1>5, <1>6

LEMMA TypeProviderAnswer ==
  ASSUME TypeInv, NEW p \in Procs, ProviderAnswer(p)
  PROVE  TypeInv'
<1> USE DEF TypeInv
<1>1. pc[p] \in Busy
  BY DEF ProviderAnswer, SendRetrying, SendFinal, SendThrows, Answered, Busy
<1>2. cur[p].attempts \in Nat \ {0} /\ Key(cur[p]) \in Deliveries
  BY <1>1, CurType
<1>3. ASSUME NEW hint \in RetryHints, SendRetrying(p, hint)
      PROVE  TypeInv'
  <2>1. Reschedules(p, hint)
    BY <1>3 DEF SendRetrying
  <2>2. RetryAt(p, hint) \in Nat
    BY <1>1, <2>1, ReschedulesType
  <2>4. evt' \in [Deliveries -> DeliveryRecord \cup {None}]
    BY <1>1, <2>1, ReschedulesType
  <2>5. retry' \in [Deliveries -> RetryRecord \cup {None}]
    BY <1>1, <2>1, ReschedulesType
  <2>6. alarm' \in Times
    BY <1>3, <2>2, EnsureAlarmType DEF SendRetrying, TypeOK, Times
  <2>7. /\ pc' = [pc EXCEPT ![p] = "loop"]
        /\ cur' = [cur EXCEPT ![p] = None]
        /\ gate' = p
        /\ UNCHANGED <<now, sub, idx, used, revoked, nonce, rl, fired, at, todo, blocked,
                       restarts, drawn, origin, revPoint, unarmed, torn>>
    BY <1>3 DEF SendRetrying, Answered, env, history
  <2>8. \A q \in Procs : pc'[q] \in Busy => cur'[q] # None
    BY <2>7 DEF TypeOK, Busy
  <2> QED
    BY <2>4, <2>5, <2>6, <2>7, <2>8 DEF TypeOK, DeliveryRecord, RetryRecord
<1>4. ASSUME NEW state \in States \ {"retrying"}, SendFinal(p, state)
      PROVE  TypeInv'
  <2>1. deliveryRecord(state, cur[p].attempts) \in DeliveryRecord
    BY <1>2, RecordType
  <2>2. evt' \in [Deliveries -> DeliveryRecord \cup {None}]
    BY <1>4, <2>1 DEF SendFinal, TypeOK, DeliveryRecord
  <2>3. retry' \in [Deliveries -> RetryRecord \cup {None}]
    BY <1>4 DEF SendFinal, TypeOK, RetryRecord
  <2>4. pc' \in [Procs -> {"idle", "loop", "sending", "dropSub", "dropToken"}]
    BY <1>4 DEF SendFinal, TypeOK
  <2>5. UNCHANGED <<now, sub, idx, used, revoked, nonce, rl, alarm, fired, at, todo, cur,
                    blocked, restarts, drawn, origin, revPoint, unarmed, torn>> /\ gate' = p
    BY <1>4 DEF SendFinal, Answered, env, history
  <2>6. \A q \in Procs : pc'[q] \in Busy => cur'[q] # None
    BY <1>1, <1>4 DEF SendFinal, TypeOK, Busy
  <2> QED
    BY <2>2, <2>3, <2>4, <2>5, <2>6 DEF TypeOK, DeliveryRecord, RetryRecord
<1>5. CASE SendThrows(p)
  <2>1. UNCHANGED <<now, sub, idx, evt, retry, used, revoked, nonce, rl, alarm, fired,
                    blocked, restarts, drawn, origin, revPoint, unarmed, torn>>
    BY <1>5 DEF SendThrows, storage, env, history
  <2>2. /\ pc' \in [Procs -> {"idle", "loop", "sending", "dropSub", "dropToken"}]
        /\ cur' \in [Procs -> Sending \cup {None}]
        /\ todo' \in [Procs -> SUBSET Pending]
        /\ at' \in [Procs -> Nat]
        /\ gate' \in Procs \cup {None}
    <3>1. CASE p = Alarm /\ gate' = p /\ UNCHANGED <<todo, at>> /\ pc' = [pc EXCEPT ![p] = "loop"]
      BY <1>5, <3>1 DEF SendThrows, TypeOK
    <3>2. CASE p \in Reporters /\ UNCHANGED gate /\ pc' = [pc EXCEPT ![p] = "idle"]
               /\ todo' = [todo EXCEPT ![p] = {}] /\ at' = [at EXCEPT ![p] = 0]
      BY <1>5, <3>2 DEF SendThrows, TypeOK
    <3> QED
      BY <1>5, <3>1, <3>2 DEF SendThrows
  <2>3. \A q \in Procs : pc'[q] \in Busy => cur'[q] # None
    BY <1>5 DEF SendThrows, TypeOK, Busy
  <2> QED
    BY <2>1, <2>2, <2>3 DEF TypeOK
<1> QED
  BY <1>3, <1>4, <1>5 DEF ProviderAnswer

LEMMA TypeDropAfterSend ==
  ASSUME TypeInv, NEW p \in Procs, DropAfterSend(p)
  PROVE  TypeInv'
<1> USE DEF TypeInv
<1>1. \/ removeSubscriptions({cur[p].sub}, "failed")
      \/ removeSubscriptions({s \in Subs : sub[s].token = cur[p].grant.token}, "invalid_token")
  BY DEF DropAfterSend
<1>2. /\ sub' \in [SubIds -> Grants \cup {None}]
      /\ idx' \in [Keys -> SubIds \cup {None}]
      /\ retry' \in [Deliveries -> RetryRecord \cup {None}]
      /\ evt' \in [Deliveries -> DeliveryRecord \cup {None}]
  BY <1>1, RemovalType DEF States
<1>3. /\ pc' = [pc EXCEPT ![p] = "loop"]
      /\ cur' = [cur EXCEPT ![p] = None]
      /\ UNCHANGED <<now, used, revoked, nonce, rl, alarm, fired, at, todo, gate, blocked,
                     restarts, drawn, origin, revPoint, unarmed, torn>>
  BY DEF DropAfterSend, env, history
<1>4. \A q \in Procs : pc'[q] \in Busy => cur'[q] # None
  BY <1>3 DEF TypeOK, Busy
<1> QED
  BY <1>2, <1>3, <1>4 DEF TypeOK, DeliveryRecord, RetryRecord

LEMMA TypeReportStep ==
  ASSUME TypeInv, NEW p \in Reporters, ReportStep(p)
  PROVE  TypeInv'
<1> USE DEF TypeInv
<1>1. ASSUME NEW m \in todo[p], ReportSkip(p, m)
      PROVE  TypeInv'
  BY <1>1 DEF ReportSkip, TypeOK, storage, env, history
<1>2. ASSUME NEW m \in todo[p], ReportSend(p, m)
      PROVE  TypeInv'
  BY <1>2, TypeStartSend DEF ReportSend, Live, Procs
<1>3. CASE ReportEnd(p)
  BY <1>3 DEF ReportEnd, TypeOK, storage, env, history, Busy
<1> QED
  BY <1>1, <1>2, <1>3 DEF ReportStep

LEMMA TypeAlarmFire ==
  ASSUME TypeInv, AlarmFire
  PROVE  TypeInv'
<1> USE DEF TypeInv
<1> DEFINE due == {m \in {[event |-> d[1], sub |-> d[2], attempts |-> retry[d].attempts] :
                            d \in {x \in Deliveries : retry[x] # None}} :
                     retry[Key(m)].nextAt <= now}
<1>1. \A d \in Deliveries : retry[d] # None =>
        [event |-> d[1], sub |-> d[2], attempts |-> retry[d].attempts] \in Pending
  BY DEF TypeOK, RetryRecord, Deliveries, Pending
<1>2. due \subseteq Pending
  BY <1>1
<1>3. todo' \in [Procs -> SUBSET Pending]
  <2>1. todo' = [todo EXCEPT ![Alarm] = due]
    BY DEF AlarmFire
  <2> HIDE DEF due
  <2> QED
    BY <1>2, <2>1 DEF TypeOK
<1>4. /\ fired' = alarm /\ alarm' = None /\ gate' = Alarm /\ Alarm \in Procs
      /\ pc' = [pc EXCEPT ![Alarm] = "loop"]
      /\ at' = [at EXCEPT ![Alarm] = now]
      /\ UNCHANGED <<now, sub, idx, evt, retry, used, revoked, nonce, rl, cur, blocked,
                     restarts, drawn, origin, revPoint, unarmed, torn>>
  BY DEF AlarmFire, env, history, Procs
<1>5. \A q \in Procs : pc'[q] \in Busy => cur'[q] # None
  BY <1>4 DEF TypeOK, Busy
<1> QED
  BY <1>3, <1>4, <1>5 DEF TypeOK, Times

\* The part of TypeOK the wake-ups depend on.
RecordsOK ==
  /\ sub \in [SubIds -> Grants \cup {None}]
  /\ evt \in [Deliveries -> DeliveryRecord \cup {None}]
  /\ retry \in [Deliveries -> RetryRecord \cup {None}]
  /\ used \subseteq Grants
  /\ revoked \in [Devices -> Times]
  /\ nonce \in [Nonces -> Times]
  /\ rl \in [Buckets -> Seq(Nat)]

\* Every wake-up time is a number.
LEMMA WakeupsType == RecordsOK => Wakeups \subseteq Nat
<1> SUFFICES ASSUME RecordsOK PROVE Wakeups \subseteq Nat
  OBVIOUS
<1>1. \A g \in Grants : g.expiresAt \in Nat
  BY GrantsAssumption DEF Grant
<1>2. {sub[s].expiresAt : s \in Subs} \subseteq Nat
  BY <1>1 DEF Subs, RecordsOK
<1>3. {retry[d].nextAt : d \in {x \in Deliveries : retry[x] # None}} \subseteq Nat
  BY DEF RecordsOK, RetryRecord
<1>4. {evt[d].exp : d \in {x \in Deliveries : evt[x] # None}} \subseteq Nat
  BY DEF RecordsOK, DeliveryRecord
<1>5. {g.expiresAt : g \in used} \subseteq Nat
  BY <1>1 DEF RecordsOK
<1>6. {revoked[d] + REVOCATION_TTL : d \in {x \in Devices : revoked[x] # None}} \subseteq Nat
  BY TimesAssumption DEF RecordsOK, Times
<1>7. {nonce[n] : n \in {x \in Nonces : nonce[x] # None}} \subseteq Nat
  BY DEF RecordsOK, Times
<1>8. {rl[b][Len(rl[b])] + RATE_WINDOW : b \in {x \in Buckets : rl[x] # <<>>}} \subseteq Nat
  <2>1. ASSUME NEW b \in Buckets, rl[b] # <<>>
        PROVE  rl[b][Len(rl[b])] + RATE_WINDOW \in Nat
    <3>1. rl[b] \in Seq(Nat)
      BY DEF RecordsOK
    <3>2. Len(rl[b]) \in 1..Len(rl[b])
      BY <2>1, <3>1, LenProperties, EmptySeq
    <3>3. rl[b][Len(rl[b])] \in Nat
      BY <3>1, <3>2, ElementOfSeq
    <3> QED
      BY <3>3, TimesAssumption
  <2> QED
    BY <2>1
<1> QED
  BY <1>2, <1>3, <1>4, <1>5, <1>6, <1>7, <1>8 DEF Wakeups

LEMMA TypeCleanup ==
  ASSUME TypeInv, Cleanup
  PROVE  TypeInv'
<1> USE DEF TypeInv
<1>1. /\ UNCHANGED <<now, retry, todo, cur, blocked, restarts, drawn, origin, revPoint, torn>>
      /\ fired' = None /\ gate' = None /\ unarmed' = FALSE
      /\ pc' = [pc EXCEPT ![Alarm] = "idle"]
      /\ at' = [at EXCEPT ![Alarm] = 0]
  BY DEF Cleanup, env, history
<1>2. sub' \in [SubIds -> Grants \cup {None}] /\ idx' \in [Keys -> SubIds \cup {None}]
  BY DEF Cleanup, TypeOK
<1>3. evt' \in [Deliveries -> DeliveryRecord \cup {None}] /\ used' \subseteq Grants
  BY DEF Cleanup, TypeOK
<1>4. revoked' \in [Devices -> Times] /\ nonce' \in [Nonces -> Times]
  BY DEF Cleanup, TypeOK, Times
<1>5. rl' \in [Buckets -> Seq(Nat)]
  <2>1. <<>> \in Seq(Nat)
    BY EmptySeq
  <2> QED
    BY <2>1 DEF Cleanup, ratesPruned, TypeOK
<1>6. \A q \in Procs : pc'[q] \in Busy => cur'[q] # None
  BY <1>1 DEF TypeOK, Busy
<1>7. /\ pc' \in [Procs -> {"idle", "loop", "sending", "dropSub", "dropToken"}]
      /\ at' \in [Procs -> Nat]
  BY <1>1 DEF TypeOK
<1>8. Wakeups' \subseteq Nat
  <2>1. RecordsOK'
    BY <1>1, <1>2, <1>3, <1>4, <1>5 DEF RecordsOK, TypeOK, Times
  <2>2. (RecordsOK => Wakeups \subseteq Nat)'
    BY WakeupsType, PTL
  <2> QED
    BY <2>1, <2>2
<1>9. alarm' \in Times
  <2>1. alarm' = IF Wakeups' = {} THEN alarm ELSE ensureAlarm(alarm, Earliest(Wakeups'))
    BY DEF Cleanup
  <2>2. CASE Wakeups' = {}
    BY <2>1, <2>2 DEF TypeOK
  <2>3. CASE Wakeups' # {}
    <3>1. Earliest(Wakeups') \in Nat
      BY <1>8, <2>3, EarliestExists
    <3> QED
      BY <2>1, <2>3, <3>1, EnsureAlarmType DEF TypeOK, Times
  <2> QED
    BY <2>2, <2>3
<1> QED
  BY <1>1, <1>2, <1>3, <1>4, <1>5, <1>6, <1>7, <1>9 DEF TypeOK, Times

LEMMA TypeAlarmStep ==
  ASSUME TypeInv, AlarmStep
  PROVE  TypeInv'
<1> USE DEF TypeInv
<1>1. ASSUME NEW m \in todo[Alarm], RetryOrphan(m)
      PROVE  TypeInv'
  <2>1. m.attempts \in Nat
    BY <1>1 DEF TypeOK, Pending, Procs
  <2>2. deliveryRecord("failed", m.attempts) \in DeliveryRecord
    BY <2>1, RecordType DEF States
  <2>3. evt' \in [Deliveries -> DeliveryRecord \cup {None}]
    BY <1>1, <2>2 DEF RetryOrphan, TypeOK
  <2>4. retry' \in [Deliveries -> RetryRecord \cup {None}]
    BY <1>1 DEF RetryOrphan, TypeOK
  <2>5. todo' \in [Procs -> SUBSET Pending]
    BY <1>1 DEF RetryOrphan, TypeOK
  <2>6. UNCHANGED <<now, sub, idx, used, revoked, nonce, rl, alarm, fired, pc, at, cur, gate,
                    blocked, restarts, drawn, origin, revPoint, unarmed, torn>>
    BY <1>1 DEF RetryOrphan, env, history
  <2> QED
    BY <2>3, <2>4, <2>5, <2>6 DEF TypeOK
<1>2. ASSUME NEW m \in todo[Alarm], RetryBlocked(m)
      PROVE  TypeInv'
  <2>1. removeSubscriptions({m.sub}, "failed")
    BY <1>2 DEF RetryBlocked
  <2>2. /\ sub' \in [SubIds -> Grants \cup {None}]
        /\ idx' \in [Keys -> SubIds \cup {None}]
        /\ retry' \in [Deliveries -> RetryRecord \cup {None}]
        /\ evt' \in [Deliveries -> DeliveryRecord \cup {None}]
    BY <2>1, RemovalType DEF States
  <2>3. todo' \in [Procs -> SUBSET Pending]
    BY <1>2 DEF RetryBlocked, TypeOK
  <2>4. UNCHANGED <<now, used, revoked, nonce, rl, alarm, fired, pc, at, cur, gate,
                    blocked, restarts, drawn, origin, revPoint, unarmed, torn>>
    BY <1>2 DEF RetryBlocked, env, history
  <2> QED
    BY <2>2, <2>3, <2>4 DEF TypeOK
<1>3. ASSUME NEW m \in todo[Alarm], RetrySend(m)
      PROVE  TypeInv'
  BY <1>3, TypeStartSend DEF RetrySend, Live, Procs
<1>4. CASE Cleanup
  BY <1>4, TypeCleanup
<1> QED
  BY <1>1, <1>2, <1>3, <1>4 DEF AlarmStep

\* What a crash leaves of the memory, whatever it leaves of the storage.
LEMMA CrashType ==
  ASSUME TypeOK, NEW a \in Times, NEW owed, Crash(a, owed)
  PROVE  /\ alarm' \in Times /\ fired' \in Times
         /\ blocked' \in BOOLEAN /\ restarts' \in Nat /\ unarmed' \in BOOLEAN
         /\ now' = now /\ now \in Nat
         /\ gate' = None
         /\ pc'   = [p \in Procs |-> "idle"]
         /\ at'   = [p \in Procs |-> 0]
         /\ todo' = [p \in Procs |-> {}]
         /\ cur'  = [p \in Procs |-> None]
<1>1. alarm' \in Times
  <2>1. CASE fired = None
    BY <2>1 DEF Crash, AlarmRerun, TypeOK
  <2>2. CASE fired # None
    <3>1. fired \in Nat
      BY <2>2 DEF TypeOK, Times
    <3> QED
      BY <2>2, <3>1, EnsureAlarmType DEF Crash, AlarmRerun, TypeOK, Times
  <2> QED
    BY <2>1, <2>2
<1>2. blocked' \in BOOLEAN
  <2>1. blocked' \in {blocked, TRUE} /\ blocked \in BOOLEAN
    BY Zenon DEF Crash, TypeOK
  <2> QED
    BY <2>1, Zenon
<1>3. unarmed' \in BOOLEAN
  <2>1. unarmed' = (unarmed \/ a # owed)
    BY Zenon DEF Crash
  <2> QED
    BY <2>1, Zenon
<1>4. restarts' \in Nat
  BY DEF Crash, TypeOK
<1>5. /\ fired' = None /\ gate' = None /\ now' = now
      /\ pc'   = [p \in Procs |-> "idle"]
      /\ at'   = [p \in Procs |-> 0]
      /\ todo' = [p \in Procs |-> {}]
      /\ cur'  = [p \in Procs |-> None]
  BY DEF Crash
<1> QED
  BY <1>1, <1>2, <1>3, <1>4, <1>5 DEF TypeOK, Times

\* The parts of the storage that requests, registrations and deliveries write.
AdmissionTyped ==
  /\ rl' \in [Buckets -> Seq(Nat)]
  /\ nonce' \in [Nonces -> Times]
  /\ drawn' \subseteq Nonces
DeliveriesTyped ==
  /\ evt' \in [Deliveries -> DeliveryRecord \cup {None}]
  /\ retry' \in [Deliveries -> RetryRecord \cup {None}]
RegistrationTyped ==
  /\ DeliveriesTyped
  /\ sub' \in [SubIds -> Grants \cup {None}]
  /\ idx' \in [Keys -> SubIds \cup {None}]
  /\ used' \subseteq Grants
  /\ origin' \in [SubIds -> Grants \cup {None}]

\* What it leaves of the storage, when the records are of their shapes.
StorageTyped ==
  /\ sub' \in [SubIds -> Grants \cup {None}]
  /\ idx' \in [Keys -> SubIds \cup {None}]
  /\ evt' \in [Deliveries -> DeliveryRecord \cup {None}]
  /\ retry' \in [Deliveries -> RetryRecord \cup {None}]
  /\ used' \subseteq Grants
  /\ revoked' \in [Devices -> Times]
  /\ nonce' \in [Nonces -> Times]
  /\ rl' \in [Buckets -> Seq(Nat)]
  /\ drawn' \subseteq Nonces
  /\ origin' \in [SubIds -> Grants \cup {None}]
  /\ revPoint' \in [Devices -> Times]
  /\ torn' \subseteq Deliveries

LEMMA CrashTyped ==
  ASSUME TypeInv, NEW a \in Times, NEW owed, Crash(a, owed), StorageTyped
  PROVE  TypeInv'
<1>1. /\ alarm' \in Times /\ fired' \in Times
      /\ blocked' \in BOOLEAN /\ restarts' \in Nat /\ unarmed' \in BOOLEAN
      /\ now' = now /\ now \in Nat
      /\ gate' = None
      /\ pc'   = [p \in Procs |-> "idle"]
      /\ at'   = [p \in Procs |-> 0]
      /\ todo' = [p \in Procs |-> {}]
      /\ cur'  = [p \in Procs |-> None]
  BY CrashType DEF TypeInv
<1>2. TypeOK'
  BY <1>1 DEF StorageTyped, TypeOK, Times, DeliveryRecord, RetryRecord
<1>3. \A p \in Procs : pc'[p] \notin Busy
  BY <1>1 DEF Busy
<1> QED
  BY <1>2, <1>3 DEF TypeInv

LEMMA TypeRestart ==
  ASSUME TypeInv, Restart
  PROVE  TypeInv'
<1>1. alarm \in Times /\ Crash(alarm, alarm)
  BY DEF Restart, TypeInv, TypeOK
<1>2. StorageTyped
  BY DEF Restart, StorageTyped, TypeInv, TypeOK, Times
<1> QED
  BY <1>1, <1>2, CrashTyped

LEMMA TypeCutAdmission ==
  ASSUME TypeInv, NEW b \in Buckets, NEW n \in Nonces, CutAdmission(b, n)
  PROVE  TypeInv'
<1> DEFINE rated == ensureAlarm(alarm, now + RATE_WINDOW)
<1>1. alarm \in Times /\ rated \in Times /\ AdmitAlarm \in Times
  <2>1. alarm \in Times /\ now + RATE_WINDOW \in Nat
    BY TimesAssumption DEF TypeInv, TypeOK
  <2>2. rated \in Nat
    BY <2>1, EnsureAlarmType
  <2> HIDE DEF rated
  <2> QED
    BY <2>1, <2>2, AdmitAlarmType DEF TypeInv, Times
<1>2. \E a \in {alarm, rated, AdmitAlarm}, owed \in {rated, AdmitAlarm} : Crash(a, owed)
  BY DEF CutAdmission
<1> HIDE DEF rated
<1>3. PICK a \in Times, owed \in {rated, AdmitAlarm} : Crash(a, owed)
  BY <1>1, <1>2
<1>4. nonce' \in [Nonces -> Times] /\ drawn' \subseteq Nonces
  <2>1. CASE UNCHANGED <<nonce, drawn>>
    BY <2>1 DEF TypeInv, TypeOK
  <2>2. CASE rememberNonce(n)
    BY <2>2, RememberType DEF TypeInv
  <2> QED
    BY <2>1, <2>2 DEF CutAdmission
<1>5. rl' \in [Buckets -> Seq(Nat)]
  BY ConsumeRateType DEF CutAdmission, TypeInv
<1>6. StorageTyped
  BY <1>4, <1>5 DEF CutAdmission, CutKeeps, StorageTyped, TypeInv, TypeOK, Times
<1> QED
  BY <1>3, <1>6, CrashTyped

LEMMA AdmittedType ==
  ASSUME TypeInv, NEW b \in Buckets, NEW n \in Nonces, Admitted(b, n)
  PROVE  /\ rl' \in [Buckets -> Seq(Nat)]
         /\ nonce' \in [Nonces -> Times] /\ drawn' \subseteq Nonces
BY ConsumeRateType, RememberType DEF Admitted, TypeInv

LEMMA TypeCutSubscribe ==
  ASSUME TypeInv, NEW n \in Nonces, NEW g \in Grants, CutSubscribe(n, g)
  PROVE  TypeInv'
<1>1. PICK owed : Crash(AdmitAlarm, owed)
  BY DEF CutSubscribe
<1>2. AdmitAlarm \in Times
  BY AdmitAlarmType DEF TypeInv, Times
<1>3. AdmissionTyped
  BY AdmittedType DEF CutSubscribe, Buckets, AdmissionTyped
<1>4. RegistrationTyped
  <2>1. CASE Registers(g)
    BY <2>1, RegistersType DEF TypeInv, RegistrationTyped, DeliveriesTyped
  <2>2. ASSUME NEW s \in Existing(g), Refreshes(g, s)
        PROVE  RegistrationTyped
    BY <2>2, RefreshesType DEF TypeInv, RegistrationTyped, DeliveriesTyped
  <2> QED
    BY <2>1, <2>2 DEF CutSubscribe
<1>5. StorageTyped
  BY <1>3, <1>4 DEF CutSubscribe, StorageTyped, AdmissionTyped, RegistrationTyped,
                    DeliveriesTyped, TypeInv, TypeOK, Times
<1> QED
  BY <1>1, <1>2, <1>5, CrashTyped

LEMMA TypeCutRevoke ==
  ASSUME TypeInv, NEW n \in Nonces, NEW d \in Devices,
         NEW ts \in 0..(now + SIGNATURE_WINDOW), CutRevoke(n, d, ts)
  PROVE  TypeInv'
<1>1. PICK owed : Crash(AdmitAlarm, owed)
  BY DEF CutRevoke
<1>2. AdmitAlarm \in Times /\ ts \in Nat
  BY AdmitAlarmType, TimesAssumption DEF TypeInv, TypeOK, Times
<1>3. rl' \in [Buckets -> Seq(Nat)]
  BY ConsumeRateType DEF CutRevoke, RevokeAdmitted, TypeInv, Buckets
<1>4. /\ sub' \in [SubIds -> Grants \cup {None}]
      /\ idx' \in [Keys -> SubIds \cup {None}]
      /\ retry' \in [Deliveries -> RetryRecord \cup {None}]
      /\ evt' \in [Deliveries -> DeliveryRecord \cup {None}]
      /\ revoked' \in [Devices -> Times] /\ revPoint' \in [Devices -> Times]
      /\ nonce' \in [Nonces -> Times] /\ drawn' \subseteq Nonces
  BY <1>2, RevokesType DEF CutRevoke, TypeInv
<1>5. StorageTyped
  BY <1>3, <1>4 DEF CutRevoke, StorageTyped, TypeInv, TypeOK
<1> QED
  BY <1>1, <1>2, <1>5, CrashTyped

LEMMA RemovalCutType ==
  ASSUME TypeInv, NEW S, NEW s, NEW state \in States, RemovalCut(S, s, state)
  PROVE  /\ sub' \in [SubIds -> Grants \cup {None}]
         /\ idx' \in [Keys -> SubIds \cup {None}]
         /\ retry' \in [Deliveries -> RetryRecord \cup {None}]
         /\ evt' \in [Deliveries -> DeliveryRecord \cup {None}]
         /\ torn' \subseteq Deliveries
         /\ UNCHANGED <<used, revoked, origin, revPoint>>
<1>1. torn' \subseteq Deliveries
  BY DEF RemovalCut, TypeInv, TypeOK
<1>2. evt' \in [Deliveries -> DeliveryRecord \cup {None}]
  BY FinalizedType DEF RemovalCut, TypeInv
<1> QED
  BY <1>1, <1>2, KeysDeletedType DEF RemovalCut, TypeInv

LEMMA TypeCutRemoval ==
  ASSUME TypeInv,
         \/ \E n \in Nonces : CutRequestRemoval(n)
         \/ \E p \in Procs : CutRemoval(p)
  PROVE  TypeInv'
<1>1. PICK a \in Times : Crash(a, a)
  BY AdmitAlarmType DEF CutRequestRemoval, CutRemoval, TypeInv, TypeOK, Times
<1>2. \E S, s, state : state \in States /\ RemovalCut(S, s, state)
  BY DEF CutRequestRemoval, CutRemoval, States
<1>3. /\ sub' \in [SubIds -> Grants \cup {None}]
      /\ idx' \in [Keys -> SubIds \cup {None}]
      /\ retry' \in [Deliveries -> RetryRecord \cup {None}]
      /\ evt' \in [Deliveries -> DeliveryRecord \cup {None}]
      /\ torn' \subseteq Deliveries
      /\ UNCHANGED <<used, revoked, origin, revPoint>>
  BY <1>2, RemovalCutType
<1>4. AdmissionTyped
  <2>1. ASSUME NEW n \in Nonces, NEW b \in Buckets, Admitted(b, n)
        PROVE  AdmissionTyped
    BY <2>1, AdmittedType DEF AdmissionTyped
  <2>2. ASSUME NEW n \in Nonces, NEW d \in Devices, NEW ts \in 0..(now + SIGNATURE_WINDOW),
               RevokeAdmitted(n, d, ts), rememberNonce(n)
        PROVE  AdmissionTyped
    BY <2>2, ConsumeRateType, RememberType DEF RevokeAdmitted, Buckets, TypeInv, AdmissionTyped
  <2>3. ASSUME NEW n \in Nonces, CutRequestRemoval(n)
        PROVE  AdmissionTyped
    <3>1. "deletes" \in Buckets /\ "subscriptions" \in Buckets
      BY DEF Buckets
    <3> QED
      BY <2>1, <2>2, <2>3, <3>1 DEF CutRequestRemoval
  <2>4. ASSUME NEW p \in Procs, CutRemoval(p)
        PROVE  AdmissionTyped
    BY <2>4 DEF CutRemoval, TypeInv, TypeOK, AdmissionTyped
  <2> QED
    BY <2>3, <2>4
<1>5. StorageTyped
  BY <1>3, <1>4 DEF StorageTyped, AdmissionTyped, TypeInv, TypeOK, Times
<1> QED
  BY <1>1, <1>5, CrashTyped

LEMMA TypeCutDelivery ==
  ASSUME TypeInv, NEW p \in Procs, CutDelivery(p)
  PROVE  TypeInv'
<1> USE DEF TypeInv
<1>1. PICK owed : Crash(alarm, owed)
  BY DEF CutDelivery
<1>2. alarm \in Times
  BY DEF TypeOK
<1>3. DeliveriesTyped
  <2>1. ASSUME NEW m \in todo[p], Lease(m)
        PROVE  DeliveriesTyped
    <3>1. m \in Pending
      BY DEF TypeOK
    <3> QED
      BY <2>1, <3>1, LeaseType DEF DeliveriesTyped
  <2>2. ASSUME NEW hint \in RetryHints, pc[p] = "sending", Reschedules(p, hint)
        PROVE  DeliveriesTyped
    BY <2>2, ReschedulesType DEF Busy, DeliveriesTyped
  <2>3. ASSUME NEW state \in States, pc[p] = "sending", UNCHANGED retry,
               evt' = [evt EXCEPT ![Key(cur[p])] = deliveryRecord(state, cur[p].attempts)]
        PROVE  DeliveriesTyped
    <3>1. cur[p].attempts \in Nat
      BY <2>3, CurType DEF Busy
    <3>2. deliveryRecord(state, cur[p].attempts) \in DeliveryRecord
      BY <3>1, RecordType
    <3> QED
      BY <2>3, <3>2 DEF TypeOK, DeliveriesTyped, DeliveryRecord, RetryRecord
  <2>4. ASSUME NEW m \in todo[p], UNCHANGED retry,
               evt' = [evt EXCEPT ![Key(m)] = deliveryRecord("failed", m.attempts)]
        PROVE  DeliveriesTyped
    <3>1. m.attempts \in Nat
      BY DEF TypeOK, Pending
    <3>2. deliveryRecord("failed", m.attempts) \in DeliveryRecord
      BY <3>1, RecordType DEF States
    <3> QED
      BY <2>4, <3>2 DEF TypeOK, DeliveriesTyped, DeliveryRecord, RetryRecord
  <2> QED
    BY <2>1, <2>2, <2>3, <2>4 DEF CutDelivery
<1>4. StorageTyped
  BY <1>3 DEF CutDelivery, StorageTyped, DeliveriesTyped, TypeOK, Times
<1> QED
  BY <1>1, <1>2, <1>4, CrashTyped

LEMMA TypeCutShort ==
  ASSUME TypeInv, CutShort
  PROVE  TypeInv'
BY TypeCutAdmission, TypeCutSubscribe, TypeCutRevoke, TypeCutRemoval, TypeCutDelivery DEF CutShort

LEMMA TypeStep == TypeInv /\ [Next]_vars => TypeInv'
<1> SUFFICES ASSUME TypeInv, [Next]_vars PROVE TypeInv'
  OBVIOUS
<1>1. CASE HostRequest
  BY <1>1, TypeSubscribe, TypeUnsubscribe, TypeReport DEF HostRequest
<1>2. CASE DeviceRevoke
  BY <1>2, TypeRevoke DEF DeviceRevoke
<1>3. CASE Progress
  BY <1>3, TypeProviderAnswer, TypeDropAfterSend, TypeReportStep, TypeAlarmStep DEF Progress
<1>4. CASE AlarmFire
  BY <1>4, TypeAlarmFire
<1>5. CASE Restart \/ CutShort
  BY <1>5, TypeRestart, TypeCutShort
<1>6. CASE Tick
  <2>1. now' \in Nat
    BY <1>6 DEF Tick, TypeInv, TypeOK
  <2>2. UNCHANGED <<storage, memory, env, history>>
    BY <1>6 DEF Tick
  <2> QED
    BY <2>1, <2>2 DEF TypeInv, TypeOK, storage, memory, env, history
<1>7. CASE UNCHANGED vars
  BY <1>7 DEF TypeInv, TypeOK, vars, storage, memory, env, history
<1> QED
  BY <1>1, <1>2, <1>3, <1>4, <1>5, <1>6, <1>7 DEF Next

\* Storage and memory always hold records of the shapes the code writes.
THEOREM TypeCorrect == Spec => []TypeOK
<1>1. Spec => []TypeInv
  BY TypeInit, TypeStep, PTL DEF Spec
<1>2. TypeInv => TypeOK
  BY DEF TypeInv
<1> QED
  BY <1>1, <1>2, PTL
=============================================================================
