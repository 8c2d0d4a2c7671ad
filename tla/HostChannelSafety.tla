-------------------------- MODULE HostChannelSafety --------------------------
(***************************************************************************)
(* Safety of HostChannel for every instance: the index is sound, a grant   *)
(* is used once, and a revoked grant neither lives nor sends.              *)
(***************************************************************************)
EXTENDS HostChannelProofs

Removal(S) ==
  /\ sub' = [s \in SubIds |-> IF s \in S THEN None ELSE sub[s]]
  /\ idx' = idxWithout(S)

\* A step that registers nothing and revokes nothing.
QuietStep ==
  /\ UNCHANGED <<used, revoked, origin, revPoint>>
  /\ now <= now'
  /\ \/ UNCHANGED <<sub, idx>>
     \/ \E S \in SUBSET SubIds : Removal(S)

\* A step that registers the grant g, whether or not the object dies in it.
RefreshStep(g) ==
  /\ Checked(g)
  /\ \E s \in Existing(g) : Refreshes(g, s)
  /\ UNCHANGED <<now, revoked, revPoint>>

RegisterStep(g) ==
  /\ Checked(g)
  /\ Registers(g)
  /\ UNCHANGED <<now, revoked, revPoint>>

\* A step that moves the revocation point of d, and the same after a crash.
RevokeStep(d, ts) ==
  /\ now - ts <= SIGNATURE_WINDOW + EntryDelay
  /\ Removal(DeviceSubs(d))
  /\ revoked' = [revoked EXCEPT ![d] = RevocationPoint(d, ts)]
  /\ revPoint' = [revPoint EXCEPT ![d] = IF @ # None /\ ts < @ THEN @ ELSE ts]
  /\ UNCHANGED <<now, used, origin>>

LoudStep ==
  \/ \E g \in Grants : RefreshStep(g) \/ RegisterStep(g)
  \/ \E d \in Devices, ts \in 0..(now + SIGNATURE_WINDOW) : RevokeStep(d, ts)
  \/ Cleanup

-----------------------------------------------------------------------------
LEMMA NowGrows ==
  ASSUME TypeInv
  PROVE  now \in Nat /\ now <= now
BY DEF TypeInv, TypeOK

LEMMA QuietRequest ==
  ASSUME TypeInv, HostRequest
  PROVE  QuietStep \/ LoudStep
<1> USE NowGrows
<1>1. ASSUME NEW n \in Nonces, NEW g \in Grants, Subscribe(n, g)
      PROVE  QuietStep \/ LoudStep
  <2>1. CASE SubscribeRevoked(n, g)
    BY <2>1 DEF SubscribeRevoked, SubscribeRequest, Admit, Admitted, rememberNonce, consumeRate, QuietStep
  <2>2. CASE SubscribeAgain(n, g)
    BY <2>2 DEF SubscribeAgain, SubscribeRequest, Admit, Admitted, rememberNonce, consumeRate, QuietStep
  <2>3. CASE SubscribeReused(n, g)
    <3>1. Stale(g) \in SUBSET SubIds
      BY DEF Stale, Registered, Subs
    <3>2. Removal(Stale(g))
      BY <2>3 DEF SubscribeReused, removeSubscriptions, deleteKeys, Removal
    <3>3. UNCHANGED <<now, used, revoked, origin, revPoint>>
      BY <2>3 DEF SubscribeReused, SubscribeRequest, Admit
    <3> QED
      BY <3>1, <3>2, <3>3 DEF QuietStep
  <2>4. CASE SubscribeRefresh(n, g)
    BY <2>4 DEF SubscribeRefresh, SubscribeRequest, Admit, RefreshStep, LoudStep
  <2>5. CASE SubscribeNew(n, g)
    BY <2>5 DEF SubscribeNew, SubscribeRequest, Admit, RegisterStep, LoudStep
  <2> QED
    BY <1>1, <2>1, <2>2, <2>3, <2>4, <2>5 DEF Subscribe
<1>2. ASSUME NEW n \in Nonces, NEW s \in SubIds, Unsubscribe(n, s)
      PROVE  QuietStep
  <2>1. Removal({s})
    BY <1>2 DEF Unsubscribe, removeSubscriptions, deleteKeys, Removal
  <2>2. UNCHANGED <<now, used, revoked, origin, revPoint>>
    BY <1>2 DEF Unsubscribe, Admit
  <2> QED
    BY <2>1, <2>2 DEF QuietStep
<1>3. ASSUME NEW n \in Nonces, NEW p \in Reporters, NEW e \in Events, Report(p, n, e)
      PROVE  QuietStep
  BY <1>3 DEF Report, Admit, history, QuietStep
<1> QED
  BY <1>1, <1>2, <1>3 DEF HostRequest

LEMMA RevokeLoud ==
  ASSUME TypeInv, NEW n, NEW d \in Devices, NEW ts, Revokes(n, d, ts),
         RevokeAdmitted(n, d, ts), UNCHANGED <<now, used, origin>>
  PROVE  RevokeStep(d, ts)
BY DEF Revokes, RevokeAdmitted, removeSubscriptions, deleteKeys, Removal, RevokeStep

\* What a crash in the middle of a step leaves of it.
LEMMA CrashTime ==
  ASSUME NEW a, NEW owed, Crash(a, owed)
  PROVE  now' = now /\ pc' = [p \in Procs |-> "idle"]
BY DEF Crash

LEMMA QuietRemovalCut ==
  ASSUME TypeInv, NEW S \in SUBSET SubIds, NEW s, NEW state, RemovalCut(S, s, state),
         now' = now
  PROVE  QuietStep
<1>1. Removal(S)
  BY DEF RemovalCut, deleteKeys, Removal
<1> QED
  BY <1>1, NowGrows DEF RemovalCut, QuietStep

LEMMA KindsCut ==
  ASSUME TypeInv, CutShort
  PROVE  QuietStep \/ LoudStep
<1> USE NowGrows, CrashTime
<1>1. ASSUME NEW n \in Nonces, NEW b \in Buckets, CutAdmission(b, n)
      PROVE  QuietStep
  BY <1>1 DEF CutAdmission, CutKeeps, QuietStep
<1>2. ASSUME NEW n \in Nonces, NEW g \in Grants, CutSubscribe(n, g)
      PROVE  LoudStep
  BY <1>2 DEF CutSubscribe, RefreshStep, RegisterStep, LoudStep
<1>3. ASSUME NEW n \in Nonces, NEW d \in Devices, NEW ts \in 0..(now + SIGNATURE_WINDOW),
             CutRevoke(n, d, ts)
      PROVE  LoudStep
  BY <1>3, RevokeLoud DEF CutRevoke, LoudStep
<1>4. ASSUME NEW n \in Nonces, CutRequestRemoval(n)
      PROVE  QuietStep
  <2>1. now' = now
    BY <1>4 DEF CutRequestRemoval
  <2>2. PICK S \in SUBSET SubIds, s \in SubIds : RemovalCut(S, s, "failed")
    <3>1. \A g : Stale(g) \subseteq SubIds
      BY DEF Stale, Registered, Subs
    <3>2. \A d : DeviceSubs(d) \subseteq SubIds
      BY DEF DeviceSubs, Subs
    <3>3. Subs \subseteq SubIds
      BY DEF Subs
    <3> QED
      BY <1>4, <3>1, <3>2, <3>3 DEF CutRequestRemoval
  <2> QED
    BY <2>1, <2>2, QuietRemovalCut
<1>5. ASSUME NEW p \in Procs, CutRemoval(p)
      PROVE  QuietStep
  <2>1. now' = now
    BY <1>5 DEF CutRemoval
  <2>2. PICK S \in SUBSET SubIds, s \in SubIds, state \in States : RemovalCut(S, s, state)
    <3>0. "failed" \in States /\ "invalid_token" \in States
      BY DEF States
    <3>1. CASE pc[p] = "dropSub" /\ RemovalCut({cur[p].sub}, cur[p].sub, "failed")
      <4>1. cur[p] \in Sending
        BY <3>1 DEF TypeInv, TypeOK, Busy
      <4>2. cur[p].sub \in SubIds
        BY <4>1 DEF Sending
      <4> QED
        BY <3>1, <3>0, <4>2
    <3>2. CASE \E S \in SUBSET {s \in Subs : sub[s].token = cur[p].grant.token} :
                 \E s \in S : RemovalCut(S, s, "invalid_token")
      BY <3>2, <3>0 DEF Subs
    <3>3. CASE /\ p = Alarm
               /\ \E m \in todo[p] : RemovalCut({m.sub}, m.sub, "failed")
      <4>1. \A m \in todo[p] : m.sub \in SubIds
        BY DEF TypeInv, TypeOK, Pending
      <4> QED
        BY <3>3, <3>0, <4>1
    <3> QED
      BY <1>5, <3>1, <3>2, <3>3 DEF CutRemoval
  <2> QED
    BY <2>1, <2>2, QuietRemovalCut
<1>6. ASSUME NEW p \in Procs, CutDelivery(p)
      PROVE  QuietStep
  BY <1>6 DEF CutDelivery, QuietStep
<1> QED
  BY <1>1, <1>2, <1>3, <1>4, <1>5, <1>6 DEF CutShort

LEMMA QuietStartSend ==
  ASSUME TypeInv, NEW p, NEW m, StartSend(p, m)
  PROVE  QuietStep
BY NowGrows DEF StartSend, history, QuietStep

LEMMA QuietProgress ==
  ASSUME TypeInv, Progress
  PROVE  QuietStep \/ LoudStep
<1> USE NowGrows
<1>1. ASSUME NEW p \in Procs, ProviderAnswer(p)
      PROVE  QuietStep
  <2>1. ASSUME NEW hint \in RetryHints, SendRetrying(p, hint)
        PROVE  QuietStep
    BY <2>1 DEF SendRetrying, history, QuietStep
  <2>2. ASSUME NEW state \in States, SendFinal(p, state)
        PROVE  QuietStep
    BY <2>2 DEF SendFinal, history, QuietStep
  <2>3. CASE SendThrows(p)
    BY <2>3 DEF SendThrows, storage, history, QuietStep
  <2> QED
    BY <1>1, <2>1, <2>2, <2>3 DEF ProviderAnswer
<1>2. ASSUME NEW p \in Procs, DropAfterSend(p)
      PROVE  QuietStep
  <2>1. \E S \in SUBSET SubIds : Removal(S)
    <3>1. CASE pc[p] = "dropSub"
      <4>1. Removal({cur[p].sub})
        BY <1>2, <3>1 DEF DropAfterSend, removeSubscriptions, deleteKeys, Removal
      <4>2. cur[p] \in Sending
        BY <3>1 DEF TypeInv, TypeOK, Busy
      <4>3. {cur[p].sub} \in SUBSET SubIds
        BY <4>2 DEF Sending
      <4> QED
        BY <4>1, <4>3
    <3>2. CASE pc[p] = "dropToken"
      <4>1. Removal({s \in Subs : sub[s].token = cur[p].grant.token})
        BY <1>2, <3>2 DEF DropAfterSend, removeSubscriptions, deleteKeys, Removal
      <4> QED
        BY <4>1 DEF Subs
    <3> QED
      BY <1>2, <3>1, <3>2 DEF DropAfterSend
  <2>2. UNCHANGED <<now, used, revoked, origin, revPoint>>
    BY <1>2 DEF DropAfterSend, history
  <2> QED
    BY <2>1, <2>2 DEF QuietStep
<1>3. ASSUME NEW p \in Reporters, ReportStep(p)
      PROVE  QuietStep
  <2>1. ASSUME NEW m \in todo[p], ReportSkip(p, m)
        PROVE  QuietStep
    BY <2>1 DEF ReportSkip, storage, history, QuietStep
  <2>2. ASSUME NEW m \in todo[p], ReportSend(p, m)
        PROVE  QuietStep
    BY <2>2, QuietStartSend DEF ReportSend
  <2>3. CASE ReportEnd(p)
    BY <2>3 DEF ReportEnd, storage, history, QuietStep
  <2> QED
    BY <1>3, <2>1, <2>2, <2>3 DEF ReportStep
<1>4. CASE AlarmStep
  <2>1. ASSUME NEW m \in todo[Alarm], RetryOrphan(m)
        PROVE  QuietStep
    BY <2>1 DEF RetryOrphan, history, QuietStep
  <2>2. ASSUME NEW m \in todo[Alarm], RetryBlocked(m)
        PROVE  QuietStep
    <3>1. m.sub \in SubIds
      BY DEF TypeInv, TypeOK, Pending, Procs
    <3>2. Removal({m.sub})
      BY <2>2 DEF RetryBlocked, removeSubscriptions, deleteKeys, Removal
    <3>3. UNCHANGED <<now, used, revoked, origin, revPoint>>
      BY <2>2 DEF RetryBlocked, history
    <3> QED
      BY <3>1, <3>2, <3>3 DEF QuietStep
  <2>3. ASSUME NEW m \in todo[Alarm], RetrySend(m)
        PROVE  QuietStep
    BY <2>3, QuietStartSend DEF RetrySend
  <2>4. CASE Cleanup
    BY <2>4 DEF LoudStep
  <2> QED
    BY <1>4, <2>1, <2>2, <2>3, <2>4 DEF AlarmStep
<1> QED
  BY <1>1, <1>2, <1>3, <1>4 DEF Progress

\* Every step is quiet, or it registers, revokes or cleans up.
LEMMA StepKinds ==
  ASSUME TypeInv, [Next]_vars
  PROVE  QuietStep \/ LoudStep
<1> USE NowGrows
<1>1. CASE HostRequest
  BY <1>1, QuietRequest
<1>2. CASE DeviceRevoke
  <2>1. ASSUME NEW n \in Nonces, NEW d \in Devices,
               NEW ts \in 0..(now + SIGNATURE_WINDOW), RevokeRefused(n, d, ts)
        PROVE  QuietStep
    BY <2>1 DEF RevokeRefused, RevokeRequest, QuietStep
  <2>2. ASSUME NEW n \in Nonces, NEW d \in Devices,
               NEW ts \in 0..(now + SIGNATURE_WINDOW), Revoke(n, d, ts)
        PROVE  RevokeStep(d, ts)
    BY <2>2, RevokeLoud DEF Revoke, RevokeRequest
  <2> QED
    BY <1>2, <2>1, <2>2 DEF DeviceRevoke, LoudStep
<1>3. CASE Progress
  BY <1>3, QuietProgress
<1>4. CASE AlarmFire
  BY <1>4 DEF AlarmFire, history, QuietStep
<1>5. CASE Restart
  BY <1>5, CrashTime DEF Restart, QuietStep
<1>6. CASE Tick
  BY <1>6 DEF Tick, storage, history, QuietStep
<1>7. CASE UNCHANGED vars
  BY <1>7 DEF vars, storage, history, QuietStep
<1>8. CASE CutShort
  BY <1>8, KindsCut
<1> QED
  BY <1>1, <1>2, <1>3, <1>4, <1>5, <1>6, <1>7, <1>8 DEF Next

-----------------------------------------------------------------------------
(***************************************************************************)
(* A grant that created a subscription is remembered as used until it      *)
(* expires.                                                                *)
(***************************************************************************)
GrantRemembered ==
  \A s \in SubIds : origin[s] # None => origin[s] \in used \/ origin[s].expiresAt <= now

GrantInv == GrantRemembered /\ GrantOnce

LEMMA OriginType ==
  ASSUME TypeInv, NEW s \in SubIds, origin[s] # None
  PROVE  origin[s] \in Grants /\ origin[s].expiresAt \in Nat /\ now \in Nat
BY GrantsAssumption DEF TypeInv, TypeOK, Grant

LEMMA GrantInit == Init => GrantInv
BY DEF Init, GrantInv, GrantRemembered, GrantOnce

LEMMA GrantStep == TypeInv /\ GrantInv /\ [Next]_vars => GrantInv'
<1> SUFFICES ASSUME TypeInv, GrantInv, [Next]_vars PROVE GrantInv'
  OBVIOUS
<1> TypeInv'
  BY TypeStep
<1>q. ASSUME used \subseteq used', origin' = origin, now <= now'
      PROVE  GrantInv'
  <2>1. \A s \in SubIds : origin[s] # None =>
          origin[s].expiresAt \in Nat /\ now \in Nat /\ now' \in Nat
    BY OriginType DEF TypeInv, TypeOK
  <2>2. GrantRemembered'
    BY <1>q, <2>1 DEF GrantInv, GrantRemembered
  <2>3. GrantOnce'
    BY <1>q, <2>1 DEF GrantInv, GrantOnce
  <2> QED
    BY <2>2, <2>3 DEF GrantInv
<1>1. CASE QuietStep
  BY <1>1, <1>q DEF QuietStep
<1>2. ASSUME NEW g \in Grants, RefreshStep(g)
      PROVE  GrantInv'
  BY <1>2, <1>q, NowGrows DEF RefreshStep, Refreshes
<1>3. ASSUME NEW g \in Grants, RegisterStep(g)
      PROVE  GrantInv'
  <2>1. /\ g \notin used /\ used' = used \cup {g} /\ now' = now
    BY <1>3 DEF RegisterStep, Registers, Used
  <2>2. PICK new \in SubIds : origin[new] = None /\ origin' = [origin EXCEPT ![new] = g]
    BY <1>3 DEF RegisterStep, Registers
  <2>3. \A s \in SubIds : origin'[s] = IF s = new THEN g ELSE origin[s]
    BY <2>2 DEF TypeInv, TypeOK
  <2>4. GrantRemembered'
    BY <2>1, <2>3 DEF GrantInv, GrantRemembered
  <2>5. ASSUME NEW s \in SubIds, s # new, origin[s] = g
        PROVE  g.expiresAt <= now
    BY <2>1, <2>5, NoneAssumption, GrantsAssumption DEF GrantInv, GrantRemembered
  <2>6. GrantOnce'
    BY <2>1, <2>3, <2>5 DEF GrantInv, GrantOnce
  <2> QED
    BY <2>4, <2>6 DEF GrantInv
<1>4. ASSUME NEW d \in Devices, NEW ts \in 0..(now + SIGNATURE_WINDOW), RevokeStep(d, ts)
      PROVE  GrantInv'
  BY <1>4, <1>q, NowGrows DEF RevokeStep
<1>5. CASE Cleanup
  <2>1. /\ origin' = origin /\ now' = now
        /\ used' = {g \in used : now < g.expiresAt}
    BY <1>5 DEF Cleanup
  <2>2. \A s \in SubIds : origin[s] # None => origin[s].expiresAt \in Nat /\ now \in Nat
    BY OriginType
  <2>3. GrantRemembered'
    BY <2>1, <2>2 DEF GrantInv, GrantRemembered
  <2>4. GrantOnce'
    BY <2>1 DEF GrantInv, GrantOnce
  <2> QED
    BY <2>3, <2>4 DEF GrantInv
<1> QED
  BY <1>1, <1>2, <1>3, <1>4, <1>5, StepKinds DEF LoudStep

\* Every instance: a valid grant never creates two subscriptions, however often
\* the host registers it and whatever the cleanup has dropped.
THEOREM GrantsUsedOnce == Spec => []GrantOnce
<1>1. TypeInv /\ GrantInv /\ [Next]_vars => (TypeInv /\ GrantInv)'
  BY TypeStep, GrantStep
<1>2. Init => TypeInv /\ GrantInv
  BY TypeInit, GrantInit
<1>3. GrantInv => GrantOnce
  BY DEF GrantInv
<1> QED
  BY <1>1, <1>2, <1>3, PTL DEF Spec

-----------------------------------------------------------------------------
(***************************************************************************)
(* The stored revocation point is the latest one, or so old that every     *)
(* grant issued before it has expired.                                     *)
(***************************************************************************)
PointRemembered ==
  \A d \in Devices :
    \/ revPoint[d] = None /\ revoked[d] = None
    \/ revPoint[d] # None /\ revoked[d] = revPoint[d]
    \/ revPoint[d] # None /\ revoked[d] = None /\ revPoint[d] + REVOCATION_TTL <= now

RevInv == PointRemembered /\ RevokedNeverLive

\* A grant that subscribe lets through was issued after the device's last revocation.
LEMMA AdmittedAfterRevocation ==
  ASSUME TypeInv, PointRemembered,
         NEW g \in Grants, Checked(g), ~RevokedGrant(g),
         revPoint[g.device] # None
  PROVE  revPoint[g.device] < g.issuedAt
<1>1. /\ g.device \in Devices /\ g.issuedAt \in Nat /\ g.expiresAt \in Nat
      /\ g.expiresAt - g.issuedAt <= MAX_GRANT_LIFETIME
  BY GrantsAssumption DEF Grant
<1>2. revPoint[g.device] \in Nat /\ now \in Nat
  BY <1>1 DEF TypeInv, TypeOK, Times
<1>3. CASE revoked[g.device] = revPoint[g.device]
  BY <1>1, <1>2, <1>3 DEF RevokedGrant
<1>4. CASE revPoint[g.device] + REVOCATION_TTL <= now
  <2>1. now < g.expiresAt + EntryDelay
    BY DEF Checked
  <2> QED
    BY <1>1, <1>2, <1>4, <2>1, TimesAssumption
<1> QED
  BY <1>1, <1>3, <1>4 DEF PointRemembered

LEMMA RevInit == Init => RevInv
BY DEF Init, RevInv, PointRemembered, RevokedNeverLive, Subs

LEMMA RevStep == TypeInv /\ RevInv /\ [Next]_vars => RevInv'
<1> SUFFICES ASSUME TypeInv, RevInv, [Next]_vars PROVE RevInv'
  OBVIOUS
<1> TypeInv'
  BY TypeStep
<1>t. /\ now \in Nat /\ now' \in Nat /\ REVOCATION_TTL \in Nat
      /\ \A d \in Devices : revPoint[d] # None => revPoint[d] \in Nat
      /\ \A s \in Subs : sub[s] \in Grants /\ sub[s].device \in Devices
  BY TimesAssumption, GrantsAssumption DEF TypeInv, TypeOK, Times, Subs, Grant
<1>q. ASSUME UNCHANGED <<revoked, revPoint>>, now <= now',
             \A s \in SubIds : sub'[s] \in {sub[s], None}
      PROVE  RevInv'
  <2>1. PointRemembered'
    BY <1>q, <1>t DEF RevInv, PointRemembered
  <2>2. RevokedNeverLive'
    BY <1>q DEF RevInv, RevokedNeverLive, Subs
  <2> QED
    BY <2>1, <2>2 DEF RevInv
<1>1. CASE QuietStep
  BY <1>1, <1>q DEF QuietStep, Removal
<1>2. ASSUME NEW g \in Grants, RefreshStep(g)
      PROVE  RevInv'
  <2>1. PICK s \in Existing(g) :
          sub' = [sub EXCEPT ![s] = IF sub[s].issuedAt <= g.issuedAt THEN g ELSE sub[s]]
    BY <1>2 DEF RefreshStep, Refreshes, Held
  <2>2. UNCHANGED <<now, revoked, revPoint>>
    BY <1>2 DEF RefreshStep
  <2>3. PointRemembered'
    BY <2>2 DEF RevInv, PointRemembered
  <2>4. revPoint[g.device] # None => revPoint[g.device] < g.issuedAt
    BY <1>2, AdmittedAfterRevocation DEF RefreshStep, Refreshes, RevInv
  <2>5. \A t \in SubIds : sub'[t] \in {sub[t], g}
    BY <2>1 DEF TypeInv, TypeOK
  <2>6. RevokedNeverLive'
    BY <2>2, <2>4, <2>5 DEF RevInv, RevokedNeverLive, Subs
  <2> QED
    BY <2>3, <2>6 DEF RevInv
<1>3. ASSUME NEW g \in Grants, RegisterStep(g)
      PROVE  RevInv'
  <2>1. PICK new \in SubIds :
          sub' = [t \in SubIds |-> CASE t = new -> g
                                     [] t \in Stale(g) -> None
                                     [] OTHER -> sub[t]]
    BY <1>3 DEF RegisterStep, Registers
  <2>2. UNCHANGED <<now, revoked, revPoint>>
    BY <1>3 DEF RegisterStep
  <2>3. PointRemembered'
    BY <2>2 DEF RevInv, PointRemembered
  <2>4. revPoint[g.device] # None => revPoint[g.device] < g.issuedAt
    BY <1>3, AdmittedAfterRevocation DEF RegisterStep, Registers, RevInv
  <2>5. \A t \in SubIds : sub'[t] \in {sub[t], g, None}
    BY <2>1
  <2>6. RevokedNeverLive'
    BY <2>2, <2>4, <2>5 DEF RevInv, RevokedNeverLive, Subs
  <2> QED
    BY <2>3, <2>6 DEF RevInv
<1>4. ASSUME NEW d \in Devices, NEW ts \in 0..(now + SIGNATURE_WINDOW), RevokeStep(d, ts)
      PROVE  RevInv'
  <2> DEFINE Later(x) == IF x # None /\ ts < x THEN x ELSE ts
  <2>1. /\ revoked' = [revoked EXCEPT ![d] = Later(revoked[d])]
        /\ revPoint' = [revPoint EXCEPT ![d] = Later(revPoint[d])]
        /\ sub' = [s \in SubIds |-> IF s \in DeviceSubs(d) THEN None ELSE sub[s]]
        /\ now' = now /\ now - ts <= SIGNATURE_WINDOW + EntryDelay
    BY <1>4 DEF RevokeStep, RevocationPoint, Removal
  <2>2. ts \in Nat /\ ts # None
    BY <1>t, TimesAssumption, NoneAssumption
  <2>3. Later(revoked[d]) = Later(revPoint[d]) /\ Later(revPoint[d]) # None
    <3>1. CASE revoked[d] = revPoint[d]
      BY <3>1, <2>2
    <3>2. CASE /\ revPoint[d] # None /\ revoked[d] = None
               /\ revPoint[d] + REVOCATION_TTL <= now
      <4>1. ~(ts < revPoint[d])
        BY <3>2, <1>t, <2>1, <2>2, TimesAssumption
      <4> QED
        BY <3>2, <4>1, <2>2
    <3> QED
      BY <3>1, <3>2 DEF RevInv, PointRemembered
  <2>4. \A e \in Devices : /\ revoked'[e] = IF e = d THEN Later(revoked[d]) ELSE revoked[e]
                           /\ revPoint'[e] = IF e = d THEN Later(revPoint[d]) ELSE revPoint[e]
    BY <2>1 DEF TypeInv, TypeOK
  <2>5. PointRemembered'
    BY <2>1, <2>3, <2>4 DEF RevInv, PointRemembered
  <2>6. ASSUME NEW s \in Subs'
        PROVE  /\ s \in Subs /\ sub'[s] = sub[s] /\ sub[s].device # d
    BY <2>1 DEF Subs, DeviceSubs
  <2>7. RevokedNeverLive'
    BY <1>t, <2>4, <2>6 DEF RevInv, RevokedNeverLive
  <2> QED
    BY <2>5, <2>7 DEF RevInv
<1>5. CASE Cleanup
  <2>1. /\ revPoint' = revPoint /\ now' = now
        /\ sub' = [s \in SubIds |-> IF Live(s, now) THEN sub[s] ELSE None]
        /\ revoked' = [d \in Devices |->
                          IF revoked[d] # None /\ revoked[d] + REVOCATION_TTL <= now
                          THEN None ELSE revoked[d]]
    BY <1>5 DEF Cleanup
  <2>2. PointRemembered'
    BY <2>1 DEF RevInv, PointRemembered
  <2>3. RevokedNeverLive'
    BY <2>1 DEF RevInv, RevokedNeverLive, Subs
  <2> QED
    BY <2>2, <2>3 DEF RevInv
<1> QED
  BY <1>1, <1>2, <1>3, <1>4, <1>5, StepKinds DEF LoudStep

LEMMA Revocations == Spec => [](TypeInv /\ RevInv)
<1>1. Init => TypeInv /\ RevInv
  BY TypeInit, RevInit
<1>2. TypeInv /\ RevInv /\ [Next]_vars => (TypeInv /\ RevInv)'
  BY TypeStep, RevStep
<1> QED
  BY <1>1, <1>2, PTL DEF Spec

\* Every instance: no subscription exists under a grant its device has revoked,
\* although the revocation record is itself dropped one hour after such grants
\* have expired.
THEOREM RevokedGrantsGone == Spec => []RevokedNeverLive
<1>1. RevInv => RevokedNeverLive
  BY DEF RevInv
<1> QED
  BY <1>1, Revocations, PTL

-----------------------------------------------------------------------------
\* A crash leaves every process idle.
LEMMA CutIdle ==
  ASSUME CutShort
  PROVE  pc' = [p \in Procs |-> "idle"]
<1> USE CrashTime
<1>1. ASSUME NEW n \in Nonces, NEW b \in Buckets, CutAdmission(b, n)
      PROVE  pc' = [p \in Procs |-> "idle"]
  BY <1>1 DEF CutAdmission
<1>2. ASSUME NEW n \in Nonces, NEW g \in Grants, CutSubscribe(n, g)
      PROVE  pc' = [p \in Procs |-> "idle"]
  BY <1>2 DEF CutSubscribe
<1>3. ASSUME NEW n \in Nonces, NEW d \in Devices, NEW ts, CutRevoke(n, d, ts)
      PROVE  pc' = [p \in Procs |-> "idle"]
  BY <1>3 DEF CutRevoke
<1>4. ASSUME NEW n \in Nonces, CutRequestRemoval(n)
      PROVE  pc' = [p \in Procs |-> "idle"]
  BY <1>4 DEF CutRequestRemoval
<1>5. ASSUME NEW p \in Procs, CutRemoval(p) \/ CutDelivery(p)
      PROVE  pc' = [q \in Procs |-> "idle"]
  BY <1>5 DEF CutRemoval, CutDelivery
<1> QED
  BY <1>1, <1>2, <1>3, <1>4, <1>5 DEF CutShort

\* A provider call begins only in StartSend, for a subscription that exists.
LEMMA SendsBegin ==
  ASSUME TypeInv, Next, NEW p \in Procs, pc[p] # "sending", pc'[p] = "sending"
  PROVE  /\ revPoint' = revPoint
         /\ \E s \in Subs : cur'[p].grant = sub[s]
<1> DEFINE Goal == /\ revPoint' = revPoint
                   /\ \E s \in Subs : cur'[p].grant = sub[s]
<1>t. pc \in [Procs -> {"idle", "loop", "sending", "dropSub", "dropToken"}] /\ Alarm \in Procs
  BY DEF TypeInv, TypeOK, Procs
<1>s. ASSUME NEW q \in Procs, NEW m, StartSend(q, m), m.sub \in Subs
      PROVE  Goal
  <2>1. q = p
    BY <1>s, <1>t DEF StartSend
  <2>2. cur'[p].grant = sub[m.sub]
    BY <1>s, <2>1 DEF StartSend, TypeInv, TypeOK
  <2> QED
    BY <1>s, <2>2 DEF StartSend, history
<1>e. ASSUME NEW q \in Procs, NEW to \in {"idle", "loop", "dropSub", "dropToken"},
             pc' = [pc EXCEPT ![q] = to]
      PROVE  FALSE
  BY <1>e, <1>t
<1>1. CASE HostRequest
  <2>1. ASSUME NEW n \in Nonces, NEW g \in Grants, Subscribe(n, g)
        PROVE  FALSE
    BY <2>1 DEF Subscribe, SubscribeRevoked, SubscribeAgain, SubscribeReused,
                SubscribeRefresh, SubscribeNew, SubscribeRequest
  <2>2. ASSUME NEW n \in Nonces, NEW s \in SubIds, Unsubscribe(n, s)
        PROVE  FALSE
    BY <2>2 DEF Unsubscribe
  <2>3. ASSUME NEW n \in Nonces, NEW r \in Reporters, NEW e \in Events, Report(r, n, e)
        PROVE  FALSE
    BY <2>3, <1>e DEF Report, Procs
  <2> QED
    BY <1>1, <2>1, <2>2, <2>3 DEF HostRequest
<1>2. CASE DeviceRevoke
  BY <1>2 DEF DeviceRevoke, Revoke, RevokeRefused, RevokeRequest, memory
<1>3. CASE Progress
  <2>1. ASSUME NEW q \in Procs, ProviderAnswer(q)
        PROVE  FALSE
    <3>1. ASSUME NEW hint \in RetryHints, SendRetrying(q, hint)
          PROVE  FALSE
      BY <3>1, <1>e DEF SendRetrying
    <3>2. ASSUME NEW state \in States, SendFinal(q, state)
          PROVE  FALSE
      BY <3>2, <1>e DEF SendFinal
    <3>3. CASE SendThrows(q)
      BY <3>3, <1>e DEF SendThrows
    <3> QED
      BY <2>1, <3>1, <3>2, <3>3 DEF ProviderAnswer
  <2>2. ASSUME NEW q \in Procs, DropAfterSend(q)
        PROVE  FALSE
    BY <2>2, <1>e DEF DropAfterSend
  <2>3. ASSUME NEW q \in Reporters, ReportStep(q)
        PROVE  Goal
    <3>1. ASSUME NEW m \in todo[q], ReportSkip(q, m)
          PROVE  FALSE
      BY <3>1 DEF ReportSkip
    <3>2. ASSUME NEW m \in todo[q], ReportSend(q, m)
          PROVE  Goal
      <4>1. m.sub \in Subs
        BY <3>2 DEF ReportSend, Live, Subs, TypeInv, TypeOK, Pending, Procs
      <4> QED
        BY <3>2, <4>1, <1>s DEF ReportSend, Procs
    <3>3. CASE ReportEnd(q)
      BY <3>3, <1>e DEF ReportEnd, Procs
    <3> QED
      BY <2>3, <3>1, <3>2, <3>3 DEF ReportStep
  <2>4. CASE AlarmStep
    <3>1. ASSUME NEW m \in todo[Alarm], RetryOrphan(m) \/ RetryBlocked(m)
          PROVE  FALSE
      BY <3>1 DEF RetryOrphan, RetryBlocked
    <3>2. ASSUME NEW m \in todo[Alarm], RetrySend(m)
          PROVE  Goal
      <4>1. m.sub \in Subs
        BY <3>2, <1>t DEF RetrySend, Live, Subs, TypeInv, TypeOK, Pending
      <4> QED
        BY <3>2, <4>1, <1>s, <1>t DEF RetrySend
    <3>3. CASE Cleanup
      BY <3>3, <1>e, <1>t DEF Cleanup
    <3> QED
      BY <2>4, <3>1, <3>2, <3>3 DEF AlarmStep
  <2> QED
    BY <1>3, <2>1, <2>2, <2>3, <2>4 DEF Progress
<1>4. CASE AlarmFire
  BY <1>4, <1>e, <1>t DEF AlarmFire
<1>5. CASE Restart
  BY <1>5, CrashTime DEF Restart
<1>6. CASE Tick
  BY <1>6 DEF Tick, memory
<1>7. CASE CutShort
  BY <1>7, CutIdle
<1> QED
  BY <1>1, <1>2, <1>3, <1>4, <1>5, <1>6, <1>7 DEF Next

\* Every instance: a provider call never begins under a revoked grant.
THEOREM RevokedGrantsSilent == Spec => NoSendAfterRevoke
<1> DEFINE A == \A p \in Procs : pc[p] # "sending" /\ pc'[p] = "sending" =>
                  LET g == cur'[p].grant
                  IN  revPoint[g.device] # None => revPoint[g.device] < g.issuedAt
<1>1. TypeInv /\ RevInv /\ [Next]_vars => [A]_vars
  <2> SUFFICES ASSUME TypeInv, RevInv, Next, NEW p \in Procs,
                      pc[p] # "sending", pc'[p] = "sending"
               PROVE  LET g == cur'[p].grant
                      IN  revPoint[g.device] # None => revPoint[g.device] < g.issuedAt
    OBVIOUS
  <2>1. PICK s \in Subs : cur'[p].grant = sub[s]
    BY SendsBegin
  <2> QED
    BY <2>1 DEF RevInv, RevokedNeverLive
<1> QED
  BY <1>1, Revocations, PTL DEF Spec, NoSendAfterRevoke

-----------------------------------------------------------------------------
(***************************************************************************)
(* The index.  That a fresh id is in no index entry needs that the ids in  *)
(* use have an origin.                                                     *)
(***************************************************************************)
OriginKnown == \A s \in Subs : origin[s] # None

IndexInv == IndexSound /\ OriginKnown

LEMMA IndexInit == Init => IndexInv
BY DEF Init, IndexInv, IndexSound, OriginKnown, Subs

\* Removing subscriptions removes exactly their index entries.
LEMMA RemovalKeepsIndex ==
  ASSUME TypeInv, IndexInv, NEW S \in SUBSET SubIds, Removal(S), origin' = origin
  PROVE  IndexInv'
<1>1. Subs' = Subs \ S /\ \A s \in Subs' : sub'[s] = sub[s]
  BY DEF Removal, Subs
<1>2. \A s \in Subs : indexKey(sub[s]) \in Keys
  BY GrantsAssumption DEF TypeInv, TypeOK, Subs, Grant, indexKey, Keys
<1>3. \A k \in Keys : idx'[k] = IF \E s \in S \cap Subs : indexKey(sub[s]) = k /\ idx[k] = s
                               THEN None ELSE idx[k]
  BY DEF Removal, idxWithout
<1>4. ASSUME NEW s \in Subs'
      PROVE  idx'[indexKey(sub'[s])] = s
  <2>1. s \in Subs /\ s \notin S /\ sub'[s] = sub[s] /\ idx[indexKey(sub[s])] = s
    BY <1>1, <1>4 DEF IndexInv, IndexSound
  <2> QED
    BY <2>1, <1>2, <1>3
<1>5. ASSUME NEW k \in Keys, idx'[k] # None
      PROVE  idx'[k] \in Subs' /\ indexKey(sub'[idx'[k]]) = k
  <2>1. idx'[k] = idx[k]
    BY <1>3, <1>5
  <2>2. idx[k] \in Subs /\ indexKey(sub[idx[k]]) = k
    BY <1>5, <2>1 DEF IndexInv, IndexSound, Subs, TypeInv, TypeOK
  <2>3. idx[k] \notin S
    BY <1>3, <1>5, <2>1, <2>2
  <2> QED
    BY <1>1, <2>1, <2>2, <2>3
<1>6. IndexSound'
  BY <1>4, <1>5 DEF IndexSound, Subs
<1>7. OriginKnown'
  BY <1>1 DEF IndexInv, OriginKnown
<1> QED
  BY <1>6, <1>7 DEF IndexInv

LEMMA RegisteredKey ==
  ASSUME TypeInv, IndexInv, NEW g \in Grants, NEW s \in Registered(g)
  PROVE  s \in Subs /\ idx[indexKey(g)] = s /\ indexKey(sub[s]) = indexKey(g)
<1>1. s \in Subs /\ s # None /\ idx[indexKey(g)] = s
  BY NoneAssumption DEF Registered, Subs
<1>2. indexKey(g) \in Keys
  BY GrantsAssumption DEF Grant, indexKey, Keys
<1>3. indexKey(sub[idx[indexKey(g)]]) = indexKey(g)
  BY <1>1, <1>2 DEF IndexInv, IndexSound
<1> QED
  BY <1>1, <1>3

LEMMA IndexStep == TypeInv /\ IndexInv /\ [Next]_vars => IndexInv'
<1> SUFFICES ASSUME TypeInv, IndexInv, [Next]_vars PROVE IndexInv'
  OBVIOUS
<1>t. /\ \A s \in Subs : indexKey(sub[s]) \in Keys
      /\ \A g \in Grants : indexKey(g) \in Keys /\ g # None
      /\ \A s \in SubIds : s # None
      /\ idx \in [Keys -> SubIds \cup {None}]
      /\ sub \in [SubIds -> Grants \cup {None}]
  BY GrantsAssumption, NoneAssumption DEF TypeInv, TypeOK, Subs, Grant, indexKey, Keys
<1>1. CASE QuietStep
  <2>1. CASE UNCHANGED <<sub, idx>>
    BY <1>1, <2>1 DEF QuietStep, IndexInv, IndexSound, OriginKnown, Subs
  <2> QED
    BY <1>1, <2>1, RemovalKeepsIndex DEF QuietStep
<1>2. ASSUME NEW g \in Grants, RefreshStep(g)
      PROVE  IndexInv'
  <2>1. PICK s \in Existing(g) :
          sub' = [sub EXCEPT ![s] = IF sub[s].issuedAt <= g.issuedAt THEN g ELSE sub[s]]
    BY <1>2 DEF RefreshStep, Refreshes, Held
  <2>2. UNCHANGED <<idx, origin>>
    BY <1>2 DEF RefreshStep, Refreshes
  <2>3. s \in Subs /\ idx[indexKey(g)] = s /\ indexKey(sub[s]) = indexKey(g)
    BY RegisteredKey DEF Existing
  <2>4. /\ Subs' = Subs
        /\ \A t \in Subs : indexKey(sub'[t]) = indexKey(sub[t])
    BY <2>1, <2>3, <1>t DEF Subs
  <2>5. IndexSound'
    <3>1. \A t \in Subs' : idx'[indexKey(sub'[t])] = t
      BY <2>2, <2>4 DEF IndexInv, IndexSound
    <3>2. ASSUME NEW k \in Keys, idx'[k] # None
          PROVE  sub'[idx'[k]] # None /\ indexKey(sub'[idx'[k]]) = k
      <4>1. idx[k] \in Subs /\ indexKey(sub[idx[k]]) = k
        BY <3>2, <2>2, <1>t DEF IndexInv, IndexSound, Subs
      <4>2. idx[k] \in Subs'
        BY <4>1, <2>4
      <4> QED
        BY <4>1, <4>2, <2>2, <2>4 DEF Subs
    <3> QED
      BY <3>1, <3>2 DEF IndexSound
  <2>6. OriginKnown'
    BY <2>2, <2>4 DEF IndexInv, OriginKnown
  <2> QED
    BY <2>5, <2>6 DEF IndexInv
<1>3. ASSUME NEW g \in Grants, RegisterStep(g)
      PROVE  IndexInv'
  <2>1. PICK new \in SubIds :
          /\ origin[new] = None
          /\ sub' = [t \in SubIds |-> CASE t = new -> g
                                        [] t \in Stale(g) -> None
                                        [] OTHER -> sub[t]]
          /\ idx' = [idx EXCEPT ![indexKey(g)] = new]
          /\ origin' = [origin EXCEPT ![new] = g]
    BY <1>3 DEF RegisterStep, Registers
  <2>2. new \notin Subs
    BY <2>1 DEF IndexInv, OriginKnown
  <2>3. ASSUME NEW t \in Subs, indexKey(sub[t]) = indexKey(g)
        PROVE  t \in Stale(g)
    <3>1. t \in Registered(g)
      BY <2>3 DEF IndexInv, IndexSound, Registered
    <3> QED
      BY <1>3, <3>1 DEF RegisterStep, Registers, Existing
  <2>4. \A t \in Stale(g) : t \in Subs /\ indexKey(sub[t]) = indexKey(g)
    BY RegisteredKey DEF Stale
  <2>5. \A t \in SubIds : sub'[t] = IF t = new THEN g
                                   ELSE IF t \in Stale(g) THEN None ELSE sub[t]
    <3>1. new \notin Stale(g)
      BY <2>2, <2>4
    <3> QED
      BY <2>1, <3>1
  <2>6. \A k \in Keys : idx'[k] = IF k = indexKey(g) THEN new ELSE idx[k]
    BY <2>1, <1>t
  <2>7. \A t \in Subs' : idx'[indexKey(sub'[t])] = t
    <3>1. ASSUME NEW t \in Subs', t # new
          PROVE  idx'[indexKey(sub'[t])] = t
      <4>1. t \in Subs /\ t \notin Stale(g) /\ sub'[t] = sub[t]
        BY <3>1, <2>5 DEF Subs
      <4>2. indexKey(sub[t]) # indexKey(g)
        BY <4>1, <2>3
      <4> QED
        BY <4>1, <4>2, <2>6, <1>t DEF IndexInv, IndexSound
    <3> QED
      BY <3>1, <2>5, <2>6, <1>t
  <2>8. ASSUME NEW k \in Keys, idx'[k] # None
        PROVE  sub'[idx'[k]] # None /\ indexKey(sub'[idx'[k]]) = k
    <3>1. CASE k = indexKey(g)
      BY <3>1, <2>5, <2>6, <1>t
    <3>2. CASE k # indexKey(g)
      <4>1. idx'[k] = idx[k] /\ idx[k] \in Subs /\ indexKey(sub[idx[k]]) = k
        BY <3>2, <2>6, <2>8, <1>t DEF IndexInv, IndexSound, Subs
      <4>2. idx[k] # new /\ idx[k] \notin Stale(g)
        BY <3>2, <4>1, <2>2, <2>4
      <4>3. sub'[idx[k]] = sub[idx[k]]
        BY <4>1, <4>2, <2>5 DEF Subs
      <4> QED
        BY <4>1, <4>3 DEF Subs
    <3> QED
      BY <3>1, <3>2
  <2>9. OriginKnown'
    <3>1. \A t \in SubIds : origin'[t] = IF t = new THEN g ELSE origin[t]
      BY <2>1 DEF TypeInv, TypeOK
    <3> QED
      BY <3>1, <2>5, <1>t DEF IndexInv, OriginKnown, Subs
  <2> QED
    BY <2>7, <2>8, <2>9 DEF IndexInv, IndexSound
<1>4. ASSUME NEW d \in Devices, NEW ts \in 0..(now + SIGNATURE_WINDOW), RevokeStep(d, ts)
      PROVE  IndexInv'
  <2>1. Removal(DeviceSubs(d)) /\ origin' = origin
    BY <1>4 DEF RevokeStep
  <2>2. DeviceSubs(d) \in SUBSET SubIds
    BY DEF DeviceSubs, Subs
  <2> QED
    BY <2>1, <2>2, RemovalKeepsIndex
<1>5. CASE Cleanup
  <2>1. /\ origin' = origin
        /\ \A s \in SubIds : sub'[s] = IF Live(s, now) THEN sub[s] ELSE None
        /\ \A k \in Keys : idx'[k] = IF idx[k] # None /\ Live(idx[k], now)
                                      THEN idx[k] ELSE None
    BY <1>5 DEF Cleanup
  <2>2. \A s \in Subs' : s \in Subs /\ Live(s, now) /\ sub'[s] = sub[s]
    BY <2>1 DEF Subs
  <2>3. \A s \in Subs' : idx'[indexKey(sub'[s])] = s
    BY <2>1, <2>2, <1>t DEF IndexInv, IndexSound, Subs
  <2>4. ASSUME NEW k \in Keys, idx'[k] # None
        PROVE  sub'[idx'[k]] # None /\ indexKey(sub'[idx'[k]]) = k
    <3>1. idx'[k] = idx[k] /\ idx[k] \in SubIds /\ Live(idx[k], now)
      BY <2>1, <2>4, <1>t
    <3>2. sub[idx[k]] # None /\ sub'[idx[k]] = sub[idx[k]]
      BY <3>1, <2>1 DEF Live
    <3>3. indexKey(sub[idx[k]]) = k
      BY <3>1, <1>t DEF IndexInv, IndexSound
    <3> QED
      BY <3>1, <3>2, <3>3
  <2>5. OriginKnown'
    BY <2>1, <2>2 DEF IndexInv, OriginKnown
  <2> QED
    BY <2>3, <2>4, <2>5 DEF IndexInv, IndexSound
<1> QED
  BY <1>1, <1>2, <1>3, <1>4, <1>5, StepKinds DEF LoudStep

\* Every instance: an event report finds every subscription of its turn, one per
\* device, and no index entry dangles, through registration, token rotation,
\* expiry, removal and cleanup.
THEOREM IndexAlwaysSound == Spec => []IndexSound
<1>1. Init => TypeInv /\ IndexInv
  BY TypeInit, IndexInit
<1>2. TypeInv /\ IndexInv /\ [Next]_vars => (TypeInv /\ IndexInv)'
  BY TypeStep, IndexStep
<1>3. IndexInv => IndexSound
  BY DEF IndexInv
<1> QED
  BY <1>1, <1>2, <1>3, PTL DEF Spec
=============================================================================
