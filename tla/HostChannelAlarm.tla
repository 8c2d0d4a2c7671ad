-------------------------- MODULE HostChannelAlarm --------------------------
(***************************************************************************)
(* The wake-ups of HostChannel, for every instance: a delivery that is     *)
(* retrying has its retry record, and the one alarm covers everything that *)
(* is stored.                                                              *)
(***************************************************************************)
EXTENDS HostChannelProofs

\* What AlarmCovers says of one time.
Covers(a, f, t) == (a # None /\ a <= t) \/ (f # None /\ f <= t)
Covered(t) == unarmed \/ Covers(alarm, fired, t)
CoveredNext(t) == unarmed' \/ Covers(alarm', fired', t)

\* An alarm that was to be set for a covers what it would have covered.
OwedCovered(a) == \A t \in Nat : a <= t => CoveredNext(t)

Finishing == {"loop", "dropSub", "dropToken"}

\* Between answers and questions to the provider a process holds the gate; the
\* alarm handler remembers what the alarm was set for.
GateHeld ==
  /\ \A p \in Procs : pc[p] \in Finishing => gate = p
  /\ pc[Alarm] = "idle" <=> fired = None
  /\ fired # None => fired <= now

\* A delivery at the provider has a record, which outlives the send.
RecordHeld(p) ==
  /\ now <= cur[p].since + SendMax
  /\ evt[Key(cur[p])] # None
  /\ cur[p].since + EVENT_RECORD_TTL <= evt[Key(cur[p])].exp
SendsRecorded ==
  /\ \A d \in Deliveries : evt[d] # None => evt[d].exp <= now + EVENT_RECORD_TTL
  /\ \A p \in Procs : pc[p] \in Busy => RecordHeld(p)

AlarmInv == GateHeld /\ SendsRecorded /\ RetryingHasRetry /\ AlarmCovers

-----------------------------------------------------------------------------
(***************************************************************************)
(* The times AlarmCovers speaks of, record by record.                      *)
(***************************************************************************)
RecordsCovered ==
  /\ \A s \in SubIds : sub[s] # None => Covered(sub[s].expiresAt)
  /\ \A d \in Deliveries : retry[d] # None => Covered(retry[d].nextAt)
  /\ \A d \in Deliveries : evt[d] # None => Covered(evt[d].exp)
  /\ \A g \in used : Covered(g.expiresAt)
  /\ \A d \in Devices : revoked[d] # None => Covered(revoked[d] + REVOCATION_TTL)
  /\ \A n \in Nonces : nonce[n] # None => Covered(nonce[n])
  /\ \A b \in Buckets : rl[b] # <<>> => Covered(rl[b][Len(rl[b])] + RATE_WINDOW)

LEMMA CoversRecords == AlarmCovers <=> RecordsCovered
BY DEF AlarmCovers, RecordsCovered, Wakeups, Covered, Covers, Subs

\* The values the comparisons are about.
LEMMA RecordTimes ==
  ASSUME TypeInv
  PROVE  /\ now \in Nat /\ alarm \in Nat \cup {None} /\ fired \in Nat \cup {None}
         /\ None \notin Nat
         /\ \A s \in SubIds : sub[s] # None => sub[s].expiresAt \in Nat
         /\ \A d \in Deliveries : retry[d] # None => retry[d].nextAt \in Nat
         /\ \A d \in Deliveries : evt[d] # None => evt[d].exp \in Nat
         /\ \A g \in used : g.expiresAt \in Nat
         /\ \A d \in Devices : revoked[d] # None => revoked[d] + REVOCATION_TTL \in Nat
         /\ \A n \in Nonces : nonce[n] # None => nonce[n] \in Nat
         /\ \A b \in Buckets : rl[b] # <<>> => rl[b][Len(rl[b])] + RATE_WINDOW \in Nat
         /\ \A p \in Procs : pc[p] \in Busy => /\ cur[p].since \in Nat
                                               /\ Key(cur[p]) \in Deliveries
<1>1. \A b \in Buckets : rl[b] # <<>> => rl[b][Len(rl[b])] \in Nat
  <2> SUFFICES ASSUME NEW b \in Buckets, rl[b] # <<>> PROVE rl[b][Len(rl[b])] \in Nat
    OBVIOUS
  <2>1. rl[b] \in Seq(Nat)
    BY DEF TypeInv, TypeOK
  <2> QED
    BY <2>1
<1>2. \A p \in Procs : pc[p] \in Busy => cur[p].since \in Nat /\ Key(cur[p]) \in Deliveries
  BY DEF TypeInv, TypeOK, Sending, Key, Deliveries
<1>3. /\ \A s \in SubIds : sub[s] # None => sub[s].expiresAt \in Nat
      /\ \A g \in used : g.expiresAt \in Nat
  BY GrantsAssumption DEF TypeInv, TypeOK, Grant
<1>4. /\ \A d \in Deliveries : retry[d] # None => retry[d].nextAt \in Nat
      /\ \A d \in Deliveries : evt[d] # None => evt[d].exp \in Nat
  BY DEF TypeInv, TypeOK, RetryRecord, DeliveryRecord
<1> QED
  BY <1>1, <1>2, <1>3, <1>4, TimesAssumption, NoneAssumption DEF TypeInv, TypeOK, Times

-----------------------------------------------------------------------------
(***************************************************************************)
(* Steps of the handlers: the clock stands still, the alarm only moves     *)
(* earlier, and what is written is covered by where the alarm is now.      *)
(***************************************************************************)
AlarmEarlier ==
  /\ now' = now /\ fired' = fired /\ unarmed' = unarmed
  /\ alarm' \in Times
  /\ alarm # None => alarm' # None /\ alarm' <= alarm

\* The object died: the alarm takes over from its handler.
AlarmRestored ==
  /\ now' = now /\ fired' = None /\ pc'[Alarm] = "idle"
  /\ alarm' \in Times
  /\ \A t \in Nat : Covered(t) => CoveredNext(t)

SubsArmed ==
  \A s \in SubIds : sub'[s] # None => sub'[s] = sub[s] \/ CoveredNext(sub'[s].expiresAt)

\* A delivery's record is rewritten together with its retry record, which stays
\* only if a crash comes in between.
Rewritten(d) ==
  /\ evt'[d] # None
  /\ evt'[d].exp = now + EVENT_RECORD_TTL
  /\ CoveredNext(now + EVENT_RECORD_TTL)
  /\ \/ retry'[d] # None /\ CoveredNext(retry'[d].nextAt)
     \/ retry'[d] \in {None, retry[d]} /\ evt'[d].state # "retrying"
DeliveriesArmed ==
  /\ torn \subseteq torn'
  /\ \A d \in Deliveries :
       \/ evt'[d] = evt[d] /\ retry'[d] = retry[d]
       \/ Rewritten(d)
       \/ evt'[d] = evt[d] /\ retry'[d] = None /\ d \in torn'

OthersArmed ==
  /\ \A g \in used' : g \in used \/ CoveredNext(g.expiresAt)
  /\ \A d \in Devices : revoked'[d] # None =>
        revoked'[d] = revoked[d] \/ CoveredNext(revoked'[d] + REVOCATION_TTL)
  /\ \A n \in Nonces : nonce'[n] # None => nonce'[n] = nonce[n] \/ CoveredNext(nonce'[n])
  /\ \A b \in Buckets : rl'[b] # <<>> =>
        rl'[b] = rl[b] \/ CoveredNext(rl'[b][Len(rl'[b])] + RATE_WINDOW)

\* A send that is under way goes on; one that begins has written its record.
Begun(p) ==
  /\ cur'[p].since = now
  /\ Key(cur'[p]) \in Deliveries
  /\ evt'[Key(cur'[p])] # None
  /\ evt'[Key(cur'[p])].exp = now + EVENT_RECORD_TTL
HandlersKept ==
  /\ \A p \in Procs : pc'[p] \in Finishing => gate' = p
  /\ (pc'[Alarm] = "idle" <=> pc[Alarm] = "idle") \/ AlarmRestored
  /\ \A p \in Procs : pc'[p] \in Busy => (pc[p] \in Busy /\ cur'[p] = cur[p]) \/ Begun(p)

ArmedStep ==
  /\ AlarmEarlier \/ AlarmRestored
  /\ SubsArmed /\ DeliveriesArmed /\ OthersArmed /\ HandlersKept

LEMMA StaysCovered ==
  ASSUME TypeInv, AlarmEarlier \/ AlarmRestored, NEW t \in Nat, Covered(t)
  PROVE  CoveredNext(t)
<1>1. CASE AlarmEarlier
  BY <1>1, NoneAssumption DEF TypeInv, TypeOK, Times, AlarmEarlier, Covered, CoveredNext, Covers
<1>2. CASE AlarmRestored
  BY <1>2 DEF AlarmRestored
<1> QED
  BY <1>1, <1>2

LEMMA ArmedStepKeeps ==
  ASSUME TypeInv, AlarmInv, ArmedStep
  PROVE  AlarmInv'
<1> USE DEF ArmedStep
<1>t. TypeInv /\ (AlarmEarlier \/ AlarmRestored) /\ RecordsCovered
  BY CoversRecords DEF AlarmInv
<1>n. now \in Nat /\ EVENT_RECORD_TTL \in Nat /\ now' = now /\ SendMax \in Nat
  BY <1>t, TimesAssumption DEF TypeInv, TypeOK, AlarmEarlier, AlarmRestored
<1>1. GateHeld'
  <2>1. CASE AlarmEarlier /\ ~AlarmRestored
    BY <2>1 DEF AlarmInv, GateHeld, HandlersKept, AlarmEarlier
  <2>2. CASE AlarmRestored
    BY <2>2 DEF GateHeld, HandlersKept, AlarmRestored
  <2> QED
    BY <1>t, <2>1, <2>2
<1>2. RetryingHasRetry'
  <2> SUFFICES ASSUME NEW d \in Deliveries \ torn', evt'[d] # None, evt'[d].state = "retrying"
               PROVE  retry'[d] # None
    BY DEF RetryingHasRetry
  <2>1. CASE evt'[d] = evt[d] /\ retry'[d] = retry[d]
    BY <2>1 DEF AlarmInv, RetryingHasRetry, DeliveriesArmed
  <2>2. CASE Rewritten(d)
    BY <2>2 DEF Rewritten
  <2> QED
    BY <2>1, <2>2 DEF DeliveriesArmed
<1>3. SendsRecorded'
  <2>1. \A d \in Deliveries : evt[d] # None => evt[d].exp \in Nat
    BY <1>t, RecordTimes
  <2>2. \A d \in Deliveries : evt'[d] # None => evt'[d].exp <= now + EVENT_RECORD_TTL
    BY <1>n, <2>1 DEF DeliveriesArmed, Rewritten, AlarmInv, SendsRecorded
  <2>3. ASSUME NEW p \in Procs, pc'[p] \in Busy
        PROVE  RecordHeld(p)'
    <3>1. CASE pc[p] \in Busy /\ cur'[p] = cur[p]
      <4>1. RecordHeld(p) /\ cur[p].since \in Nat /\ Key(cur[p]) \in Deliveries
        BY <1>t, <3>1, RecordTimes DEF AlarmInv, SendsRecorded
      <4> DEFINE d == Key(cur[p])
      <4>2. /\ evt[d] # None /\ evt[d].exp \in Nat
            /\ cur[p].since + EVENT_RECORD_TTL <= evt[d].exp
            /\ evt[d].exp <= now + EVENT_RECORD_TTL
        BY <4>1, <2>1 DEF RecordHeld, AlarmInv, SendsRecorded
      <4>3. evt'[d] # None /\ (evt'[d].exp = evt[d].exp \/ evt'[d].exp = now + EVENT_RECORD_TTL)
        BY <4>1, <4>2 DEF DeliveriesArmed, Rewritten
      <4>4. Key(cur'[p]) = d
        BY <3>1
      <4>5. cur[p].since + EVENT_RECORD_TTL <= evt'[d].exp
        BY <1>n, <4>1, <4>2, <4>3
      <4>6. now' <= cur'[p].since + SendMax
        BY <1>n, <3>1, <4>1 DEF RecordHeld
      <4> HIDE DEF d
      <4> QED
        BY <3>1, <4>3, <4>4, <4>5, <4>6 DEF RecordHeld, Key
    <3>2. CASE Begun(p)
      BY <1>n, <3>2 DEF Begun, RecordHeld, Key
    <3> QED
      BY <2>3, <3>1, <3>2 DEF HandlersKept
  <2> QED
    BY <1>n, <2>2, <2>3 DEF SendsRecorded
<1>4. RecordsCovered'
  <2>1. \A s \in SubIds : sub'[s] # None => CoveredNext(sub'[s].expiresAt)
    BY <1>t, RecordTimes, StaysCovered DEF RecordsCovered, SubsArmed
  <2>2. \A d \in Deliveries : retry'[d] # None => CoveredNext(retry'[d].nextAt)
    BY <1>t, RecordTimes, StaysCovered DEF RecordsCovered, DeliveriesArmed, Rewritten
  <2>3. \A d \in Deliveries : evt'[d] # None => CoveredNext(evt'[d].exp)
    BY <1>t, RecordTimes, StaysCovered DEF RecordsCovered, DeliveriesArmed, Rewritten
  <2>4. \A g \in used' : CoveredNext(g.expiresAt)
    BY <1>t, RecordTimes, StaysCovered DEF RecordsCovered, OthersArmed
  <2>5. \A d \in Devices : revoked'[d] # None => CoveredNext(revoked'[d] + REVOCATION_TTL)
    BY <1>t, RecordTimes, StaysCovered DEF RecordsCovered, OthersArmed
  <2>6. \A n \in Nonces : nonce'[n] # None => CoveredNext(nonce'[n])
    BY <1>t, RecordTimes, StaysCovered DEF RecordsCovered, OthersArmed
  <2>7. \A b \in Buckets : rl'[b] # <<>> => CoveredNext(rl'[b][Len(rl'[b])] + RATE_WINDOW)
    BY <1>t, RecordTimes, StaysCovered DEF RecordsCovered, OthersArmed
  <2> QED
    BY <2>1, <2>2, <2>3, <2>4, <2>5, <2>6, <2>7 DEF RecordsCovered, Covered, CoveredNext
<1>5. AlarmCovers'
  BY <1>4, CoversRecords, PTL
<1> QED
  BY <1>1, <1>2, <1>3, <1>5 DEF AlarmInv

-----------------------------------------------------------------------------
(***************************************************************************)
(* What the handlers' steps have in common.                                *)
(***************************************************************************)
LEMMA EnsureAlarmEarlier ==
  ASSUME NEW a \in Times, NEW t \in Nat
  PROVE  /\ ensureAlarm(a, t) \in Nat
         /\ ensureAlarm(a, t) <= t
         /\ a # None => ensureAlarm(a, t) <= a
BY NoneAssumption DEF ensureAlarm, Times

LEMMA AdmitAlarmEarlier ==
  ASSUME TypeInv
  PROVE  /\ AdmitAlarm \in Nat
         /\ AdmitAlarm <= now + RATE_WINDOW
         /\ AdmitAlarm <= now + HOST_NONCE_TTL
         /\ alarm # None => AdmitAlarm <= alarm
<1> DEFINE first == ensureAlarm(alarm, now + RATE_WINDOW)
<1>1. alarm \in Times /\ now + RATE_WINDOW \in Nat /\ now + HOST_NONCE_TTL \in Nat
  BY TimesAssumption DEF TypeInv, TypeOK
<1>2. first \in Nat /\ first <= now + RATE_WINDOW /\ (alarm # None => first <= alarm)
  BY <1>1, EnsureAlarmEarlier
<1>3. first \in Times /\ first # None
  BY <1>2, NoneAssumption DEF Times
<1> HIDE DEF first
<1>4. LET last == ensureAlarm(first, now + HOST_NONCE_TTL)
      IN  last \in Nat /\ last <= now + HOST_NONCE_TTL /\ last <= first
  BY <1>1, <1>3, EnsureAlarmEarlier
<1>5. AdmitAlarm = ensureAlarm(first, now + HOST_NONCE_TTL)
  BY DEF AdmitAlarm, first
<1>6. alarm # None => alarm \in Nat
  BY <1>1 DEF Times
<1> QED
  BY <1>1, <1>2, <1>4, <1>5, <1>6

\* An alarm that is set for a time covers it.
LEMMA AlarmSet ==
  ASSUME NEW t, alarm' \in Nat, alarm' <= t
  PROVE  CoveredNext(t)
BY NoneAssumption DEF CoveredNext, Covers

LEMMA AlarmOwed ==
  ASSUME NEW a \in Nat, alarm' = a
  PROVE  OwedCovered(a)
BY NoneAssumption DEF OwedCovered, CoveredNext, Covers

LEMMA Owes ==
  ASSUME NEW a, OwedCovered(a), NEW t \in Nat, a <= t
  PROVE  CoveredNext(t)
BY DEF OwedCovered

\* A crash loses the handlers; the alarm covers what it covered, and what it was
\* owed unless the records were not yet armed.
LEMMA CrashArms ==
  ASSUME TypeInv, AlarmInv, NEW a \in Times, NEW owed \in Nat, Crash(a, owed),
         alarm # None => a # None /\ a <= alarm
  PROVE  AlarmRestored /\ OwedCovered(owed) /\ HandlersKept
<1>1. /\ now' = now /\ fired' = None /\ alarm' = AlarmRerun(a)
      /\ pc' = [p \in Procs |-> "idle"]
      /\ unarmed' = (unarmed \/ a # owed)
  BY DEF Crash
<1>2. alarm \in Times /\ fired \in Times /\ None \notin Nat /\ Alarm \in Procs
  BY NoneAssumption DEF TypeInv, TypeOK, Procs
<1>3. /\ alarm' \in Times
      /\ a # None => alarm' # None /\ alarm' <= a
      /\ fired # None => alarm' # None /\ alarm' <= fired
  <2>1. CASE fired = None
    BY <1>1, <2>1 DEF AlarmRerun, Times
  <2>2. CASE fired # None
    BY <1>1, <1>2, <2>2, EnsureAlarmEarlier DEF AlarmRerun, Times
  <2> QED
    BY <2>1, <2>2
<1>4. ASSUME NEW t \in Nat, Covered(t)
      PROVE  CoveredNext(t)
  <2>1. CASE unarmed
    BY <1>1, <2>1 DEF CoveredNext
  <2>2. CASE alarm # None /\ alarm <= t
    BY <1>2, <1>3, <2>2 DEF CoveredNext, Covers, Times
  <2>3. CASE fired # None /\ fired <= t
    BY <1>2, <1>3, <2>3 DEF CoveredNext, Covers, Times
  <2> QED
    BY <1>4, <2>1, <2>2, <2>3 DEF Covered, Covers
<1>5. OwedCovered(owed)
  <2> SUFFICES ASSUME NEW t \in Nat, owed <= t
               PROVE  CoveredNext(t)
    BY DEF OwedCovered
  <2>1. CASE a = owed
    BY <1>2, <1>3, <2>1 DEF CoveredNext, Covers, Times
  <2>2. CASE a # owed
    BY <1>1, <2>2 DEF CoveredNext
  <2> QED
    BY <2>1, <2>2
<1>6. AlarmRestored
  BY <1>1, <1>2, <1>3, <1>4 DEF AlarmRestored
<1>7. HandlersKept
  BY <1>1, <1>6 DEF HandlersKept, Finishing, Busy
<1> QED
  BY <1>5, <1>6, <1>7

\* The same where no alarm was owed for what was written.
LEMMA CrashKeeps ==
  ASSUME TypeInv, AlarmInv, Crash(alarm, alarm)
  PROVE  AlarmRestored /\ HandlersKept
<1>1. /\ now' = now /\ fired' = None /\ alarm' = AlarmRerun(alarm)
      /\ pc' = [p \in Procs |-> "idle"]
      /\ unarmed' = unarmed
  <2>1. unarmed' = (unarmed \/ alarm # alarm)
    BY DEF Crash
  <2>2. unarmed \in BOOLEAN
    BY DEF TypeInv, TypeOK
  <2> QED
    BY <2>1, <2>2 DEF Crash
<1>2. alarm \in Times /\ fired \in Times /\ None \notin Nat /\ Alarm \in Procs
  BY NoneAssumption DEF TypeInv, TypeOK, Procs
<1>3. /\ alarm' \in Times
      /\ alarm # None => alarm' # None /\ alarm' <= alarm
      /\ fired # None => alarm' # None /\ alarm' <= fired
  <2>1. CASE fired = None
    BY <1>1, <1>2, <2>1 DEF AlarmRerun, Times
  <2>2. CASE fired # None
    BY <1>1, <1>2, <2>2, EnsureAlarmEarlier DEF AlarmRerun, Times
  <2> QED
    BY <2>1, <2>2
<1>4. \A t \in Nat : Covered(t) => CoveredNext(t)
  BY <1>1, <1>2, <1>3 DEF Covered, CoveredNext, Covers, Times
<1>5. AlarmRestored
  BY <1>1, <1>2, <1>3, <1>4 DEF AlarmRestored
<1>6. HandlersKept
  BY <1>1, <1>5 DEF HandlersKept, Finishing, Busy
<1> QED
  BY <1>5, <1>6

\* A request's nonce and admission time are covered, and so is every delivery
\* record the request writes.
RequestArmed ==
  /\ CoveredNext(now + EVENT_RECORD_TTL)
  /\ \A m \in Nonces : nonce'[m] # None => nonce'[m] = nonce[m] \/ CoveredNext(nonce'[m])
  /\ \A c \in Buckets : rl'[c] # <<>> =>
        rl'[c] = rl[c] \/ CoveredNext(rl'[c][Len(rl'[c])] + RATE_WINDOW)
  /\ \A p \in Procs : pc[p] \notin Finishing

LEMMA AdmitArms ==
  ASSUME TypeInv, AlarmInv, NEW b \in Buckets, NEW n \in Nonces, NEW a \in Nat,
         gate = None, consumeRate(b), OwedCovered(a), a <= now + RATE_WINDOW,
         nonce' = nonce \/ (rememberNonce(n) /\ a <= now + HOST_NONCE_TTL)
  PROVE  RequestArmed
<1>1. /\ now \in Nat /\ RATE_WINDOW \in Nat /\ HOST_NONCE_TTL \in Nat /\ EVENT_RECORD_TTL \in Nat
      /\ RATE_WINDOW <= EVENT_RECORD_TTL
  BY TimesAssumption, LeaseAssumption DEF TypeInv, TypeOK
<1>2. CoveredNext(now + RATE_WINDOW) /\ CoveredNext(now + EVENT_RECORD_TTL)
  <2>1. a <= now + EVENT_RECORD_TTL
    BY <1>1
  <2> QED
    BY <1>1, <2>1, Owes
<1>4. \A m \in Nonces : nonce'[m] # None => nonce'[m] = nonce[m] \/ CoveredNext(nonce'[m])
  <2>1. CASE nonce' = nonce
    BY <2>1
  <2>2. CASE rememberNonce(n) /\ a <= now + HOST_NONCE_TTL
    <3>1. CoveredNext(now + HOST_NONCE_TTL)
      BY <1>1, <2>2, Owes
    <3> QED
      BY <2>2, <3>1 DEF rememberNonce, TypeInv, TypeOK
  <2> QED
    BY <2>1, <2>2
<1>5. \A c \in Buckets : rl'[c] # <<>> =>
         rl'[c] = rl[c] \/ CoveredNext(rl'[c][Len(rl'[c])] + RATE_WINDOW)
  <2> DEFINE w == Append(Window(b), now)
  <2>1. rl' = [rl EXCEPT ![b] = w]
    BY DEF consumeRate
  <2>2. Window(b) \in Seq(Nat)
    BY WindowType DEF TypeInv
  <2>3. w[Len(w)] = now
    BY <1>1, <2>2, AppendProperties
  <2> HIDE DEF w
  <2> QED
    BY <2>1, <2>3, <1>2 DEF TypeInv, TypeOK
<1>6. \A p \in Procs : pc[p] \notin Finishing
  BY NoneAssumption DEF AlarmInv, GateHeld
<1> QED
  BY <1>2, <1>4, <1>5, <1>6 DEF RequestArmed

\* The same for a request that sets the alarm and ends.
LEMMA RequestKept ==
  ASSUME TypeInv, AlarmInv, NEW b \in Buckets, NEW n \in Nonces,
         gate = None, UNCHANGED <<now, fired, unarmed>>, consumeRate(b),
         alarm' \in Nat, alarm' <= now + RATE_WINDOW, alarm # None => alarm' <= alarm,
         nonce' = nonce \/ (rememberNonce(n) /\ alarm' <= now + HOST_NONCE_TTL)
  PROVE  AlarmEarlier /\ RequestArmed
<1>1. AlarmEarlier
  BY NoneAssumption DEF AlarmEarlier, Times
<1>2. PICK a \in Nat : alarm' = a
  OBVIOUS
<1>3. OwedCovered(a)
  BY <1>2, AlarmOwed
<1>4. RequestArmed
  BY <1>2, <1>3, AdmitArms
<1> QED
  BY <1>1, <1>4

\* Removing subscriptions finalizes what is pending.
LEMMA RemovalArms ==
  ASSUME TypeInv, NEW S, NEW state \in States \ {"retrying"},
         retry' = retryWithout(S), evt' = finalized(S, state), torn' = torn,
         CoveredNext(now + EVENT_RECORD_TTL)
  PROVE  DeliveriesArmed
<1> SUFFICES ASSUME NEW d \in Deliveries
             PROVE  (evt'[d] = evt[d] /\ retry'[d] = retry[d]) \/ Rewritten(d)
  BY DEF DeliveriesArmed
<1>1. CASE d[2] \in S /\ retry[d] # None
  <2>1. retry[d].attempts \in Nat
    BY <1>1 DEF TypeInv, TypeOK, RetryRecord
  <2>2. deliveryRecord(state, retry[d].attempts) \in DeliveryRecord
    BY <2>1, RecordType DEF TypeInv
  <2>3. /\ evt'[d] = deliveryRecord(state, retry[d].attempts)
        /\ retry'[d] = None
    BY <1>1 DEF finalized, retryWithout
  <2>4. evt'[d].exp = now + EVENT_RECORD_TTL /\ evt'[d].state = state
    BY <2>3 DEF deliveryRecord
  <2>5. evt'[d] # None
    BY <2>2, <2>3, NoneAssumption
  <2> QED
    BY <2>3, <2>4, <2>5 DEF Rewritten
<1>2. CASE ~(d[2] \in S /\ retry[d] # None)
  BY <1>2 DEF finalized, retryWithout
<1> QED
  BY <1>1, <1>2

\* A crash in the middle of a removal: what it does not finalize is torn.
LEMMA RemovalCutArms ==
  ASSUME TypeInv, NEW S, NEW s, NEW state \in States \ {"retrying"}, RemovalCut(S, s, state),
         CoveredNext(now + EVENT_RECORD_TTL)
  PROVE  SubsArmed /\ DeliveriesArmed /\ UNCHANGED <<used, revoked>>
<1>1. SubsArmed /\ UNCHANGED <<used, revoked>>
  BY DEF RemovalCut, deleteKeys, SubsArmed
<1>2. retry' = retryWithout(S)
  BY DEF RemovalCut, deleteKeys
<1>3. CASE evt' = finalized(S, state) /\ torn' = torn
  BY <1>1, <1>2, <1>3, RemovalArms
<1>4. CASE /\ evt' = finalized(S \ {s}, state)
           /\ torn' = torn \cup {d \in Deliveries : d[2] = s /\ retry[d] # None}
  <2> SUFFICES ASSUME NEW d \in Deliveries
               PROVE  \/ evt'[d] = evt[d] /\ retry'[d] = retry[d]
                      \/ Rewritten(d)
                      \/ evt'[d] = evt[d] /\ retry'[d] = None /\ d \in torn'
    BY <1>1, <1>4 DEF DeliveriesArmed
  <2>1. CASE d[2] \in S \ {s} /\ retry[d] # None
    <3>1. retry[d].attempts \in Nat
      BY <2>1 DEF TypeInv, TypeOK, RetryRecord
    <3>2. deliveryRecord(state, retry[d].attempts) \in DeliveryRecord
      BY <3>1, RecordType DEF TypeInv
    <3>3. /\ evt'[d] = deliveryRecord(state, retry[d].attempts)
          /\ retry'[d] = None
      BY <1>2, <1>4, <2>1 DEF finalized, retryWithout
    <3>4. evt'[d].exp = now + EVENT_RECORD_TTL /\ evt'[d].state = state
      BY <3>3 DEF deliveryRecord
    <3>5. evt'[d] # None
      BY <3>2, <3>3, NoneAssumption
    <3> QED
      BY <3>3, <3>4, <3>5 DEF Rewritten
  <2>2. CASE ~(d[2] \in S \ {s} /\ retry[d] # None)
    <3>1. evt'[d] = evt[d]
      BY <1>4, <2>2 DEF finalized
    <3>2. retry'[d] = IF d[2] \in S THEN None ELSE retry[d]
      BY <1>2 DEF retryWithout
    <3> QED
      BY <1>4, <2>2, <3>1, <3>2
  <2> QED
    BY <2>1, <2>2
<1> QED
  BY <1>1, <1>3, <1>4 DEF RemovalCut

\* What a running handler stores is covered: by the alarm it was woken by, or by
\* the record of the delivery it is sending.
LEMMA AlarmRunning ==
  ASSUME TypeInv, AlarmInv, pc[Alarm] # "idle"
  PROVE  Covered(now + EVENT_RECORD_TTL)
<1>1. fired # None /\ fired \in Nat /\ fired <= now
  BY DEF AlarmInv, GateHeld, TypeInv, TypeOK, Times
<1> QED
  BY <1>1, TimesAssumption DEF Covered, Covers, TypeInv, TypeOK

LEMMA SendRunning ==
  ASSUME TypeInv, AlarmInv, NEW p \in Procs, pc[p] \in Busy
  PROVE  Covered(now + EVENT_RECORD_TTL)
<1> DEFINE d == Key(cur[p])
<1>1. d \in Deliveries /\ evt[d] # None
  BY RecordTimes DEF AlarmInv, SendsRecorded, RecordHeld
<1>2. evt[d].exp \in Nat /\ evt[d].exp <= now + EVENT_RECORD_TTL
  BY <1>1, RecordTimes DEF AlarmInv, SendsRecorded
<1>3. Covered(evt[d].exp)
  BY <1>1, CoversRecords DEF AlarmInv, RecordsCovered
<1> HIDE DEF d
<1>4. now + EVENT_RECORD_TTL \in Nat /\ alarm \in Nat \cup {None} /\ fired \in Nat \cup {None}
  BY TimesAssumption DEF TypeInv, TypeOK, Times
<1>5. CASE unarmed
  BY <1>5 DEF Covered
<1>6. CASE ~unarmed
  BY <1>2, <1>3, <1>4, <1>6, NoneAssumption DEF Covered, Covers
<1> QED
  BY <1>5, <1>6

-----------------------------------------------------------------------------
(***************************************************************************)
(* The requests.                                                           *)
(***************************************************************************)
UsedArmed == \A h \in used' : h \in used \/ CoveredNext(h.expiresAt)

\* A refresh asks for the alarm no later than the grant, used or kept, expires.
LEMMA RefreshOwes ==
  ASSUME TypeInv, NEW g \in Grants, NEW s \in Existing(g)
  PROVE  /\ FirstExpiry(g, s) \in Nat
         /\ Held(g, s).expiresAt \in Nat /\ FirstExpiry(g, s) <= Held(g, s).expiresAt
         /\ g.expiresAt \in Nat /\ FirstExpiry(g, s) <= g.expiresAt
<1>1. s \in Subs
  BY DEF Existing, Registered
<1>2. g.expiresAt \in Nat /\ sub[s].expiresAt \in Nat
  BY <1>1, GrantsAssumption DEF Grant, Subs, TypeInv, TypeOK
<1>3. Held(g, s).expiresAt \in Nat
  BY <1>2 DEF Held
<1> QED
  BY <1>2, <1>3 DEF FirstExpiry

LEMMA RefreshWrites ==
  ASSUME TypeInv, NEW g \in Grants, NEW s \in Existing(g), Refreshes(g, s), torn' = torn,
         NEW a, OwedCovered(a), a <= FirstExpiry(g, s), a \in Nat
  PROVE  SubsArmed /\ DeliveriesArmed /\ UsedArmed
<1>1. CoveredNext(Held(g, s).expiresAt) /\ CoveredNext(g.expiresAt)
  <2>1. a <= Held(g, s).expiresAt /\ a <= g.expiresAt
    BY RefreshOwes
  <2> QED
    BY <2>1, RefreshOwes, Owes
<1>2. /\ sub' = [sub EXCEPT ![s] = Held(g, s)]
      /\ used' = used \cup {g} /\ UNCHANGED <<evt, retry>>
  BY DEF Refreshes
<1>3. SubsArmed
  BY <1>1, <1>2 DEF SubsArmed, TypeInv, TypeOK
<1> QED
  BY <1>1, <1>2, <1>3 DEF DeliveriesArmed, UsedArmed

LEMMA RegisterWrites ==
  ASSUME TypeInv, NEW g \in Grants, Registers(g), torn' = torn,
         NEW a, OwedCovered(a), a <= g.expiresAt,
         CoveredNext(now + EVENT_RECORD_TTL)
  PROVE  SubsArmed /\ DeliveriesArmed /\ UsedArmed
<1>1. CoveredNext(g.expiresAt)
  <2>1. g.expiresAt \in Nat
    BY GrantsAssumption DEF Grant
  <2> QED
    BY <2>1, Owes
<1>2. /\ \A t \in SubIds : sub'[t] \in {sub[t], g, None}
      /\ used' = used \cup {g}
      /\ retry' = retryWithout(Stale(g)) /\ evt' = finalized(Stale(g), "failed")
  BY DEF Registers
<1>3. DeliveriesArmed
  BY <1>2, RemovalArms DEF States
<1> QED
  BY <1>1, <1>2, <1>3 DEF SubsArmed, UsedArmed

\* What the admission asks for, and one more time t.
LEMMA AdmitOwes ==
  ASSUME TypeInv, NEW t \in Nat
  PROVE  LET a == ensureAlarm(AdmitAlarm, t)
         IN  /\ a \in Nat /\ a <= t /\ a <= AdmitAlarm
             /\ a <= now + RATE_WINDOW /\ a <= now + HOST_NONCE_TTL
             /\ alarm # None => a <= alarm
<1>1. /\ AdmitAlarm \in Nat /\ AdmitAlarm \in Times /\ AdmitAlarm # None
      /\ AdmitAlarm <= now + RATE_WINDOW
      /\ AdmitAlarm <= now + HOST_NONCE_TTL /\ (alarm # None => AdmitAlarm <= alarm)
  BY AdmitAlarmEarlier, NoneAssumption DEF Times
<1>2. now + RATE_WINDOW \in Nat /\ now + HOST_NONCE_TTL \in Nat /\ alarm \in Times
  BY TimesAssumption DEF TypeInv, TypeOK
<1>3. /\ ensureAlarm(AdmitAlarm, t) \in Nat /\ ensureAlarm(AdmitAlarm, t) <= t
      /\ ensureAlarm(AdmitAlarm, t) <= AdmitAlarm
  BY <1>1, EnsureAlarmEarlier
<1> QED
  BY <1>1, <1>2, <1>3 DEF Times

LEMMA SubscribeArmed ==
  ASSUME TypeInv, AlarmInv, NEW n \in Nonces, NEW g \in Grants, Subscribe(n, g)
  PROVE  ArmedStep
<1>r. SubscribeRequest(n, g)
  BY DEF Subscribe, SubscribeRevoked, SubscribeAgain, SubscribeReused, SubscribeRefresh, SubscribeNew
<1>u. /\ UNCHANGED <<now, fired, revoked, pc, cur, gate, unarmed, torn>> /\ gate = None
      /\ consumeRate("subscriptions") /\ rememberNonce(n) /\ "subscriptions" \in Buckets
  BY <1>r DEF SubscribeRequest, Admit, Admitted, Buckets
<1>a. /\ AdmitAlarm \in Nat /\ AdmitAlarm <= now + RATE_WINDOW
      /\ AdmitAlarm <= now + HOST_NONCE_TTL /\ (alarm # None => AdmitAlarm <= alarm)
  BY AdmitAlarmEarlier
<1>g. g.expiresAt \in Nat
  BY GrantsAssumption DEF Grant
<1>s. ASSUME NEW a \in Nat, alarm' = a, a <= now + RATE_WINDOW, a <= now + HOST_NONCE_TTL,
             alarm # None => a <= alarm,
             CoveredNext(now + EVENT_RECORD_TTL) => SubsArmed /\ DeliveriesArmed /\ UsedArmed
      PROVE  ArmedStep
  <2>1. AlarmEarlier /\ RequestArmed
    BY <1>u, <1>s, RequestKept
  <2>2. OthersArmed
    BY <1>u, <1>s, <2>1 DEF OthersArmed, RequestArmed, UsedArmed
  <2>3. HandlersKept
    BY <1>u, <2>1 DEF HandlersKept, RequestArmed
  <2> QED
    BY <1>s, <2>1, <2>2, <2>3 DEF ArmedStep, RequestArmed
<1>1. CASE SubscribeRevoked(n, g) \/ SubscribeAgain(n, g)
  <2>1. alarm' = AdmitAlarm /\ UNCHANGED <<sub, evt, retry, used>>
    BY <1>1 DEF SubscribeRevoked, SubscribeAgain
  <2>2. SubsArmed /\ DeliveriesArmed /\ UsedArmed
    BY <1>u, <2>1 DEF SubsArmed, DeliveriesArmed, UsedArmed
  <2> QED
    BY <1>a, <1>s, <2>1, <2>2
<1>2. CASE SubscribeReused(n, g)
  <2>1. alarm' = AdmitAlarm /\ used' = used /\ removeSubscriptions(Stale(g), "failed")
    BY <1>2 DEF SubscribeReused
  <2>2. SubsArmed /\ UsedArmed
    BY <2>1 DEF SubsArmed, UsedArmed, removeSubscriptions, deleteKeys
  <2>3. CoveredNext(now + EVENT_RECORD_TTL) => DeliveriesArmed
    BY <1>u, <2>1, RemovalArms DEF removeSubscriptions, deleteKeys, States
  <2> QED
    BY <1>a, <1>s, <2>1, <2>2, <2>3
<1>3. CASE SubscribeRefresh(n, g)
  <2>1. PICK s \in Existing(g) : /\ Refreshes(g, s)
                                 /\ alarm' = ensureAlarm(AdmitAlarm, FirstExpiry(g, s))
    BY <1>3 DEF SubscribeRefresh
  <2>2. PICK t \in Nat : t = FirstExpiry(g, s)
    BY RefreshOwes
  <2>3. PICK a \in Nat : a = ensureAlarm(AdmitAlarm, t)
    BY AdmitOwes
  <2>4. /\ alarm' = a /\ a <= FirstExpiry(g, s)
        /\ a <= now + RATE_WINDOW /\ a <= now + HOST_NONCE_TTL
        /\ alarm # None => a <= alarm
    BY <2>1, <2>2, <2>3, AdmitOwes
  <2>5. OwedCovered(a)
    BY <2>4, AlarmOwed
  <2>6. SubsArmed /\ DeliveriesArmed /\ UsedArmed
    BY <1>u, <2>1, <2>4, <2>5, RefreshWrites
  <2> QED
    BY <1>s, <2>4, <2>6
<1>4. CASE SubscribeNew(n, g)
  <2>1. Registers(g) /\ alarm' = ensureAlarm(AdmitAlarm, g.expiresAt)
    BY <1>4 DEF SubscribeNew
  <2>2. PICK a \in Nat : a = ensureAlarm(AdmitAlarm, g.expiresAt)
    BY <1>g, AdmitOwes
  <2>3. /\ alarm' = a /\ a <= g.expiresAt
        /\ a <= now + RATE_WINDOW /\ a <= now + HOST_NONCE_TTL
        /\ alarm # None => a <= alarm
    BY <1>g, <2>1, <2>2, AdmitOwes
  <2>4. OwedCovered(a)
    BY <2>3, AlarmOwed
  <2>5. CoveredNext(now + EVENT_RECORD_TTL) => SubsArmed /\ DeliveriesArmed /\ UsedArmed
    BY <1>u, <2>1, <2>3, <2>4, RegisterWrites
  <2> QED
    BY <1>s, <2>3, <2>5
<1> QED
  BY <1>1, <1>2, <1>3, <1>4 DEF Subscribe

LEMMA UnsubscribeArmed ==
  ASSUME TypeInv, AlarmInv, NEW n \in Nonces, NEW s \in SubIds, Unsubscribe(n, s)
  PROVE  ArmedStep
<1>1. /\ UNCHANGED <<now, fired, used, revoked, pc, cur, gate, unarmed, torn>> /\ gate = None
      /\ consumeRate("deletes") /\ rememberNonce(n)
      /\ alarm' = AdmitAlarm /\ removeSubscriptions({s}, "failed")
  BY DEF Unsubscribe, Admit, Admitted
<1>2. AlarmEarlier /\ RequestArmed
  <2>1. "deletes" \in Buckets
    BY DEF Buckets
  <2> QED
    BY <1>1, <2>1, AdmitAlarmEarlier, RequestKept
<1>3. SubsArmed
  BY <1>1 DEF SubsArmed, removeSubscriptions, deleteKeys
<1>4. DeliveriesArmed
  BY <1>1, <1>2, RemovalArms DEF removeSubscriptions, deleteKeys, States, RequestArmed
<1>5. OthersArmed /\ HandlersKept
  BY <1>1, <1>2 DEF OthersArmed, HandlersKept, RequestArmed
<1> QED
  BY <1>2, <1>3, <1>4, <1>5 DEF ArmedStep

\* A revocation asks for the alarm when its record may go.
LEMMA RevokeOwes ==
  ASSUME TypeInv, NEW d \in Devices, NEW ts \in Nat
  PROVE  RevocationPoint(d, ts) \in Nat /\ RevocationPoint(d, ts) + REVOCATION_TTL \in Nat
BY TimesAssumption DEF RevocationPoint, TypeInv, TypeOK, Times

LEMMA RevokeWrites ==
  ASSUME TypeInv, NEW n, NEW d \in Devices, NEW ts \in Nat, Revokes(n, d, ts), torn' = torn,
         NEW a, OwedCovered(a), a <= RevocationPoint(d, ts) + REVOCATION_TTL,
         CoveredNext(now + EVENT_RECORD_TTL)
  PROVE  /\ SubsArmed /\ DeliveriesArmed
         /\ \A e \in Devices : revoked'[e] # None =>
               revoked'[e] = revoked[e] \/ CoveredNext(revoked'[e] + REVOCATION_TTL)
<1>1. PICK point \in Nat : point = RevocationPoint(d, ts)
  BY RevokeOwes
<1>2. /\ removeSubscriptions(DeviceSubs(d), "failed")
      /\ revoked' = [revoked EXCEPT ![d] = point]
  BY <1>1 DEF Revokes
<1>3. CoveredNext(point + REVOCATION_TTL)
  BY <1>1, RevokeOwes, Owes
<1>4. SubsArmed
  BY <1>2 DEF SubsArmed, removeSubscriptions, deleteKeys
<1>5. DeliveriesArmed
  BY <1>2, RemovalArms DEF removeSubscriptions, deleteKeys, States
<1>6. \A e \in Devices : revoked'[e] = IF e = d THEN point ELSE revoked[e]
  BY <1>2 DEF TypeInv, TypeOK
<1> QED
  BY <1>3, <1>4, <1>5, <1>6

LEMMA RevokeArmed ==
  ASSUME TypeInv, AlarmInv, NEW n \in Nonces, NEW d \in Devices,
         NEW ts \in 0..(now + SIGNATURE_WINDOW),
         Revoke(n, d, ts) \/ RevokeRefused(n, d, ts)
  PROVE  ArmedStep
<1>1. /\ UNCHANGED <<now, fired, used, pc, cur, gate, unarmed, torn>> /\ gate = None
      /\ consumeRate("revokes")
  BY DEF Revoke, RevokeRefused, RevokeRequest, RevokeAdmitted, memory
<1>2. /\ now \in Nat /\ alarm \in Times /\ ts \in Nat /\ now + RATE_WINDOW \in Nat
      /\ "revokes" \in Buckets
  BY TimesAssumption DEF TypeInv, TypeOK, Buckets
<1>3. CASE RevokeRefused(n, d, ts)
  <2>1. /\ alarm' = ensureAlarm(alarm, now + RATE_WINDOW)
        /\ UNCHANGED <<sub, evt, retry, revoked, nonce>>
    BY <1>3 DEF RevokeRefused
  <2>2. alarm' \in Nat /\ alarm' <= now + RATE_WINDOW /\ (alarm # None => alarm' <= alarm)
    BY <1>2, <2>1, EnsureAlarmEarlier
  <2>3. AlarmEarlier /\ RequestArmed
    BY <1>1, <1>2, <2>1, <2>2, RequestKept
  <2>4. SubsArmed /\ DeliveriesArmed /\ OthersArmed /\ HandlersKept
    BY <1>1, <2>1, <2>3 DEF SubsArmed, DeliveriesArmed, OthersArmed, HandlersKept, RequestArmed
  <2> QED
    BY <2>3, <2>4 DEF ArmedStep
<1>4. CASE Revoke(n, d, ts)
  <2>1. PICK t \in Nat : t = RevocationPoint(d, ts) + REVOCATION_TTL
    BY <1>2, RevokeOwes
  <2>2. PICK a \in Nat : a = ensureAlarm(AdmitAlarm, t)
    BY AdmitOwes
  <2>3. Revokes(n, d, ts) /\ rememberNonce(n) /\ alarm' = a
    BY <1>4, <2>1, <2>2 DEF Revoke, Revokes
  <2>4. /\ a <= t /\ a <= now + RATE_WINDOW /\ a <= now + HOST_NONCE_TTL
        /\ alarm # None => a <= alarm
    BY <2>2, AdmitOwes
  <2>5. AlarmEarlier /\ RequestArmed
    BY <1>1, <1>2, <2>3, <2>4, RequestKept
  <2>6. OwedCovered(a)
    BY <2>3, AlarmOwed
  <2>7. CoveredNext(now + EVENT_RECORD_TTL)
    BY <2>5 DEF RequestArmed
  <2>8. /\ SubsArmed /\ DeliveriesArmed
        /\ \A e \in Devices : revoked'[e] # None =>
              revoked'[e] = revoked[e] \/ CoveredNext(revoked'[e] + REVOCATION_TTL)
    BY <1>1, <1>2, <2>1, <2>3, <2>4, <2>6, <2>7, RevokeWrites
  <2>9. OthersArmed /\ HandlersKept
    BY <1>1, <2>5, <2>8 DEF OthersArmed, HandlersKept, RequestArmed
  <2> QED
    BY <2>5, <2>8, <2>9 DEF ArmedStep
<1> QED
  BY <1>3, <1>4

LEMMA ReportArmed ==
  ASSUME TypeInv, AlarmInv, NEW n \in Nonces, NEW p \in Reporters, NEW e \in Events,
         Report(p, n, e)
  PROVE  ArmedStep
<1>1. /\ UNCHANGED <<now, fired, sub, evt, retry, used, revoked, cur, unarmed, torn>>
      /\ gate = None
      /\ consumeRate("events") /\ rememberNonce(n) /\ alarm' = AdmitAlarm
      /\ pc' = [pc EXCEPT ![p] = "loop"] /\ gate' = p
  BY DEF Report, Admit, Admitted, history
<1>2. AlarmEarlier /\ RequestArmed
  <2>1. "events" \in Buckets
    BY DEF Buckets
  <2> QED
    BY <1>1, <2>1, AdmitAlarmEarlier, RequestKept
<1>3. SubsArmed /\ DeliveriesArmed /\ OthersArmed
  BY <1>1, <1>2 DEF SubsArmed, DeliveriesArmed, OthersArmed, RequestArmed
<1>4. \A q \in Procs : pc'[q] = IF q = p THEN "loop" ELSE pc[q]
  BY <1>1 DEF TypeInv, TypeOK
<1>5. HandlersKept
  BY <1>1, <1>2, <1>4, NoneAssumption DEF HandlersKept, Busy, Procs, RequestArmed
<1> QED
  BY <1>2, <1>3, <1>5 DEF ArmedStep

-----------------------------------------------------------------------------
(***************************************************************************)
(* The handlers' own steps.                                                *)
(***************************************************************************)
\* A delivery's record written with a retry record, or without one when final.
LEMMA DeliveryWritten ==
  ASSUME TypeInv, NEW d \in Deliveries, NEW state \in States, NEW k \in Nat, NEW r,
         evt' = [evt EXCEPT ![d] = deliveryRecord(state, k)],
         retry' = [retry EXCEPT ![d] = r], torn' = torn,
         CoveredNext(now + EVENT_RECORD_TTL),
         (r # None /\ CoveredNext(r.nextAt)) \/ (r = None /\ state # "retrying")
  PROVE  DeliveriesArmed /\ evt'[d] # None /\ evt'[d].exp = now + EVENT_RECORD_TTL
<1>1. /\ deliveryRecord(state, k) # None
      /\ deliveryRecord(state, k).exp = now + EVENT_RECORD_TTL
      /\ deliveryRecord(state, k).state = state
  BY RecordType, NoneAssumption DEF TypeInv, deliveryRecord
<1>2. /\ evt'[d] = deliveryRecord(state, k) /\ retry'[d] = r
      /\ \A x \in Deliveries \ {d} : evt'[x] = evt[x] /\ retry'[x] = retry[x]
  BY DEF TypeInv, TypeOK
<1>3. Rewritten(d)
  BY <1>1, <1>2 DEF Rewritten
<1> QED
  BY <1>1, <1>2, <1>3 DEF DeliveriesArmed

LEMMA RetryRecordSet ==
  ASSUME NEW k \in Nat, NEW t \in Nat
  PROVE  [attempts |-> k, nextAt |-> t] # None
BY NoneAssumption DEF RetryRecord

\* deliver's beginning: the record lives at least as long as the lease, and the
\* alarm is set for the lease.
LEMMA StartSendArmed ==
  ASSUME TypeInv, AlarmInv, NEW p \in Procs, NEW m \in todo[p],
         gate = p, pc[p] = "loop", StartSend(p, m)
  PROVE  ArmedStep
<1>1. /\ m \in Pending /\ Key(m) \in Deliveries /\ Attempt(m) \in Nat
  BY DEF TypeInv, TypeOK, Pending, Key, Deliveries, Attempt
<1>2. /\ now \in Nat /\ alarm \in Times /\ now + SEND_LEASE \in Nat
      /\ now + SEND_LEASE <= now + EVENT_RECORD_TTL
  BY TimesAssumption, LeaseAssumption DEF TypeInv, TypeOK
<1>3. /\ UNCHANGED <<now, fired, sub, used, revoked, nonce, rl, unarmed, torn>>
      /\ evt' = [evt EXCEPT ![Key(m)] = deliveryRecord("retrying", Attempt(m))]
      /\ retry' = [retry EXCEPT ![Key(m)] = [attempts |-> Attempt(m), nextAt |-> now + SEND_LEASE]]
      /\ alarm' = ensureAlarm(alarm, now + SEND_LEASE)
      /\ cur' = [cur EXCEPT ![p] = [event |-> m.event, sub |-> m.sub, attempts |-> Attempt(m),
                                    grant |-> sub[m.sub], since |-> now]]
      /\ pc' = [pc EXCEPT ![p] = "sending"]
  BY DEF StartSend, Lease, history
<1>4. /\ alarm' \in Nat /\ alarm' <= now + SEND_LEASE /\ (alarm # None => alarm' <= alarm)
  BY <1>2, <1>3, EnsureAlarmEarlier
<1>5. AlarmEarlier
  BY <1>3, <1>4, NoneAssumption DEF AlarmEarlier, Times
<1>6. CoveredNext(now + SEND_LEASE) /\ CoveredNext(now + EVENT_RECORD_TTL)
  <2>1. alarm' <= now + EVENT_RECORD_TTL
    BY <1>2, <1>4, TimesAssumption
  <2> QED
    BY <1>4, <2>1, AlarmSet
<1>7. /\ DeliveriesArmed
      /\ evt'[Key(m)] # None /\ evt'[Key(m)].exp = now + EVENT_RECORD_TTL
  <2> DEFINE r == [attempts |-> Attempt(m), nextAt |-> now + SEND_LEASE]
  <2>1. r # None /\ CoveredNext(r.nextAt)
    BY <1>1, <1>2, <1>6, RetryRecordSet
  <2>2. "retrying" \in States
    BY DEF States
  <2> HIDE DEF r
  <2>3. retry' = [retry EXCEPT ![Key(m)] = r]
    BY <1>3 DEF r
  <2> QED
    BY <1>1, <1>3, <1>6, <2>1, <2>2, <2>3, DeliveryWritten
<1>8. SubsArmed /\ OthersArmed
  BY <1>3 DEF SubsArmed, OthersArmed
<1>9. /\ \A q \in Procs : pc'[q] = IF q = p THEN "sending" ELSE pc[q]
      /\ \A q \in Procs : q # p => cur'[q] = cur[q]
      /\ cur'[p].since = now /\ Key(cur'[p]) = Key(m)
  BY <1>3 DEF TypeInv, TypeOK, Key
<1>10. HandlersKept
  <2>1. \A q \in Procs : pc[q] \in Finishing => q = p
    BY DEF AlarmInv, GateHeld
  <2>2. \A q \in Procs : pc'[q] \in Finishing => gate' = q
    BY <1>9, <2>1 DEF Finishing
  <2>3. Begun(p)
    BY <1>1, <1>7, <1>9 DEF Begun
  <2>4. \A q \in Procs : pc'[q] \in Busy => (pc[q] \in Busy /\ cur'[q] = cur[q]) \/ Begun(q)
    BY <1>9, <2>3
  <2>5. pc'[Alarm] = "idle" <=> pc[Alarm] = "idle"
    BY <1>9 DEF Procs
  <2> QED
    BY <2>2, <2>4, <2>5 DEF HandlersKept
<1> QED
  BY <1>5, <1>7, <1>8, <1>10 DEF ArmedStep

LEMMA ProviderAnswerArmed ==
  ASSUME TypeInv, AlarmInv, NEW p \in Procs, ProviderAnswer(p)
  PROVE  ArmedStep
<1>1. /\ pc[p] = "sending" /\ pc[p] \in Busy /\ gate = None
      /\ UNCHANGED <<now, fired, sub, used, revoked, nonce, rl, unarmed, torn>>
  BY DEF ProviderAnswer, SendRetrying, SendFinal, SendThrows, Answered, Busy, storage, history
<1>2. /\ Key(cur[p]) \in Deliveries /\ cur[p].attempts \in Nat \ {0}
  BY <1>1, CurType
<1>3. SubsArmed /\ OthersArmed
  BY <1>1 DEF SubsArmed, OthersArmed
<1>4. \A q \in Procs : pc[q] \notin Finishing
  BY <1>1, NoneAssumption DEF AlarmInv, GateHeld
<1>5. now \in Nat /\ alarm \in Times /\ now + EVENT_RECORD_TTL \in Nat
      /\ Covered(now + EVENT_RECORD_TTL)
  BY <1>1, SendRunning, TimesAssumption DEF TypeInv, TypeOK
<1>6. ASSUME NEW next \in Finishing \cup {"idle"},
             pc' = [pc EXCEPT ![p] = next],
             next \in Finishing => gate' = p,
             next = "idle" => p # Alarm,
             next \in Busy => cur' = cur,
             \A q \in Procs : q # p => cur'[q] = cur[q]
      PROVE  HandlersKept
  <2>1. \A q \in Procs : pc'[q] = IF q = p THEN next ELSE pc[q]
    BY <1>6 DEF TypeInv, TypeOK
  <2>2. \A q \in Procs : pc'[q] \in Finishing => gate' = q
    BY <1>4, <1>6, <2>1
  <2>3. pc'[Alarm] = "idle" <=> pc[Alarm] = "idle"
    BY <1>1, <1>6, <2>1 DEF Procs, Finishing
  <2>4. \A q \in Procs : pc'[q] \in Busy => pc[q] \in Busy /\ cur'[q] = cur[q]
    BY <1>1, <1>6, <2>1
  <2> QED
    BY <2>2, <2>3, <2>4 DEF HandlersKept
<1>7. ASSUME NEW hint \in RetryHints, SendRetrying(p, hint)
      PROVE  ArmedStep
  <2> DEFINE t == now + RetryDelay(cur[p].attempts, hint)
             r == [attempts |-> cur[p].attempts, nextAt |-> t]
  <2>1. t \in Nat
    <3>1. cur[p].attempts \in 1..MAX_DELIVERY_ATTEMPTS /\ hint \in Nat
      BY <1>2, <1>7, TimesAssumption DEF SendRetrying, Reschedules
    <3> QED
      BY <1>5, <3>1, RetryDelayType
  <2>2. /\ evt' = [evt EXCEPT ![Key(cur[p])] = deliveryRecord("retrying", cur[p].attempts)]
        /\ retry' = [retry EXCEPT ![Key(cur[p])] = r]
        /\ alarm' = ensureAlarm(alarm, t)
        /\ pc' = [pc EXCEPT ![p] = "loop"] /\ gate' = p
        /\ cur' = [cur EXCEPT ![p] = None]
    BY <1>7 DEF SendRetrying, Reschedules, RetryAt, Answered
  <2> HIDE DEF t
  <2>3. alarm' \in Nat /\ alarm' <= t /\ (alarm # None => alarm' <= alarm)
    BY <1>5, <2>1, <2>2, EnsureAlarmEarlier
  <2>4. AlarmEarlier
    BY <1>1, <2>3, NoneAssumption DEF AlarmEarlier, Times
  <2>5. CoveredNext(t) /\ CoveredNext(now + EVENT_RECORD_TTL)
    BY <1>5, <2>3, <2>4, AlarmSet, StaysCovered
  <2>6. r # None /\ r.nextAt = t
    BY <1>2, <2>1, RetryRecordSet
  <2> HIDE DEF r
  <2>7. DeliveriesArmed
    BY <1>1, <1>2, <2>2, <2>5, <2>6, DeliveryWritten DEF States
  <2>8. HandlersKept
    <3>1. \A q \in Procs : q # p => cur'[q] = cur[q]
      BY <2>2 DEF TypeInv, TypeOK
    <3>2. "loop" \in Finishing \cup {"idle"} /\ "loop" \notin Busy
      BY DEF Finishing, Busy
    <3> QED
      BY <1>6, <2>2, <3>1, <3>2
  <2> QED
    BY <1>3, <2>4, <2>7, <2>8 DEF ArmedStep
<1>8. ASSUME NEW state \in States \ {"retrying"}, SendFinal(p, state)
      PROVE  ArmedStep
  <2> DEFINE next == IF state = "invalid_token" THEN "dropToken" ELSE "dropSub"
  <2>1. /\ evt' = [evt EXCEPT ![Key(cur[p])] = deliveryRecord(state, cur[p].attempts)]
        /\ retry' = [retry EXCEPT ![Key(cur[p])] = None]
        /\ pc' = [pc EXCEPT ![p] = next] /\ gate' = p /\ cur' = cur /\ alarm' = alarm
    BY <1>8 DEF SendFinal, Answered
  <2>2. AlarmEarlier
    BY <1>1, <1>5, <2>1 DEF AlarmEarlier, Times
  <2>3. CoveredNext(now + EVENT_RECORD_TTL)
    BY <1>5, <2>2, StaysCovered
  <2>4. DeliveriesArmed
    BY <1>1, <1>2, <1>8, <2>1, <2>3, DeliveryWritten
  <2>5. next \in Finishing
    BY DEF Finishing
  <2> HIDE DEF next
  <2>6. HandlersKept
    BY <1>6, <2>1, <2>5 DEF Finishing
  <2> QED
    BY <1>3, <2>2, <2>4, <2>6 DEF ArmedStep
<1>9. CASE SendThrows(p)
  <2>1. /\ UNCHANGED <<evt, retry, alarm>>
        /\ cur' = [cur EXCEPT ![p] = None]
        /\ \/ pc' = [pc EXCEPT ![p] = "loop"] /\ gate' = p
           \/ pc' = [pc EXCEPT ![p] = "idle"] /\ p # Alarm
    BY <1>9, NoneAssumption DEF SendThrows, storage
  <2>2. AlarmEarlier /\ DeliveriesArmed
    BY <1>1, <1>5, <2>1 DEF AlarmEarlier, DeliveriesArmed, Times
  <2>3. \A q \in Procs : q # p => cur'[q] = cur[q]
    BY <2>1 DEF TypeInv, TypeOK
  <2>4. HandlersKept
    <3>1. CASE pc' = [pc EXCEPT ![p] = "loop"] /\ gate' = p
      BY <1>6, <2>3, <3>1 DEF Finishing, Busy
    <3>2. CASE pc' = [pc EXCEPT ![p] = "idle"] /\ p # Alarm
      BY <1>6, <2>3, <3>2 DEF Finishing, Busy
    <3> QED
      BY <2>1, <3>1, <3>2
  <2> QED
    BY <1>3, <2>2, <2>4 DEF ArmedStep
<1> QED
  BY <1>7, <1>8, <1>9 DEF ProviderAnswer

LEMMA DropAfterSendArmed ==
  ASSUME TypeInv, AlarmInv, NEW p \in Procs, DropAfterSend(p)
  PROVE  ArmedStep
<1>1. /\ pc[p] \in Busy /\ gate = p /\ gate' = gate
      /\ UNCHANGED <<now, used, revoked, nonce, rl, alarm, fired, unarmed, torn>>
      /\ pc' = [pc EXCEPT ![p] = "loop"] /\ cur' = [cur EXCEPT ![p] = None]
  BY DEF DropAfterSend, Busy, history
<1>2. \E S, state : state \in States \ {"retrying"} /\ removeSubscriptions(S, state)
  BY DEF DropAfterSend, States
<1>3. AlarmEarlier
  BY <1>1 DEF AlarmEarlier, TypeInv, TypeOK, Times
<1>4. CoveredNext(now + EVENT_RECORD_TTL)
  <2>1. now + EVENT_RECORD_TTL \in Nat
    BY TimesAssumption DEF TypeInv, TypeOK
  <2> QED
    BY <1>1, <1>3, <2>1, SendRunning, StaysCovered
<1>5. SubsArmed
  BY <1>2 DEF SubsArmed, removeSubscriptions, deleteKeys
<1>6. DeliveriesArmed
  <2>1. PICK S, state : state \in States \ {"retrying"} /\ removeSubscriptions(S, state)
    BY <1>2
  <2> QED
    BY <1>1, <1>4, <2>1, RemovalArms DEF removeSubscriptions, deleteKeys
<1>7. HandlersKept
  <2>1. \A q \in Procs : /\ pc'[q] = IF q = p THEN "loop" ELSE pc[q]
                         /\ q # p => cur'[q] = cur[q]
    BY <1>1 DEF TypeInv, TypeOK
  <2>2. \A q \in Procs : pc'[q] \in Finishing => gate' = q
    BY <1>1, <2>1 DEF AlarmInv, GateHeld
  <2>3. pc'[Alarm] = "idle" <=> pc[Alarm] = "idle"
    BY <1>1, <2>1 DEF Procs, Busy
  <2>4. \A q \in Procs : pc'[q] \in Busy => pc[q] \in Busy /\ cur'[q] = cur[q]
    BY <2>1 DEF Busy
  <2> QED
    BY <2>2, <2>3, <2>4 DEF HandlersKept
<1> QED
  BY <1>1, <1>3, <1>5, <1>6, <1>7 DEF ArmedStep, OthersArmed

LEMMA ReportStepArmed ==
  ASSUME TypeInv, AlarmInv, NEW p \in Reporters, ReportStep(p)
  PROVE  ArmedStep
<1>1. p \in Procs /\ p # Alarm
  BY NoneAssumption DEF Procs
<1>2. ASSUME NEW m \in todo[p], ReportSkip(p, m)
      PROVE  ArmedStep
  <2>1. UNCHANGED <<now, sub, evt, retry, used, revoked, nonce, rl, alarm, fired, pc, cur, gate,
                    unarmed, torn>>
    BY <1>2 DEF ReportSkip, storage, history
  <2> QED
    BY <2>1 DEF ArmedStep, AlarmEarlier, SubsArmed, DeliveriesArmed, OthersArmed, HandlersKept,
                AlarmInv, GateHeld, TypeInv, TypeOK, Times
<1>3. ASSUME NEW m \in todo[p], ReportSend(p, m)
      PROVE  ArmedStep
  BY <1>1, <1>3, StartSendArmed DEF ReportSend, Looping
<1>4. CASE ReportEnd(p)
  <2>1. /\ UNCHANGED <<now, sub, evt, retry, used, revoked, nonce, rl, alarm, fired, cur,
                       unarmed, torn>>
        /\ pc' = [pc EXCEPT ![p] = "idle"] /\ gate = p
    BY <1>4 DEF ReportEnd, Looping, storage, history
  <2>2. \A q \in Procs : pc'[q] = IF q = p THEN "idle" ELSE pc[q]
    BY <2>1 DEF TypeInv, TypeOK
  <2>3. HandlersKept
    <3>1. \A q \in Procs : pc'[q] \notin Finishing
      BY <2>1, <2>2 DEF AlarmInv, GateHeld, Finishing
    <3>2. pc'[Alarm] = "idle" <=> pc[Alarm] = "idle"
      BY <1>1, <2>2 DEF Procs
    <3>3. \A q \in Procs : pc'[q] \in Busy => pc[q] \in Busy /\ cur'[q] = cur[q]
      BY <2>1, <2>2 DEF Busy
    <3> QED
      BY <3>1, <3>2, <3>3 DEF HandlersKept
  <2> QED
    BY <2>1, <2>3 DEF ArmedStep, AlarmEarlier, SubsArmed, DeliveriesArmed, OthersArmed,
                      TypeInv, TypeOK, Times
<1> QED
  BY <1>2, <1>3, <1>4 DEF ReportStep

LEMMA RetryStepArmed ==
  ASSUME TypeInv, AlarmInv, NEW m \in todo[Alarm],
         RetryOrphan(m) \/ RetryBlocked(m) \/ RetrySend(m)
  PROVE  ArmedStep
<1>1. /\ Alarm \in Procs /\ gate = Alarm /\ pc[Alarm] = "loop"
      /\ m \in Pending /\ Key(m) \in Deliveries /\ m.attempts \in Nat
  BY DEF RetryOrphan, RetryBlocked, RetrySend, Looping, Procs, TypeInv, TypeOK,
         Pending, Key, Deliveries
<1>2. CASE RetrySend(m)
  BY <1>1, <1>2, StartSendArmed DEF RetrySend
<1>3. CASE RetryOrphan(m) \/ RetryBlocked(m)
  <2>1. UNCHANGED <<now, used, revoked, nonce, rl, alarm, fired, pc, cur, gate, unarmed, torn>>
    BY <1>3 DEF RetryOrphan, RetryBlocked, history
  <2>2. AlarmEarlier
    BY <2>1 DEF AlarmEarlier, TypeInv, TypeOK, Times
  <2>3. CoveredNext(now + EVENT_RECORD_TTL)
    <3>1. now + EVENT_RECORD_TTL \in Nat
      BY TimesAssumption DEF TypeInv, TypeOK
    <3> QED
      BY <1>1, <2>2, <3>1, AlarmRunning, StaysCovered
  <2>4. SubsArmed
    BY <1>3 DEF RetryOrphan, RetryBlocked, removeSubscriptions, deleteKeys, SubsArmed
  <2>5. DeliveriesArmed
    <3>1. CASE RetryOrphan(m)
      BY <1>1, <2>1, <2>3, <3>1, DeliveryWritten DEF RetryOrphan, States
    <3>2. CASE RetryBlocked(m)
      BY <2>1, <2>3, <3>2, RemovalArms DEF RetryBlocked, removeSubscriptions, deleteKeys, States
    <3> QED
      BY <1>3, <3>1, <3>2
  <2>6. OthersArmed /\ HandlersKept
    BY <2>1 DEF OthersArmed, HandlersKept, AlarmInv, GateHeld
  <2> QED
    BY <2>2, <2>4, <2>5, <2>6 DEF ArmedStep
<1> QED
  BY <1>2, <1>3

-----------------------------------------------------------------------------
(***************************************************************************)
(* The steps that move the alarm otherwise, or the clock.                  *)
(***************************************************************************)
\* The alarm goes off: what it covered, its handler covers.
LEMMA AlarmFireKeeps ==
  ASSUME TypeInv, AlarmInv, AlarmFire
  PROVE  AlarmInv'
<1>1. /\ UNCHANGED <<now, sub, evt, retry, used, revoked, nonce, rl, cur, unarmed, torn>>
      /\ fired' = alarm /\ alarm # None /\ alarm <= now /\ alarm' = None
      /\ pc' = [pc EXCEPT ![Alarm] = "loop"] /\ gate = None /\ gate' = Alarm
      /\ pc[Alarm] = "idle"
  BY DEF AlarmFire, history
<1>2. Alarm \in Procs /\ \A q \in Procs : pc'[q] = IF q = Alarm THEN "loop" ELSE pc[q]
  BY <1>1 DEF Procs, TypeInv, TypeOK
<1>3. GateHeld'
  BY <1>1, <1>2, NoneAssumption DEF AlarmInv, GateHeld
<1>4. SendsRecorded'
  <2>1. \A q \in Procs : pc'[q] \in Busy => pc[q] \in Busy
    BY <1>2 DEF Busy
  <2> QED
    BY <1>1, <2>1 DEF AlarmInv, SendsRecorded, RecordHeld, Key
<1>5. RetryingHasRetry'
  BY <1>1 DEF AlarmInv, RetryingHasRetry
<1>6. AlarmCovers'
  <2>1. Wakeups' = Wakeups
    BY <1>1 DEF Wakeups, Subs
  <2>2. fired = None
    BY <1>1 DEF AlarmInv, GateHeld
  <2> QED
    BY <1>1, <2>1, <2>2 DEF AlarmInv, AlarmCovers
<1> QED
  BY <1>3, <1>4, <1>5, <1>6 DEF AlarmInv

\* The handler's end: the records that are left ask for the alarm again.  A
\* record some send is using is among them: it outlives the send.
LEMMA CleanupKeeps ==
  ASSUME TypeInv, AlarmInv, Cleanup, TypeInv'
  PROVE  AlarmInv'
<1>1. /\ UNCHANGED <<now, retry, cur, torn>> /\ fired' = None
      /\ evt' = [d \in Deliveries |-> IF evt[d] # None /\ evt[d].exp <= now THEN None ELSE evt[d]]
      /\ alarm' = IF Wakeups' = {} THEN alarm ELSE ensureAlarm(alarm, Earliest(Wakeups'))
      /\ pc' = [pc EXCEPT ![Alarm] = "idle"] /\ gate = Alarm
  BY DEF Cleanup, Looping
<1>2. Alarm \in Procs /\ \A q \in Procs : pc'[q] = IF q = Alarm THEN "idle" ELSE pc[q]
  BY <1>1 DEF Procs, TypeInv, TypeOK
<1>3. GateHeld'
  BY <1>1, <1>2, NoneAssumption DEF AlarmInv, GateHeld, Finishing
<1>4. SendsRecorded'
  <2>1. \A d \in Deliveries : evt'[d] # None => evt'[d] = evt[d] /\ evt[d].exp <= now + EVENT_RECORD_TTL
    BY <1>1 DEF AlarmInv, SendsRecorded
  <2>2. ASSUME NEW q \in Procs, pc'[q] \in Busy
        PROVE  RecordHeld(q)'
    <3>1. pc[q] \in Busy
      BY <1>2, <2>2 DEF Busy
    <3>2. /\ RecordHeld(q) /\ cur[q].since \in Nat /\ Key(cur[q]) \in Deliveries
      BY <3>1, RecordTimes DEF AlarmInv, SendsRecorded
    <3> DEFINE d == Key(cur[q])
    <3>3. evt[d] # None /\ evt[d].exp \in Nat
      BY <3>2, RecordTimes DEF RecordHeld
    <3>4. now < evt[d].exp
      BY <3>2, <3>3, TimesAssumption, LeaseAssumption DEF RecordHeld, TypeInv, TypeOK
    <3>5. evt'[d] = evt[d]
      BY <1>1, <3>2, <3>3, <3>4 DEF TypeInv, TypeOK
    <3>6. now' = now /\ cur' = cur
      BY <1>1
    <3> QED
      BY <3>2, <3>5, <3>6 DEF RecordHeld, Key
  <2> QED
    BY <1>1, <2>1, <2>2 DEF SendsRecorded
<1>5. RetryingHasRetry'
  BY <1>1 DEF AlarmInv, RetryingHasRetry, TypeInv, TypeOK
<1>6. AlarmCovers'
  <2> SUFFICES ASSUME NEW t \in Wakeups'
               PROVE  alarm' # None /\ alarm' <= t
    BY DEF AlarmCovers
  <2>1. RecordsOK'
    BY DEF TypeInv, TypeOK, RecordsOK
  <2>2. Wakeups' \subseteq Nat
    <3>1. (RecordsOK => Wakeups \subseteq Nat)'
      BY WakeupsType, PTL
    <3> QED
      BY <2>1, <3>1
  <2> DEFINE T == Wakeups'
             first == Earliest(T)
  <2>3. T \in SUBSET Nat /\ T # {}
    BY <2>2
  <2>4. alarm' = ensureAlarm(alarm, first)
    BY <1>1, <2>3
  <2> HIDE DEF T
  <2>5. first \in Nat /\ \A u \in T : first <= u
    BY <2>3, EarliestExists
  <2>6. t \in T /\ t \in Nat
    BY <2>2 DEF T
  <2> HIDE DEF first
  <2>7. alarm' \in Nat /\ alarm' <= first
    BY <2>4, <2>5, EnsureAlarmEarlier DEF TypeInv, TypeOK
  <2> QED
    BY <2>5, <2>6, <2>7, NoneAssumption
<1> QED
  BY <1>3, <1>4, <1>5, <1>6 DEF AlarmInv

LEMMA TickKeeps ==
  ASSUME TypeInv, AlarmInv, Tick
  PROVE  AlarmInv'
<1>1. /\ UNCHANGED <<sub, evt, retry, used, revoked, nonce, rl, alarm, fired, pc, cur, gate,
                    unarmed, torn>>
      /\ now' = now + 1 /\ gate = None
      /\ \A p \in Procs : pc[p] = "sending" => now < cur[p].since + SendMax
  BY DEF Tick, storage, memory, history
<1>2. GateHeld'
  BY <1>1 DEF AlarmInv, GateHeld, TypeInv, TypeOK, Times
<1>3. SendsRecorded'
  <2>1. \A d \in Deliveries : evt[d] # None => evt[d].exp \in Nat
    BY RecordTimes
  <2>2. \A d \in Deliveries : evt'[d] # None => evt'[d].exp <= now' + EVENT_RECORD_TTL
    BY <1>1, <2>1, TimesAssumption DEF AlarmInv, SendsRecorded, TypeInv, TypeOK
  <2>3. ASSUME NEW q \in Procs, pc'[q] \in Busy
        PROVE  RecordHeld(q)'
    <3>1. pc[q] = "sending" /\ pc[q] \in Busy
      BY <1>1, <2>3, NoneAssumption DEF AlarmInv, GateHeld, Busy, Finishing
    <3>2. RecordHeld(q) /\ cur[q].since \in Nat
      BY <3>1, RecordTimes DEF AlarmInv, SendsRecorded
    <3>3. now' <= cur[q].since + SendMax
      BY <1>1, <3>1, <3>2, TimesAssumption DEF TypeInv, TypeOK
    <3> QED
      BY <1>1, <3>2, <3>3 DEF RecordHeld, Key
  <2> QED
    BY <2>2, <2>3 DEF SendsRecorded
<1>4. RetryingHasRetry'
  BY <1>1 DEF AlarmInv, RetryingHasRetry
<1>5. AlarmCovers'
  BY <1>1 DEF AlarmInv, AlarmCovers, Wakeups, Subs
<1> QED
  BY <1>2, <1>3, <1>4, <1>5 DEF AlarmInv

-----------------------------------------------------------------------------
(***************************************************************************)
(* Crashes: between two steps, and in the middle of one.                   *)
(***************************************************************************)
LEMMA RestartArmed ==
  ASSUME TypeInv, AlarmInv, Restart
  PROVE  ArmedStep
<1>1. AlarmRestored /\ HandlersKept
  BY CrashKeeps DEF Restart
<1>2. SubsArmed /\ DeliveriesArmed /\ OthersArmed
  BY DEF Restart, SubsArmed, DeliveriesArmed, OthersArmed
<1> QED
  BY <1>1, <1>2 DEF ArmedStep

\* The times an admission asks for.
LEMMA RatedAlarm ==
  ASSUME TypeInv
  PROVE  LET rated == ensureAlarm(alarm, now + RATE_WINDOW)
         IN  /\ rated \in Nat /\ rated <= now + RATE_WINDOW
             /\ alarm # None => rated <= alarm
<1>1. alarm \in Times /\ now + RATE_WINDOW \in Nat
  BY TimesAssumption DEF TypeInv, TypeOK
<1> QED
  BY <1>1, EnsureAlarmEarlier

LEMMA CutAdmissionArmed ==
  ASSUME TypeInv, AlarmInv, NEW n \in Nonces, NEW b \in Buckets, CutAdmission(b, n)
  PROVE  ArmedStep
<1>1. /\ gate = None /\ consumeRate(b)
      /\ UNCHANGED <<sub, evt, retry, used, revoked, torn>>
  BY DEF CutAdmission, CutKeeps
<1>2. PICK rated \in Nat : rated = ensureAlarm(alarm, now + RATE_WINDOW)
  BY RatedAlarm
<1>3. /\ rated <= now + RATE_WINDOW /\ (alarm # None => rated <= alarm)
      /\ alarm \in Times /\ rated # None /\ rated \in Times /\ None \notin Nat
  BY <1>2, RatedAlarm, NoneAssumption DEF TypeInv, TypeOK, Times
<1>4. alarm # None => alarm <= alarm
  BY <1>3 DEF Times
<1>5. PICK both \in Nat : both = AdmitAlarm
  BY AdmitAlarmEarlier
<1>6. /\ both <= now + RATE_WINDOW /\ both <= now + HOST_NONCE_TTL
      /\ (alarm # None => both <= alarm) /\ both \in Times /\ both # None
  BY <1>5, AdmitAlarmEarlier, NoneAssumption DEF Times
<1>7. AlarmRestored /\ HandlersKept /\ RequestArmed
  <2>1. CASE nonce' = nonce /\ \E a \in {alarm, rated} : Crash(a, rated)
    <3>1. AlarmRestored /\ OwedCovered(rated) /\ HandlersKept
      BY <1>3, <1>4, <2>1, CrashArms
    <3> QED
      BY <1>1, <1>3, <2>1, <3>1, AdmitArms
  <2>2. CASE rememberNonce(n) /\ \E a \in {rated, both} : Crash(a, both)
    <3>1. AlarmRestored /\ OwedCovered(both) /\ HandlersKept
      BY <1>3, <1>6, <2>2, CrashArms
    <3> QED
      BY <1>1, <1>6, <2>2, <3>1, AdmitArms
  <2> QED
    BY <1>2, <1>5, <2>1, <2>2 DEF CutAdmission
<1> QED
  BY <1>1, <1>7 DEF ArmedStep, RequestArmed, SubsArmed, DeliveriesArmed, OthersArmed

\* What a request that dies at its last ensureAlarm, for t, has in common.
LEMMA CutRequest ==
  ASSUME TypeInv, AlarmInv, NEW n \in Nonces, NEW b \in Buckets, NEW t \in Nat,
         gate = None, consumeRate(b), rememberNonce(n),
         Crash(AdmitAlarm, ensureAlarm(AdmitAlarm, t))
  PROVE  /\ AlarmRestored /\ HandlersKept /\ RequestArmed
         /\ \E a \in Nat : a <= t /\ OwedCovered(a)
<1>1. PICK a \in Nat : a = ensureAlarm(AdmitAlarm, t)
  BY AdmitOwes
<1>2. /\ a <= t /\ a <= now + RATE_WINDOW /\ a <= now + HOST_NONCE_TTL
  BY <1>1, AdmitOwes
<1>3. /\ AdmitAlarm \in Times /\ AdmitAlarm # None
      /\ alarm # None => AdmitAlarm <= alarm
  BY AdmitAlarmEarlier, NoneAssumption DEF Times
<1>4. AlarmRestored /\ OwedCovered(a) /\ HandlersKept
  BY <1>1, <1>3, CrashArms
<1>5. RequestArmed
  BY <1>2, <1>4, AdmitArms
<1> QED
  BY <1>2, <1>4, <1>5

LEMMA CutSubscribeArmed ==
  ASSUME TypeInv, AlarmInv, NEW n \in Nonces, NEW g \in Grants, CutSubscribe(n, g)
  PROVE  ArmedStep
<1>1. /\ gate = None /\ consumeRate("subscriptions") /\ rememberNonce(n)
      /\ "subscriptions" \in Buckets /\ UNCHANGED <<revoked, torn>>
  BY DEF CutSubscribe, Admitted, Buckets
<1>2. ASSUME RequestArmed, AlarmRestored, HandlersKept, SubsArmed, DeliveriesArmed, UsedArmed
      PROVE  ArmedStep
  BY <1>1, <1>2 DEF ArmedStep, RequestArmed, OthersArmed, UsedArmed
<1>3. ASSUME NEW s \in Existing(g), Refreshes(g, s),
             Crash(AdmitAlarm, ensureAlarm(AdmitAlarm, FirstExpiry(g, s)))
      PROVE  ArmedStep
  <2>1. PICK t \in Nat : t = FirstExpiry(g, s)
    BY RefreshOwes
  <2>2. /\ AlarmRestored /\ HandlersKept /\ RequestArmed
        /\ \E a \in Nat : a <= t /\ OwedCovered(a)
    BY <1>1, <1>3, <2>1, CutRequest
  <2>3. SubsArmed /\ DeliveriesArmed /\ UsedArmed
    BY <1>1, <1>3, <2>1, <2>2, RefreshWrites
  <2> QED
    BY <1>2, <2>2, <2>3
<1>4. ASSUME Registers(g), Crash(AdmitAlarm, ensureAlarm(AdmitAlarm, g.expiresAt))
      PROVE  ArmedStep
  <2>1. PICK t \in Nat : t = g.expiresAt
    BY GrantsAssumption DEF Grant
  <2>2. /\ AlarmRestored /\ HandlersKept /\ RequestArmed
        /\ \E a \in Nat : a <= t /\ OwedCovered(a)
    BY <1>1, <1>4, <2>1, CutRequest
  <2>3. SubsArmed /\ DeliveriesArmed /\ UsedArmed
    BY <1>1, <1>4, <2>1, <2>2, RegisterWrites DEF RequestArmed
  <2> QED
    BY <1>2, <2>2, <2>3
<1> QED
  BY <1>3, <1>4 DEF CutSubscribe

LEMMA CutRevokeArmed ==
  ASSUME TypeInv, AlarmInv, NEW n \in Nonces, NEW d \in Devices,
         NEW ts \in 0..(now + SIGNATURE_WINDOW), CutRevoke(n, d, ts)
  PROVE  ArmedStep
<1>1. /\ gate = None /\ consumeRate("revokes") /\ rememberNonce(n) /\ Revokes(n, d, ts)
      /\ "revokes" \in Buckets /\ UNCHANGED <<used, torn>>
  BY DEF CutRevoke, RevokeAdmitted, Revokes, Buckets
<1>2. ts \in Nat
  BY TimesAssumption DEF TypeInv, TypeOK
<1>3. PICK t \in Nat : t = RevocationPoint(d, ts) + REVOCATION_TTL
  BY <1>2, RevokeOwes
<1>4. /\ AlarmRestored /\ HandlersKept /\ RequestArmed
      /\ \E a \in Nat : a <= t /\ OwedCovered(a)
  BY <1>1, <1>3, CutRequest DEF CutRevoke
<1>5. /\ SubsArmed /\ DeliveriesArmed
      /\ \A e \in Devices : revoked'[e] # None =>
            revoked'[e] = revoked[e] \/ CoveredNext(revoked'[e] + REVOCATION_TTL)
  BY <1>1, <1>2, <1>3, <1>4, RevokeWrites DEF RequestArmed
<1> QED
  BY <1>1, <1>4, <1>5 DEF ArmedStep, RequestArmed, OthersArmed

LEMMA CutRequestRemovalArmed ==
  ASSUME TypeInv, AlarmInv, NEW n \in Nonces, CutRequestRemoval(n)
  PROVE  ArmedStep
<1>0. PICK b \in Buckets : gate = None /\ consumeRate(b) /\ rememberNonce(n)
  BY DEF CutRequestRemoval, Admitted, RevokeAdmitted, Buckets
<1>1. PICK S, s : RemovalCut(S, s, "failed")
  BY DEF CutRequestRemoval
<1>2. PICK a \in Nat : a = AdmitAlarm
  BY AdmitAlarmEarlier
<1>3. /\ a <= now + RATE_WINDOW /\ a <= now + HOST_NONCE_TTL
      /\ (alarm # None => a <= alarm) /\ a \in Times /\ a # None
  BY <1>2, AdmitAlarmEarlier, NoneAssumption DEF Times
<1>4. AlarmRestored /\ OwedCovered(a) /\ HandlersKept
  BY <1>2, <1>3, CrashArms DEF CutRequestRemoval
<1>5. RequestArmed
  BY <1>0, <1>3, <1>4, AdmitArms
<1>6. SubsArmed /\ DeliveriesArmed /\ UNCHANGED <<used, revoked>>
  BY <1>1, <1>5, RemovalCutArms DEF RequestArmed, States
<1> QED
  BY <1>4, <1>5, <1>6 DEF ArmedStep, RequestArmed, OthersArmed

\* A handler dies: the record it may be writing is covered.
LEMMA HandlerCovered ==
  ASSUME TypeInv, AlarmInv, AlarmRestored, NEW p \in Procs,
         pc[p] \in Busy \/ (p = Alarm /\ pc[p] # "idle")
  PROVE  CoveredNext(now + EVENT_RECORD_TTL)
<1>1. now + EVENT_RECORD_TTL \in Nat
  BY TimesAssumption DEF TypeInv, TypeOK
<1> QED
  BY <1>1, SendRunning, AlarmRunning, StaysCovered

LEMMA CutRemovalArmed ==
  ASSUME TypeInv, AlarmInv, NEW p \in Procs, CutRemoval(p)
  PROVE  ArmedStep
<1>1. AlarmRestored /\ HandlersKept
  BY CrashKeeps DEF CutRemoval
<1>2. UNCHANGED <<nonce, rl>> /\ (pc[p] \in Busy \/ (p = Alarm /\ pc[p] # "idle"))
  BY DEF CutRemoval, Looping, Busy
<1>3. CoveredNext(now + EVENT_RECORD_TTL)
  BY <1>1, <1>2, HandlerCovered
<1>4. PICK state \in States \ {"retrying"} : \E S, s : RemovalCut(S, s, state)
  BY DEF CutRemoval, States
<1>5. SubsArmed /\ DeliveriesArmed /\ UNCHANGED <<used, revoked>>
  BY <1>3, <1>4, RemovalCutArms
<1> QED
  BY <1>1, <1>2, <1>5 DEF ArmedStep, OthersArmed

\* The first write of a final answer: the retry record is still there.
LEMMA FinalWritten ==
  ASSUME TypeInv, NEW d \in Deliveries, NEW state \in States \ {"retrying"}, NEW k \in Nat,
         evt' = [evt EXCEPT ![d] = deliveryRecord(state, k)],
         retry' = retry, torn' = torn, CoveredNext(now + EVENT_RECORD_TTL)
  PROVE  DeliveriesArmed
<1>1. /\ deliveryRecord(state, k) # None
      /\ deliveryRecord(state, k).exp = now + EVENT_RECORD_TTL
      /\ deliveryRecord(state, k).state = state
  BY RecordType, NoneAssumption DEF TypeInv, deliveryRecord
<1>2. /\ evt'[d] = deliveryRecord(state, k)
      /\ \A x \in Deliveries \ {d} : evt'[x] = evt[x]
  BY DEF TypeInv, TypeOK
<1>3. Rewritten(d)
  BY <1>1, <1>2 DEF Rewritten
<1> QED
  BY <1>2, <1>3 DEF DeliveriesArmed

LEMMA CutDeliveryArmed ==
  ASSUME TypeInv, AlarmInv, NEW p \in Procs, CutDelivery(p)
  PROVE  ArmedStep
<1>1. UNCHANGED <<sub, used, revoked, nonce, rl, torn>>
  BY DEF CutDelivery
<1> SUFFICES AlarmRestored /\ HandlersKept /\ DeliveriesArmed
  BY <1>1 DEF ArmedStep, SubsArmed, OthersArmed
<1>2. alarm \in Times /\ now \in Nat /\ (alarm # None => alarm <= alarm)
  BY DEF TypeInv, TypeOK, Times
<1>3. ASSUME NEW m \in todo[p], Lease(m), Crash(alarm, ensureAlarm(alarm, now + SEND_LEASE))
      PROVE  AlarmRestored /\ HandlersKept /\ DeliveriesArmed
  <2>1. /\ now + SEND_LEASE \in Nat /\ now + EVENT_RECORD_TTL \in Nat
        /\ now + SEND_LEASE <= now + EVENT_RECORD_TTL
    BY <1>2, TimesAssumption, LeaseAssumption
  <2>2. PICK a \in Nat : a = ensureAlarm(alarm, now + SEND_LEASE)
    BY <1>2, <2>1, EnsureAlarmEarlier
  <2>3. a <= now + SEND_LEASE
    BY <1>2, <2>1, <2>2, EnsureAlarmEarlier
  <2>4. AlarmRestored /\ OwedCovered(a) /\ HandlersKept
    BY <1>2, <1>3, <2>2, CrashArms
  <2>5. CoveredNext(now + SEND_LEASE) /\ CoveredNext(now + EVENT_RECORD_TTL)
    <3>1. a <= now + EVENT_RECORD_TTL
      BY <2>1, <2>3
    <3> QED
      BY <2>1, <2>3, <2>4, <3>1, Owes
  <2>6. /\ m \in Pending /\ Key(m) \in Deliveries /\ Attempt(m) \in Nat
    BY DEF TypeInv, TypeOK, Pending, Key, Deliveries, Attempt
  <2>7. PICK r : r = [attempts |-> Attempt(m), nextAt |-> now + SEND_LEASE]
    OBVIOUS
  <2>8. r # None /\ CoveredNext(r.nextAt)
    BY <2>1, <2>5, <2>6, <2>7, RetryRecordSet
  <2>9. /\ evt' = [evt EXCEPT ![Key(m)] = deliveryRecord("retrying", Attempt(m))]
        /\ retry' = [retry EXCEPT ![Key(m)] = r]
    BY <1>3, <2>7 DEF Lease
  <2>10. DeliveriesArmed
    BY <1>1, <2>5, <2>6, <2>8, <2>9, DeliveryWritten DEF States
  <2> QED
    BY <2>4, <2>10
<1>4. ASSUME pc[p] = "sending", NEW hint \in RetryHints, Reschedules(p, hint),
             Crash(alarm, ensureAlarm(alarm, RetryAt(p, hint)))
      PROVE  AlarmRestored /\ HandlersKept /\ DeliveriesArmed
  <2>1. pc[p] \in Busy /\ Key(cur[p]) \in Deliveries /\ cur[p].attempts \in Nat \ {0}
    BY <1>4, CurType DEF Busy
  <2>2. PICK t \in Nat : t = RetryAt(p, hint)
    <3>1. cur[p].attempts \in 1..MAX_DELIVERY_ATTEMPTS /\ hint \in Nat
      BY <1>4, <2>1, TimesAssumption DEF Reschedules
    <3> QED
      BY <1>2, <3>1, RetryDelayType DEF RetryAt
  <2>3. PICK a \in Nat : a = ensureAlarm(alarm, t)
    BY <1>2, EnsureAlarmEarlier
  <2>4. a <= t
    BY <1>2, <2>3, EnsureAlarmEarlier
  <2>5. AlarmRestored /\ OwedCovered(a) /\ HandlersKept
    BY <1>2, <1>4, <2>2, <2>3, CrashArms
  <2>6. CoveredNext(t) /\ CoveredNext(now + EVENT_RECORD_TTL)
    BY <2>1, <2>4, <2>5, Owes, HandlerCovered
  <2>7. PICK r : r = [attempts |-> cur[p].attempts, nextAt |-> t]
    OBVIOUS
  <2>8. r # None /\ CoveredNext(r.nextAt)
    BY <2>1, <2>6, <2>7, RetryRecordSet
  <2>9. /\ evt' = [evt EXCEPT ![Key(cur[p])] = deliveryRecord("retrying", cur[p].attempts)]
        /\ retry' = [retry EXCEPT ![Key(cur[p])] = r]
    BY <1>4, <2>2, <2>7 DEF Reschedules
  <2>10. DeliveriesArmed
    BY <1>1, <2>1, <2>6, <2>8, <2>9, DeliveryWritten DEF States
  <2> QED
    BY <2>5, <2>10
<1>5. ASSUME pc[p] = "sending", NEW state \in States \ {"retrying"}, retry' = retry,
             evt' = [evt EXCEPT ![Key(cur[p])] = deliveryRecord(state, cur[p].attempts)],
             Crash(alarm, alarm)
      PROVE  AlarmRestored /\ HandlersKept /\ DeliveriesArmed
  <2>1. pc[p] \in Busy /\ Key(cur[p]) \in Deliveries /\ cur[p].attempts \in Nat \ {0}
    BY <1>5, CurType DEF Busy
  <2>2. AlarmRestored /\ HandlersKept
    BY <1>5, CrashKeeps
  <2>3. CoveredNext(now + EVENT_RECORD_TTL)
    BY <2>1, <2>2, HandlerCovered
  <2> QED
    BY <1>1, <1>5, <2>1, <2>2, <2>3, FinalWritten
<1>6. ASSUME p = Alarm, Looping(p), NEW m \in todo[p], retry' = retry,
             evt' = [evt EXCEPT ![Key(m)] = deliveryRecord("failed", m.attempts)],
             Crash(alarm, alarm)
      PROVE  AlarmRestored /\ HandlersKept /\ DeliveriesArmed
  <2>1. Key(m) \in Deliveries /\ m.attempts \in Nat
    BY DEF TypeInv, TypeOK, Pending, Key, Deliveries
  <2>2. AlarmRestored /\ HandlersKept
    BY <1>6, CrashKeeps
  <2>3. CoveredNext(now + EVENT_RECORD_TTL)
    BY <1>6, <2>2, HandlerCovered DEF Looping
  <2> QED
    BY <1>1, <1>6, <2>1, <2>2, <2>3, FinalWritten DEF States
<1> QED
  BY <1>3, <1>4, <1>5, <1>6 DEF CutDelivery

-----------------------------------------------------------------------------
LEMMA AlarmInit == Init => AlarmInv
<1> SUFFICES ASSUME Init PROVE AlarmInv
  OBVIOUS
<1>1. GateHeld
  BY DEF Init, GateHeld, Finishing, Procs
<1>2. SendsRecorded
  BY DEF Init, SendsRecorded, Busy
<1>3. RetryingHasRetry
  BY DEF Init, RetryingHasRetry
<1>4. RecordsCovered
  BY DEF Init, RecordsCovered
<1> QED
  BY <1>1, <1>2, <1>3, <1>4, CoversRecords DEF AlarmInv

LEMMA AlarmStepKeeps == TypeInv /\ AlarmInv /\ [Next]_vars => AlarmInv'
<1> SUFFICES ASSUME TypeInv, AlarmInv, [Next]_vars PROVE AlarmInv'
  OBVIOUS
<1>1. TypeInv'
  BY TypeStep
<1>2. CASE HostRequest
  BY <1>2, SubscribeArmed, UnsubscribeArmed, ReportArmed, ArmedStepKeeps DEF HostRequest
<1>3. CASE DeviceRevoke
  BY <1>3, RevokeArmed, ArmedStepKeeps DEF DeviceRevoke
<1>4. CASE Progress
  <2>1. CASE \E p \in Procs : ProviderAnswer(p) \/ DropAfterSend(p)
    BY <2>1, ProviderAnswerArmed, DropAfterSendArmed, ArmedStepKeeps
  <2>2. CASE \E p \in Reporters : ReportStep(p)
    BY <2>2, ReportStepArmed, ArmedStepKeeps
  <2>3. CASE AlarmStep
    BY <1>1, <2>3, RetryStepArmed, ArmedStepKeeps, CleanupKeeps DEF AlarmStep
  <2> QED
    BY <1>4, <2>1, <2>2, <2>3 DEF Progress
<1>5. CASE AlarmFire
  BY <1>5, AlarmFireKeeps
<1>6. CASE Restart
  BY <1>6, RestartArmed, ArmedStepKeeps
<1>7. CASE Tick
  BY <1>7, TickKeeps
<1>8. CASE UNCHANGED vars
  <2>1. UNCHANGED <<now, sub, evt, retry, used, revoked, nonce, rl, alarm, fired, pc, cur, gate,
                    unarmed, torn>>
    BY <1>8 DEF vars, storage, memory, history
  <2> QED
    BY <2>1 DEF AlarmInv, GateHeld, SendsRecorded, RecordHeld, Key, RetryingHasRetry,
                AlarmCovers, Wakeups, Subs
<1>9. CASE CutShort
  <2>1. ASSUME NEW p \in Procs, CutRemoval(p) \/ CutDelivery(p)
        PROVE  ArmedStep
    BY <2>1, CutRemovalArmed, CutDeliveryArmed
  <2> QED
    BY <1>9, <2>1, CutAdmissionArmed, CutSubscribeArmed, CutRevokeArmed, CutRequestRemovalArmed,
       ArmedStepKeeps DEF CutShort
<1> QED
  BY <1>2, <1>3, <1>4, <1>5, <1>6, <1>7, <1>8, <1>9 DEF Next

LEMMA AlarmAlways == Spec => []AlarmInv
<1>1. Spec => [](TypeInv /\ AlarmInv)
  BY TypeInit, TypeStep, AlarmInit, AlarmStepKeeps, PTL DEF Spec
<1> QED
  BY <1>1, PTL

\* AlarmCovers, for every number of subscriptions, requests and handlers: the
\* one alarm of the object never misses an expiry, a retry or a lease, through
\* every removal, refused request, running handler and crash, except from a
\* crash between a record and its ensureAlarm to the next cleanup.
THEOREM AlarmNeverMisses == Spec => []AlarmCovers
<1>1. AlarmInv => AlarmCovers
  BY DEF AlarmInv
<1> QED
  BY <1>1, AlarmAlways, PTL

\* RetryingHasRetry: a delivery recorded as "retrying" has a pending retry, however
\* the removals, answers, thrown errors and crashes of other handlers interleave,
\* except where a crash cut a removal between its two writes.
THEOREM RetryingAlwaysPending == Spec => []RetryingHasRetry
<1>1. AlarmInv => RetryingHasRetry
  BY DEF AlarmInv
<1> QED
  BY <1>1, AlarmAlways, PTL
=============================================================================
