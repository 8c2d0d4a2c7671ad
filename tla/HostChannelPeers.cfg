SPECIFICATION Spec
CONSTANTS
  d1 = d1  d2 = d2  t1 = t1  e1 = e1  e2 = e2  k1 = k1  k2 = k2
  s1 = s1  s2 = s2  n1 = n1  n2 = n2  n3 = n3  n4 = n4
  r1 = r1  r2 = r2
  None = None
  Alarm = Alarm
  Turns = {t1}
  Tokens = {k1, k2}
  EventTurn <- MCEventTurn
  RATE_LIMITS <- MCLimits
  Devices = {d1, d2}
  Events = {e1}
  Grants <- TwoDevices
  SubIds = {s1, s2}
  Nonces = {n1, n2, n3, n4}
  Reporters = {r1, r2}
  MAX_GRANT_LIFETIME = 4
  HOST_NONCE_TTL = 1
  EVENT_RECORD_TTL = 4
  REVOCATION_TTL = 5
  RATE_WINDOW = 1
  MAX_UNSEEN_REVOCATIONS = 1
  MAX_DELIVERY_ATTEMPTS = 2
  RETRY_BASE = 1
  RETRY_MAX = 2
  RETRY_AFTER_MAX = 3
  SEND_LEASE = 2
  SIGNATURE_WINDOW = 1
  EntryDelay = 0
  RetryHints = {0, 3}
  SendMax = 1
  MaxRestarts = 0
  Horizon = 1
  MaxTime = 4
  AlarmDelay = 9
SYMMETRY Symmetric
INVARIANTS AlarmCovers
PROPERTIES NoSendAfterRevoke
CHECK_DEADLOCK FALSE
