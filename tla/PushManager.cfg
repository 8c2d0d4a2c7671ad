SPECIFICATION Spec
CONSTANTS
  h1 = h1  t1 = t1  t2 = t2  k1 = k1  k2 = k2
  None = None
  Servers = {h1}
  TurnIds = {t1, t2}
  Malformed = {}
  Tokens = {k1, k2}
  GRANT_LIFETIME = 1
  COMPLETED_RETENTION = 1
  MAX_TRACKED_SUBSCRIPTIONS = 1
  Slots = {1, 2}
  MaxAttempts = 2
  MaxTime = 2
SYMMETRY Symmetric
INVARIANTS TypeOK HeldMatchesPhone SubscribedIsHeld AttemptTokenCurrent PendingHasJob GrantOutlivesRevoke
CHECK_DEADLOCK FALSE
