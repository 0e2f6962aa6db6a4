SPECIFICATION Spec
CHECK_DEADLOCK FALSE
CONSTANTS
  Logins = {l1, l2}
  Checks = {k1, k2}
  Logouts = {o1}
  Changes = {c1, c2}
  None = None
  First = First
  SessionTTL = 1
  MaxAttempts = 1
  AttemptWindow = 1
  MaxStarted = 4
  MaxFaults = 1
  MaxTime = 2
SYMMETRY Symmetric
INVARIANTS
  RevokedStaysRevoked
  SessionsConsistent
