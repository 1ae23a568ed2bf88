SPECIFICATION TurnFairSpec
CONSTANTS
  t1 = t1
  t2 = t2
  Callers = {t1, t2}
  FailureThreshold = 2
  Cooldown = 2
  MaxAttempts = 2
  MaxFaults = 4
  EmbedsRemotely = TRUE
  Requests <- MCRequests
  None = None
INVARIANTS Grounded OutagesTold RequestsBounded
PROPERTIES Spec CoolingShields Recovers TurnsEnd
CHECK_DEADLOCK FALSE
