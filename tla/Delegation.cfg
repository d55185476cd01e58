CONSTANTS
  w1 = w1
  w2 = w2
  Calls = {1, 2, 3}
  Keys = {1}
  Workers = {w1, w2}
  MaxPending = 1
  MaxCards = 1
  CardTTL = 1
  Retention = 2
  ServiceRetention = 3
  EscrowTTL = 1
  Environments <- AllEnvironments
SPECIFICATION Spec
INVARIANTS TypeOK OneCurrentRun NoSleepOnPendingWork CachedIsQueryable FirstRunHasSinks
PROPERTIES ImplementsContract ServiceCloseReturns
CHECK_DEADLOCK FALSE
