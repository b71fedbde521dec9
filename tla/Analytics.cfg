SPECIFICATION FairSpec
CONSTANTS
  EventIds = {1, 2, 3}
  Recorders = {"smtp", "http"}
  QueueSize = 2
  BatchSize = 2
  MaxAttempts = 2
  EventTTL = 0
  MaxStorage = 1
  WalSizes = {0, 1}
  EvictBatch = 1
  MaxRounds = 2
  MaxTime = 1
INVARIANTS TypeOK PendingExact Accounted ShutdownDrains
PROPERTIES EvictionOldestFirst CloseReturns EventsSettle
\* The service may be shut down.
CHECK_DEADLOCK FALSE
