SPECIFICATION Spec
CONSTANTS
  BlobPaths = {11, 12, 13}
  TmpPaths = {1}
  Locals = {"a", "b"}
  Readers = {}
  Deliveries <- UnitDeliveries
  LegacyMail <- LegacyOne
  MaxMessageBytes = 1
  MaxStorageBytes = 2
  MessageTTL = 1
  CleanupBatchSize = 2
  PageSize = 1
  MaxTime = 1
  MaxRowid = 3
  PowerMayFail = TRUE
  StatMayFail = FALSE
  ClockMayStepBack = TRUE
INVARIANTS AcceptedMailOnDisk MailIsListed
PROPERTIES QueueOutlivesFile LiveEvictionOldestFirst
