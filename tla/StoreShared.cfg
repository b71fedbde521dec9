SPECIFICATION Spec
CONSTANTS
  BlobPaths = {11, 12}
  TmpPaths = {1}
  Locals = {"a", "b"}
  Readers = {"r"}
  Deliveries <- SharedDeliveries
  LegacyMail <- NoLegacy
  MaxMessageBytes = 2
  MaxStorageBytes = 2
  MessageTTL = 1
  CleanupBatchSize = 2
  PageSize = 1
  MaxTime = 1
  MaxRowid = 3
  PowerMayFail = FALSE
  StatMayFail = TRUE
  ClockMayStepBack = FALSE
INVARIANTS ReferencesIntact ReadErrorMeansDeleted
PROPERTIES ImplementsMailbox
