SPECIFICATION Spec
CONSTANTS
  BlobPaths = {11}
  TmpPaths = {1}
  Locals = {"a", "b"}
  Readers = {}
  Deliveries <- UnitDeliveries
  LegacyMail <- NoLegacy
  MaxMessageBytes = 1
  MaxStorageBytes = 1
  MessageTTL = 1
  CleanupBatchSize = 1
  PageSize = 1
  MaxTime = 1
  MaxRowid = 2
  PowerMayFail = FALSE
  StatMayFail = FALSE
  ClockMayStepBack = FALSE
INVARIANTS StartupToleratesUnlinkFailure
