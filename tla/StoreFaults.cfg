SPECIFICATION Spec
CONSTANTS
  BlobPaths = {11, 12, 13}
  TmpPaths = {1}
  Locals = {"a", "b"}
  Readers = {}
  Deliveries <- SingleDeliveries
  LegacyMail <- NoLegacy
  MaxMessageBytes = 2
  MaxStorageBytes = 3
  MessageTTL = 1
  CleanupBatchSize = 2
  PageSize = 1
  MaxTime = 1
  MaxRowid = 3
  PowerMayFail = FALSE
  StatMayFail = FALSE
  ClockMayStepBack = FALSE
INVARIANTS NoUnchargedFile TotalsExact DiskBounded EvictionSuffices SaveAnswerTrue
