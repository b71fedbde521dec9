SPECIFICATION FairSpec
CONSTANTS
  Conns = {1, 2, 3}
  Sources = {"same", "other"}
  Source <- TwoSources
  Messages = {"m"}
  Addresses <- SomeAddresses
  MaxConnections = 2
  MaxPerIP = 1
  MaxRejections = 1
  MaxRecipients = 2
  MaxTransfers = 2
INVARIANTS SlotsExact SourcesExact SaveHoldsSlot AnswersHonest
PROPERTIES DroppedConnectionReleased
\* The service may be shut down.
CHECK_DEADLOCK FALSE
