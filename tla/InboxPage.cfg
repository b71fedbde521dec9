SPECIFICATION FairSpec
CONSTANTS
  Messages = {"a", "b", "c"}
  HasHTML = {"a"}
  Earlier <- OneMessage
  PageSize = 2
  MaxDelay = 2
  MaxHistory = 2
INVARIANTS PollAlive ReaderTruthful
PROPERTIES  NewMailShown
