SPECIFICATION FairSpec
CONSTANTS
  Pairs <- MCPairs
  First = "old"
  KeyOf <- MCKeyOf
  Covers = {"old", "renewed", "fresh"}
  NotBefore <- MCNotBefore
  NotAfter <- MCNotAfter
  MaxWrites = 2
  MaxTime = 1
PROPERTIES AdoptedOnceReadable
