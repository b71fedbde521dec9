SPECIFICATION FairSpec
CONSTANTS
  Pairs <- MCPairs
  First = "old"
  KeyOf <- MCKeyOf
  Covers = {"old", "renewed", "fresh"}
  NotBefore <- MCNotBefore
  NotAfter <- MCNotAfter
  MaxWrites = 3
  MaxTime = 1
INVARIANTS StateTruthful
PROPERTIES ReplacementAdopted
