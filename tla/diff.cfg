SPECIFICATION Spec
CONSTANTS
  Pairs <- MCPairs
  Rank <- MCRank
  MaxLost = 2
  FlushEvery = 1
INVARIANTS AppliedIsTarget VerifyFaithful SyncIsTarget
PROPERTY CommandsEnd
CHECK_DEADLOCK FALSE
