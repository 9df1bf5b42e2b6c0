SPECIFICATION FairSpec
CONSTANTS
  a = a
  Peers = {a}
  Pool = {a}
  WarmTarget = 2
  DialBatch = 2
  BookDisabled = FALSE
  Backoff = 1
  MaxBackoff = 2
  StabilityWindow = 3
  MaxRedials = 3
  MaxDialFailures = 2
  MaxInbound = 1
INVARIANTS TypeOK RedialBudget
PROPERTIES PinnedSettles StableBeforeWipe
