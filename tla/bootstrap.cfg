SPECIFICATION BootSpec
CONSTANTS
  Heights = {1, 2}
  AppHeight = 1
  MaxFaults = 2
INVARIANTS MarkerMeansWhole AppDBKept HeightsAgree
PROPERTIES SyncedBlocksKept HealRecovers
CHECK_DEADLOCK FALSE
