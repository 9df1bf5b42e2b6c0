SPECIFICATION Spec
CONSTANTS
  a = a
  b = b
  None = None
  Peers = {a, b}
  FetchPeers = {a}
  ServePeers = {a, b}
  Burst = 2
  OutCap = 1
  SubCap = 1
  Grace = 2
  Sweepers = {1}
  RequireStateSyncChannel = TRUE
INVARIANTS RateHeld
PROPERTIES GraceHonoured UsefulKept UselessGoes
