SPECIFICATION FairSpec
CONSTANTS
  a = a
  b = b
  NoPeer = NoPeer
  Peers = {a, b}
  Honest = {a}
  StartFiles = {"absent"}
  N = 2
  PerPeer = 1
  ProvisionalInflight = 0
  PeerFailLimit = 1
  ProvisionalStrikes = 1
  MaxDiskFails = 1
  TimeoutTicks = 1
  AskedCap = 1
  MaxRestarts = 0
  MaxChurn = 1
PROPERTY HonestPeerCompletes
