SPECIFICATION FairSpec
CONSTANTS
  a = a
  b = b
  x = x
  y = y
  s = s
  NoHash = NoHash
  Garbage = Garbage
  Peers = {a, b}
  Honest = {a}
  Snaps = {s}
  Hashes = {x, y}
  Meta <- Advertised
  TargetHeight = 0
  CfgMin = 3
  CfgMax = 5
  Interval = 3
  Heights = {2, 4, 5, 6}
  MaxChurn = 1
INVARIANTS WalkBounded AcceptedInWindow WalksDown HonestKept
PROPERTY WalkEnds
