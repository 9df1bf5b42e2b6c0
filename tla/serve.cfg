SPECIFICATION FairSpec
CONSTANTS
  s = s
  t = t
  o = o
  k = k
  m = m
  NoSnap = NoSnap
  None = None
  NumDirs = 2
  Snaps = {s, t, o}
  Keys = {k, m}
  KeyOf <- MCKeyOf
  SizeOf <- MCSizeOf
  Ours = {s, t}
  MaxChanges = 1
  MaxFaults = 1
  MaxHups = 2
INVARIANTS AnswerFits 
PROPERTY ReloadConverges
