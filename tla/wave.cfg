SPECIFICATION Spec
CONSTANTS
  Jobs <- MCJobs
  Height = 3
  Workers = {w1, w2}
  PendingCap = 1
  ReadyCap = 1
  WriteCap = 1
  FlushAt = 2
  BatchCap = 1
  MaxFaults = 1
INVARIANTS SameAsReference HashedOnceChildrenFirst
PROPERTY StoreReturns
CHECK_DEADLOCK FALSE
