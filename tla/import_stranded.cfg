SPECIFICATION Spec
CONSTANTS
  Streams <- MCStreams
  Workers = {w1, w2}
  PfBuf = 2
  BufSize = 2
  ChunkSize = 2
  MaxBytes = 5
  ChanCap = 1
  FastIngest = FALSE
  MaxFaults = 1
  NumChunks = 2
  PfCap = 1

PROPERTY ImportReturns
CHECK_DEADLOCK FALSE
