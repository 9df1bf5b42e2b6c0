SPECIFICATION Spec
CONSTANTS
  g = g
  h = h
  bad = bad
  None = None
  Offers = {g, h, bad}
  NumChunks <- MCNumChunks
  Genuine = {g, h}
  SkipVerifyHash = FALSE
  MaxRuns = 3
INVARIANTS DoneIsDurable SentinelSoundOneOffer
