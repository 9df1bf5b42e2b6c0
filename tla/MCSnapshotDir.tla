--------------------------- MODULE MCSnapshotDir ---------------------------
(* The snapshot directory with offers of different sizes: the genuine g    *)
(* and h, and bad, whose chunk hashes do not add up to its snapshot hash.  *)
EXTENDS SnapshotDir

CONSTANTS g, h, bad

MCNumChunks == [o \in Offers |-> IF o = g THEN 3 ELSE 2]
=============================================================================
