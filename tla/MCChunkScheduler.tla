------------------------- MODULE MCChunkScheduler -------------------------
(* The chunk scheduler on small instances: an honest peer a, another b.    *)
EXTENDS ChunkScheduler

CONSTANTS a, b
=============================================================================
