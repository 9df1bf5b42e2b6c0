------------------------- MODULE MCSnapshotServer -------------------------
(* The server on a small root: s and t are two snapshots of one height and *)
(* format with as many chunks, o is one of another chain.                  *)
EXTENDS SnapshotServer

CONSTANTS s, t, o, k, m

MCKeyOf  == [x \in Snaps |-> IF x = o THEN m ELSE k]
MCSizeOf == [x \in Snaps |-> 1]
=============================================================================
