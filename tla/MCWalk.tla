------------------------------- MODULE MCWalk -------------------------------
(* The walk on a small instance.  Under a key of height 4 peer b offers    *)
(* other metadata than peer a; under the others they agree.                *)
EXTENDS Walk

CONSTANTS a, b, x, y

Advertised == [p \in Peers |-> [k \in Keys |-> IF p = b /\ k[1] = 4 THEN y ELSE x]]
=============================================================================
