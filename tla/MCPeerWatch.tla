---------------------------- MODULE MCPeerWatch ----------------------------
(* One peer and the watch in a fetch; two peers, of which one's departure  *)
(* sweeps the other's limiter, in a server.                                *)
EXTENDS PeerWatch

CONSTANTS a, b
=============================================================================
