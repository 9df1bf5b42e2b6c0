------------------------- MODULE MCConnectManager -------------------------
(* The dial loop on a small instance: one peer, in the pool and the book.  *)
EXTENDS ConnectManager

CONSTANT a
=============================================================================
