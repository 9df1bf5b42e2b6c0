--------------------------- MODULE MCFetchImport ---------------------------
EXTENDS FetchImport

I(k, e) == [kind |-> k, end |-> e]

(* Two stores and an extension tail; a store whose items straddle buffers  *)
(* and chunks; a stream with an unknown field.                             *)
MCStreams ==
  { << I("store", 1), I("iavl", 3), I("store", 4), I("iavl", 6), I("ext", 7) >>,
    << I("store", 2), I("iavl", 5), I("bad", 6) >> }
=============================================================================
