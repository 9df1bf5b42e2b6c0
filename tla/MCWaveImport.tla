--------------------------- MODULE MCWaveImport ---------------------------
EXTENDS WaveImport

L(v) == [h |-> 0, v |-> v]
I(h, v) == [h |-> h, v |-> v]

(* An empty store, a leaf, a tree older than the snapshot, an inner node   *)
(* without a pair, three roots; and a tree whose versions alternate.       *)
Small == { <<>>, <<L(1)>>, << L(1), L(2), I(1, 2) >>, << L(3), I(1, 3) >>, << L(1), L(3), L(3) >> }
Tree  == << L(1), L(3), I(1, 3), L(1), I(2, 3) >>

(* WaveParallel without FastIngest on the small streams only.              *)
MCJobs == [nodes : Small, par : BOOLEAN, fast : BOOLEAN]
            \cup {j \in [nodes : {Tree}, par : BOOLEAN, fast : BOOLEAN] : j.par => j.fast}
=============================================================================
