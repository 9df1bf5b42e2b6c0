------------------------- MODULE MCStateSyncDiff --------------------------
EXTENDS StateSyncDiff, TLC

(* Key 1 is longer than keys 2 and 3.                                      *)
MCRank == 1 :> 3 @@ 2 :> 1 @@ 3 :> 2

(* Key 2 changes its version only, the others their value.                 *)
Same(k)    == IAVL(k, 1, 1, 0)
Changes(k) == IF k = 2 THEN IAVL(k, 1, 2, 0) ELSE IAVL(k, 2, 2, 0)

Keys(K, L(_)) == LET ks == SetToSortSeq(K, <) IN [i \in DOMAIN ks |-> L(ks[i])]
Inner(s) == IF Len(s) < 2 THEN s ELSE s \o <<IAVL(9, 9, Len(s), 1)>>

Bases(ks)   == {<< >>} \cup {<<StoreItem(1)>> \o Inner(Keys(K, Same)) : K \in SUBSET ks}
Targets(ks) ==
  {<< >>} \cup {<<StoreItem(1)>> \o Inner(Keys(p[1], LAMBDA k : IF k \in p[2] THEN Changes(k) ELSE Same(k)))
                  : p \in {q \in (SUBSET ks) \X (SUBSET ks) : q[2] \subseteq q[1]}}

(* A second store and extensions: absent, empty, gained, lost, changed,    *)
(* a payload kept, another format.                                         *)
Tails == { << <<StoreItem(2)>>, <<StoreItem(2), Same(1)>> >>,
           << <<StoreItem(2), Same(1)>>, <<ExtMeta(1, 1), ExtPayload("p")>> >>,
           << <<StoreItem(2), Same(3), ExtMeta(1, 1), ExtPayload("p"), ExtPayload("q")>>,
              <<StoreItem(2), Changes(3), ExtMeta(1, 2), ExtPayload("q"), ExtPayload("r"), ExtPayload("s")>> >>,
           << <<ExtMeta(1, 1), ExtPayload("p"), ExtMeta(2, 1)>>, <<StoreItem(2)>> >> }

MCPairs == (Bases(1 .. 3) \X Targets(1 .. 3))
             \cup {<<b \o x[1], t \o x[2]>> : b \in Bases(1 .. 2), t \in Targets(1 .. 2), x \in Tails}
=============================================================================
