-------------------------- MODULE StateSyncDiff ---------------------------
(***************************************************************************)
(* The state-sync diff (statesync_diff.go, statesync_apply.go): the target *)
(* stream as references into the base stream and literal items.  Each side *)
(* first puts the base into a scratch database, batch by batch: item to    *)
(* index when the diff is computed, index to item when it is applied.      *)
(*                                                                         *)
(* A run of the specification makes one diff, of either kind, and applies  *)
(* it.                                                                     *)
(***************************************************************************)
EXTENDS SnapshotDiff

CONSTANT FlushEvery   \* items a batch holds before it is applied

ASSUME SyncConstants == FlushEvery \in Nat

VARIABLES
  mode,        \* "leaf" (CSDF) or "sync" (CSDS)
  db, batch    \* the scratch database and the batch being filled

syncVars == <<mode, db, batch>>
allVars  == <<vars, syncVars>>

SyncHdr(count) == [tag |-> "SyncHeader", count |-> count]
Ref(i)         == [tag |-> "Ref", index |-> i]
Literal(item)  == [tag |-> "Literal", item |-> item]

(* What a database holds once the entries of f are set over those of g.    *)
Over(f, g) == [x \in DOMAIN f \cup DOMAIN g |-> IF x \in DOMAIN f THEN f[x] ELSE g[x]]

(* Reads item brd.pos of s; the batch is applied when it is large enough.  *)
IndexItem(s, key, val) ==
  /\ brd.pos <= Len(s)
  /\ LET b    == Over([x \in {key} |-> val], batch)
         full == Cardinality(DOMAIN b) > FlushEvery
     IN /\ db' = IF full THEN Over(b, db) ELSE db
        /\ batch' = IF full THEN << >> ELSE b
  /\ brd' = [brd EXCEPT !.pos = @ + 1]
  /\ UNCHANGED <<base, target, file, cut, pc, trd, brec, trec, name, todo, applyVars, mode>>

IndexEnd(s) == brd.pos > Len(s) /\ db' = Over(batch, db) /\ batch' = << >> /\ brd' = Start

(* ComputeStateSync, phase 1.                                              *)
IndexBase ==
  /\ pc = "index" /\ mode = "sync"
  /\ IndexItem(base, base[brd.pos], brd.pos - 1)

CreateFile ==
  /\ pc = "index" /\ IndexEnd(base)
  /\ file' = <<SyncHdr(0), ZHdr>> /\ pc' = "ops"
  /\ UNCHANGED <<base, target, cut, trd, brec, trec, name, todo, applyVars, mode>>

(* Phase 2: a reference when the item's hash is known.                     *)
EmitOp ==
  /\ pc = "ops" /\ trd.pos <= Len(target)
  /\ LET item == target[trd.pos]
     IN Emit(<<IF item \in DOMAIN db THEN Ref(db[item]) ELSE Literal(item)>>)
  /\ trd' = [trd EXCEPT !.pos = @ + 1]
  /\ UNCHANGED <<base, target, cut, pc, brd, brec, trec, name, todo, applyVars, syncVars>>

CloseOps ==
  /\ pc = "ops" /\ trd.pos > Len(target)
  /\ Emit(<<ZEnd>>) /\ pc' = "count"
  /\ UNCHANGED <<base, target, cut, readers, todo, applyVars, syncVars>>

RewriteHeader ==
  /\ pc = "count"
  /\ file' = [file EXCEPT ![1] = SyncHdr(Len(target))]
  /\ pc' = "syncdiffed" /\ trd' = Start /\ db' = << >>
  /\ UNCHANGED <<base, target, cut, brd, brec, trec, name, todo, applyVars, mode, batch>>

SyncStopShort(how) ==
  /\ pc = "ops" \/ (pc = "count" /\ how = "crash")
  /\ cut' = how
  /\ \E n \in Max({IF how = "error" THEN 2 ELSE 0, Len(file) - MaxLost}) .. Len(file) :
       file' = SubSeq(file, 1, n) \o (IF how = "error" THEN <<ZEnd>> ELSE << >>)
  /\ pc' = "syncdiffed" /\ trd' = Start /\ db' = << >>
  /\ UNCHANGED <<base, target, brd, brec, trec, name, todo, applyVars, mode, batch>>

SyncCrash        == SyncStopShort("crash")
SyncComputeFails == SyncStopShort("error")

(* ApplyStateSync: the headers and the base, then phase A.                 *)
SyncReadable == Len(file) >= 2 /\ file[1].tag = "SyncHeader" /\ file[2] = ZHdr

OpenSyncDiff ==
  \E dir \in {base, target}, hasMeta \in BOOLEAN :
    /\ pc = "syncdiffed" /\ UNCHANGED syncVars
    /\ IF SyncReadable /\ (hasMeta => dir = base)
       THEN /\ src' = dir /\ dpos' = 3 /\ pc' = "byindex"
            /\ UNCHANGED <<base, target, file, cut, readers, todo, ch, out, meta, verdict>>
       ELSE Fail

IndexByNumber ==
  /\ pc = "byindex"
  /\ IndexItem(src, brd.pos - 1, src[brd.pos])

OpenOutput ==
  /\ pc = "byindex" /\ IndexEnd(src)
  /\ pc' = "replay"
  /\ UNCHANGED <<base, target, file, cut, trd, brec, trec, name, todo, applyVars, mode>>

(* Phase B: an index outside the base, or a stream without its end, fails. *)
ReplayOp ==
  /\ pc = "replay"
  /\ IF dpos > Len(file) \/ (file[dpos].tag = "Ref" /\ file[dpos].index \notin DOMAIN db)
     THEN Fail /\ UNCHANGED syncVars
     ELSE /\ file[dpos] # ZEnd
          /\ Write(<<IF file[dpos].tag = "Ref" THEN db[file[dpos].index] ELSE file[dpos].item>>)
          /\ dpos' = dpos + 1
          /\ UNCHANGED <<base, target, file, cut, pc, readers, todo, src, ch, meta, verdict, syncVars>>

(* Mutant: a stream that breaks off has ended.                             *)
ReplayEndLenient ==
  /\ pc = "replay" /\ (dpos <= Len(file) => file[dpos] = ZEnd)
  /\ pc' = "metadata" /\ db' = << >>
  /\ UNCHANGED <<base, target, file, cut, readers, todo, applyVars, mode, batch>>

(* Mutant: the end waits for the header's number of items.                 *)
ReplayEndCounts ==
  /\ pc = "replay" /\ dpos <= Len(file) /\ file[dpos] = ZEnd /\ Len(out) = file[1].count
  /\ pc' = "metadata" /\ db' = << >>
  /\ UNCHANGED <<base, target, file, cut, readers, todo, applyVars, mode, batch>>

ReplayEnd ==
  /\ pc = "replay" /\ dpos <= Len(file) /\ file[dpos] = ZEnd
  /\ pc' = "metadata" /\ db' = << >>
  /\ UNCHANGED <<base, target, file, cut, readers, todo, applyVars, mode, batch>>

(* metadata.bin, meta.json, then meta.json again with metadata_len.        *)
WriteSyncMeta(f) ==
  /\ pc = "metadata" /\ f \notin meta
  /\ f = "meta.json" => "metadata.bin" \in meta
  /\ f = "metadata_len" => "meta.json" \in meta
  /\ meta' = meta \cup {f}
  /\ pc' = IF f = "metadata_len" THEN "synced" ELSE pc
  /\ UNCHANGED <<base, target, file, cut, readers, todo, src, dpos, ch, out, verdict, syncVars>>

------------------------------------------------------------------------------
Init ==
  /\ mode \in {"leaf", "sync"} /\ db = << >> /\ batch = << >>
  /\ \E p \in Pairs : base = p[1] /\ target = p[2]
  /\ pc = IF mode = "leaf" THEN "peek" ELSE "index"
  /\ file = IF mode = "leaf" THEN <<Hdr, ZHdr>> ELSE << >>
  /\ cut = "no" /\ brd = Start /\ trd = Start /\ brec = None /\ trec = None /\ name = None
  /\ todo = {} /\ src = << >> /\ dpos = 0 /\ ch = NoChanges /\ out = << >> /\ meta = {} /\ verdict = -1

ComputeStateSync == IndexBase \/ CreateFile \/ EmitOp \/ CloseOps \/ RewriteHeader

ApplyStateSync == OpenSyncDiff \/ IndexByNumber \/ OpenOutput \/ ReplayOp \/ ReplayEnd
                    \/ \E f \in {"metadata.bin", "meta.json", "metadata_len"} : WriteSyncMeta(f)

(* What the program does when nothing stops it.                            *)
Runs == \/ (Compute \/ Apply \/ VerifyEquivalent) /\ UNCHANGED syncVars
        \/ ComputeStateSync
        \/ ApplyStateSync

Stops == \/ (Crash \/ ComputeFails) /\ UNCHANGED syncVars
         \/ SyncCrash
         \/ SyncComputeFails

Next == Runs \/ Stops

(* One thread runs each command to its end.                                *)
Spec == Init /\ [][Next]_allVars /\ WF_allVars(Runs)

------------------------------------------------------------------------------
TypeOK ==
  /\ <<base, target>> \in Pairs /\ mode \in {"leaf", "sync"}
  /\ cut \in {"no", "crash", "error"} /\ verdict \in Int
  /\ meta \in SUBSET {"metadata.bin", "meta.json", "metadata_len"}
  /\ brd.pos \in 1 .. Len(base) + Len(target) + 1 /\ trd.pos \in 1 .. Len(target) + 1
  /\ brec \in 0 .. Len(base) + Len(target) /\ trec \in 0 .. Len(target)
  /\ src \in {<< >>, base, target} /\ dpos \in 0 .. Len(file) + 1
  /\ ch.left \subseteq DOMAIN ch.ins

Whole == "meta.json" \in meta /\ src = base /\ cut = "no"

SameContents(a, b) ==
  /\ \A n \in StoreNames(a) \cup StoreNames(b) : KeyValues(a, n) = KeyValues(b, n)
  /\ \A n \in ExtNames(a) \cup ExtNames(b) : Payloads(a, n) = Payloads(b, n)

(* Apply of Compute's diff has the target's keys and values, store by      *)
(* store, and its payloads (apply.go:68), although the merge compares      *)
(* encoded records in an order that is not the order of the streams: a key *)
(* it meets on both sides at different times becomes a Delete and an       *)
(* Insert, which Apply must bring together again, in key order.            *)
AppliedIsTarget == mode = "leaf" /\ Whole => SameContents(out, target) /\ Ordered(out)

(* VerifyEquivalent counts no difference exactly when there is none, also  *)
(* for the outputs a cut diff leads to, which may hold a key twice.        *)
VerifyFaithful == pc = "verified" => (verdict = 0 <=> SameContents(out, target))

(* The state-sync diff gives back the target item by item, in order        *)
(* (statesync.go:6), whatever batches the scratch databases were filled    *)
(* in; a diff that a crash cut short never becomes a snapshot.             *)
SyncIsTarget ==
  mode = "sync" /\ src = base =>
    /\ IsPrefix(out, target)
    /\ meta # {} /\ cut # "error" => out = target

(* Every diff and every apply comes to its end: no turn of a merge leaves  *)
(* both sides where they were.                                             *)
CommandsEnd == <>(pc \in {"verified", "synced", "failed"})
=============================================================================
