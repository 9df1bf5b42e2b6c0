--------------------------- MODULE SnapshotDiff ---------------------------
(***************************************************************************)
(* Leaf diffs between two snapshots (internal/snapshotdiff diff.go,        *)
(* apply.go, verify.go): Compute merges two item streams and writes a      *)
(* file, possibly cut short by a crash or an error; Apply merges the file  *)
(* with a base snapshot; VerifyEquivalent compares the result with the     *)
(* target.                                                                 *)
(*                                                                         *)
(* Store and extension names and keys are numbers in their byte order.     *)
(* Records, though, are compared by their encoding, in which the key       *)
(* follows its length: Rank is the order of the encoded keys.              *)
(***************************************************************************)
EXTENDS Integers, Sequences, FiniteSets, FiniteSetsExt, Functions, SequencesExt

CONSTANTS
  Pairs,     \* the pairs <<base, target>> of snapshots, each a sequence of items
  Rank,      \* the place of a key among the encoded keys
  MaxLost    \* bound: diff records still buffered when Compute stops

StoreItem(n)        == [tag |-> "store", name |-> n]
IAVL(k, v, ver, h)  == [tag |-> "iavl", key |-> k, val |-> v, ver |-> ver, height |-> h]
ExtMeta(n, fmt)     == [tag |-> "ext", name |-> n, format |-> fmt]
ExtPayload(p)       == [tag |-> "payload", body |-> p]

LeafAt(s, i)  == s[i].tag = "iavl" /\ s[i].height = 0

(* The store an IAVL item belongs to, the extension of a payload.          *)
Owner(s, i, tag) == s[Max({j \in 1 .. i : s[j].tag = tag})].name

(* A finite set of numbers as an increasing sequence.                      *)
InOrder(I) == [i \in 1 .. Cardinality(I) |-> CHOOSE k \in I : Cardinality({l \in I : l < k}) = i - 1]

(* Streams as the SDK writes them: stores by name, leaves by key, then the *)
(* extensions.                                                             *)
Leaves(s, n) == {i \in DOMAIN s : LeafAt(s, i) /\ Owner(s, i, "store") = n}

Ordered(s) ==
  /\ \A i, j \in DOMAIN s : i < j /\ s[i].tag = "store" /\ s[j].tag = "store" => s[i].name < s[j].name
  /\ \A i, j \in DOMAIN s :
       i < j /\ LeafAt(s, i) /\ LeafAt(s, j) /\ Owner(s, i, "store") = Owner(s, j, "store")
         => s[i].key < s[j].key

Nested(s) ==
  /\ \A i \in DOMAIN s : s[i].tag = "iavl" => \E j \in 1 .. i : s[j].tag = "store"
  /\ \A i \in DOMAIN s : s[i].tag = "payload" => \E j \in 1 .. i : s[j].tag = "ext"
  /\ \A i, j \in DOMAIN s : i < j /\ s[i].tag \in {"ext", "payload"} => s[j].tag \in {"ext", "payload"}

ASSUME DiffConstants ==
  /\ \A p \in Pairs, i \in {1, 2} :
       /\ p[i] \in Seq(ToSet(p[i])) /\ Ordered(p[i]) /\ Nested(p[i])
       /\ \A j \in DOMAIN p[i] :
            /\ p[i][j].tag \in {"store", "iavl", "ext", "payload"}
            /\ LeafAt(p[i], j) => p[i][j].key \in Nat \cap DOMAIN Rank
            /\ p[i][j].tag = "store" => p[i][j].name \in Nat \ {0}
            /\ p[i][j].tag = "ext" => p[i][j].name \in Nat
  /\ \A k, l \in DOMAIN Rank : Rank[k] \in Int /\ (Rank[k] = Rank[l] => k = l)
  /\ MaxLost \in Nat

VARIABLES
  base, target,    \* the snapshots
  file,            \* the diff file
  cut,             \* how the file was cut: "no", "crash", "error"
  pc,
  brd, trd,        \* storeReaders: the next item and curStore
  brec, trec,      \* baseRec/targetRec, 0 when baseHas/targetHas is false
  name,            \* the store being merged
  todo,            \* extension names still to do
  src, dpos,       \* Apply: the base directory it is given, its place in the file
  ch,              \* Apply: storeChanges, insert keys left
  out, meta,       \* Apply: the items written, the metadata files written after them
  verdict          \* VerifyEquivalent: the differences it counts, -1 before

readers   == <<brd, trd, brec, trec, name>>
applyVars == <<src, dpos, ch, out, meta, verdict>>
vars == <<base, target, file, cut, pc, readers, todo, applyVars>>

None   == 0                      \* curStore = "", a missing record
Start  == [pos |-> 1, cur |-> None]
NoChanges == [del |-> {}, upd |-> << >>, ins |-> << >>, left |-> {}]

Hdr  == [tag |-> "Header"]
ZHdr == [tag |-> "ZlibHeader"]
ZEnd == [tag |-> "ZlibEnd"]
StoreEnter(n)  == [tag |-> "StoreEnter", name |-> n]
StoreLeave     == [tag |-> "StoreLeave"]
Insert(k, v)   == [tag |-> "Insert", key |-> k, val |-> v]
Update(k, v)   == [tag |-> "Update", key |-> k, val |-> v]
Delete(k)      == [tag |-> "Delete", key |-> k]
ExtEnter(n, f) == [tag |-> "ExtEnter", name |-> n, format |-> f]
ExtLeave       == [tag |-> "ExtLeave"]
ExtAdd(p)      == [tag |-> "ExtAdd", body |-> p]
ExtRemove(p)   == [tag |-> "ExtRemove", body |-> p]

------------------------------------------------------------------------------
(* The reader of a snapshot.                                               *)

FirstFrom(s, i, P(_)) == Min({j \in i .. Len(s) : P(s[j])} \cup {Len(s) + 1})

PeekStore(s, r) ==
  IF r.cur # None THEN r
  ELSE LET p == FirstFrom(s, r.pos, LAMBDA x : x.tag \in {"store", "ext", "payload"})
       IN IF p <= Len(s) /\ s[p].tag = "store" THEN [pos |-> p + 1, cur |-> s[p].name]
          ELSE [pos |-> p, cur |-> None]

(* readNextItemInStoreRaw until a leaf or the end of the store.            *)
NextLeaf(s, r) == FirstFrom(s, r.pos, LAMBDA x : x.tag # "iavl" \/ x.height = 0)
HasLeaf(s, r)  == NextLeaf(s, r) <= Len(s) /\ LeafAt(s, NextLeaf(s, r))

Advance(s, r) ==
  IF HasLeaf(s, r) THEN [r EXCEPT !.pos = NextLeaf(s, r) + 1]
  ELSE [pos |-> NextLeaf(s, r), cur |-> None]

LeafOf(s, r) == IF HasLeaf(s, r) THEN NextLeaf(s, r) ELSE None

(* readAllExtensions                                                       *)
ExtNames(s) == {s[i].name : i \in {j \in DOMAIN s : s[j].tag = "ext"}}
FormatOf(s, n) == s[Min({i \in DOMAIN s : s[i].tag = "ext" /\ s[i].name = n})].format
PayloadsAt(s, n) == {i \in DOMAIN s : s[i].tag = "payload" /\ Owner(s, i, "ext") = n}
Payloads(s, n)   == {s[i].body : i \in PayloadsAt(s, n)}

------------------------------------------------------------------------------
(* Compute.                                                                *)

Emit(recs) == file' = file \o recs

(* computeStream: the alphabetically first store of either side; diffStore *)
(* enters it and reads the first leaf of each side that has it.            *)
EnterStore ==
  LET b == PeekStore(base, brd)
      t == PeekStore(target, trd)
      n == IF b.cur # None /\ (t.cur = None \/ b.cur <= t.cur) THEN b.cur ELSE t.cur
  IN /\ pc = "peek" /\ (b.cur # None \/ t.cur # None)
     /\ name' = n /\ Emit(<<StoreEnter(n)>>)
     /\ brd' = IF b.cur = n THEN Advance(base, b) ELSE b
     /\ brec' = IF b.cur = n THEN LeafOf(base, b) ELSE None
     /\ trd' = IF t.cur = n THEN Advance(target, t) ELSE t
     /\ trec' = IF t.cur = n THEN LeafOf(target, t) ELSE None
     /\ pc' = "merge"
     /\ UNCHANGED <<base, target, cut, todo, applyVars>>

(* bytesCompare of two encoded records: by key, then value, then version.  *)
Before(a, b) ==
  \/ Rank[a.key] < Rank[b.key]
  \/ a.key = b.key /\ (a.val < b.val \/ (a.val = b.val /\ a.ver < b.ver))

AdvanceBase   == brd' = Advance(base, brd) /\ brec' = LeafOf(base, brd)
AdvanceTarget == trd' = Advance(target, trd) /\ trec' = LeafOf(target, trd)

(* One iteration of diffStore's merge.                                     *)
MergeStep ==
  LET b == base[brec]
      t == target[trec]
  IN CASE brec = None -> Emit(<<Insert(t.key, t.val)>>) /\ AdvanceTarget /\ UNCHANGED <<brd, brec>>
       [] trec = None -> Emit(<<Delete(b.key)>>) /\ AdvanceBase /\ UNCHANGED <<trd, trec>>
       [] OTHER ->
            CASE b = t -> AdvanceBase /\ AdvanceTarget /\ UNCHANGED file
              [] b # t /\ b.key = t.key ->
                   Emit(<<Update(b.key, t.val)>>) /\ AdvanceBase /\ AdvanceTarget
              [] b.key # t.key /\ Before(b, t) ->
                   Emit(<<Delete(b.key)>>) /\ AdvanceBase /\ UNCHANGED <<trd, trec>>
              [] b.key # t.key /\ Before(t, b) ->
                   Emit(<<Insert(t.key, t.val)>>) /\ AdvanceTarget /\ UNCHANGED <<brd, brec>>

DiffStore ==
  /\ pc = "merge" /\ (brec # None \/ trec # None)
  /\ MergeStep
  /\ UNCHANGED <<base, target, cut, pc, name, todo, applyVars>>

LeaveStore ==
  /\ pc = "merge" /\ brec = None /\ trec = None
  /\ Emit(<<StoreLeave>>)
  /\ pc' = "peek" /\ name' = None
  /\ UNCHANGED <<base, target, cut, brd, trd, brec, trec, todo, applyVars>>

StoresOver ==
  /\ pc = "peek" /\ PeekStore(base, brd).cur = None /\ PeekStore(target, trd).cur = None
  /\ pc' = "exts" /\ todo' = ExtNames(base) \cup ExtNames(target)
  /\ UNCHANGED <<base, target, file, cut, readers, applyVars>>

(* diffExtensions: by payload hash; two map iterations order the records.  *)
DiffExtension ==
  /\ pc = "exts" /\ todo # {}
  /\ LET n  == Min(todo)
         bs == Payloads(base, n)
         ts == Payloads(target, n)
     IN /\ \E rm \in SetToSeqs(bs \ ts), add \in SetToSeqs(ts \ bs) :
             Emit(<<ExtEnter(n, FormatOf(IF n \in ExtNames(base) THEN base ELSE target, n))>>
                    \o [i \in DOMAIN rm |-> ExtRemove(rm[i])]
                    \o [i \in DOMAIN add |-> ExtAdd(add[i])] \o <<ExtLeave>>)
        /\ todo' = todo \ {n}
  /\ UNCHANGED <<base, target, cut, pc, readers, applyVars>>

CloseFile ==
  /\ pc = "exts" /\ todo = {}
  /\ Emit(<<ZEnd>>)
  /\ pc' = "diffed" /\ brd' = Start /\ trd' = Start
  /\ UNCHANGED <<base, target, cut, brec, trec, name, todo, applyVars>>

(* The process dies, or a read fails and the deferred zw.Close ends the    *)
(* stream: what bufio still held is lost, the file stays at its place.     *)
StopShort(how) ==
  /\ pc \in {"peek", "merge", "exts"} /\ cut' = how
  /\ \E n \in Max({IF how = "error" THEN 2 ELSE 0, Len(file) - MaxLost}) .. Len(file) :
       file' = SubSeq(file, 1, n) \o (IF how = "error" THEN <<ZEnd>> ELSE << >>)
  /\ pc' = "diffed" /\ brd' = Start /\ trd' = Start /\ brec' = None /\ trec' = None
  /\ name' = None /\ todo' = {}
  /\ UNCHANGED <<base, target, applyVars>>

Crash        == StopShort("crash")
ComputeFails == StopShort("error")

------------------------------------------------------------------------------
(* Apply.                                                                  *)

Write(items) == out' = out \o items
Fail == pc' = "failed" /\ UNCHANGED <<base, target, file, cut, readers, todo, applyVars>>

(* The header and the zlib header must be there; the base's hash is        *)
(* checked when its meta.json can be read.                                 *)
Readable == Len(file) >= 2 /\ file[1] = Hdr /\ file[2] = ZHdr

OpenDiff ==
  \E dir \in {base, target}, hasMeta \in BOOLEAN :
    /\ pc = "diffed"
    /\ IF Readable /\ (hasMeta => dir = base)
       THEN /\ src' = dir /\ dpos' = 3 /\ pc' = "walk"
            /\ UNCHANGED <<base, target, file, cut, readers, todo, ch, out, meta, verdict>>
       ELSE Fail

(* peekSection: the next StoreEnter or ExtEnter, Len(file) + 1 at the end. *)
Section(p)    == FirstFrom(file, p, LAMBDA x : x.tag \in {"StoreEnter", "ExtEnter"})
SectionIs(p, tag) == Section(p) <= Len(file) /\ file[Section(p)].tag = tag
SectionEnd(p, leave) ==
  FirstFrom(file, p, LAMBDA x : x.tag \in {leave, "StoreEnter", "ExtEnter"})

AfterSection(p, leave) ==
  LET e == SectionEnd(p, leave)
  IN IF e <= Len(file) /\ file[e].tag = leave THEN e + 1 ELSE e

(* readStoreChanges: maps filled in file order, cut off at the file's end. *)
Changed(p, e, tag) ==
  LET at(k) == {i \in p .. e - 1 : file[i].tag = tag /\ file[i].key = k}
      keys  == {file[i].key : i \in {j \in p .. e - 1 : file[j].tag = tag}}
  IN [k \in keys |-> IF tag = "Delete" THEN None ELSE file[Max(at(k))].val]

StoreChanges(p) ==
  LET e == SectionEnd(p, "StoreLeave")
  IN [del |-> DOMAIN Changed(p, e, "Delete"), upd |-> Changed(p, e, "Update"),
      ins |-> Changed(p, e, "Insert"), left |-> DOMAIN Changed(p, e, "Insert")]

LeafItem(k, v) == IAVL(k, v, 0, 0)

SortedItems(ins) ==
  LET ks == InOrder(DOMAIN ins)
  IN [i \in DOMAIN ks |-> LeafItem(ks[i], ins[ks[i]])]

(* emitTargetOnlyStore *)
TargetOnlyStore(n, c) ==
  IF c.del # {} \/ DOMAIN c.upd # {} THEN Fail
  ELSE /\ Write(IF DOMAIN c.ins = {} THEN << >> ELSE <<StoreItem(n)>> \o SortedItems(c.ins))
       /\ dpos' = AfterSection(Section(dpos) + 1, "StoreLeave")
       /\ UNCHANGED <<base, target, file, cut, pc, readers, todo, src, ch, meta, verdict>>

(* The start of emitStoreFromBase: a store without items is not written.   *)
StoreFromBase(b, c) ==
  /\ brd' = Advance(src, b) /\ brec' = LeafOf(src, b)
  /\ IF brec' = None /\ c.left = {}
     THEN UNCHANGED <<pc, name, ch, out>>
     ELSE Write(<<StoreItem(b.cur)>>) /\ ch' = c /\ name' = b.cur /\ pc' = "store"
  /\ UNCHANGED <<base, target, file, cut, trd, trec, todo, src, meta, verdict>>

WalkStores ==
  LET b       == PeekStore(src, brd)
      inDiff  == SectionIs(dpos, "StoreEnter")
      dname   == file[Section(dpos)].name
      c       == StoreChanges(Section(dpos) + 1)
  IN /\ pc = "walk" /\ (b.cur # None \/ inDiff)
     /\ CASE inDiff /\ (b.cur = None \/ dname < b.cur) -> TargetOnlyStore(dname, c)
          [] b.cur # None /\ (~inDiff \/ dname > b.cur) ->
               StoreFromBase(b, NoChanges) /\ dpos' = Section(dpos)
          [] inDiff /\ b.cur = dname ->
               StoreFromBase(b, c) /\ dpos' = AfterSection(Section(dpos) + 1, "StoreLeave")

(* Mutant: the delete of a key that is inserted again is overlooked.       *)
BaseItemKept(k, v) ==
  IF k \in ch.del \ ch.left THEN << >>
  ELSE <<LeafItem(k, IF k \in DOMAIN ch.upd THEN ch.upd[k] ELSE v)>>

(* processBaseItem *)
BaseItem(k, v) ==
  IF k \in ch.del THEN << >>
  ELSE <<LeafItem(k, IF k \in DOMAIN ch.upd THEN ch.upd[k] ELSE v)>>

(* One iteration of emitStoreFromBase's merge.                             *)
ApplyStore ==
  LET k  == src[brec].key
      ik == Min(ch.left)
      takeBase   == brec # None /\ (ch.left = {} \/ k <= ik)
      takeInsert == ch.left # {} /\ (brec = None \/ ik <= k)
  IN /\ pc = "store" /\ (brec # None \/ ch.left # {})
     /\ Write((IF takeBase THEN BaseItem(k, src[brec].val) ELSE << >>)
                \o (IF takeInsert THEN <<LeafItem(ik, ch.ins[ik])>> ELSE << >>))
     /\ IF takeBase THEN brd' = Advance(src, brd) /\ brec' = LeafOf(src, brd)
                    ELSE UNCHANGED <<brd, brec>>
     /\ ch' = IF takeInsert THEN [ch EXCEPT !.left = @ \ {ik}] ELSE ch
     /\ UNCHANGED <<base, target, file, cut, pc, trd, trec, name, todo, src, dpos, meta, verdict>>

StoreApplied ==
  /\ pc = "store" /\ brec = None /\ ch.left = {}
  /\ pc' = "walk" /\ name' = None /\ ch' = NoChanges
  /\ UNCHANGED <<base, target, file, cut, brd, trd, brec, trec, todo, src, dpos, out, meta, verdict>>

(* The extensions of the diff, read up to a store section or the end.      *)
ExtSections ==
  LET stop == FirstFrom(file, dpos, LAMBDA x : x.tag = "StoreEnter")
  IN {i \in dpos .. stop - 1 : file[i].tag = "ExtEnter"}

WalkOver ==
  /\ pc = "walk" /\ PeekStore(src, brd).cur = None /\ ~ SectionIs(dpos, "StoreEnter")
  /\ pc' = "applyexts" /\ todo' = ExtNames(src) \cup {file[i].name : i \in ExtSections}
  /\ UNCHANGED <<base, target, file, cut, readers, applyVars>>

ApplyExtension ==
  /\ pc = "applyexts" /\ todo # {}
  /\ LET n    == Min(todo)
         secs == {i \in ExtSections : file[i].name = n}
         sec  == Max(secs)
         recs == IF secs = {} THEN {} ELSE sec + 1 .. SectionEnd(sec + 1, "ExtLeave") - 1
         gone == {file[i].body : i \in {j \in recs : file[j].tag = "ExtRemove"}}
         kept == InOrder({i \in PayloadsAt(src, n) : src[i].body \notin gone})
         adds == InOrder({i \in recs : file[i].tag = "ExtAdd"})
         pays == [i \in DOMAIN kept |-> ExtPayload(src[kept[i]].body)]
                   \o [i \in DOMAIN adds |-> ExtPayload(file[adds[i]].body)]
     IN /\ Write(IF pays = << >> THEN << >>
                 ELSE <<ExtMeta(n, IF secs # {} THEN file[sec].format ELSE FormatOf(src, n))>> \o pays)
        /\ todo' = todo \ {n}
  /\ UNCHANGED <<base, target, file, cut, pc, readers, src, dpos, ch, meta, verdict>>

(* The writers are flushed and closed, then meta.json is written.          *)
WriteMeta ==
  /\ pc = "applyexts" /\ todo = {}
  /\ meta' = {"meta.json"} /\ pc' = "applied"
  /\ UNCHANGED <<base, target, file, cut, readers, todo, src, dpos, ch, out, verdict>>

------------------------------------------------------------------------------
(* VerifyEquivalent(out, target).                                          *)

(* The (key, value) pairs of a store in stream order.                      *)
KeyValues(s, n) ==
  LET at == InOrder(Leaves(s, n))
  IN [i \in DOMAIN at |-> <<s[at[i]].key, s[at[i]].val>>]

StoreNames(s) == {s[i].name : i \in {j \in DOMAIN s : s[j].tag = "store"}}

(* Mutant: the comparison stops with the shorter side.                     *)
CompareStoreZip(a, b) ==
  LET count[p \in (1 .. Len(a) + 1) \X (1 .. Len(b) + 1)] ==
        LET i == p[1]
            j == p[2]
        IN IF i > Len(a) \/ j > Len(b) THEN 0
           ELSE IF a[i][1] < b[j][1] THEN 1 + count[<<i + 1, j>>]
           ELSE IF a[i][1] > b[j][1] THEN 1 + count[<<i, j + 1>>]
           ELSE (IF a[i][2] # b[j][2] THEN 1 ELSE 0) + count[<<i + 1, j + 1>>]
  IN count[<<1, 1>>]

CompareStore(a, b) ==
  LET count[p \in (1 .. Len(a) + 1) \X (1 .. Len(b) + 1)] ==
        LET i == p[1]
            j == p[2]
        IN IF i > Len(a) /\ j > Len(b) THEN 0
           ELSE IF j > Len(b) \/ (i <= Len(a) /\ a[i][1] < b[j][1]) THEN 1 + count[<<i + 1, j>>]
           ELSE IF i > Len(a) \/ a[i][1] > b[j][1] THEN 1 + count[<<i, j + 1>>]
           ELSE (IF a[i][2] # b[j][2] THEN 1 ELSE 0) + count[<<i + 1, j + 1>>]
  IN count[<<1, 1>>]

CompareExtensions(a, b, n) ==
  LET x == Payloads(a, n)
      y == Payloads(b, n)
  IN Cardinality(x \ y) + Cardinality(y \ x)

VerifyEquivalent ==
  /\ pc = "applied"
  /\ verdict' = SumFunction([n \in StoreNames(out) \cup StoreNames(target) |->
                               CompareStore(KeyValues(out, n), KeyValues(target, n))])
                + SumFunction([n \in ExtNames(out) \cup ExtNames(target) |->
                                 CompareExtensions(out, target, n)])
  /\ pc' = "verified"
  /\ UNCHANGED <<base, target, file, cut, readers, todo, src, dpos, ch, out, meta>>

------------------------------------------------------------------------------
Compute == EnterStore \/ DiffStore \/ LeaveStore \/ StoresOver \/ DiffExtension \/ CloseFile

Apply == OpenDiff \/ WalkStores \/ ApplyStore \/ StoreApplied \/ WalkOver \/ ApplyExtension \/ WriteMeta
=============================================================================
