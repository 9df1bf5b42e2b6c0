------------------------ MODULE StateSyncDiff_proofs ------------------------
(***************************************************************************)
(* Why a state-sync diff gives back its target: each record after the two  *)
(* headers stands for the target item of its place, as a literal or as a   *)
(* reference to an equal item of the base; the scratch databases, whatever *)
(* batches filled them, hold only true pairs of an item and its index; and *)
(* the end mark of a diff that no error closed is at the target's end.     *)
(* And why the verifier of a leaf diff tells the truth: its merge counts   *)
(* zero differences exactly if the two lists it compares are equal.        *)
(* And why a leaf diff, whole and applied to its base, gives the target's  *)
(* keys, values and payloads (RoundInv, below).                            *)
(***************************************************************************)
EXTENDS StateSyncDiff, FiniteSetTheorems, NaturalsInduction, WellFoundedInduction, TLAPS

SyncPcs == {"index", "ops", "count", "syncdiffed", "byindex", "replay", "metadata", "synced", "failed"}
Before1 == {"index", "ops", "count", "syncdiffed", "byindex"}      \* before the first item is written
Items   == ToSet(base) \cup ToSet(target)
Recs    == {ZHdr, ZEnd} \cup {SyncHdr(c) : c \in Nat} \cup {Ref(i) : i \in Int} \cup {Literal(x) : x \in Items}

(* Entries of the two scratch databases.                                   *)
ByItem(d)     == \A x \in DOMAIN d : \E i \in 1 .. Len(base) : d[x] = i - 1 /\ base[i] = x
ByNumber(d)   == \A n \in DOMAIN d : \E i \in 1 .. Len(src) : n = i - 1 /\ d[n] = src[i]

(* Record r stands for item j of the target.                               *)
StandsFor(r, j) == /\ j \in 1 .. Len(target)
                   /\ r = Literal(target[j]) \/ \E i \in 1 .. Len(base) : r = Ref(i - 1) /\ base[i] = target[j]

STypes ==
  /\ base \in Seq(Items) /\ target \in Seq(Items) /\ src \in Seq(Items) /\ out \in Seq(Items)
  /\ file \in Seq(Recs) /\ pc \in SyncPcs
  /\ brd \in [pos : Nat \ {0}, cur : {None}] /\ trd \in [pos : Nat \ {0}, cur : {None}] /\ dpos \in Nat
AllStand == \A j \in 3 .. Len(file) : StandsFor(file[j], j - 2)
OrEnd    == \A j \in 3 .. Len(file) : file[j] = ZEnd \/ StandsFor(file[j], j - 2)
EndsLast == \A j \in 3 .. Len(file) : file[j] = ZEnd => cut = "error" \/ j = Len(target) + 3
FileInv ==
  /\ OrEnd /\ EndsLast
  /\ pc \in {"index", "ops", "count"} => cut = "no"
  /\ pc = "index" => trd.pos = 1
  /\ pc = "ops" => Len(file) = trd.pos + 1 /\ trd.pos <= Len(target) + 1 /\ AllStand
ScratchInv ==
  /\ pc \in {"index", "ops"} => ByItem(db)
  /\ pc = "index" => ByItem(batch) /\ file = << >>
  /\ pc \in {"ops", "count", "syncdiffed"} => batch = << >>
  /\ pc = "syncdiffed" => db = << >>
  /\ pc \in {"byindex", "replay"} => ByNumber(db)
  /\ pc = "byindex" => ByNumber(batch)
OutInv ==
  /\ pc \in Before1 => out = << >>
  /\ meta # {} => pc \in {"metadata", "synced"}
  /\ pc = "byindex" => dpos = 3
  /\ pc = "replay" => dpos >= 3
  /\ src = base =>
       /\ Len(out) <= Len(target) /\ \A j \in 1 .. Len(out) : out[j] = target[j]
       /\ pc = "replay" => Len(out) = dpos - 3
       /\ pc \in {"metadata", "synced"} /\ cut # "error" => Len(out) = Len(target)
SyncInv == mode = "sync" => STypes /\ FileInv /\ ScratchInv /\ OutInv

-----------------------------------------------------------------------------
(* Scratch databases and sequences.                                        *)

LEMMA Layered ==
  ASSUME NEW f, NEW g
  PROVE  /\ DOMAIN Over(f, g) = DOMAIN f \cup DOMAIN g
         /\ \A x \in DOMAIN f : Over(f, g)[x] = f[x]
         /\ \A x \in DOMAIN g : x \notin DOMAIN f => Over(f, g)[x] = g[x]
BY DEF Over

LEMMA ItemOver ==
  ASSUME NEW f, NEW g, ByItem(f), ByItem(g)
  PROVE  ByItem(Over(f, g))
<1>. SUFFICES ASSUME NEW x \in DOMAIN Over(f, g)
     PROVE  \E i \in 1 .. Len(base) : Over(f, g)[x] = i - 1 /\ base[i] = x
  BY DEF ByItem
<1>1. x \in DOMAIN f \/ (x \in DOMAIN g /\ x \notin DOMAIN f)
  BY Layered
<1>2. CASE x \in DOMAIN f
  <2>1. Over(f, g)[x] = f[x]
    BY <1>2 DEF Over
  <2>. QED BY <1>2, <2>1 DEF ByItem
<1>3. CASE x \in DOMAIN g /\ x \notin DOMAIN f
  <2>1. Over(f, g)[x] = g[x]
    BY <1>3 DEF Over
  <2>. QED BY <1>3, <2>1 DEF ByItem
<1>. QED BY <1>1, <1>2, <1>3

LEMMA NumberOver ==
  ASSUME NEW f, NEW g, ByNumber(f), ByNumber(g)
  PROVE  ByNumber(Over(f, g))
<1>. SUFFICES ASSUME NEW n \in DOMAIN Over(f, g)
     PROVE  \E i \in 1 .. Len(src) : n = i - 1 /\ Over(f, g)[n] = src[i]
  BY DEF ByNumber
<1>1. n \in DOMAIN f \/ (n \in DOMAIN g /\ n \notin DOMAIN f)
  BY Layered
<1>2. CASE n \in DOMAIN f
  <2>1. Over(f, g)[n] = f[n]
    BY <1>2 DEF Over
  <2>. QED BY <1>2, <2>1 DEF ByNumber
<1>3. CASE n \in DOMAIN g /\ n \notin DOMAIN f
  <2>1. Over(f, g)[n] = g[n]
    BY <1>3 DEF Over
  <2>. QED BY <1>3, <2>1 DEF ByNumber
<1>. QED BY <1>1, <1>2, <1>3

LEMMA NothingKnown == ByItem(<< >>) /\ ByNumber(<< >>)
<1>1. DOMAIN << >> = {}
  OBVIOUS
<1>. QED BY <1>1 DEF ByItem, ByNumber

LEMMA Joined ==
  ASSUME NEW S, NEW q \in Seq(S), NEW x \in S
  PROVE  /\ q \o <<x>> \in Seq(S) /\ Len(q \o <<x>>) = Len(q) + 1 /\ Len(q) \in Nat
         /\ (q \o <<x>>)[Len(q) + 1] = x /\ \A i \in 1 .. Len(q) : (q \o <<x>>)[i] = q[i]
<1>1. <<x>> \in Seq(S) /\ Len(<<x>>) = 1 /\ <<x>>[1] = x
  OBVIOUS
<1>. QED BY <1>1

LEMMA CutAt ==
  ASSUME NEW S, NEW q \in Seq(S), NEW n \in 0 .. Len(q)
  PROVE  /\ SubSeq(q, 1, n) \in Seq(S) /\ Len(SubSeq(q, 1, n)) = n
         /\ \A i \in 1 .. n : SubSeq(q, 1, n)[i] = q[i]
OBVIOUS

LEMMA HeadSet ==
  ASSUME NEW S, NEW q \in Seq(S), NEW x \in S
  PROVE  /\ [q EXCEPT ![1] = x] \in Seq(S) /\ Len([q EXCEPT ![1] = x]) = Len(q)
         /\ \A j \in 3 .. Len(q) : [q EXCEPT ![1] = x][j] = q[j]
<1>. DEFINE r == [q EXCEPT ![1] = x]
<1>1. r \in [1 .. Len(q) -> S] /\ Len(q) \in Nat /\ \A j \in 3 .. Len(q) : r[j] = q[j]
  <2>1. q \in [1 .. Len(q) -> S] /\ Len(q) \in Nat
    OBVIOUS
  <2>2. PICK D : D = 1 .. Len(q)
    OBVIOUS
  <2>3. r \in [D -> S] /\ \A j \in D : j # 1 => r[j] = q[j]
    BY <2>1, <2>2
  <2>. QED BY <2>1, <2>2, <2>3
<1>. HIDE DEF r
<1>2. r \in Seq(S) /\ Len(r) = Len(q)
  BY <1>1
<1>. QED BY <1>1, <1>2 DEF r

LEMMA Largest ==
  ASSUME NEW i \in Int, NEW j \in Int
  PROVE  Max({i, j}) \in Int /\ Max({i, j}) >= i /\ Max({i, j}) >= j
<1>1. \E x \in {i, j} : \A y \in {i, j} : x >= y
  <2>1. CASE i >= j
    BY <2>1
  <2>2. CASE j >= i
    BY <2>2
  <2>. QED BY <2>1, <2>2
<1>2. Max({i, j}) \in {i, j} /\ \A y \in {i, j} : Max({i, j}) >= y
  BY <1>1 DEF Max
<1>. QED BY <1>2

(* The commands of the leaf diff have nothing to do.                       *)
LEMMA LeafIdle ==
  ASSUME pc \in SyncPcs
  PROVE  ~(Compute \/ Apply \/ VerifyEquivalent \/ Crash \/ ComputeFails)
<1>1. ~Compute
  BY DEF Compute, EnterStore, DiffStore, LeaveStore, StoresOver, DiffExtension, CloseFile, SyncPcs
<1>2. ~OpenDiff /\ ~WalkStores /\ ~ApplyStore /\ ~StoreApplied /\ ~WriteMeta
  BY DEF OpenDiff, WalkStores, ApplyStore, StoreApplied, WriteMeta, SyncPcs
<1>3. ~WalkOver
  BY DEF WalkOver, SyncPcs
<1>4. ~ApplyExtension
  BY DEF ApplyExtension, SyncPcs
<1>5. ~VerifyEquivalent
  BY DEF VerifyEquivalent, SyncPcs
<1>6. ~Crash /\ ~ComputeFails
  BY DEF Crash, ComputeFails, StopShort, SyncPcs
<1>. QED BY <1>1, <1>2, <1>3, <1>4, <1>5, <1>6 DEF Apply

LEMMA SyncInit == Init => SyncInv
<1>. SUFFICES ASSUME Init, mode = "sync" PROVE STypes /\ FileInv /\ ScratchInv /\ OutInv
  BY DEF SyncInv
<1>1. PICK p \in Pairs : base = p[1] /\ target = p[2]
  BY DEF Init
<1>2. base \in Seq(ToSet(base)) /\ target \in Seq(ToSet(target))
  BY <1>1, DiffConstants
<1>3. ASSUME NEW S, NEW T, S \subseteq T, NEW q \in Seq(S) PROVE q \in Seq(T)
  BY <1>3
<1>4. base \in Seq(Items) /\ target \in Seq(Items)
  BY <1>2, <1>3 DEF Items
<1>5. Start \in [pos : Nat \ {0}, cur : {None}]
  BY DEF Start
<1>6. STypes
  BY <1>4, <1>5 DEF Init, STypes, SyncPcs
<1>7. Len(file) = 0 /\ pc = "index" /\ file = << >>
  BY DEF Init
<1>8. FileInv
  BY <1>7 DEF FileInv, OrEnd, EndsLast, Init, Start
<1>9. ScratchInv
  BY <1>7, NothingKnown DEF Init, ScratchInv
<1>10. OutInv
  BY <1>4, <1>7 DEF Init, OutInv
<1>. QED BY <1>6, <1>8, <1>9, <1>10

LEMMA SyncGives == SyncInv => SyncIsTarget
<1>. SUFFICES ASSUME SyncInv, mode = "sync", src = base
     PROVE  IsPrefix(out, target) /\ (meta # {} /\ cut # "error" => out = target)
  BY DEF SyncIsTarget
<1>1. /\ out \in Seq(Items) /\ target \in Seq(Items) /\ Len(out) <= Len(target) /\ \A j \in 1 .. Len(out) : out[j] = target[j]
      /\ Len(out) \in Nat /\ Len(target) \in Nat
  BY DEF SyncInv, STypes, OutInv
<1>2. SubSeq(out, 1, Len(out)) = SubSeq(target, 1, Len(out))
  <2>1. SubSeq(out, 1, Len(out)) = [j \in 1 .. Len(out) |-> out[j]]
    BY <1>1
  <2>2. SubSeq(target, 1, Len(out)) = [j \in 1 .. Len(out) |-> target[j]]
    BY <1>1
  <2>. QED BY <1>1, <2>1, <2>2
<1>3. ASSUME meta # {}, cut # "error" PROVE out = target
  <2>1. Len(out) = Len(target)
    BY <1>3 DEF SyncInv, OutInv
  <2>2. out = [j \in 1 .. Len(out) |-> out[j]] /\ target = [j \in 1 .. Len(target) |-> target[j]]
    BY <1>1
  <2>. QED BY <1>1, <2>1, <2>2
<1>. QED BY <1>1, <1>2, <1>3 DEF IsPrefix

-----------------------------------------------------------------------------
(* Steps.  The snapshots never change, nor then what a record stands for.  *)

LEMMA Framed ==
  ASSUME UNCHANGED <<base, target>>
  PROVE  /\ Items' = Items /\ Recs' = Recs
         /\ \A r, j : StandsFor(r, j)' <=> StandsFor(r, j)
         /\ \A d : ByItem(d)' <=> ByItem(d)
         /\ ByItem(db)' <=> ByItem(db')
         /\ ByItem(batch)' <=> ByItem(batch')
<1>1. Items' = Items
  BY DEF Items
<1>2. Recs' = Recs
  BY <1>1 DEF Recs, ZHdr, ZEnd, SyncHdr, Ref, Literal
<1>3. \A r, j : StandsFor(r, j)' <=> StandsFor(r, j)
  BY DEF StandsFor, Ref, Literal
<1>4. \A d : ByItem(d)' <=> ByItem(d)
  BY DEF ByItem
<1>5. (ByItem(db)' <=> ByItem(db')) /\ (ByItem(batch)' <=> ByItem(batch'))
  BY DEF ByItem
<1>. QED BY <1>1, <1>2, <1>3, <1>4, <1>5

LEMMA Numbered ==
  ASSUME src' = src
  PROVE  /\ ByNumber(db)' <=> ByNumber(db')
         /\ ByNumber(batch)' <=> ByNumber(batch')
BY DEF ByNumber

LEMMA KindOf ==
  ASSUME NEW r, NEW j, StandsFor(r, j)
  PROVE  r.tag \in {"Literal", "Ref"} /\ r # ZEnd
<1>1. ZEnd.tag = "ZlibEnd"
  BY DEF ZEnd
<1>2. \A x : Literal(x).tag = "Literal" /\ Ref(x).tag = "Ref"
  BY DEF Literal, Ref
<1>. QED BY <1>1, <1>2 DEF StandsFor

LEMMA KeepFile ==
  ASSUME FileInv, UNCHANGED <<base, target, file, cut>>, pc' \notin {"index", "ops", "count"}
  PROVE  FileInv'
BY Framed DEF FileInv, OrEnd, EndsLast

LEMMA KeepOut ==
  ASSUME OutInv, UNCHANGED <<target, base, src, out, meta, cut>>, meta = {},
         pc' \notin {"replay", "byindex", "metadata", "synced"}, pc' \in Before1 => out = << >>
  PROVE  OutInv'
BY DEF OutInv

(* Reading an item of the base into a scratch database.                    *)
LEMMA ItemIndexed ==
  ASSUME NEW s, NEW key, NEW val, NEW e, e = [x \in {key} |-> val], IndexItem(s, key, val), STypes
  PROVE  /\ UNCHANGED <<base, target, file, cut, pc, trd, applyVars, mode>>
         /\ brd' \in [pos : Nat \ {0}, cur : {None}] /\ brd.pos \in 1 .. Len(s)
         /\ \/ db' = db /\ batch' = Over(e, batch)
            \/ db' = Over(Over(e, batch), db) /\ batch' = << >>
<1>1. brd \in [pos : Nat \ {0}, cur : {None}]
  BY DEF STypes
<1>2. brd' = [brd EXCEPT !.pos = @ + 1] /\ brd.pos <= Len(s)
  BY DEF IndexItem
<1>3. brd' \in [pos : Nat \ {0}, cur : {None}]
  BY <1>1, <1>2
<1>4. brd.pos \in Nat \ {0}
  BY <1>1
<1>. HIDE DEF STypes
<1>5. \/ db' = db /\ batch' = Over(e, batch)
      \/ db' = Over(Over(e, batch), db) /\ batch' = << >>
  BY DEF IndexItem
<1>6. UNCHANGED <<base, target, file, cut, pc, trd, applyVars, mode>>
  BY DEF IndexItem
<1>. QED BY <1>2, <1>3, <1>4, <1>5, <1>6

LEMMA OneItem ==
  ASSUME NEW i \in 1 .. Len(base)
  PROVE  ByItem([x \in {base[i]} |-> i - 1])
BY DEF ByItem

LEMMA OneNumber ==
  ASSUME NEW i \in 1 .. Len(src)
  PROVE  ByNumber([x \in {i - 1} |-> src[i]])
BY DEF ByNumber

LEMMA StepIndexBase ==
  ASSUME SyncInv, mode = "sync", IndexBase
  PROVE  SyncInv'
<1>1. STypes /\ FileInv /\ ScratchInv /\ OutInv /\ pc = "index"
  BY DEF SyncInv, IndexBase
<1>2. IndexItem(base, base[brd.pos], brd.pos - 1)
  BY DEF IndexBase
<1>. DEFINE e == [x \in {base[brd.pos]} |-> brd.pos - 1]
<1>3. /\ UNCHANGED <<base, target, file, cut, pc, trd, applyVars, mode>>
      /\ brd' \in [pos : Nat \ {0}, cur : {None}] /\ brd.pos \in 1 .. Len(base)
      /\ \/ db' = db /\ batch' = Over(e, batch)
         \/ db' = Over(Over(e, batch), db) /\ batch' = << >>
  <2>1. PICK s, key, val : s = base /\ key = base[brd.pos] /\ val = brd.pos - 1
    OBVIOUS
  <2>2. IndexItem(s, key, val)
    BY <1>2, <2>1 DEF IndexItem
  <2>3. PICK d : d = [x \in {key} |-> val]
    OBVIOUS
  <2>5. d = e
    BY <2>1, <2>3
  <2>4. /\ UNCHANGED <<base, target, file, cut, pc, trd, applyVars, mode>>
        /\ brd' \in [pos : Nat \ {0}, cur : {None}] /\ brd.pos \in 1 .. Len(s)
        /\ \/ db' = db /\ batch' = Over(d, batch)
           \/ db' = Over(Over(d, batch), db) /\ batch' = << >>
    BY <1>1, <2>2, <2>3, ItemIndexed
  <2>. HIDE DEF e
  <2>. QED BY <2>1, <2>4, <2>5
<1>4. ByItem(db) /\ ByItem(batch) /\ ByItem(e)
  BY <1>1, <1>3, OneItem DEF ScratchInv
<1>. HIDE DEF e
<1>5. ByItem(db') /\ ByItem(batch')
  <2>1. ByItem(Over(e, batch))
    BY <1>4, ItemOver
  <2>2. ByItem(Over(Over(e, batch), db))
    BY <1>4, <2>1, ItemOver
  <2>. QED BY <1>3, <1>4, <2>1, <2>2, NothingKnown
<1>6. ScratchInv'
  BY <1>1, <1>3, <1>5, Framed DEF ScratchInv
<1>7. STypes'
  BY <1>1, <1>3, Framed DEF STypes, applyVars
<1>8. FileInv'
  BY <1>1, <1>3, Framed DEF FileInv, OrEnd, EndsLast
<1>9. OutInv'
  BY <1>1, <1>3 DEF OutInv, applyVars
<1>. QED BY <1>6, <1>7, <1>8, <1>9 DEF SyncInv

LEMMA StepIndexByNumber ==
  ASSUME SyncInv, mode = "sync", IndexByNumber
  PROVE  SyncInv'
<1>1. STypes /\ FileInv /\ ScratchInv /\ OutInv /\ pc = "byindex"
  BY DEF SyncInv, IndexByNumber
<1>2. IndexItem(src, brd.pos - 1, src[brd.pos])
  BY DEF IndexByNumber
<1>. DEFINE e == [x \in {brd.pos - 1} |-> src[brd.pos]]
<1>3. /\ UNCHANGED <<base, target, file, cut, pc, trd, applyVars, mode>>
      /\ brd' \in [pos : Nat \ {0}, cur : {None}] /\ brd.pos \in 1 .. Len(src)
      /\ \/ db' = db /\ batch' = Over(e, batch)
         \/ db' = Over(Over(e, batch), db) /\ batch' = << >>
  <2>1. PICK s, key, val : s = src /\ key = brd.pos - 1 /\ val = src[brd.pos]
    OBVIOUS
  <2>2. IndexItem(s, key, val)
    BY <1>2, <2>1 DEF IndexItem
  <2>3. PICK d : d = [x \in {key} |-> val]
    OBVIOUS
  <2>4. d = e
    BY <2>1, <2>3
  <2>5. /\ UNCHANGED <<base, target, file, cut, pc, trd, applyVars, mode>>
        /\ brd' \in [pos : Nat \ {0}, cur : {None}] /\ brd.pos \in 1 .. Len(s)
        /\ \/ db' = db /\ batch' = Over(d, batch)
           \/ db' = Over(Over(d, batch), db) /\ batch' = << >>
    BY <1>1, <2>2, <2>3, ItemIndexed
  <2>. HIDE DEF e
  <2>. QED BY <2>1, <2>4, <2>5
<1>4. ByNumber(db) /\ ByNumber(batch) /\ ByNumber(e)
  BY <1>1, <1>3, OneNumber DEF ScratchInv
<1>. HIDE DEF e
<1>5. ByNumber(db') /\ ByNumber(batch')
  <2>1. ByNumber(Over(e, batch))
    BY <1>4, NumberOver
  <2>2. ByNumber(Over(Over(e, batch), db))
    BY <1>4, <2>1, NumberOver
  <2>. QED BY <1>3, <1>4, <2>1, <2>2, NothingKnown
<1>6. src' = src
  BY <1>3 DEF applyVars
<1>7. ScratchInv'
  BY <1>1, <1>3, <1>5, <1>6, Numbered DEF ScratchInv
<1>8. STypes'
  BY <1>1, <1>3, Framed DEF STypes, applyVars
<1>9. FileInv'
  BY <1>1, <1>3, KeepFile
<1>10. OutInv'
  BY <1>1, <1>3 DEF OutInv, applyVars
<1>. QED BY <1>7, <1>8, <1>9, <1>10 DEF SyncInv

LEMMA NewReader == Start \in [pos : Nat \ {0}, cur : {None}]
BY DEF Start

LEMMA StepCreateFile ==
  ASSUME SyncInv, mode = "sync", CreateFile
  PROVE  SyncInv'
<1>1. STypes /\ FileInv /\ ScratchInv /\ OutInv /\ pc = "index" /\ pc' = "ops"
  BY DEF SyncInv, CreateFile
<1>2. UNCHANGED <<base, target, cut, trd, src, dpos, out, meta, mode>> /\ brd' = Start
  BY DEF CreateFile, applyVars, IndexEnd
<1>3. db' = Over(batch, db) /\ batch' = << >> /\ file' = <<SyncHdr(0), ZHdr>>
  BY DEF CreateFile, IndexEnd
<1>4. ByItem(db')
  BY <1>1, <1>3, ItemOver DEF ScratchInv
<1>5. file' \in Seq(Recs) /\ Len(file') = 2
  <2>1. SyncHdr(0) \in Recs /\ ZHdr \in Recs
    BY DEF Recs
  <2>. QED BY <1>3, <2>1
<1>6. STypes'
  BY <1>1, <1>2, <1>5, Framed, NewReader DEF STypes, SyncPcs
<1>7. FileInv'
  <2>1. trd.pos = 1 /\ Len(target) \in Nat /\ cut = "no"
    BY <1>1 DEF ScratchInv, FileInv, STypes
  <2>. QED BY <1>1, <1>2, <1>5, <2>1 DEF FileInv, OrEnd, EndsLast, AllStand
<1>8. ScratchInv'
  BY <1>1, <1>2, <1>3, <1>4, Framed DEF ScratchInv
<1>9. OutInv'
  BY <1>1, <1>2 DEF OutInv, Before1
<1>. QED BY <1>6, <1>7, <1>8, <1>9 DEF SyncInv

LEMMA StepEmitOp ==
  ASSUME SyncInv, mode = "sync", EmitOp
  PROVE  SyncInv'
<1>1. STypes /\ FileInv /\ ScratchInv /\ OutInv /\ pc = "ops" /\ pc' = pc
  BY DEF SyncInv, EmitOp
<1>2. UNCHANGED <<base, target, cut, brd, src, dpos, out, meta, mode, db, batch>>
  BY DEF EmitOp, applyVars, syncVars
<1>3. trd.pos \in 1 .. Len(target) /\ trd' = [trd EXCEPT !.pos = @ + 1] /\ trd.pos \in Nat
  BY <1>1 DEF EmitOp, STypes
<1>4. PICK t \in 1 .. Len(target) : t = trd.pos
  BY <1>3
<1>5. PICK r : r = IF target[t] \in DOMAIN db THEN Ref(db[target[t]]) ELSE Literal(target[t])
  OBVIOUS
<1>6. file' = file \o <<r>>
  BY <1>4, <1>5 DEF EmitOp, Emit
<1>7. target[t] \in Items
  BY <1>1, <1>4 DEF STypes
<1>8. StandsFor(r, t) /\ r \in Recs
  <2>1. CASE target[t] \in DOMAIN db
    <3>1. PICK i \in 1 .. Len(base) : db[target[t]] = i - 1 /\ base[i] = target[t]
      BY <1>1, <2>1 DEF ScratchInv, ByItem
    <3>2. r = Ref(i - 1) /\ i - 1 \in Int
      BY <1>5, <2>1, <3>1
    <3>. QED BY <3>1, <3>2 DEF StandsFor, Recs
  <2>2. CASE target[t] \notin DOMAIN db
    BY <1>5, <1>7, <2>2 DEF StandsFor, Recs
  <2>. QED BY <2>1, <2>2
<1>9. /\ file' \in Seq(Recs) /\ Len(file') = Len(file) + 1 /\ Len(file) \in Nat
      /\ file'[Len(file) + 1] = r /\ \A j \in 1 .. Len(file) : file'[j] = file[j]
  BY <1>1, <1>6, <1>8, Joined DEF STypes
<1>10. Len(file) = t + 1 /\ Len(file') = t + 2 /\ trd'.pos = t + 1 /\ Len(target) \in Nat
  BY <1>1, <1>3, <1>4, <1>9 DEF FileInv, STypes
<1>11. \A j \in 3 .. Len(file') : StandsFor(file'[j], j - 2)
  <2>. SUFFICES ASSUME NEW j \in 3 .. Len(file') PROVE StandsFor(file'[j], j - 2)
    OBVIOUS
  <2>1. CASE j = Len(file) + 1
    BY <1>8, <1>9, <1>10, <2>1
  <2>2. CASE j \in 3 .. Len(file)
    BY <1>1, <1>9, <2>2 DEF FileInv, AllStand
  <2>. QED BY <1>9, <2>1, <2>2
<1>12. AllStand' /\ OrEnd'
  BY <1>2, <1>11, Framed DEF AllStand, OrEnd
<1>13. EndsLast'
  BY <1>11, KindOf DEF EndsLast
<1>14. FileInv'
  <2>1. (Len(file) = trd.pos + 1 /\ trd.pos <= Len(target) + 1)'
    BY <1>2, <1>4, <1>10
  <2>2. cut' = "no" /\ pc' # "index"
    BY <1>1, <1>2 DEF FileInv
  <2>. QED BY <1>12, <1>13, <2>1, <2>2, Zenon DEF FileInv
<1>15. trd' \in [pos : Nat \ {0}, cur : {None}]
  <2>1. trd \in [pos : Nat \ {0}, cur : {None}]
    BY <1>1 DEF STypes
  <2>. QED BY <1>3, <2>1
<1>16. STypes'
  BY <1>1, <1>2, <1>9, <1>15, Framed DEF STypes
<1>17. ScratchInv'
  BY <1>1, <1>2, Framed DEF ScratchInv
<1>18. OutInv'
  BY <1>1, <1>2 DEF OutInv
<1>. QED BY <1>14, <1>16, <1>17, <1>18 DEF SyncInv

LEMMA StepCloseOps ==
  ASSUME SyncInv, mode = "sync", CloseOps
  PROVE  SyncInv'
<1>1. STypes /\ FileInv /\ ScratchInv /\ OutInv /\ pc = "ops" /\ pc' = "count"
  BY DEF SyncInv, CloseOps
<1>2. UNCHANGED <<base, target, cut, brd, trd, src, dpos, out, meta, mode, db, batch>>
  BY DEF CloseOps, applyVars, syncVars, readers
<1>3. file' = file \o <<ZEnd>> /\ ZEnd \in Recs
  BY DEF CloseOps, Emit, Recs
<1>4. /\ file' \in Seq(Recs) /\ Len(file') = Len(file) + 1 /\ Len(file) \in Nat
      /\ file'[Len(file) + 1] = ZEnd /\ \A j \in 1 .. Len(file) : file'[j] = file[j]
  BY <1>1, <1>3, Joined DEF STypes
<1>5. Len(file) = Len(target) + 2 /\ Len(target) \in Nat /\ AllStand
  BY <1>1 DEF FileInv, STypes, CloseOps
<1>6. ASSUME NEW j \in 3 .. Len(file')
      PROVE  \/ j = Len(target) + 3 /\ file'[j] = ZEnd
             \/ StandsFor(file'[j], j - 2)
  BY <1>4, <1>5 DEF AllStand
<1>7. OrEnd' /\ EndsLast'
  BY <1>2, <1>6, Framed, KindOf DEF OrEnd, EndsLast
<1>8. FileInv'
  BY <1>1, <1>2, <1>7 DEF FileInv
<1>9. STypes'
  BY <1>1, <1>2, <1>4, Framed DEF STypes, SyncPcs
<1>10. ScratchInv'
  BY <1>1, <1>2 DEF ScratchInv
<1>11. OutInv'
  BY <1>1, <1>2 DEF OutInv, Before1
<1>. QED BY <1>8, <1>9, <1>10, <1>11 DEF SyncInv

LEMMA StepRewriteHeader ==
  ASSUME SyncInv, mode = "sync", RewriteHeader
  PROVE  SyncInv'
<1>1. STypes /\ FileInv /\ ScratchInv /\ OutInv /\ pc = "count" /\ pc' = "syncdiffed"
  BY DEF SyncInv, RewriteHeader
<1>2. UNCHANGED <<base, target, cut, brd, src, dpos, out, meta, mode, batch>> /\ trd' = Start /\ db' = << >>
  BY DEF RewriteHeader, applyVars
<1>3. file' = [file EXCEPT ![1] = SyncHdr(Len(target))] /\ SyncHdr(Len(target)) \in Recs
  <2>1. Len(target) \in Nat
    BY <1>1 DEF STypes
  <2>. QED BY <2>1 DEF RewriteHeader, Recs
<1>4. file' \in Seq(Recs) /\ Len(file') = Len(file) /\ \A j \in 3 .. Len(file) : file'[j] = file[j]
  <2>1. file \in Seq(Recs)
    BY <1>1 DEF STypes
  <2>. QED BY <1>3, <2>1, HeadSet
<1>5. OrEnd' /\ EndsLast'
  BY <1>1, <1>2, <1>4, Framed DEF OrEnd, EndsLast, FileInv
<1>6. FileInv'
  BY <1>1, <1>5 DEF FileInv
<1>7. STypes'
  BY <1>1, <1>2, <1>4, Framed, NewReader DEF STypes, SyncPcs
<1>8. ScratchInv'
  BY <1>1, <1>2 DEF ScratchInv
<1>9. OutInv'
  BY <1>1, <1>2 DEF OutInv, Before1
<1>. QED BY <1>6, <1>7, <1>8, <1>9 DEF SyncInv

LEMMA StepSyncStopShort ==
  ASSUME SyncInv, mode = "sync", NEW how \in {"crash", "error"}, SyncStopShort(how)
  PROVE  SyncInv'
<1>1. STypes /\ FileInv /\ ScratchInv /\ OutInv /\ pc \in {"ops", "count"} /\ pc' = "syncdiffed" /\ cut' = how
  BY DEF SyncInv, SyncStopShort
<1>2. UNCHANGED <<base, target, brd, src, dpos, out, meta, mode, batch>> /\ trd' = Start /\ db' = << >>
  BY DEF SyncStopShort, applyVars
<1>3. PICK n \in Max({IF how = "error" THEN 2 ELSE 0, Len(file) - MaxLost}) .. Len(file) :
        file' = SubSeq(file, 1, n) \o (IF how = "error" THEN <<ZEnd>> ELSE << >>)
  BY DEF SyncStopShort
<1>4. file \in Seq(Recs) /\ Len(file) \in Nat /\ MaxLost \in Nat
  BY <1>1, DiffConstants DEF STypes
<1>5. n \in 0 .. Len(file)
  <2>1. PICK x \in Nat : x = (IF how = "error" THEN 2 ELSE 0)
    OBVIOUS
  <2>2. PICK y \in Int : y = Len(file) - MaxLost
    BY <1>4
  <2>3. Max({x, y}) \in Int /\ Max({x, y}) >= x
    <3>1. x \in Int
      OBVIOUS
    <3>. QED BY <3>1, Largest
  <2>4. n \in Max({x, y}) .. Len(file)
    BY <1>3, <2>1, <2>2
  <2>. QED BY <1>4, <2>3, <2>4
<1>. DEFINE q == SubSeq(file, 1, n)
<1>6. q \in Seq(Recs) /\ Len(q) = n /\ \A j \in 1 .. n : q[j] = file[j]
  BY <1>4, <1>5, CutAt
<1>. HIDE DEF q
<1>7. \/ how = "crash" /\ file' = q
      \/ how = "error" /\ file' = q \o <<ZEnd>>
  <2>1. CASE how = "crash"
    <3>1. file' = q \o << >>
      BY <1>3, <2>1 DEF q
    <3>. QED BY <1>6, <2>1, <3>1
  <2>2. CASE how = "error"
    BY <1>3, <2>2 DEF q
  <2>. QED BY <2>1, <2>2
<1>8. file' \in Seq(Recs)
  BY <1>6, <1>7, Joined DEF Recs
<1>9. ASSUME NEW j \in 3 .. Len(file')
      PROVE  \/ how = "error" /\ file'[j] = ZEnd
             \/ j \in 3 .. Len(file) /\ file'[j] = file[j]
  <2>1. CASE how = "crash"
    BY <1>5, <1>6, <1>7, <2>1
  <2>2. CASE how = "error"
    <3>1. Len(file') = n + 1 /\ file'[n + 1] = ZEnd /\ \A i \in 1 .. n : file'[i] = q[i]
      <4>1. ZEnd \in Recs
        BY DEF Recs
      <4>2. file' = q \o <<ZEnd>>
        BY <1>7, <2>2
      <4>3. /\ Len(q \o <<ZEnd>>) = Len(q) + 1 /\ (q \o <<ZEnd>>)[Len(q) + 1] = ZEnd
            /\ \A i \in 1 .. Len(q) : (q \o <<ZEnd>>)[i] = q[i]
        BY <1>6, <4>1, Joined
      <4>. QED BY <1>6, <4>2, <4>3
    <3>. QED BY <1>5, <1>6, <2>2, <3>1
  <2>. QED BY <2>1, <2>2
<1>10. OrEnd'
  BY <1>1, <1>2, <1>9, Framed DEF OrEnd, FileInv
<1>11. EndsLast'
  BY <1>1, <1>2, <1>9 DEF EndsLast, FileInv
<1>12. FileInv'
  BY <1>1, <1>10, <1>11 DEF FileInv
<1>13. STypes'
  BY <1>1, <1>2, <1>8, Framed, NewReader DEF STypes, SyncPcs
<1>14. ScratchInv'
  BY <1>1, <1>2 DEF ScratchInv
<1>15. OutInv'
  BY <1>1, <1>2 DEF OutInv, Before1
<1>. QED BY <1>12, <1>13, <1>14, <1>15 DEF SyncInv

LEMMA StepFail ==
  ASSUME SyncInv, mode = "sync", Fail, UNCHANGED syncVars, pc \in {"syncdiffed", "replay"}
  PROVE  SyncInv'
<1>1. STypes /\ FileInv /\ ScratchInv /\ OutInv /\ pc' = "failed"
  BY DEF SyncInv, Fail
<1>2. UNCHANGED <<base, target, file, cut, brd, trd, src, dpos, out, meta, mode, db, batch>>
  BY DEF Fail, readers, applyVars, syncVars
<1>3. FileInv'
  BY <1>1, <1>2, KeepFile
<1>4. STypes'
  BY <1>1, <1>2, Framed DEF STypes, SyncPcs
<1>5. ScratchInv'
  BY <1>1 DEF ScratchInv
<1>6. OutInv'
  <2>1. meta = {}
    BY <1>1 DEF OutInv
  <2>. QED BY <1>1, <1>2, <2>1, KeepOut DEF Before1
<1>. QED BY <1>3, <1>4, <1>5, <1>6 DEF SyncInv

LEMMA StepOpenSyncDiff ==
  ASSUME SyncInv, mode = "sync", OpenSyncDiff
  PROVE  SyncInv'
<1>1. STypes /\ FileInv /\ ScratchInv /\ OutInv /\ pc = "syncdiffed" /\ UNCHANGED syncVars
  BY DEF SyncInv, OpenSyncDiff
<1>2. CASE Fail
  BY <1>1, <1>2, StepFail
<1>3. CASE ~Fail
  <2>1. PICK dir \in {base, target} : /\ src' = dir /\ dpos' = 3 /\ pc' = "byindex"
                                      /\ UNCHANGED <<base, target, file, cut, readers, todo, ch, out, meta, verdict>>
    BY <1>3 DEF OpenSyncDiff
  <2>2. UNCHANGED <<base, target, file, cut, brd, trd, out, meta, mode, db, batch>>
    BY <1>1, <2>1 DEF readers, syncVars
  <2>3. FileInv'
    BY <1>1, <2>1, <2>2, KeepFile
  <2>4. STypes'
    BY <1>1, <2>1, <2>2, Framed DEF STypes, SyncPcs
  <2>5. ScratchInv'
    <3>1. db' = << >> /\ batch' = << >>
      BY <1>1, <2>2 DEF ScratchInv
    <3>2. ByNumber(db)' /\ ByNumber(batch)'
      BY <3>1 DEF ByNumber
    <3>. QED BY <2>1, <3>2 DEF ScratchInv
  <2>6. OutInv'
    <3>1. meta' = {} /\ out' = << >> /\ Len(target') \in Nat
      BY <1>1, <2>2 DEF OutInv, Before1, STypes
    <3>2. Len(out') = 0
      BY <3>1
    <3>. QED BY <2>1, <3>1, <3>2 DEF OutInv
  <2>. QED BY <2>3, <2>4, <2>5, <2>6 DEF SyncInv
<1>. QED BY <1>2, <1>3

LEMMA StepOpenOutput ==
  ASSUME SyncInv, mode = "sync", OpenOutput
  PROVE  SyncInv'
<1>1. STypes /\ FileInv /\ ScratchInv /\ OutInv /\ pc = "byindex" /\ pc' = "replay"
  BY DEF SyncInv, OpenOutput
<1>2. UNCHANGED <<base, target, file, cut, trd, src, dpos, out, meta, mode>> /\ brd' = Start
  BY DEF OpenOutput, IndexEnd, applyVars
<1>3. db' = Over(batch, db) /\ batch' = << >>
  BY DEF OpenOutput, IndexEnd
<1>4. FileInv'
  BY <1>1, <1>2, KeepFile
<1>5. STypes'
  BY <1>1, <1>2, Framed, NewReader DEF STypes, SyncPcs
<1>6. ScratchInv'
  <2>1. ByNumber(Over(batch, db))
    BY <1>1, NumberOver DEF ScratchInv
  <2>. QED BY <1>1, <1>2, <1>3, <2>1, Numbered DEF ScratchInv
<1>7. OutInv'
  <2>1. meta' = {} /\ out' = << >> /\ dpos' = 3 /\ Len(target') \in Nat
    BY <1>1, <1>2 DEF OutInv, Before1, STypes
  <2>2. Len(out') = 0
    BY <2>1
  <2>. QED BY <1>1, <2>1, <2>2 DEF OutInv, Before1
<1>. QED BY <1>4, <1>5, <1>6, <1>7 DEF SyncInv

LEMMA StepReplayOp ==
  ASSUME SyncInv, mode = "sync", ReplayOp
  PROVE  SyncInv'
<1>1. STypes /\ FileInv /\ ScratchInv /\ OutInv /\ pc = "replay"
  BY DEF SyncInv, ReplayOp
<1>2. CASE dpos > Len(file) \/ (file[dpos].tag = "Ref" /\ file[dpos].index \notin DOMAIN db)
  BY <1>1, <1>2, StepFail DEF ReplayOp
<1>3. CASE ~(dpos > Len(file) \/ (file[dpos].tag = "Ref" /\ file[dpos].index \notin DOMAIN db))
  <2>1. dpos \in 3 .. Len(file) /\ dpos \in Nat
    BY <1>1, <1>3 DEF OutInv, STypes
  <2>2. /\ file[dpos] # ZEnd /\ dpos' = dpos + 1
        /\ UNCHANGED <<base, target, file, cut, pc, readers, todo, src, ch, meta, verdict, syncVars>>
    BY <1>3 DEF ReplayOp
  <2>3. PICK x : x = IF file[dpos].tag = "Ref" THEN db[file[dpos].index] ELSE file[dpos].item
    OBVIOUS
  <2>4. out' = out \o <<x>>
    BY <1>3, <2>3 DEF ReplayOp, Write
  <2>5. UNCHANGED <<base, target, file, cut, pc, brd, trd, src, meta, mode, db, batch>>
    BY <2>2 DEF readers, syncVars
  <2>6. StandsFor(file[dpos], dpos - 2)
    BY <1>1, <2>1, <2>2 DEF FileInv, OrEnd
  <2>7. x \in Items /\ (src = base => x = target[dpos - 2])
    <3>1. CASE file[dpos] = Literal(target[dpos - 2])
      <4>1. file[dpos].tag = "Literal" /\ file[dpos].item = target[dpos - 2]
        BY <3>1 DEF Literal
      <4>2. x = target[dpos - 2] /\ dpos - 2 \in 1 .. Len(target)
        BY <2>3, <2>6, <4>1 DEF StandsFor
      <4>. QED BY <1>1, <4>2 DEF STypes
    <3>2. ASSUME NEW i \in 1 .. Len(base), file[dpos] = Ref(i - 1), base[i] = target[dpos - 2]
          PROVE  x \in Items /\ (src = base => x = target[dpos - 2])
      <4>1. file[dpos].tag = "Ref" /\ file[dpos].index = i - 1
        BY <3>2 DEF Ref
      <4>2. x = db[i - 1] /\ i - 1 \in DOMAIN db
        BY <1>3, <2>3, <4>1
      <4>3. PICK k \in 1 .. Len(src) : i - 1 = k - 1 /\ db[i - 1] = src[k]
        BY <1>1, <4>2 DEF ScratchInv, ByNumber
      <4>4. Len(src) \in Nat /\ Len(base) \in Nat /\ src[k] \in Items
        BY <1>1 DEF STypes
      <4>5. i = k
        BY <4>3, <4>4
      <4>. QED BY <3>2, <4>2, <4>3, <4>4, <4>5
    <3>. QED BY <2>6, <3>1, <3>2 DEF StandsFor
  <2>8. /\ out' \in Seq(Items) /\ Len(out') = Len(out) + 1 /\ Len(out) \in Nat
        /\ out'[Len(out) + 1] = x /\ \A j \in 1 .. Len(out) : out'[j] = out[j]
    BY <1>1, <2>4, <2>7, Joined DEF STypes
  <2>9. FileInv'
    BY <1>1, <2>5, KeepFile
  <2>10. STypes'
    BY <1>1, <2>1, <2>2, <2>5, <2>8, Framed DEF STypes
  <2>11. ScratchInv'
    BY <1>1, <2>5, Numbered DEF ScratchInv
  <2>12. OutInv'
    <3>1. ASSUME src = base
          PROVE  /\ Len(out') <= Len(target) /\ Len(out') = dpos' - 3
                 /\ \A j \in 1 .. Len(out') : out'[j] = target[j]
      <4>1. Len(out) = dpos - 3 /\ \A j \in 1 .. Len(out) : out[j] = target[j]
        BY <1>1, <3>1 DEF OutInv
      <4>2. dpos - 2 <= Len(target) /\ Len(out) + 1 = dpos - 2
        BY <2>1, <2>6, <4>1 DEF StandsFor
      <4>. QED BY <2>1, <2>2, <2>7, <2>8, <3>1, <4>1, <4>2
    <3>2. dpos' >= 3 /\ pc' = "replay" /\ meta' = {}
      BY <1>1, <2>1, <2>2, <2>5 DEF OutInv
    <3>. QED BY <2>5, <3>1, <3>2 DEF OutInv, Before1
  <2>. QED BY <2>9, <2>10, <2>11, <2>12 DEF SyncInv
<1>. QED BY <1>2, <1>3

LEMMA StepReplayEnd ==
  ASSUME SyncInv, mode = "sync", ReplayEnd
  PROVE  SyncInv'
<1>1. STypes /\ FileInv /\ ScratchInv /\ OutInv /\ pc = "replay" /\ pc' = "metadata"
  BY DEF SyncInv, ReplayEnd
<1>2. UNCHANGED <<base, target, file, cut, brd, trd, src, dpos, out, meta, mode, batch>>
  BY DEF ReplayEnd, readers, applyVars
<1>3. dpos \in 3 .. Len(file) /\ dpos \in Nat /\ file[dpos] = ZEnd
  BY <1>1 DEF ReplayEnd, OutInv, STypes
<1>4. cut = "error" \/ dpos = Len(target) + 3
  BY <1>1, <1>3 DEF FileInv, EndsLast
<1>5. FileInv'
  BY <1>1, <1>2, KeepFile
<1>6. STypes'
  BY <1>1, <1>2, Framed DEF STypes, SyncPcs
<1>7. ScratchInv'
  BY <1>1 DEF ScratchInv
<1>8. OutInv'
  <2>1. src = base /\ cut # "error" => Len(out) = Len(target)
    <3>1. Len(target) \in Nat
      BY <1>1 DEF STypes
    <3>. QED BY <1>1, <1>3, <1>4, <3>1 DEF OutInv
  <2>. QED BY <1>1, <1>2, <2>1 DEF OutInv, Before1
<1>. QED BY <1>5, <1>6, <1>7, <1>8 DEF SyncInv

LEMMA StepWriteSyncMeta ==
  ASSUME SyncInv, mode = "sync", NEW f, WriteSyncMeta(f)
  PROVE  SyncInv'
<1>1. STypes /\ FileInv /\ ScratchInv /\ OutInv /\ pc = "metadata" /\ pc' \in {"metadata", "synced"}
  BY DEF SyncInv, WriteSyncMeta
<1>2. UNCHANGED <<base, target, file, cut, brd, trd, src, dpos, out, mode, db, batch>>
  BY DEF WriteSyncMeta, readers, syncVars
<1>3. FileInv'
  BY <1>1, <1>2, KeepFile
<1>4. STypes'
  BY <1>1, <1>2, Framed DEF STypes, SyncPcs
<1>5. ScratchInv'
  BY <1>1 DEF ScratchInv
<1>6. OutInv'
  BY <1>1, <1>2 DEF OutInv, Before1
<1>. QED BY <1>3, <1>4, <1>5, <1>6 DEF SyncInv

LEMMA SyncStutter ==
  ASSUME SyncInv, UNCHANGED allVars
  PROVE  SyncInv'
<1>1. UNCHANGED <<base, target, file, cut, brd, trd, pc, src, dpos, out, meta, mode, db, batch>>
  BY DEF allVars, vars, readers, applyVars, syncVars
<1>. SUFFICES ASSUME mode = "sync" PROVE STypes' /\ FileInv' /\ ScratchInv' /\ OutInv'
  BY <1>1 DEF SyncInv
<1>2. STypes /\ FileInv /\ ScratchInv /\ OutInv
  BY DEF SyncInv
<1>3. FileInv'
  BY <1>1, <1>2, Framed DEF FileInv, OrEnd, EndsLast, AllStand
<1>4. STypes'
  BY <1>1, <1>2, Framed DEF STypes
<1>5. ScratchInv'
  BY <1>1, <1>2, Framed, Numbered DEF ScratchInv
<1>6. OutInv'
  BY <1>1, <1>2 DEF OutInv
<1>. QED BY <1>3, <1>4, <1>5, <1>6

LEMMA SyncStep == SyncInv /\ [Next]_allVars => SyncInv'
<1>. SUFFICES ASSUME SyncInv, [Next]_allVars PROVE SyncInv'
  OBVIOUS
<1>1. CASE UNCHANGED allVars
  BY <1>1, SyncStutter
<1>2. CASE mode # "sync" /\ Next
  <2>1. mode' = mode
    BY <1>2 DEF Next, Runs, Stops, ComputeStateSync, ApplyStateSync, syncVars, SyncCrash, SyncComputeFails, SyncStopShort,
       IndexBase, IndexItem, CreateFile, EmitOp, CloseOps, RewriteHeader, OpenSyncDiff, IndexByNumber, OpenOutput,
       ReplayOp, ReplayEnd, WriteSyncMeta
  <2>. QED BY <1>2, <2>1 DEF SyncInv
<1>3. CASE mode = "sync" /\ Next
  <2>1. ~(Compute \/ Apply \/ VerifyEquivalent \/ Crash \/ ComputeFails)
    BY <1>3, LeafIdle DEF SyncInv, STypes
  <2>2. CASE ComputeStateSync
    BY <1>3, <2>2, StepIndexBase, StepCreateFile, StepEmitOp, StepCloseOps, StepRewriteHeader DEF ComputeStateSync
  <2>3. CASE ApplyStateSync
    BY <1>3, <2>3, StepOpenSyncDiff, StepIndexByNumber, StepOpenOutput, StepReplayOp, StepReplayEnd, StepWriteSyncMeta
       DEF ApplyStateSync
  <2>4. CASE SyncCrash \/ SyncComputeFails
    BY <1>3, <2>4, StepSyncStopShort DEF SyncCrash, SyncComputeFails
  <2>. QED BY <1>3, <2>1, <2>2, <2>3, <2>4 DEF Next, Runs, Stops
<1>. QED BY <1>1, <1>2, <1>3

(* For all snapshots, batch sizes and places at which a crash or an error  *)
(* cuts the diff file: ApplyStateSync on the right base writes a prefix of *)
(* the target, and the whole target by the time it writes any metadata,    *)
(* unless Compute stopped with an error, whose deferred Close ends the     *)
(* stream early (statesync_diff.go, statesync_apply.go).                   *)
THEOREM SyncRoundTrip == Spec => []SyncIsTarget
<1>. QED BY SyncInit, SyncStep, SyncGives, PTL DEF Spec

-----------------------------------------------------------------------------
(* Least elements, and sets of numbers in order.                           *)

LEMMA LeastOf ==
  ASSUME NEW S \in SUBSET Nat, S # {}
  PROVE  \E m \in S : \A n \in S : m <= n
<1>1. IsWellFoundedOn(OpToRel(<, Nat), Nat)
  BY NatLessThanWellFounded
<1>2. PICK m \in S : \A y \in S : <<y, m>> \notin OpToRel(<, Nat)
  BY <1>1, WFMin
<1>3. ASSUME NEW n \in S PROVE m <= n
  <2>1. ~(n < m)
    BY <1>2 DEF OpToRel
  <2>. QED BY <2>1
<1>. QED BY <1>3

LEMMA LeastIs ==
  ASSUME NEW S \in SUBSET Nat, S # {}
  PROVE  Min(S) \in S /\ \A n \in S : Min(S) <= n
BY LeastOf DEF Min

LEMMA GreatestIs ==
  ASSUME NEW S \in SUBSET Nat, S # {}, NEW b \in Nat, \A n \in S : n <= b
  PROVE  Max(S) \in S /\ \A n \in S : Max(S) >= n
<1>. DEFINE T == {b - n : n \in S}
<1>1. T \in SUBSET Nat /\ T # {}
  <2>1. \A n \in S : b - n \in Nat
    OBVIOUS
  <2>. QED BY <2>1
<1>2. PICK m \in T : \A n \in T : m <= n
  <2>. HIDE DEF T
  <2>. QED BY <1>1, LeastOf
<1>3. PICK x \in S : m = b - x
  BY <1>2
<1>4. \A n \in S : x >= n
  BY <1>2, <1>3
<1>5. \E y \in S : \A n \in S : y >= n
  BY <1>4
<1>. QED BY <1>5 DEF Max

Below(I, k) == {l \in I : l < k}

LEMMA BelowGrows ==
  ASSUME NEW I \in SUBSET Nat, IsFiniteSet(I), NEW k \in I
  PROVE  /\ IsFiniteSet(Below(I, k)) /\ Cardinality(Below(I, k)) \in Nat
         /\ Cardinality(Below(I, k)) + 1 <= Cardinality(I)
         /\ \A m \in I : k < m => Cardinality(Below(I, k)) < Cardinality(Below(I, m))
<1>. DEFINE B == Below(I, k)
<1>1. B \in SUBSET I /\ k \notin B /\ \A m \in I : Below(I, m) \in SUBSET I
  BY DEF Below
<1>2. IsFiniteSet(B) /\ Cardinality(B) \in Nat /\ \A m \in I : IsFiniteSet(Below(I, m)) /\ Cardinality(Below(I, m)) \in Nat
  BY <1>1, FS_Subset, FS_CardinalityType
<1>3. IsFiniteSet(B \cup {k}) /\ Cardinality(B \cup {k}) = Cardinality(B) + 1
  BY <1>1, <1>2, FS_AddElement
<1>4. B \cup {k} \in SUBSET I /\ \A m \in I : k < m => B \cup {k} \in SUBSET Below(I, m)
  <2>1. ASSUME NEW m \in I, k < m, NEW x \in B \cup {k} PROVE x \in I /\ x < m
    BY <2>1 DEF Below
  <2>. QED BY <1>1, <2>1 DEF Below
<1>. HIDE DEF B
<1>5. Cardinality(B) + 1 <= Cardinality(I)
  BY <1>3, <1>4, FS_Subset
<1>6. ASSUME NEW m \in I, k < m PROVE Cardinality(B) < Cardinality(Below(I, m))
  <2>1. Cardinality(B \cup {k}) <= Cardinality(Below(I, m))
    BY <1>2, <1>4, <1>6, FS_Subset
  <2>. QED BY <1>2, <1>3, <2>1
<1>. QED BY <1>2, <1>5, <1>6 DEF B

LEMMA InOrderIs ==
  ASSUME NEW I \in SUBSET Nat, IsFiniteSet(I)
  PROVE  /\ Cardinality(I) \in Nat /\ InOrder(I) \in Seq(I) /\ Len(InOrder(I)) = Cardinality(I)
         /\ DOMAIN InOrder(I) = 1 .. Cardinality(I)
         /\ \A i \in 1 .. Cardinality(I) : InOrder(I)[i] \in I
         /\ \A i, j \in 1 .. Cardinality(I) : i < j => InOrder(I)[i] < InOrder(I)[j]
         /\ \A k \in I : \E i \in 1 .. Cardinality(I) : InOrder(I)[i] = k
<1>. DEFINE c == Cardinality(I)
            g == [k \in I |-> Cardinality(Below(I, k)) + 1]
<1>1. c \in Nat /\ IsFiniteSet(1 .. c) /\ Cardinality(1 .. c) = c
  <2>1. c \in Nat
    BY FS_CardinalityType
  <2>2. Cardinality(1 .. c) = c /\ IsFiniteSet(1 .. c)
    <3>. HIDE DEF c
    <3>. QED BY <2>1, FS_Interval
  <2>. QED BY <2>1, <2>2
<1>2. \A k \in I : Cardinality(Below(I, k)) \in Nat /\ Cardinality(Below(I, k)) + 1 <= c
  BY BelowGrows
<1>3. \A k, m \in I : k < m => Cardinality(Below(I, k)) < Cardinality(Below(I, m))
  BY BelowGrows
<1>. HIDE DEF c
<1>4. \A k, m \in I : Cardinality(Below(I, k)) = Cardinality(Below(I, m)) => k = m
  BY <1>2, <1>3
<1>5. g \in Injection(I, 1 .. c)
  <2>1. g \in [I -> 1 .. c]
    BY <1>1, <1>2
  <2>2. \A k, m \in I : g[k] = g[m] => k = m
    BY <1>2, <1>4
  <2>. QED BY <2>1, <2>2 DEF Injection, IsInjective
<1>6. g \in Surjection(I, 1 .. c)
  <2>. HIDE DEF g
  <2>1. Cardinality(I) = Cardinality(1 .. c)
    BY <1>1 DEF c
  <2>. QED BY <1>1, <1>5, <2>1, FS_Injection
<1>7. ASSUME NEW i \in 1 .. c PROVE \E k \in I : Cardinality(Below(I, k)) = i - 1
  <2>1. PICK k \in I : g[k] = i
    BY <1>6 DEF Surjection
  <2>. QED BY <1>2, <2>1
<1>. DEFINE q == InOrder(I)
<1>8. q = [i \in 1 .. c |-> CHOOSE k \in I : Cardinality(Below(I, k)) = i - 1]
  BY DEF InOrder, Below, c
<1>9. \A i \in 1 .. c : q[i] \in I /\ Cardinality(Below(I, q[i])) = i - 1
  BY <1>7, <1>8
<1>. HIDE DEF q
<1>10. ASSUME NEW i \in 1 .. c, NEW j \in 1 .. c, i < j PROVE q[i] < q[j]
  <2>1. PICK x \in I, y \in I : x = q[i] /\ y = q[j]
    BY <1>9
  <2>2. Cardinality(Below(I, x)) = i - 1 /\ Cardinality(Below(I, y)) = j - 1
    BY <1>9, <2>1
  <2>3. ~(y < x) /\ y # x
    BY <1>1, <1>3, <1>10, <2>2
  <2>4. x \in Nat /\ y \in Nat
    OBVIOUS
  <2>. QED BY <2>1, <2>3, <2>4
<1>11. ASSUME NEW k \in I PROVE \E i \in 1 .. c : q[i] = k
  <2>1. PICK i \in 1 .. c : i - 1 = Cardinality(Below(I, k))
    BY <1>1, <1>2
  <2>. QED BY <1>4, <1>9, <2>1
<1>12. q \in Seq(I) /\ Len(q) = c /\ DOMAIN q = 1 .. c
  <2>1. q \in [1 .. c -> I]
    BY <1>8, <1>9
  <2>. QED BY <1>1, <2>1
<1>. QED BY <1>1, <1>9, <1>10, <1>11, <1>12 DEF q, c

-----------------------------------------------------------------------------
(* Sequences of anything.                                                  *)

IsSeq(q) == q \in Seq(ToSet(q))

LEMMA SeqOfAny ==
  ASSUME NEW S, NEW q \in Seq(S)
  PROVE  IsSeq(q) /\ Len(q) \in Nat /\ DOMAIN q = 1 .. Len(q)
<1>1. Len(q) \in Nat /\ DOMAIN q = 1 .. Len(q) /\ q = [i \in 1 .. Len(q) |-> q[i]]
  OBVIOUS
<1>2. q \in [1 .. Len(q) -> ToSet(q)]
  BY <1>1 DEF ToSet
<1>. QED BY <1>1, <1>2 DEF IsSeq

LEMMA SeqFrom ==
  ASSUME NEW n \in Nat, NEW q, DOMAIN q = 1 .. n, q = [i \in DOMAIN q |-> q[i]]
  PROVE  IsSeq(q) /\ Len(q) = n
<1>1. q \in [1 .. n -> ToSet(q)]
  BY DEF ToSet
<1>. QED BY <1>1 DEF IsSeq

LEMMA SeqFacts ==
  ASSUME NEW q, IsSeq(q)
  PROVE  Len(q) \in Nat /\ DOMAIN q = 1 .. Len(q) /\ q = [i \in 1 .. Len(q) |-> q[i]]
BY DEF IsSeq

LEMMA OneElement ==
  ASSUME NEW x
  PROVE  IsSeq(<<x>>) /\ Len(<<x>>) = 1 /\ <<x>>[1] = x /\ IsSeq(<< >>) /\ Len(<< >>) = 0
<1>1. <<x>> \in Seq({x}) /\ << >> \in Seq({x})
  OBVIOUS
<1>. QED BY <1>1, SeqOfAny

LEMMA Concat ==
  ASSUME NEW q, NEW r, IsSeq(q), IsSeq(r)
  PROVE  /\ IsSeq(q \o r) /\ Len(q \o r) = Len(q) + Len(r)
         /\ \A i \in 1 .. Len(q) : (q \o r)[i] = q[i]
         /\ \A i \in 1 .. Len(r) : (q \o r)[Len(q) + i] = r[i]
<1>. DEFINE S == ToSet(q) \cup ToSet(r)
<1>1. q \in Seq(S) /\ r \in Seq(S)
  <2>1. ASSUME NEW A, NEW B, A \subseteq B, NEW p \in Seq(A) PROVE p \in Seq(B)
    BY <2>1
  <2>. QED BY <2>1 DEF IsSeq
<1>. HIDE DEF S
<1>2. q \o r \in Seq(S) /\ Len(q \o r) = Len(q) + Len(r) /\ Len(q) \in Nat /\ Len(r) \in Nat
  BY <1>1
<1>3. \A i \in 1 .. Len(q) : (q \o r)[i] = q[i]
  BY <1>1
<1>4. \A i \in 1 .. Len(r) : (q \o r)[Len(q) + i] = r[i]
  BY <1>1
<1>. QED BY <1>2, <1>3, <1>4, SeqOfAny

LEMMA SameSeq ==
  ASSUME NEW q, NEW r, IsSeq(q), IsSeq(r), Len(q) = Len(r), \A i \in 1 .. Len(q) : q[i] = r[i]
  PROVE  q = r
<1>1. q = [i \in 1 .. Len(q) |-> q[i]] /\ r = [i \in 1 .. Len(r) |-> r[i]]
  BY SeqFacts
<1>. QED BY <1>1

-----------------------------------------------------------------------------
(* compareStore counts nothing exactly when the sides are equal.  Its      *)
(* recursion is unfolded along Left, the pairs that are left to read.      *)

Places(a, b)  == (1 .. Len(a) + 1) \X (1 .. Len(b) + 1)
Left(a, b, p) == (Len(a) + 1 - p[1]) + (Len(b) + 1 - p[2])
CountStep(a, b, f, p) ==
  IF p[1] > Len(a) /\ p[2] > Len(b) THEN 0
  ELSE IF p[2] > Len(b) \/ (p[1] <= Len(a) /\ a[p[1]][1] < b[p[2]][1]) THEN 1 + f[<<p[1] + 1, p[2]>>]
  ELSE IF p[1] > Len(a) \/ a[p[1]][1] > b[p[2]][1] THEN 1 + f[<<p[1], p[2] + 1>>]
  ELSE (IF a[p[1]][2] # b[p[2]][2] THEN 1 ELSE 0) + f[<<p[1] + 1, p[2] + 1>>]

LEMMA PlaceFacts ==
  ASSUME NEW a, NEW b, Len(a) \in Nat, Len(b) \in Nat, NEW p \in Places(a, b)
  PROVE  /\ p[1] \in 1 .. Len(a) + 1 /\ p[2] \in 1 .. Len(b) + 1 /\ p = <<p[1], p[2]>>
         /\ Left(a, b, p) \in Nat /\ Left(a, b, p) <= Len(a) + Len(b)
         /\ p[1] <= Len(a) => <<p[1] + 1, p[2]>> \in Places(a, b) /\ Left(a, b, <<p[1] + 1, p[2]>>) < Left(a, b, p)
         /\ p[2] <= Len(b) => <<p[1], p[2] + 1>> \in Places(a, b) /\ Left(a, b, <<p[1], p[2] + 1>>) < Left(a, b, p)
         /\ p[1] <= Len(a) /\ p[2] <= Len(b) =>
              <<p[1] + 1, p[2] + 1>> \in Places(a, b) /\ Left(a, b, <<p[1] + 1, p[2] + 1>>) < Left(a, b, p)
<1>1. p[1] \in 1 .. Len(a) + 1 /\ p[2] \in 1 .. Len(b) + 1 /\ p = <<p[1], p[2]>>
  BY DEF Places
<1>2. PICK i \in 1 .. Len(a) + 1, j \in 1 .. Len(b) + 1 : i = p[1] /\ j = p[2]
  BY <1>1
<1>3. Left(a, b, p) \in Nat /\ Left(a, b, p) <= Len(a) + Len(b)
  BY <1>2 DEF Left
<1>4. /\ i <= Len(a) => <<i + 1, j>> \in Places(a, b)
      /\ j <= Len(b) => <<i, j + 1>> \in Places(a, b)
      /\ i <= Len(a) /\ j <= Len(b) => <<i + 1, j + 1>> \in Places(a, b)
  BY DEF Places
<1>5. /\ Left(a, b, <<i + 1, j>>) < Left(a, b, p) /\ Left(a, b, <<i, j + 1>>) < Left(a, b, p)
      /\ Left(a, b, <<i + 1, j + 1>>) < Left(a, b, p)
  <2>1. /\ Left(a, b, <<i + 1, j>>) = (Len(a) + 1 - (i + 1)) + (Len(b) + 1 - j)
        /\ Left(a, b, <<i, j + 1>>) = (Len(a) + 1 - i) + (Len(b) + 1 - (j + 1))
        /\ Left(a, b, <<i + 1, j + 1>>) = (Len(a) + 1 - (i + 1)) + (Len(b) + 1 - (j + 1))
    BY DEF Left
  <2>2. Left(a, b, p) = (Len(a) + 1 - i) + (Len(b) + 1 - j)
    BY <1>2 DEF Left
  <2>. QED BY <2>1, <2>2
<1>. QED BY <1>1, <1>2, <1>3, <1>4, <1>5

(* A step reads only places with less left.                                *)
LEMMA CountLocal ==
  ASSUME NEW a, NEW b, Len(a) \in Nat, Len(b) \in Nat, NEW p \in Places(a, b), NEW f, NEW g,
         \A r \in Places(a, b) : Left(a, b, r) < Left(a, b, p) => f[r] = g[r]
  PROVE  CountStep(a, b, f, p) = CountStep(a, b, g, p)
<1>1. /\ p[1] \in 1 .. Len(a) + 1 /\ p[2] \in 1 .. Len(b) + 1
      /\ p[1] <= Len(a) => f[<<p[1] + 1, p[2]>>] = g[<<p[1] + 1, p[2]>>]
      /\ p[2] <= Len(b) => f[<<p[1], p[2] + 1>>] = g[<<p[1], p[2] + 1>>]
      /\ p[1] <= Len(a) /\ p[2] <= Len(b) => f[<<p[1] + 1, p[2] + 1>>] = g[<<p[1] + 1, p[2] + 1>>]
  BY PlaceFacts
<1>2. CASE p[1] > Len(a) /\ p[2] > Len(b)
  BY <1>2 DEF CountStep
<1>3. CASE p[1] <= Len(a) /\ p[2] > Len(b)
  BY <1>1, <1>3 DEF CountStep
<1>4. CASE p[1] > Len(a) /\ p[2] <= Len(b)
  BY <1>1, <1>4 DEF CountStep
<1>5. CASE p[1] <= Len(a) /\ p[2] <= Len(b)
  BY <1>1, <1>5 DEF CountStep
<1>. QED BY <1>1, <1>2, <1>3, <1>4, <1>5

LEMMA CountUnfold ==
  ASSUME NEW a, NEW b, Len(a) \in Nat, Len(b) \in Nat
  PROVE  \E f : /\ CompareStore(a, b) = f[<<1, 1>>]
                /\ \A p \in Places(a, b) : f[p] = CountStep(a, b, f, p)
<1>. DEFINE D(n) == {p \in Places(a, b) : Left(a, b, p) <= n}
            Good(n, f) == f = [p \in D(n) |-> CountStep(a, b, f, p)]
            Bad == {n \in Nat : ~ \E f : Good(n, f)}
            Chosen == CHOOSE f : f = [p \in Places(a, b) |-> CountStep(a, b, f, p)]
<1>0. \A p \in Places(a, b) : Left(a, b, p) \in Nat /\ Left(a, b, p) <= Len(a) + Len(b)
  BY PlaceFacts
<1>1. CompareStore(a, b) = Chosen[<<1, 1>>]
  BY DEF CompareStore, Places, CountStep
<1>2. Bad = {}
  <2>. SUFFICES ASSUME Bad # {} PROVE FALSE
    OBVIOUS
  <2>1. PICK m \in Bad : \A n \in Bad : m <= n
    <3>1. Bad \in SUBSET Nat
      OBVIOUS
    <3>. HIDE DEF Bad
    <3>. QED BY <3>1, LeastOf
  <2>2. \E s : \A p \in Places(a, b) : Left(a, b, p) < m => s[p] = CountStep(a, b, s, p)
    <3>1. CASE m = 0
      BY <1>0, <3>1
    <3>2. CASE m # 0
      <4>0. m \in Nat
        OBVIOUS
      <4>1. m - 1 \in Nat /\ m - 1 \notin Bad
        <5>. HIDE DEF Bad
        <5>. QED BY <2>1, <3>2, <4>0
      <4>2. PICK s : Good(m - 1, s)
        BY <4>1
      <4>3. \A p \in D(m - 1) : s[p] = CountStep(a, b, s, p)
        BY <4>2
      <4>4. \A p \in Places(a, b) : Left(a, b, p) < m => p \in D(m - 1)
        BY <1>0, <4>0
      <4>. HIDE DEF D
      <4>. QED BY <4>3, <4>4
    <3>. QED BY <3>1, <3>2
  <2>3. PICK s : \A p \in Places(a, b) : Left(a, b, p) < m => s[p] = CountStep(a, b, s, p)
    BY <2>2
  <2>. DEFINE r == [p \in D(m) |-> IF Left(a, b, p) < m THEN s[p] ELSE CountStep(a, b, s, p)]
  <2>4. \A p \in D(m) : r[p] = CountStep(a, b, s, p)
    BY <2>3
  <2>5. \A p \in Places(a, b) : Left(a, b, p) < m => r[p] = s[p]
    <3>1. \A p \in Places(a, b) : Left(a, b, p) < m => p \in D(m)
      BY <1>0
    <3>. HIDE DEF D
    <3>. QED BY <3>1
  <2>6. ASSUME NEW p \in D(m) PROVE r[p] = CountStep(a, b, r, p)
    <3>1. p \in Places(a, b) /\ Left(a, b, p) <= m /\ Left(a, b, p) \in Nat
      BY PlaceFacts
    <3>2. \A q \in Places(a, b) : Left(a, b, q) < Left(a, b, p) => s[q] = r[q]
      <4>1. \A q \in Places(a, b) : Left(a, b, q) \in Nat
        BY PlaceFacts
      <4>. HIDE DEF r
      <4>. QED BY <2>5, <3>1, <4>1
    <3>3. CountStep(a, b, s, p) = CountStep(a, b, r, p)
      <4>. HIDE DEF r
      <4>. QED BY <3>1, <3>2, CountLocal
    <3>. QED BY <2>4, <3>3
  <2>7. Good(m, r)
    <3>1. r = [p \in D(m) |-> r[p]]
      OBVIOUS
    <3>. HIDE DEF r
    <3>. QED BY <2>6, <3>1
  <2>. HIDE DEF r, Good
  <2>. QED BY <2>1, <2>7
<1>3. D(Len(a) + Len(b)) = Places(a, b)
  BY <1>0
<1>4. \E f : f = [p \in Places(a, b) |-> CountStep(a, b, f, p)]
  <2>1. Len(a) + Len(b) \notin Bad /\ Len(a) + Len(b) \in Nat
    <3>. HIDE DEF Bad
    <3>. QED BY <1>2
  <2>2. PICK f : Good(Len(a) + Len(b), f)
    BY <2>1
  <2>. QED BY <1>3, <2>2
<1>5. Chosen = [p \in Places(a, b) |-> CountStep(a, b, Chosen, p)]
  BY <1>4
<1>. HIDE DEF Chosen
<1>6. \A p \in Places(a, b) : Chosen[p] = CountStep(a, b, Chosen, p)
  BY <1>5
<1>. QED BY <1>1, <1>6

LEMMA CompareExact ==
  ASSUME NEW V, NEW a \in Seq(Nat \X V), NEW b \in Seq(Nat \X V)
  PROVE  CompareStore(a, b) \in Nat /\ (CompareStore(a, b) = 0 <=> a = b)
<1>. DEFINE n == Len(a)
            m == Len(b)
<1>1. /\ n \in Nat /\ m \in Nat
      /\ \A i \in 1 .. n : a[i] \in Nat \X V
      /\ \A j \in 1 .. m : b[j] \in Nat \X V
  OBVIOUS
<1>2. PICK f : /\ CompareStore(a, b) = f[<<1, 1>>]
               /\ \A p \in Places(a, b) : f[p] = CountStep(a, b, f, p)
  BY <1>1, CountUnfold
<1>3. \A i \in 1 .. n, j \in 1 .. m : /\ a[i][1] \in Nat /\ b[j][1] \in Nat
                                      /\ a[i] = b[j] <=> a[i][1] = b[j][1] /\ a[i][2] = b[j][2]
  <2>1. \A x, y \in Nat \X V : x[1] \in Nat /\ (x = y <=> x[1] = y[1] /\ x[2] = y[2])
    <3>1. \A x \in Nat \X V : x[1] \in Nat /\ x = <<x[1], x[2]>>
      OBVIOUS
    <3>. SUFFICES ASSUME NEW x \in Nat \X V, NEW y \in Nat \X V, x[1] = y[1], x[2] = y[2] PROVE x = y
      BY <3>1
    <3>2. x = <<x[1], x[2]>> /\ y = <<y[1], y[2]>>
      BY <3>1
    <3>. QED BY <3>2
  <2>. QED BY <1>1, <2>1
(* From p on, f is a number, and 0 only if the rests are equal.            *)
<1>. DEFINE Rest(p) == /\ f[p] \in Nat
                       /\ f[p] = 0 => /\ n - p[1] = m - p[2]
                                      /\ \A x \in 0 .. n - p[1] : a[p[1] + x] = b[p[2] + x]
            Bad == {Left(a, b, p) : p \in {p \in Places(a, b) : ~Rest(p)}}
<1>4. \A p \in Places(a, b) : Rest(p)
  <2>. SUFFICES ASSUME NEW p0 \in Places(a, b), ~Rest(p0) PROVE FALSE
    OBVIOUS
  <2>0. \A q \in Places(a, b) : Left(a, b, q) \in Nat
    BY <1>1, PlaceFacts
  <2>1. Bad \in SUBSET Nat /\ Bad # {}
    <3>1. Left(a, b, p0) \in Bad
      OBVIOUS
    <3>. QED BY <2>0, <3>1
  <2>2. PICK l \in Bad : \A k \in Bad : l <= k
    <3>. HIDE DEF Bad
    <3>. QED BY <2>1, LeastOf
  <2>3. PICK p \in Places(a, b) : ~Rest(p) /\ l = Left(a, b, p)
    BY <2>2
  <2>4. \A q \in Places(a, b) : Left(a, b, q) < Left(a, b, p) => Rest(q)
    <3>. SUFFICES ASSUME NEW q \in Places(a, b), Left(a, b, q) < Left(a, b, p), ~Rest(q) PROVE FALSE
      OBVIOUS
    <3>1. Left(a, b, q) \in Bad
      OBVIOUS
    <3>2. l <= Left(a, b, q)
      <4>. HIDE DEF Bad
      <4>. QED BY <2>2, <3>1
    <3>. QED BY <2>0, <2>3, <3>2
  <2>5. PICK i \in 1 .. n + 1, j \in 1 .. m + 1 : i = p[1] /\ j = p[2] /\ p = <<i, j>>
    <3>1. p[1] \in 1 .. Len(a) + 1 /\ p[2] \in 1 .. Len(b) + 1 /\ p = <<p[1], p[2]>>
      BY <1>1, PlaceFacts
    <3>. QED BY <3>1
  <2>6. /\ i <= n => Rest(<<i + 1, j>>)
        /\ j <= m => Rest(<<i, j + 1>>)
        /\ i <= n /\ j <= m => Rest(<<i + 1, j + 1>>)
    <3>. HIDE DEF Rest
    <3>. QED BY <1>1, <2>4, <2>5, PlaceFacts
  <2>7. f[p] = CountStep(a, b, f, p)
    BY <1>2
  <2>8. CASE i > n /\ j > m
    <3>1. f[p] = 0
      BY <2>5, <2>7, <2>8 DEF CountStep
    <3>2. i = n + 1 /\ j = m + 1
      BY <1>1, <2>8
    <3>3. \A x \in 0 .. n - i : a[i + x] = b[j + x]
      BY <1>1, <3>2
    <3>. QED BY <1>1, <2>3, <2>5, <3>1, <3>2, <3>3
  <2>9. CASE i <= n /\ (j > m \/ a[i][1] < b[j][1])
    <3>1. f[p] = 1 + f[<<i + 1, j>>] /\ f[<<i + 1, j>>] \in Nat
      BY <2>5, <2>6, <2>7, <2>9 DEF CountStep
    <3>. QED BY <2>3, <3>1
  <2>10. CASE j <= m /\ (i > n \/ a[i][1] > b[j][1])
    <3>1. ~(i <= n /\ a[i][1] < b[j][1])
      BY <1>1, <1>3, <2>10
    <3>2. f[p] = 1 + f[<<i, j + 1>>] /\ f[<<i, j + 1>>] \in Nat
      BY <1>1, <2>5, <2>6, <2>7, <2>10, <3>1 DEF CountStep
    <3>. QED BY <2>3, <3>2
  <2>11. CASE i <= n /\ j <= m /\ a[i][1] = b[j][1]
    <3>1. a[i][1] \in Nat /\ (a[i] = b[j] <=> a[i][2] = b[j][2])
      BY <1>3, <2>11
    <3>2. f[p] = (IF a[i][2] # b[j][2] THEN 1 ELSE 0) + f[<<i + 1, j + 1>>]
      <4>1. ~(i > n) /\ ~(j > m) /\ ~(a[i][1] < b[j][1]) /\ ~(a[i][1] > b[j][1])
        BY <1>1, <2>11, <3>1
      <4>. QED BY <2>5, <2>7, <4>1 DEF CountStep
    <3>3. /\ f[<<i + 1, j + 1>>] \in Nat
          /\ f[<<i + 1, j + 1>>] = 0 => /\ n - (i + 1) = m - (j + 1)
                                        /\ \A x \in 0 .. n - (i + 1) : a[i + 1 + x] = b[j + 1 + x]
      BY <2>6, <2>11
    <3>4. f[p] \in Nat
      BY <3>2, <3>3
    <3>5. ASSUME f[p] = 0 PROVE n - i = m - j /\ \A x \in 0 .. n - i : a[i + x] = b[j + x]
      <4>1. f[<<i + 1, j + 1>>] = 0 /\ a[i] = b[j]
        BY <3>1, <3>2, <3>3, <3>5
      <4>2. n - i = m - j
        BY <1>1, <3>3, <4>1
      <4>3. ASSUME NEW x \in 0 .. n - i PROVE a[i + x] = b[j + x]
        <5>1. CASE x = 0
          BY <4>1, <5>1
        <5>2. CASE x # 0
          <6>1. x - 1 \in 0 .. n - (i + 1)
            BY <1>1, <5>2
          <6>2. a[i + 1 + (x - 1)] = b[j + 1 + (x - 1)]
            BY <3>3, <4>1, <6>1
          <6>3. i + 1 + (x - 1) = i + x /\ j + 1 + (x - 1) = j + x
            BY <1>1
          <6>. QED BY <6>2, <6>3
        <5>. QED BY <5>1, <5>2
      <4>. QED BY <4>2, <4>3
    <3>. QED BY <2>3, <2>5, <3>4, <3>5
  <2>. QED BY <1>1, <1>3, <2>8, <2>9, <2>10, <2>11
<1>5. <<1, 1>> \in Places(a, b)
  BY <1>1 DEF Places
<1>6. f[<<1, 1>>] \in Nat
  BY <1>4, <1>5
<1>7. ASSUME f[<<1, 1>>] = 0 PROVE a = b
  <2>1. n - 1 = m - 1 /\ \A x \in 0 .. n - 1 : a[1 + x] = b[1 + x]
    BY <1>4, <1>5, <1>7
  <2>2. n = m
    BY <1>1, <2>1
  <2>3. ASSUME NEW i \in 1 .. n PROVE a[i] = b[i]
    <3>1. i - 1 \in 0 .. n - 1 /\ 1 + (i - 1) = i
      BY <1>1
    <3>. QED BY <2>1, <3>1
  <2>. QED BY <2>2, <2>3, SeqOfAny, SameSeq
(* Equal sides are read in step.                                           *)
<1>8. ASSUME a = b PROVE f[<<1, 1>>] = 0
  <2>. DEFINE Diag == {n + 1 - i : i \in {i \in 1 .. n + 1 : f[<<i, i>>] # 0}}
  <2>. SUFFICES ASSUME f[<<1, 1>>] # 0 PROVE FALSE
    OBVIOUS
  <2>1. Diag \in SUBSET Nat /\ Diag # {}
    <3>1. 1 \in 1 .. n + 1
      BY <1>1
    <3>2. \A i \in 1 .. n + 1 : n + 1 - i \in Nat
      BY <1>1
    <3>. QED BY <3>1, <3>2
  <2>2. PICK l \in Diag : \A k \in Diag : l <= k
    <3>. HIDE DEF Diag
    <3>. QED BY <2>1, LeastOf
  <2>3. PICK i \in 1 .. n + 1 : f[<<i, i>>] # 0 /\ l = n + 1 - i
    BY <2>2
  <2>4. <<i, i>> \in Places(a, b) /\ f[<<i, i>>] = CountStep(a, b, f, <<i, i>>)
    <3>1. <<i, i>> \in Places(a, b)
      BY <1>1, <1>8 DEF Places
    <3>. QED BY <1>2, <3>1
  <2>5. CASE i = n + 1
    BY <1>1, <1>8, <2>3, <2>4, <2>5 DEF CountStep
  <2>6. CASE i <= n
    <3>1. f[<<i + 1, i + 1>>] = 0
      <4>1. i + 1 \in 1 .. n + 1 /\ n + 1 - (i + 1) < n + 1 - i
        BY <1>1, <2>6
      <4>2. f[<<i + 1, i + 1>>] # 0 => n + 1 - (i + 1) \in Diag
        BY <4>1
      <4>3. n + 1 - (i + 1) \notin Diag
        <5>. HIDE DEF Diag
        <5>. QED BY <1>1, <2>2, <2>3, <4>1
      <4>. QED BY <4>2, <4>3
    <3>2. ~(a[i][1] < b[i][1]) /\ ~(a[i][1] > b[i][1]) /\ a[i][2] = b[i][2]
      BY <1>3, <1>8, <2>6
    <3>3. f[<<i, i>>] = 0 + f[<<i + 1, i + 1>>]
      BY <1>1, <1>8, <2>4, <2>6, <3>2 DEF CountStep
    <3>. QED BY <2>3, <3>1, <3>3
  <2>7. i = n + 1 \/ i <= n
    BY <1>1
  <2>. QED BY <2>5, <2>6, <2>7
<1>. QED BY <1>2, <1>6, <1>7, <1>8

-----------------------------------------------------------------------------
(* Sums of counts.                                                         *)

AnyIn(s) == CHOOSE x \in s : TRUE
SumStep(f, g, s) == IF s = {} THEN 0 ELSE f[AnyIn(s)] + g[s \ {AnyIn(s)}]

LEMMA AnyOf ==
  ASSUME NEW D, IsFiniteSet(D), NEW s \in SUBSET D
  PROVE  /\ IsFiniteSet(s) /\ Cardinality(s) \in Nat
         /\ s # {} => /\ AnyIn(s) \in s /\ s \ {AnyIn(s)} \in SUBSET D
                      /\ Cardinality(s \ {AnyIn(s)}) = Cardinality(s) - 1
<1>1. IsFiniteSet(s) /\ Cardinality(s) \in Nat
  BY FS_Subset, FS_CardinalityType
<1>2. s # {} => AnyIn(s) \in s
  BY DEF AnyIn
<1>3. s # {} => Cardinality(s \ {AnyIn(s)}) = Cardinality(s) - 1
  BY <1>1, <1>2, FS_RemoveElement
<1>. QED BY <1>1, <1>2, <1>3

LEMMA SumUnfold ==
  ASSUME NEW D, IsFiniteSet(D), NEW f, DOMAIN f = D
  PROVE  \E g : SumFunction(f) = g[D] /\ \A s \in SUBSET D : g[s] = SumStep(f, g, s)
<1>. DEFINE E(n) == {s \in SUBSET D : Cardinality(s) <= n}
            Good(n, g) == g = [s \in E(n) |-> SumStep(f, g, s)]
            Bad == {n \in Nat : ~ \E g : Good(n, g)}
            Chosen == CHOOSE g : g = [s \in SUBSET D |-> SumStep(f, g, s)]
<1>0. \A s \in SUBSET D : Cardinality(s) \in Nat /\ Cardinality(s) <= Cardinality(D)
  BY AnyOf, FS_Subset
<1>1. SumFunction(f) = Chosen[D]
  BY DEF SumFunction, SumFunctionOnSet, FoldFunctionOnSet, MapThenFoldSet, SumStep, AnyIn
<1>2. Bad = {}
  <2>. SUFFICES ASSUME Bad # {} PROVE FALSE
    OBVIOUS
  <2>1. PICK m \in Bad : \A n \in Bad : m <= n
    <3>1. Bad \in SUBSET Nat
      OBVIOUS
    <3>. HIDE DEF Bad
    <3>. QED BY <3>1, LeastOf
  <2>2. PICK h : \A s \in SUBSET D : Cardinality(s) < m => h[s] = SumStep(f, h, s)
    <3>1. CASE m = 0
      BY <1>0, <3>1
    <3>2. CASE m # 0
      <4>0. m \in Nat
        OBVIOUS
      <4>1. m - 1 \in Nat /\ m - 1 \notin Bad
        <5>. HIDE DEF Bad
        <5>. QED BY <2>1, <3>2, <4>0
      <4>2. PICK h : Good(m - 1, h)
        BY <4>1
      <4>3. \A s \in E(m - 1) : h[s] = SumStep(f, h, s)
        BY <4>2
      <4>4. \A s \in SUBSET D : Cardinality(s) < m => s \in E(m - 1)
        BY <1>0, <4>0
      <4>. HIDE DEF E
      <4>. QED BY <4>3, <4>4
    <3>. QED BY <3>1, <3>2
  <2>. DEFINE r == [s \in E(m) |-> IF Cardinality(s) < m THEN h[s] ELSE SumStep(f, h, s)]
  <2>3. \A s \in E(m) : r[s] = SumStep(f, h, s)
    BY <2>2
  <2>4. \A s \in SUBSET D : Cardinality(s) < m => r[s] = h[s]
    <3>1. \A s \in SUBSET D : Cardinality(s) < m => s \in E(m)
      BY <1>0
    <3>. HIDE DEF E
    <3>. QED BY <3>1
  <2>5. ASSUME NEW s \in E(m) PROVE r[s] = SumStep(f, r, s)
    <3>1. s \in SUBSET D /\ Cardinality(s) <= m /\ Cardinality(s) \in Nat
      BY <1>0
    <3>2. s # {} => r[s \ {AnyIn(s)}] = h[s \ {AnyIn(s)}]
      <4>1. s # {} => s \ {AnyIn(s)} \in SUBSET D /\ Cardinality(s \ {AnyIn(s)}) < m
        <5>1. s # {} => s \ {AnyIn(s)} \in SUBSET D /\ Cardinality(s \ {AnyIn(s)}) = Cardinality(s) - 1
          BY <3>1, AnyOf
        <5>2. m \in Nat
          OBVIOUS
        <5>. HIDE DEF r
        <5>. QED BY <3>1, <5>1, <5>2
      <4>. HIDE DEF r
      <4>. QED BY <2>4, <4>1
    <3>. HIDE DEF r
    <3>. QED BY <2>3, <3>2 DEF SumStep
  <2>6. Good(m, r)
    <3>1. r = [s \in E(m) |-> r[s]]
      OBVIOUS
    <3>. HIDE DEF r
    <3>. QED BY <2>5, <3>1
  <2>. HIDE DEF r, Good
  <2>. QED BY <2>1, <2>6
<1>3. E(Cardinality(D)) = SUBSET D
  BY <1>0
<1>4. \E g : g = [s \in SUBSET D |-> SumStep(f, g, s)]
  <2>1. Cardinality(D) \notin Bad /\ Cardinality(D) \in Nat
    <3>. HIDE DEF Bad
    <3>. QED BY <1>0, <1>2
  <2>2. PICK g : Good(Cardinality(D), g)
    BY <2>1
  <2>. QED BY <1>3, <2>2
<1>5. Chosen = [s \in SUBSET D |-> SumStep(f, Chosen, s)]
  BY <1>4
<1>. HIDE DEF Chosen
<1>6. \A s \in SUBSET D : Chosen[s] = SumStep(f, Chosen, s)
  BY <1>5
<1>. QED BY <1>1, <1>6

LEMMA SumZero ==
  ASSUME NEW D, IsFiniteSet(D), NEW f \in [D -> Nat]
  PROVE  SumFunction(f) \in Nat /\ (SumFunction(f) = 0 <=> \A x \in D : f[x] = 0)
<1>1. PICK g : SumFunction(f) = g[D] /\ \A s \in SUBSET D : g[s] = SumStep(f, g, s)
  BY SumUnfold
<1>. DEFINE Right(s) == g[s] \in Nat /\ (g[s] = 0 <=> \A x \in s : f[x] = 0)
            Bad == {Cardinality(s) : s \in {s \in SUBSET D : ~Right(s)}}
<1>2. \A s \in SUBSET D : Right(s)
  <2>. SUFFICES ASSUME NEW s0 \in SUBSET D, ~Right(s0) PROVE FALSE
    OBVIOUS
  <2>0. \A s \in SUBSET D : Cardinality(s) \in Nat
    BY AnyOf
  <2>1. Bad \in SUBSET Nat /\ Bad # {}
    <3>1. Cardinality(s0) \in Bad
      OBVIOUS
    <3>. QED BY <2>0, <3>1
  <2>2. PICK l \in Bad : \A k \in Bad : l <= k
    <3>. HIDE DEF Bad
    <3>. QED BY <2>1, LeastOf
  <2>3. PICK s \in SUBSET D : ~Right(s) /\ l = Cardinality(s)
    BY <2>2
  <2>4. CASE s = {}
    <3>1. g[s] = 0
      BY <1>1, <2>4 DEF SumStep
    <3>. QED BY <2>3, <2>4, <3>1
  <2>5. CASE s # {}
    <3>1. PICK x \in s, u \in SUBSET D : x = AnyIn(s) /\ u = s \ {x} /\ Cardinality(u) = Cardinality(s) - 1
      BY <2>5, AnyOf
    <3>2. Right(u)
      <4>. SUFFICES ASSUME ~Right(u) PROVE FALSE
        OBVIOUS
      <4>1. Cardinality(u) \in Bad
        OBVIOUS
      <4>2. l <= Cardinality(u)
        <5>. HIDE DEF Bad
        <5>. QED BY <2>2, <4>1
      <4>. QED BY <2>0, <2>3, <3>1, <4>2
    <3>3. g[s] = f[x] + g[u]
      BY <1>1, <2>5, <3>1 DEF SumStep
    <3>4. f[x] \in Nat
      BY <3>1
    <3>5. g[s] \in Nat /\ (g[s] = 0 <=> f[x] = 0 /\ g[u] = 0)
      BY <3>2, <3>3, <3>4
    <3>6. (\A y \in s : f[y] = 0) <=> f[x] = 0 /\ \A y \in u : f[y] = 0
      BY <3>1
    <3>. QED BY <2>3, <3>2, <3>5, <3>6
  <2>. QED BY <2>4, <2>5
<1>3. D \in SUBSET D
  OBVIOUS
<1>. QED BY <1>1, <1>2, <1>3

-----------------------------------------------------------------------------
(* What VerifyEquivalent counts.                                           *)

NatKeys(s) == \A i \in 1 .. Len(s) : LeafAt(s, i) => s[i].key \in Nat

LEMMA FinitePlaces ==
  ASSUME NEW s, IsSeq(s), NEW I \in SUBSET DOMAIN s
  PROVE  IsFiniteSet(I) /\ I \in SUBSET Nat
<1>1. Len(s) \in Nat /\ DOMAIN s = 1 .. Len(s)
  BY SeqFacts
<1>2. IsFiniteSet(1 .. Len(s))
  BY <1>1, FS_Interval
<1>. QED BY <1>1, <1>2, FS_Subset

LEMMA FiniteNames ==
  ASSUME NEW s, IsSeq(s)
  PROVE  IsFiniteSet(StoreNames(s)) /\ IsFiniteSet(ExtNames(s)) /\ \A n : IsFiniteSet(Payloads(s, n))
<1>1. ASSUME NEW I \in SUBSET DOMAIN s, NEW T, NEW f \in Surjection(I, T) PROVE IsFiniteSet(T)
  BY FinitePlaces, FS_Surjection
<1>2. ASSUME NEW I \in SUBSET DOMAIN s PROVE IsFiniteSet({s[i].name : i \in I}) /\ IsFiniteSet({s[i].body : i \in I})
  <2>1. [i \in I |-> s[i].name] \in Surjection(I, {s[i].name : i \in I})
    BY DEF Surjection
  <2>2. [i \in I |-> s[i].body] \in Surjection(I, {s[i].body : i \in I})
    BY DEF Surjection
  <2>. QED BY <1>1, <2>1, <2>2
<1>3. \A n : PayloadsAt(s, n) \in SUBSET DOMAIN s
  BY DEF PayloadsAt
<1>. QED BY <1>2, <1>3 DEF StoreNames, ExtNames, Payloads

LEMMA KeyValuesType ==
  ASSUME NEW s, IsSeq(s), NatKeys(s), NEW n, NEW V, \A i \in DOMAIN s : s[i].val \in V
  PROVE  KeyValues(s, n) \in Seq(Nat \X V)
<1>. DEFINE I == Leaves(s, n)
            at == InOrder(I)
<1>1. I \in SUBSET DOMAIN s
  BY DEF Leaves
<1>2. \A i \in I : s[i].key \in Nat /\ s[i].val \in V
  BY SeqFacts DEF Leaves, NatKeys
<1>. HIDE DEF I
<1>3. /\ Cardinality(I) \in Nat /\ DOMAIN at = 1 .. Cardinality(I)
      /\ \A i \in 1 .. Cardinality(I) : at[i] \in I
  BY <1>1, FinitePlaces, InOrderIs
<1>4. KeyValues(s, n) = [i \in DOMAIN at |-> <<s[at[i]].key, s[at[i]].val>>]
  BY DEF KeyValues, I
<1>. HIDE DEF at
<1>5. KeyValues(s, n) \in [1 .. Cardinality(I) -> Nat \X V]
  BY <1>2, <1>3, <1>4
<1>. QED BY <1>3, <1>5

Verdict(a, b) ==
  SumFunction([n \in StoreNames(a) \cup StoreNames(b) |-> CompareStore(KeyValues(a, n), KeyValues(b, n))])
    + SumFunction([n \in ExtNames(a) \cup ExtNames(b) |-> CompareExtensions(a, b, n)])

LEMMA VerdictExact ==
  ASSUME NEW a, NEW b, IsSeq(a), IsSeq(b), NatKeys(a), NatKeys(b)
  PROVE  Verdict(a, b) = 0 <=> SameContents(a, b)
<1>. DEFINE V == {a[i].val : i \in DOMAIN a} \cup {b[i].val : i \in DOMAIN b}
            S == StoreNames(a) \cup StoreNames(b)
            E == ExtNames(a) \cup ExtNames(b)
            f == [n \in S |-> CompareStore(KeyValues(a, n), KeyValues(b, n))]
            g == [n \in E |-> CompareExtensions(a, b, n)]
<1>1. IsFiniteSet(S) /\ IsFiniteSet(E)
  BY FiniteNames, FS_Union
<1>2. \A n : KeyValues(a, n) \in Seq(Nat \X V) /\ KeyValues(b, n) \in Seq(Nat \X V)
  <2>1. (\A i \in DOMAIN a : a[i].val \in V) /\ \A i \in DOMAIN b : b[i].val \in V
    OBVIOUS
  <2>. HIDE DEF V
  <2>. QED BY <2>1, KeyValuesType
<1>. HIDE DEF V
<1>3. ASSUME NEW n
      PROVE  /\ CompareStore(KeyValues(a, n), KeyValues(b, n)) \in Nat
             /\ CompareStore(KeyValues(a, n), KeyValues(b, n)) = 0 <=> KeyValues(a, n) = KeyValues(b, n)
  <2>1. PICK x \in Seq(Nat \X V), y \in Seq(Nat \X V) : x = KeyValues(a, n) /\ y = KeyValues(b, n)
    BY <1>2
  <2>2. CompareStore(x, y) \in Nat /\ (CompareStore(x, y) = 0 <=> x = y)
    BY CompareExact
  <2>. QED BY <2>1, <2>2
<1>4. ASSUME NEW n
      PROVE  CompareExtensions(a, b, n) \in Nat /\ (CompareExtensions(a, b, n) = 0 <=> Payloads(a, n) = Payloads(b, n))
  <2>. DEFINE x == Payloads(a, n)
              y == Payloads(b, n)
  <2>1. IsFiniteSet(x) /\ IsFiniteSet(y)
    BY FiniteNames
  <2>2. CompareExtensions(a, b, n) = Cardinality(x \ y) + Cardinality(y \ x)
    BY DEF CompareExtensions
  <2>. HIDE DEF x, y
  <2>3. IsFiniteSet(x \ y) /\ IsFiniteSet(y \ x)
    BY <2>1, FS_Difference
  <2>4. Cardinality(x \ y) \in Nat /\ Cardinality(y \ x) \in Nat
    BY <2>3, FS_CardinalityType
  <2>5. (Cardinality(x \ y) = 0 <=> x \ y = {}) /\ (Cardinality(y \ x) = 0 <=> y \ x = {})
    BY <2>3, FS_EmptySet
  <2>6. x \ y = {} /\ y \ x = {} <=> x = y
    OBVIOUS
  <2>7. Cardinality(x \ y) + Cardinality(y \ x) = 0 <=> Cardinality(x \ y) = 0 /\ Cardinality(y \ x) = 0
    BY <2>4
  <2>8. Cardinality(x \ y) + Cardinality(y \ x) \in Nat
    BY <2>4
  <2>. QED BY <2>2, <2>5, <2>6, <2>7, <2>8 DEF x, y
<1>5. Verdict(a, b) = SumFunction(f) + SumFunction(g)
  BY DEF Verdict
<1>6. f \in [S -> Nat] /\ g \in [E -> Nat]
  <2>. HIDE DEF S, E
  <2>. QED BY <1>3, <1>4
<1>7. /\ \A n \in S : f[n] = CompareStore(KeyValues(a, n), KeyValues(b, n))
      /\ \A n \in E : g[n] = CompareExtensions(a, b, n)
  <2>. HIDE DEF S, E
  <2>. QED OBVIOUS
<1>. HIDE DEF f, g
<1>8. /\ SumFunction(f) \in Nat /\ (SumFunction(f) = 0 <=> \A n \in S : f[n] = 0)
      /\ SumFunction(g) \in Nat /\ (SumFunction(g) = 0 <=> \A n \in E : g[n] = 0)
  <2>. HIDE DEF S, E
  <2>. QED BY <1>1, <1>6, SumZero
<1>9. SumFunction(f) + SumFunction(g) = 0 <=> SumFunction(f) = 0 /\ SumFunction(g) = 0
  BY <1>8
<1>10. SameContents(a, b) <=> /\ \A n \in S : KeyValues(a, n) = KeyValues(b, n)
                              /\ \A n \in E : Payloads(a, n) = Payloads(b, n)
  BY DEF SameContents
<1>. HIDE DEF S, E
<1>. QED BY <1>3, <1>4, <1>5, <1>7, <1>8, <1>9, <1>10

-----------------------------------------------------------------------------
(* The leaf diff writes items with keys, whatever became of the diff file. *)

LeafPcs == {"peek", "merge", "exts", "diffed", "walk", "store", "applyexts", "applied", "verified", "failed"}
Readers == [pos : Nat \ {0}, cur : Nat]

(* An item or a record of the diff whose keys and store names are numbers. *)
Sound(x) == /\ x.tag = "iavl" /\ x.height = 0 => x.key \in Nat
            /\ x.tag = "store" => x.name \in Nat
            /\ x.tag = "StoreEnter" => x.name \in Nat \ {0}
            /\ x.tag = "Insert" => x.key \in Nat
Good(q)  == IsSeq(q) /\ \A i \in 1 .. Len(q) : Sound(q[i])

AtLeaf(s, i) == i = None \/ (i \in 1 .. Len(s) /\ LeafAt(s, i))
IsChanges(c) == /\ c = [del |-> c.del, upd |-> c.upd, ins |-> c.ins, left |-> c.left]
                /\ c.left \subseteq DOMAIN c.ins /\ DOMAIN c.ins \subseteq Nat

IsPair == \E p \in Pairs : base = p[1] /\ target = p[2]
LTypes == /\ pc \in LeafPcs /\ IsPair
          /\ brd \in Readers /\ trd \in Readers /\ src \in {<< >>, base, target}
LFile  == Good(file)
LOut   == Good(out)
LMerge == /\ pc = "merge" => AtLeaf(base, brec) /\ AtLeaf(target, trec)
          /\ pc = "store" => AtLeaf(src, brec) /\ IsChanges(ch)
          /\ pc \in {"walk", "store", "applyexts"} => dpos \in Nat \ {0}
OneMode == mode \in {"leaf", "sync"}
LeafInv == mode = "leaf" => LTypes /\ LFile /\ LOut /\ LMerge /\ VerifyFaithful

LEMMA Snapshots ==
  ASSUME IsPair, src \in {<< >>, base, target}
  PROVE  /\ Good(base) /\ Good(target) /\ Good(src)
         /\ \A i \in 1 .. Len(base) : LeafAt(base, i) => base[i].key \in Nat \cap DOMAIN Rank
         /\ \A i \in 1 .. Len(target) : LeafAt(target, i) => target[i].key \in Nat \cap DOMAIN Rank
<1>1. ASSUME NEW p \in Pairs, NEW i \in {1, 2}
      PROVE  Good(p[i]) /\ \A j \in 1 .. Len(p[i]) : LeafAt(p[i], j) => p[i][j].key \in Nat \cap DOMAIN Rank
  <2>1. PICK s : s = p[i]
    OBVIOUS
  <2>2. /\ IsSeq(s)
        /\ \A j \in DOMAIN s : /\ s[j].tag \in {"store", "iavl", "ext", "payload"}
                               /\ LeafAt(s, j) => s[j].key \in Nat \cap DOMAIN Rank
                               /\ s[j].tag = "store" => s[j].name \in Nat
    <3>1. /\ p[i] \in Seq(ToSet(p[i]))
          /\ \A j \in DOMAIN p[i] : /\ p[i][j].tag \in {"store", "iavl", "ext", "payload"}
                                    /\ LeafAt(p[i], j) => p[i][j].key \in Nat \cap DOMAIN Rank
                                    /\ p[i][j].tag = "store" => p[i][j].name \in Nat
      BY DiffConstants, Zenon
    <3>. QED BY <2>1, <3>1 DEF IsSeq
  <2>3. DOMAIN s = 1 .. Len(s)
    BY <2>2, SeqFacts
  <2>4. ASSUME NEW j \in 1 .. Len(s) PROVE Sound(s[j])
    BY <2>2, <2>3 DEF Sound, LeafAt
  <2>. QED BY <2>1, <2>2, <2>3, <2>4 DEF Good
<1>2. Good(<< >>)
  <2>1. IsSeq(<< >>) /\ 1 .. Len(<< >>) = {}
    <3>1. IsSeq(<< >>) /\ Len(<< >>) = 0
      BY OneElement, Zenon
    <3>. QED BY <3>1
  <2>. QED BY <2>1 DEF Good
<1>3. PICK p \in Pairs : p[1] = base /\ p[2] = target
  BY DEF IsPair
<1>. QED BY <1>1, <1>2, <1>3

LEMMA GoodConcat ==
  ASSUME NEW q, NEW r, Good(q), Good(r)
  PROVE  Good(q \o r)
<1>1. /\ IsSeq(q \o r) /\ Len(q) \in Nat /\ Len(r) \in Nat /\ Len(q \o r) = Len(q) + Len(r)
      /\ \A i \in 1 .. Len(q) : (q \o r)[i] = q[i]
      /\ \A i \in 1 .. Len(r) : (q \o r)[Len(q) + i] = r[i]
  BY Concat, SeqFacts DEF Good
<1>2. ASSUME NEW i \in 1 .. Len(q \o r)
      PROVE  (i \in 1 .. Len(q) /\ (q \o r)[i] = q[i]) \/ (i - Len(q) \in 1 .. Len(r) /\ (q \o r)[i] = r[i - Len(q)])
  <2>1. CASE i <= Len(q)
    BY <1>1, <2>1
  <2>2. CASE i > Len(q)
    <3>1. i - Len(q) \in 1 .. Len(r) /\ Len(q) + (i - Len(q)) = i
      BY <1>1, <2>2
    <3>. QED BY <1>1, <3>1
  <2>. QED BY <1>1, <2>1, <2>2
<1>. QED BY <1>1, <1>2 DEF Good

LEMMA GoodOne ==
  ASSUME NEW x, Sound(x)
  PROVE  Good(<<x>>) /\ Good(<< >>)
BY OneElement DEF Good

LEMMA GoodFrom ==
  ASSUME NEW n \in Nat, NEW q, DOMAIN q = 1 .. n, q = [i \in DOMAIN q |-> q[i]], \A i \in 1 .. n : Sound(q[i])
  PROVE  Good(q)
BY SeqFrom DEF Good

LEMMA GoodCut ==
  ASSUME NEW q, Good(q), NEW n \in 0 .. Len(q)
  PROVE  Good(SubSeq(q, 1, n))
<1>1. q \in Seq(ToSet(q))
  BY DEF Good, IsSeq
<1>. DEFINE r == SubSeq(q, 1, n)
<1>2. r \in Seq(ToSet(q)) /\ Len(r) = n /\ \A i \in 1 .. n : r[i] = q[i]
  BY <1>1, CutAt
<1>. HIDE DEF r
<1>3. IsSeq(r)
  BY <1>2, SeqOfAny
<1>4. Len(q) \in Nat
  BY <1>1
<1>. QED BY <1>2, <1>3, <1>4 DEF Good, r

LEMMA SoundRecords ==
  /\ \A n \in Nat : Sound(StoreItem(n))
  /\ \A n \in Nat \ {0} : Sound(StoreEnter(n))
  /\ \A k \in Nat : \A v : Sound(Insert(k, v)) /\ Sound(LeafItem(k, v))
  /\ \A k, v : Sound(Delete(k)) /\ Sound(Update(k, v)) /\ Sound(ExtEnter(k, v)) /\ Sound(ExtMeta(k, v))
  /\ \A p : Sound(ExtRemove(p)) /\ Sound(ExtAdd(p)) /\ Sound(ExtPayload(p))
  /\ Sound(Hdr) /\ Sound(ZHdr) /\ Sound(ZEnd) /\ Sound(StoreLeave) /\ Sound(ExtLeave)
<1>1. (\A n \in Nat : Sound(StoreItem(n))) /\ \A n \in Nat \ {0} : Sound(StoreEnter(n))
  BY DEF Sound, StoreEnter, StoreItem
<1>2. \A k \in Nat : \A v : Sound(Insert(k, v)) /\ Sound(LeafItem(k, v))
  BY DEF Sound, Insert, LeafItem, IAVL
<1>3. \A k, v : Sound(Delete(k)) /\ Sound(Update(k, v))
  BY DEF Sound, Delete, Update
<1>4. \A k, v : Sound(ExtEnter(k, v)) /\ Sound(ExtMeta(k, v))
  BY DEF Sound, ExtEnter, ExtMeta
<1>5. \A p : Sound(ExtRemove(p)) /\ Sound(ExtAdd(p)) /\ Sound(ExtPayload(p))
  BY DEF Sound, ExtRemove, ExtAdd, ExtPayload
<1>6. Sound(Hdr) /\ Sound(ZHdr) /\ Sound(ZEnd) /\ Sound(StoreLeave) /\ Sound(ExtLeave)
  BY DEF Sound, Hdr, ZHdr, ZEnd, StoreLeave, ExtLeave
<1>. QED BY <1>1, <1>2, <1>3, <1>4, <1>5, <1>6

LEMMA FirstIs ==
  ASSUME NEW s, IsSeq(s), NEW i \in Nat \ {0}, NEW T \in SUBSET (i .. Len(s))
  PROVE  /\ Min(T \cup {Len(s) + 1}) \in Nat \ {0} /\ Min(T \cup {Len(s) + 1}) <= Len(s) + 1
         /\ Min(T \cup {Len(s) + 1}) <= Len(s) => Min(T \cup {Len(s) + 1}) \in T
<1>. DEFINE S == T \cup {Len(s) + 1}
<1>1. Len(s) \in Nat
  BY SeqFacts
<1>2. \A x \in T : x \in Nat /\ x # 0
  BY <1>1
<1>3. \A x \in S : x \in Nat /\ x # 0
  BY <1>1, <1>2
<1>4. Len(s) + 1 \in S /\ \A x \in S : x = Len(s) + 1 \/ x \in T
  OBVIOUS
<1>. HIDE DEF S
<1>5. Min(S) \in S /\ \A x \in S : Min(S) <= x
  BY <1>3, <1>4, LeastIs
<1>6. Min(S) \in Nat \ {0} /\ Min(S) <= Len(s) + 1
  BY <1>3, <1>4, <1>5
<1>7. Min(S) <= Len(s) => Min(S) \in T
  BY <1>1, <1>4, <1>5
<1>. QED BY <1>6, <1>7 DEF S

LEMMA PeekIs ==
  ASSUME NEW s, Good(s), NEW r \in Readers
  PROVE  PeekStore(s, r) \in Readers
<1>. DEFINE T == {j \in r.pos .. Len(s) : s[j].tag \in {"store", "ext", "payload"}}
            p == Min(T \cup {Len(s) + 1})
<1>0. r.pos \in Nat \ {0} /\ IsSeq(s) /\ Len(s) \in Nat
  BY SeqFacts DEF Readers, Good
<1>1. p \in Nat \ {0}
  <2>1. T \in SUBSET (r.pos .. Len(s))
    OBVIOUS
  <2>. HIDE DEF T
  <2>. QED BY <1>0, <2>1, FirstIs
<1>2. PeekStore(s, r) = IF r.cur # None THEN r
                        ELSE IF p <= Len(s) /\ s[p].tag = "store" THEN [pos |-> p + 1, cur |-> s[p].name]
                        ELSE [pos |-> p, cur |-> None]
  BY DEF PeekStore, FirstFrom
<1>. HIDE DEF p
<1>3. \A x \in Nat \ {0}, y \in Nat : [pos |-> x, cur |-> y] \in Readers
  BY DEF Readers
<1>4. p + 1 \in Nat \ {0} /\ None \in Nat
  BY <1>1 DEF None
<1>5. p <= Len(s) /\ s[p].tag = "store" => s[p].name \in Nat
  <2>1. p <= Len(s) => p \in 1 .. Len(s)
    BY <1>0, <1>1
  <2>. QED BY <2>1 DEF Good, Sound
<1>. QED BY <1>1, <1>2, <1>3, <1>4, <1>5

LEMMA AdvanceIs ==
  ASSUME NEW s, Good(s), NEW r \in Readers
  PROVE  Advance(s, r) \in Readers /\ AtLeaf(s, LeafOf(s, r))
<1>. DEFINE T == {j \in r.pos .. Len(s) : s[j].tag # "iavl" \/ s[j].height = 0}
            p == Min(T \cup {Len(s) + 1})
<1>0. r.pos \in Nat \ {0} /\ r.cur \in Nat /\ r = [pos |-> r.pos, cur |-> r.cur] /\ IsSeq(s) /\ Len(s) \in Nat
  BY SeqFacts DEF Readers, Good
<1>1. p \in Nat \ {0}
  <2>1. T \in SUBSET (r.pos .. Len(s))
    OBVIOUS
  <2>. HIDE DEF T
  <2>. QED BY <1>0, <2>1, FirstIs
<1>2. NextLeaf(s, r) = p
  BY DEF NextLeaf, FirstFrom
<1>. HIDE DEF p
<1>3. AtLeaf(s, LeafOf(s, r))
  <2>1. p <= Len(s) => p \in 1 .. Len(s)
    BY <1>0, <1>1
  <2>. QED BY <1>2, <2>1 DEF AtLeaf, LeafOf, HasLeaf
<1>4. Advance(s, r) = [pos |-> p + 1, cur |-> r.cur] \/ Advance(s, r) = [pos |-> p, cur |-> None]
  <2>1. [r EXCEPT !.pos = p + 1] = [pos |-> p + 1, cur |-> r.cur]
    BY <1>0
  <2>. QED BY <1>2, <2>1 DEF Advance
<1>5. \A x \in Nat \ {0}, y \in Nat : [pos |-> x, cur |-> y] \in Readers
  BY DEF Readers
<1>6. p + 1 \in Nat \ {0} /\ None \in Nat
  BY <1>1 DEF None
<1>. QED BY <1>0, <1>1, <1>3, <1>4, <1>5, <1>6

LEMMA SectionsIn ==
  ASSUME LFile, NEW p \in Nat \ {0}, NEW leave
  PROVE  /\ Section(p) \in Nat \ {0} /\ Section(p) <= Len(file) + 1
         /\ SectionEnd(p, leave) \in Nat \ {0} /\ SectionEnd(p, leave) <= Len(file) + 1
         /\ AfterSection(p, leave) \in Nat \ {0}
<1>0. IsSeq(file)
  BY DEF LFile, Good
<1>. DEFINE T == {j \in p .. Len(file) : file[j].tag \in {"StoreEnter", "ExtEnter"}}
            U == {j \in p .. Len(file) : file[j].tag \in {leave, "StoreEnter", "ExtEnter"}}
<1>1. Section(p) = Min(T \cup {Len(file) + 1}) /\ SectionEnd(p, leave) = Min(U \cup {Len(file) + 1})
  BY DEF Section, SectionEnd, FirstFrom
<1>2. T \in SUBSET (p .. Len(file)) /\ U \in SUBSET (p .. Len(file))
  OBVIOUS
<1>. HIDE DEF T, U
<1>3. /\ Section(p) \in Nat \ {0} /\ Section(p) <= Len(file) + 1
      /\ SectionEnd(p, leave) \in Nat \ {0} /\ SectionEnd(p, leave) <= Len(file) + 1
  BY <1>0, <1>1, <1>2, FirstIs
<1>4. SectionEnd(p, leave) + 1 \in Nat \ {0}
  BY <1>3
<1>. QED BY <1>3, <1>4 DEF AfterSection

(* The keys a section inserts are finitely many numbers.                   *)
LEMMA ChangesAre ==
  ASSUME LFile, NEW p \in Nat \ {0}
  PROVE  IsChanges(StoreChanges(p)) /\ IsFiniteSet(DOMAIN StoreChanges(p).ins)
<1>1. PICK e \in Nat \ {0} : e = SectionEnd(p, "StoreLeave") /\ e <= Len(file) + 1
  BY SectionsIn
<1>2. IsSeq(file) /\ Len(file) \in Nat /\ DOMAIN file = 1 .. Len(file)
  BY SeqFacts DEF LFile, Good
<1>. DEFINE I == {j \in p .. e - 1 : file[j].tag = "Insert"}
            c == StoreChanges(p)
            K == {file[i].key : i \in I}
<1>3. I \in SUBSET (1 .. Len(file)) /\ \A i \in I : file[i].tag = "Insert"
  BY <1>1, <1>2
<1>4. c = [del |-> DOMAIN Changed(p, e, "Delete"), upd |-> Changed(p, e, "Update"),
           ins |-> Changed(p, e, "Insert"), left |-> DOMAIN Changed(p, e, "Insert")]
  BY <1>1 DEF StoreChanges
<1>5. DOMAIN Changed(p, e, "Insert") = K
  BY DEF Changed
<1>6. IsFiniteSet(K)
  <2>. HIDE DEF I
  <2>1. [i \in I |-> file[i].key] \in Surjection(I, K)
    BY DEF Surjection
  <2>2. IsFiniteSet(I)
    BY <1>2, <1>3, FinitePlaces
  <2>. HIDE DEF K
  <2>. QED BY <2>1, <2>2, FS_Surjection
<1>7. \A k \in K : k \in Nat
  <2>1. \A i \in I : file[i].key \in Nat
    BY <1>3 DEF LFile, Good, Sound
  <2>. HIDE DEF I
  <2>. QED BY <2>1
<1>. HIDE DEF K, I, c
<1>8. c.ins = Changed(p, e, "Insert") /\ c.left = K
  BY <1>4, <1>5
<1>9. IsChanges(c)
  BY <1>4, <1>5, <1>7, <1>8 DEF IsChanges
<1>. QED BY <1>5, <1>6, <1>8, <1>9 DEF c

LEMMA SortedAre ==
  ASSUME NEW ins, IsFiniteSet(DOMAIN ins), DOMAIN ins \subseteq Nat
  PROVE  Good(SortedItems(ins))
<1>. DEFINE I == DOMAIN ins
            ks == InOrder(I)
            q == SortedItems(ins)
<1>0. I \in SUBSET Nat /\ IsFiniteSet(I)
  OBVIOUS
<1>1. Cardinality(I) \in Nat /\ DOMAIN ks = 1 .. Cardinality(I) /\ \A i \in 1 .. Cardinality(I) : ks[i] \in Nat
  <2>. HIDE DEF I
  <2>. QED BY <1>0, InOrderIs
<1>2. q = [i \in DOMAIN ks |-> LeafItem(ks[i], ins[ks[i]])]
  BY DEF SortedItems
<1>. HIDE DEF ks
<1>3. /\ DOMAIN q = 1 .. Cardinality(I) /\ q = [i \in DOMAIN q |-> q[i]]
      /\ \A i \in 1 .. Cardinality(I) : q[i] = LeafItem(ks[i], ins[ks[i]])
  BY <1>1, <1>2
<1>. HIDE DEF q
<1>4. \A i \in 1 .. Cardinality(I) : Sound(q[i])
  BY <1>1, <1>3, SoundRecords
<1>. QED BY <1>1, <1>3, <1>4, GoodFrom DEF q

LEMMA FileKept ==
  ASSUME Good(file')
  PROVE  LFile'
BY DEF LFile, Good, IsSeq, Sound

LEMMA OutKept ==
  ASSUME Good(out')
  PROVE  LOut'
BY DEF LOut, Good, IsSeq, Sound

LEMMA Emitted ==
  ASSUME LFile, NEW q, Good(q), file' = file \o q
  PROVE  LFile'
<1>1. Good(file \o q)
  BY GoodConcat DEF LFile
<1>. QED BY <1>1, FileKept

LEMMA Written ==
  ASSUME LOut, NEW q, Good(q), out' = out \o q
  PROVE  LOut'
<1>1. Good(out \o q)
  BY GoodConcat DEF LOut
<1>. QED BY <1>1, OutKept

-----------------------------------------------------------------------------
(* Compute.                                                                *)

LEMMA LeafInit == Init => LeafInv
<1>. SUFFICES ASSUME Init, mode = "leaf" PROVE LTypes /\ LFile /\ LOut /\ LMerge /\ VerifyFaithful
  BY DEF LeafInv
<1>1. PICK p \in Pairs : base = p[1] /\ target = p[2]
  BY DEF Init
<1>2. pc = "peek" /\ file = <<Hdr, ZHdr>> /\ brd = Start /\ trd = Start /\ src = << >> /\ out = << >>
  BY DEF Init
<1>3. Start \in Readers
  BY DEF Start, Readers, None
<1>4. Good(file)
  <2>1. ASSUME NEW x, NEW y, Sound(x), Sound(y) PROVE Good(<<x, y>>)
    <3>1. <<x, y>> \in Seq({x, y}) /\ Len(<<x, y>>) = 2 /\ <<x, y>>[1] = x /\ <<x, y>>[2] = y
      OBVIOUS
    <3>2. \A k \in 1 .. 2 : k = 1 \/ k = 2
      OBVIOUS
    <3>. QED BY <2>1, <3>1, <3>2, SeqOfAny DEF Good
  <2>. QED BY <1>2, <2>1, SoundRecords
<1>5. Good(out)
  BY <1>2, GoodOne, SoundRecords
<1>6. IsPair
  BY <1>1 DEF IsPair
<1>. QED BY <1>2, <1>3, <1>4, <1>5, <1>6 DEF LTypes, LFile, LOut, LMerge, LeafPcs, VerifyFaithful

LEMMA StepEnterStore ==
  ASSUME LeafInv, mode = "leaf", EnterStore, UNCHANGED syncVars
  PROVE  LeafInv'
<1>. DEFINE b == PeekStore(base, brd)
            t == PeekStore(target, trd)
            n == IF b.cur # None /\ (t.cur = None \/ b.cur <= t.cur) THEN b.cur ELSE t.cur
<1>1. LTypes /\ LFile /\ LOut /\ mode' = mode /\ pc' = "merge" /\ UNCHANGED <<base, target, src, out>>
  BY DEF LeafInv, EnterStore, applyVars, syncVars
<1>2. Good(base) /\ Good(target) /\ brd \in Readers /\ trd \in Readers
  BY <1>1, Snapshots DEF LTypes
<1>3. b \in Readers /\ t \in Readers
  BY <1>2, PeekIs
<1>4. /\ file' = file \o <<StoreEnter(n)>>
      /\ brd' \in {Advance(base, b), b} /\ brec' \in {LeafOf(base, b), None}
      /\ trd' \in {Advance(target, t), t} /\ trec' \in {LeafOf(target, t), None}
  BY DEF EnterStore, Emit
<1>5. n \in Nat \ {0}
  <2>1. b.cur \in Nat /\ t.cur \in Nat
    BY <1>3 DEF Readers
  <2>2. b.cur # 0 \/ t.cur # 0
    BY DEF EnterStore, None
  <2>. QED BY <2>1, <2>2 DEF None
<1>. HIDE DEF b, t, n
<1>6. Advance(base, b) \in Readers /\ AtLeaf(base, LeafOf(base, b)) /\ Advance(target, t) \in Readers /\ AtLeaf(target, LeafOf(target, t))
  BY <1>2, <1>3, AdvanceIs
<1>7. brd' \in Readers /\ trd' \in Readers
  BY <1>3, <1>4, <1>6
<1>8. AtLeaf(base, brec') /\ AtLeaf(target, trec')
  BY <1>4, <1>6 DEF AtLeaf
<1>9. LFile'
  BY <1>1, <1>4, <1>5, GoodOne, SoundRecords, Emitted
<1>10. LTypes'
  BY <1>1, <1>7 DEF LTypes, LeafPcs, IsPair
<1>11. LMerge'
  BY <1>1, <1>8 DEF LMerge, AtLeaf, LeafAt
<1>12. LOut'
  BY <1>1, OutKept DEF LOut
<1>. QED BY <1>1, <1>9, <1>10, <1>11, <1>12 DEF LeafInv, VerifyFaithful

LEMMA StepMerge ==
  ASSUME LTypes, LFile, AtLeaf(base, brec), AtLeaf(target, trec), brec # None \/ trec # None, MergeStep,
         UNCHANGED <<base, target>>
  PROVE  brd' \in Readers /\ trd' \in Readers /\ AtLeaf(base, brec') /\ AtLeaf(target, trec') /\ LFile'
<1>1. Good(base) /\ Good(target) /\ brd \in Readers /\ trd \in Readers
  BY Snapshots DEF LTypes
<1>2. ASSUME AdvanceBase PROVE brd' \in Readers /\ AtLeaf(base, brec')
  BY <1>1, <1>2, AdvanceIs DEF AdvanceBase
<1>3. ASSUME AdvanceTarget PROVE trd' \in Readers /\ AtLeaf(target, trec')
  BY <1>1, <1>3, AdvanceIs DEF AdvanceTarget
<1>4. ASSUME trec # None, Emit(<<Insert(target[trec].key, target[trec].val)>>) PROVE LFile'
  <2>1. trec \in 1 .. Len(target) /\ LeafAt(target, trec)
    BY <1>4 DEF AtLeaf
  <2>2. target[trec].key \in Nat
    BY <2>1, Snapshots DEF LTypes
  <2>3. Good(<<Insert(target[trec].key, target[trec].val)>>)
    BY <2>2, SoundRecords, GoodOne
  <2>. QED BY <1>4, <2>3, Emitted DEF Emit
<1>5. ASSUME Emit(<<Delete(base[brec].key)>>) PROVE LFile'
  <2>1. Good(<<Delete(base[brec].key)>>)
    BY SoundRecords, GoodOne
  <2>. QED BY <1>5, <2>1, Emitted DEF Emit
<1>6. ASSUME Emit(<<Update(base[brec].key, target[trec].val)>>) PROVE LFile'
  <2>1. Good(<<Update(base[brec].key, target[trec].val)>>)
    BY SoundRecords, GoodOne
  <2>. QED BY <1>6, <2>1, Emitted DEF Emit
<1>7. ASSUME UNCHANGED file PROVE LFile'
  BY <1>7, FileKept DEF LFile
<1>8. CASE brec = None
  <2>1. trec # None /\ Emit(<<Insert(target[trec].key, target[trec].val)>>) /\ AdvanceTarget /\ UNCHANGED <<brd, brec>>
    BY <1>8 DEF MergeStep
  <2>. QED BY <1>1, <1>3, <1>4, <2>1
<1>9. CASE brec # None /\ trec = None
  <2>1. Emit(<<Delete(base[brec].key)>>) /\ AdvanceBase /\ UNCHANGED <<trd, trec>>
    BY <1>9 DEF MergeStep
  <2>. QED BY <1>1, <1>2, <1>5, <2>1
<1>10. CASE brec # None /\ trec # None
  <2>1. PICK b, t : b = base[brec] /\ t = target[trec]
    OBVIOUS
  <2>2. CASE b = t \/ b.key = t.key
    <3>1. AdvanceBase /\ AdvanceTarget /\ (UNCHANGED file \/ Emit(<<Update(base[brec].key, target[trec].val)>>))
      BY <1>10, <2>1, <2>2 DEF MergeStep
    <3>. QED BY <1>2, <1>3, <1>6, <1>7, <3>1
  <2>3. CASE b.key # t.key
    <3>1. brec \in 1 .. Len(base) /\ LeafAt(base, brec) /\ trec \in 1 .. Len(target) /\ LeafAt(target, trec)
      BY <1>10 DEF AtLeaf
    <3>2. b.key \in DOMAIN Rank /\ t.key \in DOMAIN Rank
      BY <2>1, <3>1, Snapshots DEF LTypes
    <3>3. Rank[b.key] \in Int /\ Rank[t.key] \in Int /\ Rank[b.key] # Rank[t.key]
      BY <2>3, <3>2, DiffConstants
    <3>4. (Before(b, t) <=> Rank[b.key] < Rank[t.key]) /\ (Before(t, b) <=> Rank[t.key] < Rank[b.key])
      BY <2>3 DEF Before
    <3>5. CASE Before(b, t)
      <4>1. ~Before(t, b)
        BY <3>3, <3>4, <3>5
      <4>2. Emit(<<Delete(base[brec].key)>>) /\ AdvanceBase /\ UNCHANGED <<trd, trec>>
        BY <1>10, <2>1, <2>3, <3>5, <4>1 DEF MergeStep
      <4>. QED BY <1>1, <1>2, <1>5, <4>2
    <3>6. CASE Before(t, b)
      <4>1. ~Before(b, t)
        BY <3>3, <3>4, <3>6
      <4>2. Emit(<<Insert(target[trec].key, target[trec].val)>>) /\ AdvanceTarget /\ UNCHANGED <<brd, brec>>
        BY <1>10, <2>1, <2>3, <3>6, <4>1 DEF MergeStep
      <4>. QED BY <1>1, <1>3, <1>4, <1>10, <4>2
    <3>7. Before(b, t) \/ Before(t, b)
      BY <3>3, <3>4
    <3>. QED BY <3>5, <3>6, <3>7
  <2>. QED BY <2>2, <2>3
<1>. QED BY <1>8, <1>9, <1>10

LEMMA StepDiffStore ==
  ASSUME LeafInv, mode = "leaf", DiffStore, UNCHANGED syncVars
  PROVE  LeafInv'
<1>1. LTypes /\ LFile /\ LOut /\ LMerge /\ pc = "merge" /\ pc' = pc /\ mode' = mode /\ UNCHANGED <<base, target, src, out>>
  BY DEF LeafInv, DiffStore, applyVars, syncVars
<1>2. AtLeaf(base, brec) /\ AtLeaf(target, trec)
  BY <1>1 DEF LMerge
<1>3. brd' \in Readers /\ trd' \in Readers /\ AtLeaf(base, brec') /\ AtLeaf(target, trec') /\ LFile'
  BY <1>1, <1>2, StepMerge DEF DiffStore
<1>4. LTypes'
  BY <1>1, <1>3 DEF LTypes, LeafPcs, IsPair
<1>5. LMerge'
  BY <1>1, <1>3 DEF LMerge, AtLeaf, LeafAt
<1>6. LOut'
  BY <1>1, OutKept DEF LOut
<1>. QED BY <1>1, <1>3, <1>4, <1>5, <1>6 DEF LeafInv, VerifyFaithful

LEMMA StepLeaveStore ==
  ASSUME LeafInv, mode = "leaf", LeaveStore, UNCHANGED syncVars
  PROVE  LeafInv'
<1>1. LTypes /\ LFile /\ LOut /\ pc' = "peek" /\ mode' = mode /\ UNCHANGED <<base, target, brd, trd, src, out>>
  BY DEF LeafInv, LeaveStore, applyVars, syncVars
<1>2. LFile'
  <2>1. Good(<<StoreLeave>>)
    BY GoodOne, SoundRecords
  <2>2. file' = file \o <<StoreLeave>>
    BY DEF LeaveStore, Emit
  <2>. QED BY <1>1, <2>1, <2>2, Emitted
<1>3. LTypes'
  BY <1>1 DEF LTypes, LeafPcs, IsPair
<1>4. LMerge'
  BY <1>1 DEF LMerge
<1>5. LOut'
  BY <1>1, OutKept DEF LOut
<1>. QED BY <1>1, <1>2, <1>3, <1>4, <1>5 DEF LeafInv, VerifyFaithful

LEMMA StepStoresOver ==
  ASSUME LeafInv, mode = "leaf", StoresOver, UNCHANGED syncVars
  PROVE  LeafInv'
<1>1. LTypes /\ LFile /\ LOut /\ pc' = "exts" /\ mode' = mode /\ UNCHANGED <<base, target, file, brd, trd, src, out>>
  BY DEF LeafInv, StoresOver, readers, applyVars, syncVars
<1>2. LFile'
  BY <1>1, FileKept DEF LFile
<1>3. LTypes'
  BY <1>1 DEF LTypes, LeafPcs, IsPair
<1>4. LMerge'
  BY <1>1 DEF LMerge
<1>5. LOut'
  BY <1>1, OutKept DEF LOut
<1>. QED BY <1>1, <1>2, <1>3, <1>4, <1>5 DEF LeafInv, VerifyFaithful

LEMMA ListOf ==
  ASSUME NEW S, IsFiniteSet(S), NEW q \in SetToSeqs(S)
  PROVE  Good([i \in DOMAIN q |-> ExtRemove(q[i])]) /\ Good([i \in DOMAIN q |-> ExtAdd(q[i])])
<1>1. Cardinality(S) \in Nat
  BY FS_CardinalityType
<1>2. DOMAIN q = 1 .. Cardinality(S)
  BY DEF SetToSeqs
<1>3. PICK f, g : f = [i \in DOMAIN q |-> ExtRemove(q[i])] /\ g = [i \in DOMAIN q |-> ExtAdd(q[i])]
  OBVIOUS
<1>4. /\ DOMAIN f = 1 .. Cardinality(S) /\ f = [i \in DOMAIN f |-> f[i]]
      /\ DOMAIN g = 1 .. Cardinality(S) /\ g = [i \in DOMAIN g |-> g[i]]
      /\ \A i \in 1 .. Cardinality(S) : f[i] = ExtRemove(q[i]) /\ g[i] = ExtAdd(q[i])
  BY <1>2, <1>3
<1>5. \A i \in 1 .. Cardinality(S) : Sound(f[i]) /\ Sound(g[i])
  BY <1>4, SoundRecords
<1>6. Good(f) /\ Good(g)
  BY <1>1, <1>4, <1>5, GoodFrom
<1>. QED BY <1>3, <1>6

LEMMA StepDiffExtension ==
  ASSUME LeafInv, mode = "leaf", DiffExtension, UNCHANGED syncVars
  PROVE  LeafInv'
<1>. DEFINE n  == Min(todo)
            bs == Payloads(base, n)
            ts == Payloads(target, n)
<1>1. LTypes /\ LFile /\ LOut /\ pc = "exts" /\ pc' = pc /\ mode' = mode /\ UNCHANGED <<base, target, brd, trd, src, out>>
  BY DEF LeafInv, DiffExtension, readers, applyVars, syncVars
<1>2. PICK rm \in SetToSeqs(bs \ ts), add \in SetToSeqs(ts \ bs) :
        Emit(<<ExtEnter(n, FormatOf(IF n \in ExtNames(base) THEN base ELSE target, n))>>
               \o [i \in DOMAIN rm |-> ExtRemove(rm[i])]
               \o [i \in DOMAIN add |-> ExtAdd(add[i])] \o <<ExtLeave>>)
  BY DEF DiffExtension
<1>3. IsFiniteSet(bs \ ts) /\ IsFiniteSet(ts \ bs)
  <2>1. IsSeq(base) /\ IsSeq(target)
    BY <1>1, Snapshots DEF LTypes, Good
  <2>2. IsFiniteSet(bs) /\ IsFiniteSet(ts)
    BY <2>1, FiniteNames
  <2>. HIDE DEF bs, ts
  <2>. QED BY <2>2, FS_Difference
<1>. HIDE DEF bs, ts, n
<1>4. PICK u, v, x, y : /\ u = <<ExtEnter(n, FormatOf(IF n \in ExtNames(base) THEN base ELSE target, n))>>
                        /\ v = [i \in DOMAIN rm |-> ExtRemove(rm[i])]
                        /\ x = [i \in DOMAIN add |-> ExtAdd(add[i])] /\ y = <<ExtLeave>>
  OBVIOUS
<1>5. Good(v) /\ Good(x)
  BY <1>3, <1>4, ListOf
<1>6. Good(u) /\ Good(y)
  BY <1>4, GoodOne, SoundRecords
<1>7. Good(u \o v \o x \o y)
  <2>1. Good(u \o v)
    BY <1>5, <1>6, GoodConcat
  <2>2. Good((u \o v) \o x)
    BY <1>5, <2>1, GoodConcat
  <2>. QED BY <1>6, <2>2, GoodConcat
<1>8. file' = file \o (u \o v \o x \o y)
  BY <1>2, <1>4 DEF Emit
<1>9. LFile'
  BY <1>1, <1>7, <1>8, Emitted
<1>10. LTypes'
  BY <1>1 DEF LTypes, LeafPcs, IsPair
<1>11. LMerge'
  BY <1>1 DEF LMerge
<1>12. LOut'
  BY <1>1, OutKept DEF LOut
<1>. QED BY <1>1, <1>9, <1>10, <1>11, <1>12 DEF LeafInv, VerifyFaithful

LEMMA StepCloseFile ==
  ASSUME LeafInv, mode = "leaf", CloseFile, UNCHANGED syncVars
  PROVE  LeafInv'
<1>1. /\ LTypes /\ LFile /\ LOut /\ pc' = "diffed" /\ mode' = mode /\ brd' = Start /\ trd' = Start
      /\ UNCHANGED <<base, target, src, out>>
  BY DEF LeafInv, CloseFile, applyVars, syncVars
<1>2. LFile'
  <2>1. Good(<<ZEnd>>)
    BY GoodOne, SoundRecords
  <2>2. file' = file \o <<ZEnd>>
    BY DEF CloseFile, Emit
  <2>. QED BY <1>1, <2>1, <2>2, Emitted
<1>3. Start \in Readers
  BY DEF Start, Readers, None
<1>4. LTypes'
  BY <1>1, <1>3 DEF LTypes, LeafPcs, IsPair
<1>5. LMerge'
  BY <1>1 DEF LMerge
<1>6. LOut'
  BY <1>1, OutKept DEF LOut
<1>. QED BY <1>1, <1>2, <1>4, <1>5, <1>6 DEF LeafInv, VerifyFaithful

LEMMA StepStopShort ==
  ASSUME LeafInv, mode = "leaf", NEW how \in {"crash", "error"}, StopShort(how), UNCHANGED syncVars
  PROVE  LeafInv'
<1>1. /\ LTypes /\ LFile /\ LOut /\ pc' = "diffed" /\ mode' = mode /\ brd' = Start /\ trd' = Start
      /\ UNCHANGED <<base, target, src, out>>
  BY DEF LeafInv, StopShort, applyVars, syncVars
<1>2. PICK n \in Max({IF how = "error" THEN 2 ELSE 0, Len(file) - MaxLost}) .. Len(file) :
        file' = SubSeq(file, 1, n) \o (IF how = "error" THEN <<ZEnd>> ELSE << >>)
  BY DEF StopShort
<1>3. Good(file) /\ Len(file) \in Nat /\ MaxLost \in Nat
  BY <1>1, SeqFacts, DiffConstants DEF LFile, Good
<1>4. n \in 0 .. Len(file)
  <2>1. PICK x \in Nat : x = (IF how = "error" THEN 2 ELSE 0)
    OBVIOUS
  <2>2. PICK y \in Int : y = Len(file) - MaxLost
    <3>1. PICK l \in Nat, m \in Nat : l = Len(file) /\ m = MaxLost
      BY <1>3
    <3>2. l - m \in Int
      OBVIOUS
    <3>. QED BY <3>1, <3>2
  <2>3. Max({x, y}) \in Int /\ Max({x, y}) >= x
    <3>1. x \in Int
      OBVIOUS
    <3>. QED BY <3>1, Largest
  <2>4. n \in Max({x, y}) .. Len(file)
    BY <1>2, <2>1, <2>2
  <2>. QED BY <1>3, <2>3, <2>4
<1>5. Good(SubSeq(file, 1, n))
  BY <1>3, <1>4, GoodCut
<1>6. Good(<<ZEnd>>) /\ Good(<< >>)
  BY GoodOne, SoundRecords
<1>7. LFile'
  <2>1. PICK q : q = (IF how = "error" THEN <<ZEnd>> ELSE << >>)
    OBVIOUS
  <2>2. Good(q)
    BY <1>6, <2>1
  <2>3. file' = SubSeq(file, 1, n) \o q
    BY <1>2, <2>1
  <2>. QED BY <1>5, <2>2, <2>3, GoodConcat, FileKept
<1>8. Start \in Readers
  BY DEF Start, Readers, None
<1>9. LTypes'
  BY <1>1, <1>8 DEF LTypes, LeafPcs, IsPair
<1>10. LMerge'
  BY <1>1 DEF LMerge
<1>11. LOut'
  BY <1>1, OutKept DEF LOut
<1>. QED BY <1>1, <1>7, <1>9, <1>10, <1>11 DEF LeafInv, VerifyFaithful

-----------------------------------------------------------------------------
(* Apply.                                                                  *)

LEMMA LeafFails ==
  ASSUME LeafInv, mode = "leaf", Fail, UNCHANGED syncVars
  PROVE  LeafInv'
<1>1. LTypes /\ LFile /\ LOut /\ pc' = "failed" /\ mode' = mode /\ UNCHANGED <<base, target, file, brd, trd, src, out>>
  BY DEF LeafInv, Fail, readers, applyVars, syncVars
<1>2. LFile'
  BY <1>1, FileKept DEF LFile
<1>3. LTypes'
  BY <1>1 DEF LTypes, LeafPcs, IsPair
<1>4. LMerge'
  BY <1>1 DEF LMerge
<1>5. LOut'
  BY <1>1, OutKept DEF LOut
<1>. QED BY <1>1, <1>2, <1>3, <1>4, <1>5 DEF LeafInv, VerifyFaithful

LEMMA StepOpenDiff ==
  ASSUME LeafInv, mode = "leaf", OpenDiff, UNCHANGED syncVars
  PROVE  LeafInv'
<1>1. CASE Fail
  BY <1>1, LeafFails
<1>2. CASE ~Fail
  <2>1. PICK dir \in {base, target} : /\ src' = dir /\ dpos' = 3 /\ pc' = "walk"
                                      /\ UNCHANGED <<base, target, file, cut, readers, todo, ch, out, meta, verdict>>
    BY <1>2 DEF OpenDiff
  <2>2. LTypes /\ LFile /\ LOut /\ mode' = mode /\ UNCHANGED <<base, target, file, brd, trd, out>>
    BY <2>1 DEF LeafInv, readers, syncVars
  <2>3. LFile'
    BY <2>2, FileKept DEF LFile
  <2>4. LTypes'
    BY <2>1, <2>2 DEF LTypes, LeafPcs, IsPair
  <2>5. LMerge'
    <3>1. dpos' \in Nat \ {0}
      BY <2>1
    <3>. QED BY <2>1, <3>1 DEF LMerge
  <2>6. LOut'
    BY <2>2, OutKept DEF LOut
  <2>. QED BY <2>1, <2>2, <2>3, <2>4, <2>5, <2>6 DEF LeafInv, VerifyFaithful
<1>. QED BY <1>1, <1>2

LEMMA StepTargetOnly ==
  ASSUME LeafInv, mode = "leaf", pc = "walk", UNCHANGED syncVars, NEW n \in Nat, NEW c,
         IsChanges(c), IsFiniteSet(DOMAIN c.ins), TargetOnlyStore(n, c), dpos \in Nat \ {0}
  PROVE  LeafInv'
<1>1. CASE Fail
  BY <1>1, LeafFails
<1>2. CASE ~Fail
  <2>1. /\ out' = out \o (IF DOMAIN c.ins = {} THEN << >> ELSE <<StoreItem(n)>> \o SortedItems(c.ins))
        /\ dpos' = AfterSection(Section(dpos) + 1, "StoreLeave")
        /\ UNCHANGED <<base, target, file, cut, pc, readers, todo, src, ch, meta, verdict>>
    BY <1>2 DEF TargetOnlyStore, Write
  <2>2. LTypes /\ LFile /\ LOut /\ mode' = mode /\ UNCHANGED <<base, target, file, brd, trd, src, pc>>
    BY <2>1 DEF LeafInv, readers, syncVars
  <2>3. PICK q : q = (IF DOMAIN c.ins = {} THEN << >> ELSE <<StoreItem(n)>> \o SortedItems(c.ins))
    OBVIOUS
  <2>4. Good(q)
    <3>1. PICK ins : ins = c.ins
      OBVIOUS
    <3>2. Good(SortedItems(ins))
      BY <3>1, SortedAre DEF IsChanges
    <3>3. Good(<<StoreItem(n)>>) /\ Good(<< >>)
      BY GoodOne, SoundRecords
    <3>4. Good(<<StoreItem(n)>> \o SortedItems(ins))
      BY <3>2, <3>3, GoodConcat
    <3>. QED BY <2>3, <3>1, <3>3, <3>4
  <2>5. LOut'
    BY <2>1, <2>2, <2>3, <2>4, Written
  <2>6. LFile'
    BY <2>2, FileKept DEF LFile
  <2>7. LTypes'
    BY <2>2 DEF LTypes, LeafPcs, IsPair
  <2>8. LMerge'
    <3>1. PICK s \in Nat \ {0} : s = Section(dpos)
      BY <2>2, SectionsIn
    <3>2. PICK p \in Nat \ {0} : p = Section(dpos) + 1
      BY <3>1
    <3>3. dpos' \in Nat \ {0}
      BY <2>1, <2>2, <3>2, SectionsIn
    <3>. QED BY <2>2, <3>3 DEF LMerge
  <2>. QED BY <2>2, <2>5, <2>6, <2>7, <2>8 DEF LeafInv, VerifyFaithful
<1>. QED BY <1>1, <1>2

LEMMA StepFromBase ==
  ASSUME LeafInv, mode = "leaf", pc = "walk", UNCHANGED syncVars, NEW b \in Readers, NEW c,
         IsChanges(c), StoreFromBase(b, c), dpos' \in Nat \ {0}
  PROVE  LeafInv'
<1>1. /\ LTypes /\ LFile /\ LOut /\ mode' = mode /\ UNCHANGED <<base, target, file, trd, src>>
      /\ brd' = Advance(src, b) /\ brec' = LeafOf(src, b)
  BY DEF LeafInv, StoreFromBase, syncVars
<1>2. \/ UNCHANGED <<pc, out>>
      \/ out' = out \o <<StoreItem(b.cur)>> /\ ch' = c /\ pc' = "store"
  BY DEF StoreFromBase, Write
<1>3. brd' \in Readers /\ AtLeaf(src, brec')
  <2>1. Good(src)
    BY <1>1, Snapshots DEF LTypes
  <2>2. Advance(src, b) \in Readers /\ AtLeaf(src, LeafOf(src, b))
    BY <2>1, AdvanceIs
  <2>. QED BY <1>1, <2>2
<1>4. LOut'
  <2>1. Good(<<StoreItem(b.cur)>>)
    <3>1. b.cur \in Nat
      BY DEF Readers
    <3>. QED BY <3>1, GoodOne, SoundRecords
  <2>. QED BY <1>1, <1>2, <2>1, Written, OutKept DEF LOut
<1>5. LFile'
  BY <1>1, FileKept DEF LFile
<1>6. pc' \in {"walk", "store"}
  BY <1>2
<1>7. LTypes'
  BY <1>1, <1>3, <1>6 DEF LTypes, LeafPcs, IsPair
<1>8. LMerge'
  <2>1. pc' = "store" => IsChanges(ch)'
    BY <1>2 DEF IsChanges
  <2>2. AtLeaf(src, brec)'
    BY <1>1, <1>3 DEF AtLeaf, LeafAt
  <2>. QED BY <1>6, <2>1, <2>2 DEF LMerge
<1>. QED BY <1>1, <1>4, <1>5, <1>6, <1>7, <1>8 DEF LeafInv, VerifyFaithful

LEMMA StepWalkStores ==
  ASSUME LeafInv, mode = "leaf", WalkStores, UNCHANGED syncVars
  PROVE  LeafInv'
<1>1. LTypes /\ LFile /\ pc = "walk" /\ dpos \in Nat \ {0}
  BY DEF LeafInv, LMerge, WalkStores
<1>2. PICK b \in Readers : b = PeekStore(src, brd)
  BY <1>1, Snapshots, PeekIs DEF LTypes
<1>3. PICK s \in Nat \ {0} : s = Section(dpos) /\ s <= Len(file) + 1
  BY <1>1, SectionsIn
<1>4. s + 1 \in Nat \ {0}
  OBVIOUS
<1>5. PICK c : c = StoreChanges(s + 1)
  OBVIOUS
<1>6. IsChanges(c) /\ IsFiniteSet(DOMAIN c.ins)
  BY <1>1, <1>4, <1>5, ChangesAre
<1>7. AfterSection(s + 1, "StoreLeave") \in Nat \ {0}
  BY <1>1, <1>4, SectionsIn
<1>8. IsChanges(NoChanges)
  BY DEF IsChanges, NoChanges
<1>9. PICK inDiff, dname : (inDiff \in BOOLEAN) /\ inDiff = SectionIs(dpos, "StoreEnter") /\ dname = file[s].name
  BY DEF SectionIs
<1>10. inDiff => dname \in Nat \ {0}
  <2>1. Len(file) \in Nat
    BY <1>1, SeqFacts DEF LFile, Good
  <2>2. ASSUME inDiff PROVE s \in 1 .. Len(file) /\ file[s].tag = "StoreEnter"
    <3>1. s <= Len(file) /\ file[s].tag = "StoreEnter"
      BY <1>3, <1>9, <2>2, Zenon DEF SectionIs
    <3>. QED BY <2>1, <3>1
  <2>. QED BY <1>1, <1>9, <2>2 DEF LFile, Good, Sound
<1>11. b.cur \in Nat
  BY DEF Readers
<1>12. /\ b.cur # None \/ inDiff
       /\ CASE inDiff /\ (b.cur = None \/ dname < b.cur) -> TargetOnlyStore(dname, c)
            [] b.cur # None /\ (~inDiff \/ dname > b.cur) ->
                 StoreFromBase(b, NoChanges) /\ dpos' = Section(dpos)
            [] inDiff /\ b.cur = dname ->
                 StoreFromBase(b, c) /\ dpos' = AfterSection(Section(dpos) + 1, "StoreLeave")
  BY <1>2, <1>3, <1>5, <1>9 DEF WalkStores
<1>13. CASE inDiff /\ (b.cur = None \/ dname < b.cur)
  <2>1. TargetOnlyStore(dname, c)
    <3>1. ~(b.cur # None /\ (~inDiff \/ dname > b.cur)) /\ b.cur # dname
      BY <1>10, <1>11, <1>13 DEF None
    <3>. QED BY <1>12, <1>13, <3>1
  <2>. QED BY <1>1, <1>6, <1>10, <1>13, <2>1, StepTargetOnly
<1>14. CASE b.cur # None /\ (~inDiff \/ dname > b.cur)
  <2>1. ~(inDiff /\ (b.cur = None \/ dname < b.cur)) /\ ~(inDiff /\ b.cur = dname)
    BY <1>10, <1>11, <1>14
  <2>2. StoreFromBase(b, NoChanges) /\ dpos' = Section(dpos)
    BY <1>12, <1>14, <2>1
  <2>3. dpos' \in Nat \ {0}
    BY <1>3, <2>2
  <2>4. PICK d : d = NoChanges
    OBVIOUS
  <2>. QED BY <1>1, <1>8, <2>2, <2>3, <2>4, StepFromBase
<1>15. CASE inDiff /\ b.cur = dname /\ b.cur # None
  <2>1. ~(b.cur = None \/ dname < b.cur) /\ ~(~inDiff \/ dname > b.cur)
    BY <1>10, <1>11, <1>15
  <2>2. StoreFromBase(b, c) /\ dpos' = AfterSection(s + 1, "StoreLeave")
    BY <1>3, <1>12, <1>15, <2>1
  <2>3. dpos' \in Nat \ {0}
    BY <1>7, <2>2
  <2>. QED BY <1>1, <1>6, <2>2, <2>3, StepFromBase
<1>16. \/ inDiff /\ (b.cur = None \/ dname < b.cur)
       \/ b.cur # None /\ (~inDiff \/ dname > b.cur)
       \/ inDiff /\ b.cur = dname /\ b.cur # None
  BY <1>10, <1>11, <1>12
<1>. QED BY <1>13, <1>14, <1>15, <1>16

LEMMA StepApplyStore ==
  ASSUME LeafInv, mode = "leaf", ApplyStore, UNCHANGED syncVars
  PROVE  LeafInv'
<1>. DEFINE k == src[brec].key
            ik == Min(ch.left)
            takeBase == brec # None /\ (ch.left = {} \/ k <= ik)
            takeInsert == ch.left # {} /\ (brec = None \/ ik <= k)
<1>1. /\ LTypes /\ LFile /\ LOut /\ pc = "store" /\ pc' = pc /\ mode' = mode
      /\ UNCHANGED <<base, target, file, trd, src, dpos>>
      /\ AtLeaf(src, brec) /\ IsChanges(ch) /\ dpos \in Nat \ {0}
  BY DEF LeafInv, LMerge, ApplyStore, syncVars
<1>2. /\ out' = out \o ((IF takeBase THEN BaseItem(k, src[brec].val) ELSE << >>)
                          \o (IF takeInsert THEN <<LeafItem(ik, ch.ins[ik])>> ELSE << >>))
      /\ IF takeBase THEN brd' = Advance(src, brd) /\ brec' = LeafOf(src, brd)
                     ELSE UNCHANGED <<brd, brec>>
      /\ ch' = IF takeInsert THEN [ch EXCEPT !.left = @ \ {ik}] ELSE ch
  BY DEF ApplyStore, Write
<1>3. Good(src) /\ brd \in Readers
  BY <1>1, Snapshots DEF LTypes
<1>4. takeBase => k \in Nat
  <2>1. brec # None => brec \in 1 .. Len(src) /\ LeafAt(src, brec)
    BY <1>1 DEF AtLeaf
  <2>. QED BY <1>3, <2>1 DEF Good, Sound, LeafAt
<1>5. takeInsert => ik \in Nat
  <2>1. PICK l : l = ch.left
    OBVIOUS
  <2>2. l \in SUBSET Nat
    BY <1>1, <2>1 DEF IsChanges
  <2>3. l # {} => Min(l) \in l
    BY <2>2, LeastIs
  <2>4. l # {} => Min(l) \in Nat
    BY <2>2, <2>3
  <2>. QED BY <2>1, <2>4
<1>. HIDE DEF k, ik, takeBase, takeInsert
<1>6. Good(<< >>)
  BY GoodOne, SoundRecords
<1>7. takeBase => Good(BaseItem(k, src[brec].val))
  <2>1. PICK v : v = (IF k \in DOMAIN ch.upd THEN ch.upd[k] ELSE src[brec].val)
    OBVIOUS
  <2>2. takeBase => Good(<<LeafItem(k, v)>>)
    BY <1>4, GoodOne, SoundRecords
  <2>. QED BY <1>6, <2>1, <2>2 DEF BaseItem
<1>8. takeInsert => Good(<<LeafItem(ik, ch.ins[ik])>>)
  BY <1>5, GoodOne, SoundRecords
<1>9. PICK q, r : /\ q = (IF takeBase THEN BaseItem(k, src[brec].val) ELSE << >>)
                  /\ r = (IF takeInsert THEN <<LeafItem(ik, ch.ins[ik])>> ELSE << >>)
  OBVIOUS
<1>10. Good(q \o r)
  <2>1. Good(q) /\ Good(r)
    BY <1>6, <1>7, <1>8, <1>9
  <2>. QED BY <2>1, GoodConcat
<1>11. LOut'
  BY <1>1, <1>2, <1>9, <1>10, Written
<1>12. brd' \in Readers /\ AtLeaf(src, brec')
  <2>1. Advance(src, brd) \in Readers /\ AtLeaf(src, LeafOf(src, brd))
    BY <1>3, AdvanceIs
  <2>. QED BY <1>1, <1>2, <1>3, <2>1
<1>13. IsChanges(ch)'
  <2>1. CASE takeInsert
    <3>1. ch' = [ch EXCEPT !.left = ch.left \ {ik}]
      BY <1>2, <2>1
    <3>2. ch' = [del |-> ch.del, upd |-> ch.upd, ins |-> ch.ins, left |-> ch.left \ {ik}]
      BY <1>1, <3>1 DEF IsChanges
    <3>. QED BY <1>1, <3>2 DEF IsChanges
  <2>2. CASE ~takeInsert
    BY <1>1, <1>2, <2>2 DEF IsChanges
  <2>. QED BY <2>1, <2>2
<1>14. LFile'
  BY <1>1, FileKept DEF LFile
<1>15. LTypes'
  BY <1>1, <1>12 DEF LTypes, LeafPcs, IsPair
<1>16. LMerge'
  <2>1. AtLeaf(src, brec)'
    BY <1>1, <1>12 DEF AtLeaf, LeafAt
  <2>. QED BY <1>1, <1>13, <2>1 DEF LMerge
<1>. QED BY <1>1, <1>11, <1>14, <1>15, <1>16 DEF LeafInv, VerifyFaithful

LEMMA StepStoreApplied ==
  ASSUME LeafInv, mode = "leaf", StoreApplied, UNCHANGED syncVars
  PROVE  LeafInv'
<1>1. /\ LTypes /\ LFile /\ LOut /\ pc' = "walk" /\ mode' = mode /\ dpos \in Nat \ {0}
      /\ UNCHANGED <<base, target, file, brd, trd, src, dpos, out>>
  BY DEF LeafInv, LMerge, StoreApplied, syncVars
<1>2. LFile'
  BY <1>1, FileKept DEF LFile
<1>3. LTypes'
  BY <1>1 DEF LTypes, LeafPcs, IsPair
<1>4. LMerge'
  BY <1>1 DEF LMerge
<1>5. LOut'
  BY <1>1, OutKept DEF LOut
<1>. QED BY <1>1, <1>2, <1>3, <1>4, <1>5 DEF LeafInv, VerifyFaithful

LEMMA StepWalkOver ==
  ASSUME LeafInv, mode = "leaf", WalkOver, UNCHANGED syncVars
  PROVE  LeafInv'
<1>1. /\ LTypes /\ LFile /\ LOut /\ pc' = "applyexts" /\ mode' = mode /\ dpos \in Nat \ {0}
      /\ UNCHANGED <<base, target, file, brd, trd, src, dpos, out>>
  <2>1. pc = "walk" /\ pc' = "applyexts" /\ UNCHANGED <<base, target, file, cut, readers, applyVars>>
    BY DEF WalkOver
  <2>. QED BY <2>1 DEF LeafInv, LMerge, readers, applyVars, syncVars
<1>2. LFile'
  BY <1>1, FileKept DEF LFile
<1>3. LTypes'
  BY <1>1 DEF LTypes, LeafPcs, IsPair
<1>4. LMerge'
  BY <1>1 DEF LMerge
<1>5. LOut'
  BY <1>1, OutKept DEF LOut
<1>. QED BY <1>1, <1>2, <1>3, <1>4, <1>5 DEF LeafInv, VerifyFaithful

LEMMA PayloadsOf ==
  ASSUME NEW s, IsSeq(s), NEW I \in SUBSET DOMAIN s, NEW at, at = InOrder(I)
  PROVE  Good([i \in DOMAIN at |-> ExtPayload(s[at[i]].body)])
<1>1. IsFiniteSet(I) /\ I \in SUBSET Nat
  BY FinitePlaces
<1>2. Cardinality(I) \in Nat /\ DOMAIN at = 1 .. Cardinality(I)
  BY <1>1, InOrderIs
<1>3. PICK q : q = [i \in DOMAIN at |-> ExtPayload(s[at[i]].body)]
  OBVIOUS
<1>4. /\ DOMAIN q = 1 .. Cardinality(I) /\ q = [i \in DOMAIN q |-> q[i]]
      /\ \A i \in 1 .. Cardinality(I) : q[i] = ExtPayload(s[at[i]].body)
  BY <1>2, <1>3
<1>5. \A i \in 1 .. Cardinality(I) : Sound(q[i])
  BY <1>4, SoundRecords
<1>6. Good(q)
  BY <1>2, <1>4, <1>5, GoodFrom
<1>. QED BY <1>3, <1>6

LEMMA StepApplyExtension ==
  ASSUME LeafInv, mode = "leaf", ApplyExtension, UNCHANGED syncVars
  PROVE  LeafInv'
<1>. DEFINE n    == Min(todo)
            secs == {i \in ExtSections : file[i].name = n}
            sec  == Max(secs)
            recs == IF secs = {} THEN {} ELSE sec + 1 .. SectionEnd(sec + 1, "ExtLeave") - 1
            gone == {file[i].body : i \in {j \in recs : file[j].tag = "ExtRemove"}}
            I    == {i \in PayloadsAt(src, n) : src[i].body \notin gone}
            J    == {i \in recs : file[i].tag = "ExtAdd"}
            kept == InOrder(I)
            adds == InOrder(J)
            pays == [i \in DOMAIN kept |-> ExtPayload(src[kept[i]].body)]
                      \o [i \in DOMAIN adds |-> ExtPayload(file[adds[i]].body)]
            meta1 == <<ExtMeta(n, IF secs # {} THEN file[sec].format ELSE FormatOf(src, n))>>
<1>1. /\ LTypes /\ LFile /\ LOut /\ pc = "applyexts" /\ pc' = pc /\ mode' = mode /\ dpos \in Nat \ {0}
      /\ UNCHANGED <<base, target, file, brd, trd, src, dpos>>
  <2>1. pc = "applyexts" /\ UNCHANGED <<base, target, file, cut, pc, readers, src, dpos, ch, meta, verdict>>
    BY DEF ApplyExtension
  <2>. QED BY <2>1 DEF LeafInv, LMerge, readers, syncVars
<1>2. out' = out \o (IF pays = << >> THEN << >> ELSE meta1 \o pays)
  BY DEF ApplyExtension, Write
<1>3. IsSeq(src) /\ IsSeq(file) /\ Len(file) \in Nat /\ DOMAIN file = 1 .. Len(file)
  BY <1>1, Snapshots, SeqFacts DEF LTypes, LFile, Good
<1>4. I \in SUBSET DOMAIN src
  BY DEF PayloadsAt
<1>5. secs \in SUBSET Nat /\ \A i \in secs : i # 0 /\ i <= Len(file)
  <2>. DEFINE T == {j \in dpos .. Len(file) : file[j].tag = "StoreEnter"}
              stop == Min(T \cup {Len(file) + 1})
  <2>1. T \in SUBSET (dpos .. Len(file))
    OBVIOUS
  <2>2. stop \in Nat \ {0} /\ stop <= Len(file) + 1
    <3>. HIDE DEF T
    <3>. QED BY <1>1, <1>3, <2>1, FirstIs
  <2>3. ExtSections = {i \in dpos .. stop - 1 : file[i].tag = "ExtEnter"}
    BY DEF ExtSections, FirstFrom
  <2>. HIDE DEF stop
  <2>4. ASSUME NEW i \in dpos .. stop - 1 PROVE i \in Nat /\ i # 0 /\ i <= Len(file)
    BY <1>1, <1>3, <2>2
  <2>5. \A i \in ExtSections : i \in Nat /\ i # 0 /\ i <= Len(file)
    BY <2>3, <2>4
  <2>. QED BY <2>5
<1>6. recs \in SUBSET (1 .. Len(file))
  <2>1. CASE secs = {}
    BY <2>1
  <2>2. CASE secs # {}
    <3>1. sec \in secs
      <4>. HIDE DEF secs
      <4>. QED BY <1>3, <1>5, <2>2, GreatestIs
    <3>2. PICK p \in Nat \ {0} : p = sec + 1
      <4>. HIDE DEF secs, sec
      <4>1. PICK m \in Nat : m = sec
        BY <1>5, <3>1
      <4>2. m + 1 \in Nat \ {0}
        OBVIOUS
      <4>. QED BY <4>1, <4>2
    <3>3. PICK e \in Nat \ {0} : e = SectionEnd(p, "ExtLeave") /\ e <= Len(file) + 1
      BY <1>1, SectionsIn
    <3>4. recs = p .. e - 1
      BY <2>2, <3>2, <3>3
    <3>. HIDE DEF recs
    <3>. QED BY <1>3, <3>3, <3>4
  <2>. QED BY <2>1, <2>2
<1>7. J \in SUBSET DOMAIN file
  <2>. HIDE DEF recs
  <2>. QED BY <1>3, <1>6
<1>8. Good([i \in DOMAIN kept |-> ExtPayload(src[kept[i]].body)])
  <2>1. PICK s, at, A : s = src /\ at = kept /\ A = I
    OBVIOUS
  <2>2. at = InOrder(A)
    BY <2>1
  <2>. HIDE DEF I, kept
  <2>3. Good([i \in DOMAIN at |-> ExtPayload(s[at[i]].body)])
    BY <1>3, <1>4, <2>1, <2>2, PayloadsOf
  <2>. QED BY <2>1, <2>3
<1>9. Good([i \in DOMAIN adds |-> ExtPayload(file[adds[i]].body)])
  <2>1. PICK s, at, A : s = file /\ at = adds /\ A = J
    OBVIOUS
  <2>2. at = InOrder(A)
    BY <2>1
  <2>. HIDE DEF J, adds
  <2>3. Good([i \in DOMAIN at |-> ExtPayload(s[at[i]].body)])
    BY <1>3, <1>7, <2>1, <2>2, PayloadsOf
  <2>. QED BY <2>1, <2>3
<1>10. Good(pays)
  <2>. HIDE DEF kept, adds
  <2>1. PICK x, y : /\ x = [i \in DOMAIN kept |-> ExtPayload(src[kept[i]].body)]
                    /\ y = [i \in DOMAIN adds |-> ExtPayload(file[adds[i]].body)]
    OBVIOUS
  <2>. QED BY <1>8, <1>9, <2>1, GoodConcat
<1>. HIDE DEF pays, secs, sec, n
<1>11. Good(meta1) /\ Good(<< >>)
  BY GoodOne, SoundRecords
<1>. HIDE DEF meta1
<1>12. Good(meta1 \o pays)
  BY <1>10, <1>11, GoodConcat
<1>13. LOut'
  <2>1. PICK q : q = (IF pays = << >> THEN << >> ELSE meta1 \o pays)
    OBVIOUS
  <2>2. Good(q)
    BY <1>11, <1>12, <2>1
  <2>. QED BY <1>1, <1>2, <2>1, <2>2, Written
<1>14. LFile'
  BY <1>1, FileKept DEF LFile
<1>15. LTypes'
  BY <1>1 DEF LTypes, LeafPcs, IsPair
<1>16. LMerge'
  BY <1>1 DEF LMerge
<1>. QED BY <1>1, <1>13, <1>14, <1>15, <1>16 DEF LeafInv, VerifyFaithful

LEMMA StepWriteMeta ==
  ASSUME LeafInv, mode = "leaf", WriteMeta, UNCHANGED syncVars
  PROVE  LeafInv'
<1>1. LTypes /\ LFile /\ LOut /\ pc' = "applied" /\ mode' = mode /\ UNCHANGED <<base, target, file, brd, trd, src, out>>
  BY DEF LeafInv, WriteMeta, readers, syncVars
<1>2. LFile'
  BY <1>1, FileKept DEF LFile
<1>3. LTypes'
  BY <1>1 DEF LTypes, LeafPcs, IsPair
<1>4. LMerge'
  BY <1>1 DEF LMerge
<1>5. LOut'
  BY <1>1, OutKept DEF LOut
<1>. QED BY <1>1, <1>2, <1>3, <1>4, <1>5 DEF LeafInv, VerifyFaithful

LEMMA StepVerify ==
  ASSUME LeafInv, mode = "leaf", VerifyEquivalent, UNCHANGED syncVars
  PROVE  LeafInv'
<1>1. LTypes /\ LFile /\ LOut /\ pc' = "verified" /\ mode' = mode /\ UNCHANGED <<base, target, file, brd, trd, src, out>>
  BY DEF LeafInv, VerifyEquivalent, readers, syncVars
<1>2. PICK a, b : a = out /\ b = target
  OBVIOUS
<1>3. verdict' = Verdict(a, b)
  BY <1>2 DEF VerifyEquivalent, Verdict
<1>4. ASSUME NEW s, Good(s) PROVE IsSeq(s) /\ NatKeys(s)
  BY <1>4 DEF Good, Sound, NatKeys, LeafAt
<1>5. Good(a) /\ Good(b)
  BY <1>1, <1>2, Snapshots DEF LOut, LTypes
<1>6. Verdict(a, b) = 0 <=> SameContents(a, b)
  BY <1>4, <1>5, VerdictExact
<1>7. SameContents(out, target)' <=> SameContents(a, b)
  <2>1. out' = a /\ target' = b
    BY <1>1, <1>2
  <2>2. SameContents(out', target') <=> SameContents(a, b)
    BY <2>1
  <2>3. SameContents(out, target)' <=> SameContents(out', target')
    BY DEF SameContents, StoreNames, KeyValues, Leaves, LeafAt, Owner, ExtNames, Payloads, PayloadsAt, InOrder
  <2>. QED BY <2>2, <2>3
<1>8. VerifyFaithful'
  BY <1>3, <1>6, <1>7 DEF VerifyFaithful
<1>9. LFile'
  BY <1>1, FileKept DEF LFile
<1>10. LTypes'
  BY <1>1 DEF LTypes, LeafPcs, IsPair
<1>11. LMerge'
  BY <1>1 DEF LMerge
<1>12. LOut'
  BY <1>1, OutKept DEF LOut
<1>. QED BY <1>1, <1>8, <1>9, <1>10, <1>11, <1>12 DEF LeafInv

LEMMA LeafStutter ==
  ASSUME LeafInv, UNCHANGED allVars
  PROVE  LeafInv'
<1>1. UNCHANGED <<base, target, file, pc, brd, trd, brec, trec, src, dpos, ch, out, verdict, mode>>
  BY DEF allVars, vars, readers, applyVars, syncVars
<1>. SUFFICES ASSUME mode = "leaf" PROVE LTypes' /\ LFile' /\ LOut' /\ LMerge' /\ VerifyFaithful'
  BY <1>1 DEF LeafInv
<1>2. LTypes /\ LFile /\ LOut /\ LMerge /\ VerifyFaithful
  BY DEF LeafInv
<1>3. LFile' /\ LOut'
  BY <1>1, <1>2, FileKept, OutKept DEF LFile, LOut
<1>4. LTypes'
  BY <1>1, <1>2 DEF LTypes, IsPair
<1>5. LMerge'
  BY <1>1, <1>2 DEF LMerge, AtLeaf, LeafAt, IsChanges
<1>6. VerifyFaithful'
  <2>1. SameContents(out, target)' <=> SameContents(out', target')
    BY DEF SameContents, StoreNames, KeyValues, Leaves, LeafAt, Owner, ExtNames, Payloads, PayloadsAt, InOrder
  <2>2. SameContents(out', target') <=> SameContents(out, target)
    BY <1>1
  <2>. QED BY <1>1, <1>2, <2>1, <2>2 DEF VerifyFaithful
<1>. QED BY <1>3, <1>4, <1>5, <1>6

(* The commands of the state-sync diff have nothing to do.                 *)
LEMMA SyncIdle ==
  ASSUME mode = "leaf", pc \in LeafPcs
  PROVE  ~(ComputeStateSync \/ ApplyStateSync \/ SyncCrash \/ SyncComputeFails)
<1>1. ~ComputeStateSync
  BY DEF ComputeStateSync, IndexBase, CreateFile, EmitOp, CloseOps, RewriteHeader, LeafPcs
<1>2. ~ApplyStateSync
  BY DEF ApplyStateSync, OpenSyncDiff, IndexByNumber, OpenOutput, ReplayOp, ReplayEnd, WriteSyncMeta, LeafPcs
<1>3. ~SyncCrash /\ ~SyncComputeFails
  BY DEF SyncCrash, SyncComputeFails, SyncStopShort, LeafPcs
<1>. QED BY <1>1, <1>2, <1>3

LEMMA LeafStep == LeafInv /\ [Next]_allVars => LeafInv'
<1>. SUFFICES ASSUME LeafInv, [Next]_allVars PROVE LeafInv'
  OBVIOUS
<1>1. CASE UNCHANGED allVars
  BY <1>1, LeafStutter
<1>2. CASE mode # "leaf" /\ Next
  <2>1. mode' = mode
    BY <1>2 DEF Next, Runs, Stops, ComputeStateSync, ApplyStateSync, syncVars, SyncCrash, SyncComputeFails, SyncStopShort,
       IndexBase, IndexItem, CreateFile, EmitOp, CloseOps, RewriteHeader, OpenSyncDiff, IndexByNumber, OpenOutput,
       ReplayOp, ReplayEnd, WriteSyncMeta
  <2>. QED BY <1>2, <2>1 DEF LeafInv
<1>3. CASE mode = "leaf" /\ Next
  <2>1. ~(ComputeStateSync \/ ApplyStateSync \/ SyncCrash \/ SyncComputeFails)
    BY <1>3, SyncIdle DEF LeafInv, LTypes
  <2>2. CASE Compute /\ UNCHANGED syncVars
    BY <1>3, <2>2, StepEnterStore, StepDiffStore, StepLeaveStore, StepStoresOver, StepDiffExtension, StepCloseFile
       DEF Compute
  <2>3. CASE Apply /\ UNCHANGED syncVars
    BY <1>3, <2>3, StepOpenDiff, StepWalkStores, StepApplyStore, StepStoreApplied, StepWalkOver, StepApplyExtension,
       StepWriteMeta DEF Apply
  <2>4. CASE VerifyEquivalent /\ UNCHANGED syncVars
    BY <1>3, <2>4, StepVerify
  <2>5. CASE (Crash \/ ComputeFails) /\ UNCHANGED syncVars
    BY <1>3, <2>5, StepStopShort DEF Crash, ComputeFails
  <2>. QED BY <1>3, <2>1, <2>2, <2>3, <2>4, <2>5 DEF Next, Runs, Stops
<1>. QED BY <1>1, <1>2, <1>3

(* For all snapshots, and outputs of Apply from whole and from cut diffs,  *)
(* on the right or the wrong base: VerifyEquivalent reports no difference  *)
(* exactly when every store holds the same keys and values in the same     *)
(* order and every extension the same payloads (verify.go), also when a    *)
(* store of the output repeats a key or has its keys out of order.         *)
THEOREM VerifierExact == Spec => []VerifyFaithful
<1>1. LeafInv /\ SyncInv /\ OneMode => VerifyFaithful
  BY DEF OneMode, LeafInv, SyncInv, STypes, SyncPcs, VerifyFaithful
<1>2. Init => OneMode
  BY DEF OneMode, Init
<1>3. OneMode /\ [Next]_allVars => OneMode'
  BY DEF OneMode, Next, Runs, Stops, ComputeStateSync, ApplyStateSync, syncVars, SyncCrash, SyncComputeFails, SyncStopShort,
     IndexBase, IndexItem, CreateFile, EmitOp, CloseOps, RewriteHeader, OpenSyncDiff, IndexByNumber, OpenOutput,
     ReplayOp, ReplayEnd, WriteSyncMeta, allVars
<1>. QED BY LeafInit, LeafStep, SyncInit, SyncStep, <1>1, <1>2, <1>3, PTL DEF Spec

-----------------------------------------------------------------------------
(* Why the leaf diff gives back the target's keys and values.  The file    *)
(* has one closed section per store, in the order of the names, whose      *)
(* records tell how to get from the base's leaves to the target's          *)
(* (Given); Apply, at store n, has written the target's leaves of every    *)
(* store before n, and of n those below what is left to merge (Merged).    *)

(* Items as a store keeps them: extensions last, leaves under a store.     *)
Stream(s) == /\ Good(s) /\ Ordered(s) /\ Nested(s)
             /\ \A i \in 1 .. Len(s) : s[i].tag \in {"store", "iavl", "ext", "payload"}

AllNames(b, t) == StoreNames(b) \cup StoreNames(t)
AllExts(b, t)  == ExtNames(b) \cup ExtNames(t)

Span(f, x, y) == {f[j] : j \in x .. y}
Stores(s)     == {j \in DOMAIN s : s[j].tag = "store"}

(* The leaves of store n, and those before place rec.                      *)
LeafItems(s, n) == {s[i] : i \in Leaves(s, n)}
Read(s, n, rec) == {s[i] : i \in {j \in Leaves(s, n) : rec = None \/ j < rec}}
KVs(s, n)       == {<<x.key, x.val>> : x \in LeafItems(s, n)}

(* A reader between two stores, all of them up to N behind it; and one     *)
(* inside store n.                                                         *)
Fresh(s, r, N) ==
  \/ /\ r.cur = None /\ r.pos \in 1 .. Len(s) + 1 /\ (r.pos <= Len(s) => s[r.pos].tag # "iavl")
     /\ \A j \in Stores(s) : s[j].name > N <=> j >= r.pos
  \/ /\ r.cur # None /\ r.pos - 1 \in Stores(s) /\ s[r.pos - 1].name = r.cur
     /\ \A j \in Stores(s) : s[j].name > N <=> j >= r.pos - 1
Reading(s, r, n) ==
  /\ r.cur = n /\ n # None /\ r.pos \in 1 .. Len(s) + 1
  /\ \E x \in Stores(s) : x < r.pos /\ s[x].name = n /\ \A j \in x + 1 .. r.pos - 1 : s[j].tag = "iavl"
Side(s, r, rec, n) ==
  IF rec = None THEN Fresh(s, r, n) ELSE Reading(s, r, n) /\ rec \in Leaves(s, n) /\ r.pos = rec + 1

(* The records R of a store tell how to get from the leaves B to the       *)
(* leaves T.                                                               *)
Edits == {"Insert", "Update", "Delete"}
Has(R, tag, k) == \E r \in R : r.tag = tag /\ r.key = k
Given(R, B, T) ==
  /\ \A r \in R : /\ r.tag \in Edits
                  /\ r.tag = "Delete" => \E b \in B : b.key = r.key
                  /\ r.tag # "Delete" => \E t \in T : t.key = r.key /\ t.val = r.val
  /\ \A t \in T : \/ Has(R, "Insert", t.key)
                  \/ /\ ~Has(R, "Delete", t.key)
                     /\ \E b \in B : b.key = t.key /\ (Has(R, "Update", t.key) \/ b.val = t.val)
  /\ \A b \in B : Has(R, "Delete", b.key) \/ (~Has(R, "Insert", b.key) /\ \E t \in T : t.key = b.key)

ExtGiven(R, bs, ts) ==
  /\ \A r \in R : r.tag \in {"ExtRemove", "ExtAdd"}
  /\ {r.body : r \in {q \in R : q.tag = "ExtRemove"}} = bs \ ts
  /\ {r.body : r \in {q \in R : q.tag = "ExtAdd"}} = ts \ bs

Enters(f)    == {x \in DOMAIN f : f[x].tag = "StoreEnter"}
ExtEnters(f) == {x \in DOMAIN f : f[x].tag = "ExtEnter"}

(* The section that begins at x ends, and is right for its whole store.    *)
Closed(f, x, b, t) ==
  \E e \in x + 1 .. Len(f) :
    /\ f[e].tag = "StoreLeave"
    /\ Given(Span(f, x + 1, e - 1), LeafItems(b, f[x].name), LeafItems(t, f[x].name))
ExtClosed(f, x, b, t) ==
  \E e \in x + 1 .. Len(f) :
    /\ f[e].tag = "ExtLeave"
    /\ ExtGiven(Span(f, x + 1, e - 1), Payloads(b, f[x].name), Payloads(t, f[x].name))

(* The sections of the stores up to N.                                     *)
SoFar(f, N, A) ==
  /\ \A x \in Enters(f) : f[x].name \in A /\ f[x].name <= N
  /\ \A n \in A : n <= N => \E x \in Enters(f) : f[x].name = n
  /\ \A x, y \in Enters(f) : x < y => f[x].name < f[y].name
Sections(f, b, t) ==
  /\ \A x \in Enters(f) : f[x].name \in AllNames(b, t) /\ Closed(f, x, b, t)
  /\ \A n \in AllNames(b, t) : \E x \in Enters(f) : f[x].name = n
  /\ \A x, y \in Enters(f) : x < y => f[x].name < f[y].name
  /\ \A x \in Enters(f), y \in ExtEnters(f) : x < y
ExtSecs(f, E, b, t) ==
  /\ \A y \in ExtEnters(f) : f[y].name \in E /\ ExtClosed(f, y, b, t)
  /\ \A n \in E : \E y \in ExtEnters(f) : f[y].name = n
  /\ \A x, y \in ExtEnters(f) : f[x].name = f[y].name => x = y

FileHead(f) == Len(f) >= 2 /\ f[1].tag = "Header" /\ f[2].tag = "ZlibHeader"

AtPeek(f, b, t, r, u) ==
  \E N \in {0} \cup AllNames(b, t) :
    /\ Fresh(b, r, N) /\ Fresh(t, u, N) /\ SoFar(f, N, AllNames(b, t))
    /\ ExtEnters(f) = {} /\ \A x \in Enters(f) : Closed(f, x, b, t)
AtMerge(f, b, t, n, r, i, u, j) ==
  /\ n \in AllNames(b, t) /\ ExtEnters(f) = {} /\ SoFar(f, n, AllNames(b, t))
  /\ Side(b, r, i, n) /\ Side(t, u, j, n)
  /\ \E x \in Enters(f) : /\ f[x].name = n /\ \A y \in Enters(f) : y # x => Closed(f, y, b, t)
                          /\ Given(Span(f, x + 1, Len(f)), Read(b, n, i), Read(t, n, j))
AtExts(f, b, t, E) == Sections(f, b, t) /\ E \subseteq AllExts(b, t) /\ ExtSecs(f, AllExts(b, t) \ E, b, t)
FileDone(f, b, t)  == Sections(f, b, t) /\ ExtSecs(f, AllExts(b, t), b, t)
Using == {"diffed", "walk", "store", "applyexts"}

(* What Compute has written at each of its stages.                         *)
ComputeInv ==
  cut = "no" =>
    /\ FileHead(file)
    /\ pc = "peek" => AtPeek(file, base, target, brd, trd)
    /\ pc = "merge" => AtMerge(file, base, target, name, brd, brec, trd, trec)
    /\ pc = "exts" => AtExts(file, base, target, todo)
    /\ pc = "diffed" => brd = Start
    /\ pc \in Using => FileDone(file, base, target)

(* What the changes of a store make of its leaves.                         *)
Plan(c, B, T) ==
  /\ \A b \in B : b.key \notin c.del =>
       /\ b.key \notin DOMAIN c.ins
       /\ \E t \in T : t.key = b.key /\ t.val = IF b.key \in DOMAIN c.upd THEN c.upd[b.key] ELSE b.val
  /\ \A k \in DOMAIN c.ins : \E t \in T : t.key = k /\ t.val = c.ins[k]
  /\ \A t \in T : t.key \in DOMAIN c.ins \/ \E b \in B : b.key = t.key /\ b.key \notin c.del

NoExts(s) == \A i \in DOMAIN s : s[i].tag \in {"store", "iavl"}
OutSoFar(o, N, A) ==
  Stream(o) /\ NoExts(o) /\ \A n \in StoreNames(o) : n \in A /\ n <= N

(* The sections from d on are those of the names above N.                  *)
Ahead(f, d, N) == /\ d \in 1 .. Len(f) + 1
                  /\ \A x \in Enters(f) : f[x].name > N <=> x >= d
                  /\ \A y \in ExtEnters(f) : y >= d
AtWalk(f, b, t, r, d, o) ==
  \E N \in {0} \cup AllNames(b, t) :
    /\ Fresh(b, r, N) /\ Ahead(f, d, N) /\ OutSoFar(o, N, AllNames(b, t))
    /\ \A n \in AllNames(b, t) : n <= N => KVs(o, n) = KVs(t, n)

(* The last store of o is n.                                               *)
InStore(o, n) == \E w \in Stores(o) : o[w].name = n /\ \A j \in w + 1 .. Len(o) : o[j].tag = "iavl"

(* Written of store n: below what is left to merge; the rest is left.      *)
Merged(b, t, n, i, c, o) ==
  /\ \A x \in LeafItems(o, n) :
       /\ \E y \in LeafItems(t, n) : y.key = x.key /\ y.val = x.val
       /\ i # None => x.key < b[i].key
       /\ \A k \in c.left : x.key < k
  /\ \A y \in LeafItems(t, n) :
       \/ \E x \in LeafItems(o, n) : x.key = y.key /\ x.val = y.val
       \/ y.key \in c.left
       \/ i # None /\ y.key \notin c.del /\ \E j \in Leaves(b, n) : j >= i /\ b[j].key = y.key
AtStore(f, b, t, n, r, i, d, c, o) ==
  /\ n \in AllNames(b, t) /\ Side(b, r, i, n) /\ Ahead(f, d, n) /\ OutSoFar(o, n, AllNames(b, t))
  /\ \A m \in AllNames(b, t) : m < n => KVs(o, m) = KVs(t, m)
  /\ InStore(o, n) /\ Plan(c, LeafItems(b, n), LeafItems(t, n)) /\ Merged(b, t, n, i, c, o)
AtApplyExts(f, b, t, d, E, o) ==
  /\ Stream(o) /\ StoreNames(o) \subseteq AllNames(b, t)
  /\ \A n \in AllNames(b, t) : KVs(o, n) = KVs(t, n)
  /\ d \in 1 .. Len(f) + 1 /\ (\A x \in Enters(f) : x < d) /\ \A y \in ExtEnters(f) : y >= d
  /\ E \subseteq AllExts(b, t) /\ ExtNames(o) \subseteq AllExts(b, t) \ E
  /\ \A n \in AllExts(b, t) \ E : Payloads(o, n) = Payloads(t, n)

(* What Apply has written at each of its stages.                           *)
ApplyInv ==
  /\ meta # {} => pc \in {"applied", "verified"}
  /\ pc \in {"peek", "merge", "exts", "diffed"} => out = << >>
  /\ cut = "no" /\ src = base =>
       /\ pc = "walk" => AtWalk(file, base, target, brd, dpos, out)
       /\ pc = "store" => AtStore(file, base, target, name, brd, brec, dpos, ch, out)
       /\ pc = "applyexts" => AtApplyExts(file, base, target, dpos, todo, out)
       /\ pc \in {"applied", "verified"} => SameContents(out, target) /\ Ordered(out)
RoundInv == mode = "leaf" => ComputeInv /\ ApplyInv

(* The nearest item with a tag at or before i owns i.                      *)
LEMMA LastOf ==
  ASSUME NEW s, IsSeq(s), NEW i \in 1 .. Len(s), NEW tag, \E j \in 1 .. i : s[j].tag = tag
  PROVE  \E x \in 1 .. i : /\ s[x].tag = tag /\ (\A j \in x + 1 .. i : s[j].tag # tag)
                           /\ Owner(s, i, tag) = s[x].name
<1>. DEFINE S == {j \in 1 .. i : s[j].tag = tag}
<1>1. Len(s) \in Nat /\ i \in Nat
  BY SeqFacts
<1>2. S \in SUBSET Nat /\ S # {} /\ (\A j \in S : j <= i) /\ Owner(s, i, tag) = s[Max(S)].name
  BY <1>1 DEF Owner
<1>3. \A j \in S : j \in 1 .. i /\ s[j].tag = tag
  OBVIOUS
<1>4. \A j \in 1 .. i : s[j].tag = tag => j \in S
  OBVIOUS
<1>. HIDE DEF S
<1>5. Max(S) \in S /\ \A j \in S : Max(S) >= j
  BY <1>1, <1>2, GreatestIs
<1>6. PICK x \in 1 .. i : x = Max(S) /\ s[x].tag = tag
  BY <1>3, <1>5
<1>7. \A j \in x + 1 .. i : s[j].tag # tag
  <2>1. ASSUME NEW j \in x + 1 .. i, s[j].tag = tag PROVE FALSE
    <3>1. j \in 1 .. i /\ j > x
      BY <1>1
    <3>2. x >= j
      BY <1>4, <1>5, <1>6, <2>1, <3>1
    <3>. QED BY <1>1, <3>1, <3>2
  <2>. QED BY <2>1
<1>. QED BY <1>2, <1>6, <1>7

LEMMA OwnerIs ==
  ASSUME NEW s, IsSeq(s), NEW i \in 1 .. Len(s), NEW tag, NEW x \in 1 .. i, s[x].tag = tag,
         \A j \in x + 1 .. i : s[j].tag # tag
  PROVE  Owner(s, i, tag) = s[x].name
<1>1. PICK y \in 1 .. i : /\ s[y].tag = tag /\ (\A j \in y + 1 .. i : s[j].tag # tag)
                          /\ Owner(s, i, tag) = s[y].name
  BY LastOf
<1>2. ~(x < y) /\ ~(y < x)
  <2>1. x < y => y \in x + 1 .. i
    OBVIOUS
  <2>2. y < x => x \in y + 1 .. i
    OBVIOUS
  <2>. QED BY <1>1, <2>1, <2>2
<1>3. x = y
  BY <1>2
<1>. QED BY <1>1, <1>3

(* The leaves of a store are those between it and the next one.            *)
LEMMA LeavesAre ==
  ASSUME NEW s, Stream(s), NEW n, NEW i
  PROVE  i \in Leaves(s, n) <=>
           /\ i \in 1 .. Len(s) /\ LeafAt(s, i)
           /\ \E x \in 1 .. i - 1 : s[x].tag = "store" /\ s[x].name = n /\ \A j \in x + 1 .. i : s[j].tag = "iavl"
<1>1. IsSeq(s) /\ Len(s) \in Nat /\ DOMAIN s = 1 .. Len(s)
  BY SeqFacts DEF Stream, Good
<1>2. ASSUME i \in Leaves(s, n)
      PROVE  /\ i \in 1 .. Len(s) /\ LeafAt(s, i)
             /\ \E x \in 1 .. i - 1 : s[x].tag = "store" /\ s[x].name = n /\ \A j \in x + 1 .. i : s[j].tag = "iavl"
  <2>1. i \in 1 .. Len(s) /\ LeafAt(s, i) /\ Owner(s, i, "store") = n /\ s[i].tag = "iavl"
    BY <1>1, <1>2 DEF Leaves, LeafAt
  <2>2. \E j \in 1 .. i : s[j].tag = "store"
    BY <1>1, <2>1 DEF Stream, Nested
  <2>3. PICK x \in 1 .. i : /\ s[x].tag = "store" /\ (\A j \in x + 1 .. i : s[j].tag # "store")
                            /\ Owner(s, i, "store") = s[x].name
    BY <1>1, <2>1, <2>2, LastOf
  <2>4. x # i
    BY <2>1, <2>3
  <2>5. x \in 1 .. i - 1
    BY <2>1, <2>4
  <2>6. ASSUME NEW j \in x + 1 .. i PROVE s[j].tag = "iavl"
    <3>1. j \in 1 .. Len(s) /\ j <= i
      BY <1>1, <2>1
    <3>2. s[j].tag \notin {"ext", "payload"}
      <4>1. CASE j = i
        BY <2>1, <4>1
      <4>2. CASE j < i
        BY <1>1, <2>1, <3>1, <4>2 DEF Stream, Nested
      <4>. QED BY <2>1, <3>1, <4>1, <4>2
    <3>. QED BY <2>3, <3>1, <3>2 DEF Stream
  <2>. QED BY <2>1, <2>3, <2>5, <2>6
<1>3. ASSUME i \in 1 .. Len(s), LeafAt(s, i),
             NEW x \in 1 .. i - 1, s[x].tag = "store", s[x].name = n, \A j \in x + 1 .. i : s[j].tag = "iavl"
      PROVE  i \in Leaves(s, n)
  <2>1. x \in 1 .. i
    BY <1>3
  <2>2. \A j \in x + 1 .. i : s[j].tag # "store"
    BY <1>3
  <2>3. Owner(s, i, "store") = n
    BY <1>1, <1>3, <2>1, <2>2, OwnerIs
  <2>. QED BY <1>1, <1>3, <2>3 DEF Leaves
<1>. QED BY <1>2, <1>3

(* Leaves of a store: their keys increase with their places.               *)
LEMMA LeafKeys ==
  ASSUME NEW s, Stream(s), NEW n
  PROVE  /\ Leaves(s, n) \in SUBSET (1 .. Len(s)) /\ IsSeq(s) /\ Len(s) \in Nat /\ DOMAIN s = 1 .. Len(s)
         /\ \A i \in Leaves(s, n) : s[i].key \in Nat
         /\ \A i, j \in Leaves(s, n) : /\ i < j => s[i].key < s[j].key
                                       /\ s[i].key = s[j].key => i = j
         /\ \A a \in LeafItems(s, n) : a.key \in Nat
         /\ \A a, b \in LeafItems(s, n) : a.key = b.key => a = b
<1>1. IsSeq(s) /\ Len(s) \in Nat /\ DOMAIN s = 1 .. Len(s)
  BY SeqFacts DEF Stream, Good
<1>2. Leaves(s, n) \in SUBSET (1 .. Len(s)) /\ \A i \in Leaves(s, n) : LeafAt(s, i) /\ Owner(s, i, "store") = n
  BY <1>1 DEF Leaves
<1>3. \A i \in Leaves(s, n) : s[i].key \in Nat
  BY <1>2 DEF Stream, Good, Sound, LeafAt
<1>4. \A i, j \in Leaves(s, n) : i < j => s[i].key < s[j].key
  BY <1>1, <1>2 DEF Stream, Ordered
<1>5. ASSUME NEW i \in Leaves(s, n), NEW j \in Leaves(s, n), s[i].key = s[j].key PROVE i = j
  <2>1. i \in Nat /\ j \in Nat
    BY <1>1, <1>2
  <2>2. ~(i < j) /\ ~(j < i)
    BY <1>3, <1>4, <1>5
  <2>. QED BY <2>1, <2>2
<1>. QED BY <1>1, <1>2, <1>3, <1>4, <1>5 DEF LeafItems

(* Stores: their names increase with their places.                         *)
LEMMA StoreOrder ==
  ASSUME NEW s, Stream(s)
  PROVE  /\ \A x \in Stores(s) : x \in 1 .. Len(s) /\ s[x].name \in Nat
         /\ \A x, y \in Stores(s) : /\ x < y <=> s[x].name < s[y].name
                                    /\ s[x].name = s[y].name => x = y
<1>1. IsSeq(s) /\ Len(s) \in Nat /\ DOMAIN s = 1 .. Len(s)
  BY SeqFacts DEF Stream, Good
<1>2. \A x \in Stores(s) : x \in 1 .. Len(s) /\ s[x].name \in Nat /\ s[x].tag = "store"
  BY <1>1 DEF Stores, Stream, Good, Sound
<1>3. \A x, y \in Stores(s) : x < y => s[x].name < s[y].name
  BY <1>1, <1>2 DEF Stream, Ordered
<1>4. ASSUME NEW x \in Stores(s), NEW y \in Stores(s)
      PROVE  (x < y <=> s[x].name < s[y].name) /\ (s[x].name = s[y].name => x = y)
  <2>1. x \in Nat /\ y \in Nat /\ s[x].name \in Nat /\ s[y].name \in Nat
    BY <1>1, <1>2
  <2>2. (x < y => s[x].name < s[y].name) /\ (y < x => s[y].name < s[x].name)
    BY <1>3
  <2>. QED BY <2>1, <2>2
<1>. QED BY <1>2, <1>4

-----------------------------------------------------------------------------
(* Readers of a stream.                                                    *)

(* p is the first of the places T from i on, or the end of s.              *)
FirstOf(p, s, i, T) ==
  /\ p \in i .. Len(s) + 1 /\ (p <= Len(s) => p \in T)
  /\ \A j \in i .. p - 1 : j \notin T /\ j \in 1 .. Len(s)

(* What Min gives of the places from i on.                                 *)
LEMMA FirstLeast ==
  ASSUME NEW s, IsSeq(s), NEW i \in Nat \ {0}, i <= Len(s) + 1, NEW T \in SUBSET (i .. Len(s)), NEW p, p = Min(T \cup {Len(s) + 1})
  PROVE  FirstOf(p, s, i, T)
<1>. DEFINE S == T \cup {Len(s) + 1}
<1>1. Len(s) \in Nat
  BY SeqFacts
<1>2. \A x \in T : x \in Nat /\ x >= i /\ x <= Len(s)
  BY <1>1
<1>3. \A x \in S : x \in Nat /\ x >= i /\ x <= Len(s) + 1
  BY <1>1, <1>2
<1>4. Len(s) + 1 \in S /\ T \in SUBSET S /\ \A x \in S : x = Len(s) + 1 \/ x \in T
  OBVIOUS
<1>5. p = Min(S)
  OBVIOUS
<1>. HIDE DEF S
<1>6. p \in S /\ \A x \in S : p <= x
  BY <1>3, <1>4, <1>5, LeastIs
<1>7. p \in i .. Len(s) + 1 /\ p \in Nat
  BY <1>1, <1>3, <1>6
<1>8. p <= Len(s) => p \in T
  BY <1>1, <1>4, <1>6
<1>9. ASSUME NEW j \in i .. p - 1 PROVE j \notin T /\ j \in 1 .. Len(s)
  <2>1. j < p /\ j \in Nat /\ j >= i
    BY <1>7
  <2>2. j \in 1 .. Len(s)
    BY <1>1, <1>7, <2>1
  <2>3. ASSUME j \in T PROVE FALSE
    <3>1. j \in S
      BY <1>4, <2>3
    <3>2. p <= j
      BY <1>6, <3>1
    <3>. QED BY <1>7, <2>1, <3>2
  <2>. QED BY <2>2, <2>3
<1>. QED BY <1>7, <1>8, <1>9 DEF FirstOf

(* peekStore finds the next store of the stream, if there is one.          *)
LEMMA PeekReads ==
  ASSUME NEW s, Stream(s), NEW r \in Readers, NEW N \in Nat, Fresh(s, r, N), NEW b, b = PeekStore(s, r)
  PROVE  /\ Fresh(s, b, N)
         /\ b.cur # None => /\ Reading(s, b, b.cur) /\ b.cur > N /\ b.cur \in StoreNames(s)
                            /\ \A n \in StoreNames(s) : n > N => n >= b.cur
                            /\ \A i \in Leaves(s, b.cur) : i >= b.pos
         /\ b.cur = None => \A n \in StoreNames(s) : n <= N
<1>0. IsSeq(s) /\ Len(s) \in Nat /\ DOMAIN s = 1 .. Len(s) /\ r.pos \in Nat \ {0} /\ r.cur \in Nat
  BY SeqFacts DEF Stream, Good, Readers
<1>1. \A x \in Stores(s) : x \in 1 .. Len(s) /\ s[x].name \in Nat /\ s[x].tag = "store"
  BY <1>0, StoreOrder DEF Stores
<1>2. \A n \in StoreNames(s) : \E x \in Stores(s) : s[x].name = n
  BY DEF StoreNames, Stores
<1>3. Fresh(s, b, N)
  <2>1. CASE r.cur # None
    BY <2>1 DEF PeekStore
  <2>2. CASE r.cur = None
    <3>. DEFINE T == {j \in r.pos .. Len(s) : s[j].tag \in {"store", "ext", "payload"}}
                p == Min(T \cup {Len(s) + 1})
    <3>1. r.pos <= Len(s) + 1 /\ (r.pos <= Len(s) => s[r.pos].tag # "iavl") /\ \A j \in Stores(s) : s[j].name > N <=> j >= r.pos
      BY <1>0, <2>2 DEF Fresh
    <3>2. b = IF p <= Len(s) /\ s[p].tag = "store" THEN [pos |-> p + 1, cur |-> s[p].name]
              ELSE [pos |-> p, cur |-> None]
      BY <2>2 DEF PeekStore, FirstFrom
    <3>3. T \in SUBSET (r.pos .. Len(s)) /\ (r.pos <= Len(s) => r.pos \in T)
      <4>1. r.pos <= Len(s) => r.pos \in 1 .. Len(s)
        BY <1>0
      <4>2. r.pos <= Len(s) => s[r.pos].tag \in {"store", "ext", "payload"}
        BY <3>1, <4>1 DEF Stream
      <4>. QED BY <1>0, <4>2
    <3>4. p \in r.pos .. Len(s) + 1 /\ \A j \in r.pos .. p - 1 : j \notin T /\ j \in 1 .. Len(s)
      <4>. HIDE DEF T
      <4>1. PICK i \in Nat \ {0} : i = r.pos
        BY <1>0
      <4>2. PICK q : q = p
        OBVIOUS
      <4>3. i <= Len(s) + 1 /\ T \in SUBSET (i .. Len(s)) /\ q = Min(T \cup {Len(s) + 1})
        BY <3>1, <3>3, <4>1, <4>2
      <4>4. FirstOf(q, s, i, T)
        BY <1>0, <4>3, FirstLeast
      <4>. HIDE DEF p
      <4>. QED BY <4>1, <4>2, <4>4 DEF FirstOf
    <3>. HIDE DEF p, T
    <3>5. p = r.pos
      <4>1. CASE r.pos = Len(s) + 1
        BY <1>0, <3>4, <4>1
      <4>2. CASE r.pos <= Len(s)
        <5>1. r.pos \notin r.pos .. p - 1
          BY <3>3, <3>4, <4>2
        <5>. QED BY <1>0, <3>4, <5>1
      <4>. QED BY <1>0, <3>1, <4>1, <4>2
    <3>6. CASE p <= Len(s) /\ s[p].tag = "store"
      <4>1. b.pos = p + 1 /\ b.cur = s[p].name
        BY <3>2, <3>6
      <4>2. p \in Stores(s) /\ b.pos - 1 = p
        BY <1>0, <3>5, <3>6, <4>1 DEF Stores
      <4>3. b.cur # None
        <5>1. s[p].name > N /\ s[p].name \in Nat
          BY <1>0, <1>1, <3>1, <3>5, <4>2
        <5>. QED BY <4>1, <5>1 DEF None
      <4>. QED BY <3>1, <3>5, <4>1, <4>2, <4>3 DEF Fresh
    <3>7. CASE ~(p <= Len(s) /\ s[p].tag = "store")
      <4>1. b = [pos |-> r.pos, cur |-> None]
        BY <3>2, <3>5, <3>7
      <4>2. b = r
        BY <2>2, <4>1 DEF Readers
      <4>. QED BY <4>2
    <3>. QED BY <3>6, <3>7
  <2>. QED BY <2>1, <2>2
<1>4. b \in Readers
  BY PeekIs DEF Stream
<1>5. ASSUME b.cur # None
      PROVE  /\ Reading(s, b, b.cur) /\ b.cur > N /\ b.cur \in StoreNames(s)
             /\ \A n \in StoreNames(s) : n > N => n >= b.cur
             /\ \A i \in Leaves(s, b.cur) : i >= b.pos
  <2>1. PICK x \in Stores(s) : x = b.pos - 1 /\ s[x].name = b.cur /\ \A j \in Stores(s) : s[j].name > N <=> j >= x
    BY <1>3, <1>5 DEF Fresh
  <2>2. x \in 1 .. Len(s) /\ b.pos = x + 1 /\ b.pos \in 1 .. Len(s) + 1
    <3>1. x \in 1 .. Len(s) /\ b.pos \in Nat
      BY <1>1, <1>4 DEF Readers
    <3>. QED BY <1>0, <2>1, <3>1
  <2>3. b.cur > N /\ b.cur \in StoreNames(s)
    <3>1. x >= x
      BY <2>2
    <3>. QED BY <1>1, <2>1, <3>1 DEF StoreNames, Stores
  <2>4. ASSUME NEW n \in StoreNames(s), n > N PROVE n >= b.cur
    <3>1. PICK y \in Stores(s) : s[y].name = n
      BY <1>2
    <3>2. y >= x /\ y \in Nat /\ x \in Nat /\ s[y].name \in Nat /\ s[x].name \in Nat
      BY <1>0, <1>1, <2>1, <2>4, <3>1
    <3>3. ~(s[y].name < s[x].name)
      BY <3>2, StoreOrder
    <3>. QED BY <2>1, <3>1, <3>2, <3>3
  <2>5. ASSUME NEW i \in Leaves(s, b.cur) PROVE i >= b.pos
    <3>1. PICK n : n = b.cur
      OBVIOUS
    <3>2. i \in 1 .. Len(s)
      BY <3>1, LeafKeys
    <3>3. PICK y \in 1 .. i - 1 : s[y].tag = "store" /\ s[y].name = n
      BY <3>1, LeavesAre
    <3>4. y \in Stores(s)
      <4>1. y \in 1 .. Len(s)
        BY <1>0, <3>2
      <4>. QED BY <1>0, <3>3, <4>1 DEF Stores
    <3>5. y = x
      BY <2>1, <3>1, <3>3, <3>4, StoreOrder
    <3>. QED BY <2>2, <3>2, <3>5
  <2>6. Reading(s, b, b.cur)
    <3>1. x < b.pos /\ x + 1 .. b.pos - 1 = {}
      BY <2>2
    <3>. QED BY <1>5, <2>1, <2>2, <3>1 DEF Reading
  <2>. QED BY <2>3, <2>4, <2>5, <2>6
<1>6. ASSUME b.cur = None, NEW n \in StoreNames(s) PROVE n <= N
  <2>1. PICK x \in Stores(s) : s[x].name = n
    BY <1>2
  <2>2. \A j \in Stores(s) : s[j].name > N <=> j >= b.pos
    BY <1>3, <1>6 DEF Fresh
  <2>3. ~(x >= b.pos)
    <3>1. ASSUME x >= b.pos PROVE FALSE
      <4>1. r.cur = None
        BY <1>6 DEF PeekStore
      <4>. DEFINE T == {j \in r.pos .. Len(s) : s[j].tag \in {"store", "ext", "payload"}}
                  p == Min(T \cup {Len(s) + 1})
      <4>2. /\ r.pos \in 1 .. Len(s) + 1 /\ (r.pos <= Len(s) => s[r.pos].tag # "iavl")
            /\ \A j \in Stores(s) : s[j].name > N <=> j >= r.pos
        BY <1>0, <4>1 DEF Fresh
      <4>3. b = IF p <= Len(s) /\ s[p].tag = "store" THEN [pos |-> p + 1, cur |-> s[p].name]
                ELSE [pos |-> p, cur |-> None]
        BY <4>1 DEF PeekStore, FirstFrom
      <4>4. T \in SUBSET (r.pos .. Len(s))
        OBVIOUS
      <4>5. p \in r.pos .. Len(s) + 1 /\ (p <= Len(s) => p \in T) /\ \A j \in r.pos .. p - 1 : j \notin T /\ j \in 1 .. Len(s)
        <5>. HIDE DEF T
        <5>1. PICK i \in Nat \ {0} : i = r.pos
          BY <1>0
        <5>2. PICK q : q = p
          OBVIOUS
        <5>3. i <= Len(s) + 1 /\ T \in SUBSET (i .. Len(s)) /\ q = Min(T \cup {Len(s) + 1})
          BY <1>0, <4>2, <4>4, <5>1, <5>2
        <5>4. FirstOf(q, s, i, T)
          BY <1>0, <5>3, FirstLeast
        <5>. HIDE DEF p
        <5>. QED BY <5>1, <5>2, <5>4 DEF FirstOf
      <4>6. p <= Len(s) => s[p].tag \in {"store", "ext", "payload"}
        <5>. HIDE DEF p
        <5>. QED BY <4>5
      <4>. HIDE DEF p, T
      <4>7. ~(p <= Len(s) /\ s[p].tag = "store")
        <5>1. ASSUME p <= Len(s), s[p].tag = "store" PROVE FALSE
          <6>1. b.cur = s[p].name
            BY <4>3, <5>1
          <6>2. p \in Stores(s) /\ p >= r.pos
            BY <1>0, <4>5, <5>1 DEF Stores
          <6>3. s[p].name > N /\ s[p].name \in Nat
            BY <1>1, <4>2, <6>2
          <6>. QED BY <1>6, <6>1, <6>3 DEF None
        <5>. QED BY <5>1
      <4>8. b.pos = p
        BY <4>3, <4>7
      <4>9. x \in 1 .. Len(s) /\ p <= x /\ p <= Len(s)
        BY <1>0, <1>1, <3>1, <4>5, <4>8
      <4>10. s[p].tag \in {"ext", "payload"} /\ p \in 1 .. Len(s)
        BY <1>0, <4>5, <4>6, <4>7, <4>9
      <4>11. x # p
        BY <1>1, <4>10
      <4>12. p < x
        BY <1>0, <4>5, <4>9, <4>11
      <4>13. s[x].tag \in {"ext", "payload"}
        BY <1>0, <4>9, <4>10, <4>12 DEF Stream, Nested
      <4>. QED BY <1>1, <4>13
    <3>. QED BY <3>1
  <2>. QED BY <1>1, <2>1, <2>2, <2>3
<1>. QED BY <1>3, <1>5, <1>6

(* No store lies between N and n: up to N is up to n.                      *)
LEMMA FreshUp ==
  ASSUME NEW s, Stream(s), NEW r \in Readers, NEW N \in Nat, NEW n \in Nat, Fresh(s, r, N), N <= n,
         \A m \in StoreNames(s) : m > N => m > n
  PROVE  Fresh(s, r, n)
<1>1. \A x \in Stores(s) : s[x].name \in Nat /\ s[x].name \in StoreNames(s)
  BY StoreOrder DEF StoreNames, Stores
<1>2. \A x \in Stores(s) : s[x].name > N <=> s[x].name > n
  BY <1>1
<1>. QED BY <1>2 DEF Fresh

(* A reader inside a store moves to its next leaf, or behind the store.    *)
LEMMA AdvanceReads ==
  ASSUME NEW s, Stream(s), NEW r \in Readers, NEW n \in Nat, Reading(s, r, n),
         NEW a, a = Advance(s, r), NEW rec, rec = LeafOf(s, r)
  PROVE  /\ Side(s, a, rec, n)
         /\ rec # None => rec >= r.pos /\ \A i \in Leaves(s, n) : i >= r.pos => i >= rec
         /\ rec = None => \A i \in Leaves(s, n) : i < r.pos
<1>0. IsSeq(s) /\ Len(s) \in Nat /\ DOMAIN s = 1 .. Len(s) /\ r = [pos |-> r.pos, cur |-> r.cur]
  BY SeqFacts DEF Stream, Good, Readers
<1>1. PICK x \in Stores(s) : /\ x < r.pos /\ s[x].name = n /\ \A j \in x + 1 .. r.pos - 1 : s[j].tag = "iavl"
  BY DEF Reading
<1>2. r.cur = n /\ n # None /\ r.pos \in 1 .. Len(s) + 1 /\ x \in 1 .. Len(s) /\ s[x].tag = "store"
  BY <1>0 DEF Reading, Stores
<1>. DEFINE T == {j \in r.pos .. Len(s) : s[j].tag # "iavl" \/ s[j].height = 0}
            p == Min(T \cup {Len(s) + 1})
<1>3. NextLeaf(s, r) = p
  BY DEF NextLeaf, FirstFrom
<1>4. /\ p \in r.pos .. Len(s) + 1 /\ (p <= Len(s) => p \in T)
      /\ \A j \in r.pos .. p - 1 : j \notin T /\ j \in 1 .. Len(s)
  <2>1. T \in SUBSET (r.pos .. Len(s)) /\ r.pos \in Nat \ {0} /\ r.pos <= Len(s) + 1
    BY <1>0, <1>2
  <2>. HIDE DEF T
  <2>2. PICK i \in Nat \ {0} : i = r.pos
    BY <2>1
  <2>3. PICK q : q = p
    OBVIOUS
  <2>4. i <= Len(s) + 1 /\ T \in SUBSET (i .. Len(s)) /\ q = Min(T \cup {Len(s) + 1})
    BY <2>1, <2>2, <2>3
  <2>5. FirstOf(q, s, i, T)
    BY <1>0, <2>4, FirstLeast
  <2>. HIDE DEF p
  <2>. QED BY <2>2, <2>3, <2>5 DEF FirstOf
<1>5. \A j \in r.pos .. p - 1 : s[j].tag = "iavl" /\ ~LeafAt(s, j)
  <2>. HIDE DEF p
  <2>1. ASSUME NEW j \in r.pos .. p - 1 PROVE s[j].tag = "iavl" /\ ~LeafAt(s, j)
    <3>1. j \in r.pos .. Len(s) /\ j \notin T
      BY <1>0, <1>2, <1>4
    <3>. QED BY <3>1 DEF LeafAt
  <2>. QED BY <2>1
<1>. HIDE DEF p, T
<1>6. \A j \in x + 1 .. p - 1 : s[j].tag = "iavl"
  <2>1. ASSUME NEW j \in x + 1 .. p - 1 PROVE j \in x + 1 .. r.pos - 1 \/ j \in r.pos .. p - 1
    BY <1>0, <1>2, <1>4
  <2>. QED BY <1>1, <1>5, <2>1
<1>7. \A i \in Leaves(s, n) : i > x /\ i \in 1 .. Len(s) /\ LeafAt(s, i) /\ \A j \in x + 1 .. i : s[j].tag = "iavl"
  <2>1. ASSUME NEW i \in Leaves(s, n)
        PROVE  i > x /\ i \in 1 .. Len(s) /\ LeafAt(s, i) /\ \A j \in x + 1 .. i : s[j].tag = "iavl"
    <3>1. i \in 1 .. Len(s) /\ LeafAt(s, i)
      BY LeavesAre
    <3>2. PICK y \in 1 .. i - 1 : s[y].tag = "store" /\ s[y].name = n /\ \A j \in y + 1 .. i : s[j].tag = "iavl"
      BY LeavesAre
    <3>3. y \in Stores(s)
      <4>1. y \in 1 .. Len(s)
        BY <1>0, <3>1
      <4>. QED BY <1>0, <3>2, <4>1 DEF Stores
    <3>4. y = x
      BY <1>1, <3>2, <3>3, StoreOrder
    <3>. QED BY <1>2, <3>1, <3>2, <3>4
  <2>. QED BY <2>1
<1>8. CASE p <= Len(s) /\ LeafAt(s, p)
  <2>1. rec = p /\ a = [pos |-> p + 1, cur |-> n] /\ rec # None
    <3>1. HasLeaf(s, r)
      BY <1>3, <1>8 DEF HasLeaf
    <3>2. [r EXCEPT !.pos = p + 1] = [pos |-> p + 1, cur |-> n]
      BY <1>0, <1>2
    <3>3. p # None
      BY <1>0, <1>2, <1>4 DEF None
    <3>. QED BY <1>3, <3>1, <3>2, <3>3 DEF LeafOf, Advance
  <2>2. p \in Leaves(s, n)
    <3>1. p \in 1 .. Len(s) /\ x \in 1 .. p - 1
      BY <1>0, <1>1, <1>2, <1>4, <1>8
    <3>2. \A j \in x + 1 .. p : s[j].tag = "iavl"
      <4>1. ASSUME NEW j \in x + 1 .. p PROVE j = p \/ j \in x + 1 .. p - 1
        BY <3>1
      <4>. QED BY <1>6, <1>8, <4>1 DEF LeafAt
    <3>. QED BY <1>1, <1>2, <1>8, <3>1, <3>2, LeavesAre
  <2>3. Reading(s, a, n)
    <3>1. a.pos = p + 1 /\ a.cur = n /\ a.pos \in 1 .. Len(s) + 1 /\ x < a.pos
      BY <1>0, <1>2, <1>4, <1>8, <1>1, <2>1
    <3>2. \A j \in x + 1 .. a.pos - 1 : s[j].tag = "iavl"
      <4>1. ASSUME NEW j \in x + 1 .. a.pos - 1 PROVE j = p \/ j \in x + 1 .. p - 1
        BY <1>0, <1>2, <1>4, <3>1
      <4>. QED BY <1>6, <1>8, <4>1 DEF LeafAt
    <3>. QED BY <1>1, <1>2, <3>1, <3>2 DEF Reading
  <2>4. ASSUME NEW i \in Leaves(s, n), i >= r.pos PROVE i >= rec
    <3>1. i \in Nat /\ LeafAt(s, i)
      BY <1>0, <1>7
    <3>2. i \notin r.pos .. p - 1
      BY <1>5, <3>1
    <3>. QED BY <1>0, <1>2, <1>4, <2>1, <2>4, <3>1, <3>2
  <2>5. rec >= r.pos
    BY <1>0, <1>2, <1>4, <2>1
  <2>6. a.pos = rec + 1
    BY <2>1
  <2>7. Side(s, a, rec, n)
    BY <2>1, <2>2, <2>3, <2>6 DEF Side
  <2>. QED BY <2>1, <2>4, <2>5, <2>7
<1>9. CASE ~(p <= Len(s) /\ LeafAt(s, p))
  <2>1. rec = None /\ a = [pos |-> p, cur |-> None]
    BY <1>3, <1>9 DEF HasLeaf, LeafOf, Advance
  <2>2. p <= Len(s) => s[p].tag # "iavl"
    BY <1>4, <1>9 DEF T, LeafAt
  <2>3. ASSUME NEW i \in Leaves(s, n) PROVE i < r.pos
    <3>1. i \in 1 .. Len(s) /\ i > x /\ LeafAt(s, i) /\ \A j \in x + 1 .. i : s[j].tag = "iavl"
      BY <1>7
    <3>2. i \notin r.pos .. p - 1
      BY <1>5, <3>1
    <3>3. ~(p <= i)
      <4>1. ASSUME p <= i PROVE FALSE
        <5>1. p \in x + 1 .. i /\ p <= Len(s)
          BY <1>0, <1>1, <1>2, <1>4, <3>1, <4>1
        <5>. QED BY <2>2, <3>1, <5>1
      <4>. QED BY <4>1
    <3>. QED BY <1>0, <1>2, <1>4, <3>1, <3>2, <3>3
  <2>4. ASSUME NEW j \in Stores(s) PROVE s[j].name > n <=> j >= p
    <3>1. j \in 1 .. Len(s) /\ s[j].tag = "store" /\ (x < j <=> s[x].name < s[j].name) /\ s[j].name \in Nat
      BY <1>0, StoreOrder DEF Stores
    <3>2. s[j].name > n <=> x < j
      BY <1>1, <3>1
    <3>3. x < j <=> j >= p
      <4>1. j \notin x + 1 .. p - 1
        BY <1>6, <3>1
      <4>. QED BY <1>0, <1>1, <1>2, <1>4, <3>1, <4>1
    <3>. QED BY <3>2, <3>3
  <2>5. p \in 1 .. Len(s) + 1
    BY <1>0, <1>2, <1>4
  <2>6. a.pos = p /\ a.cur = None
    BY <2>1
  <2>7. Fresh(s, a, n)
    BY <2>2, <2>4, <2>5, <2>6 DEF Fresh
  <2>. QED BY <2>1, <2>3, <2>7 DEF Side
<1>. QED BY <1>8, <1>9

(* A store that is not in the stream has no leaves.                        *)
LEMMA NoLeaves ==
  ASSUME NEW s, Stream(s), NEW n, n \notin StoreNames(s)
  PROVE  Leaves(s, n) = {} /\ LeafItems(s, n) = {} /\ KVs(s, n) = {} /\ \A i : Read(s, n, i) = {}
<1>1. ASSUME NEW i \in Leaves(s, n) PROVE FALSE
  <2>1. i \in 1 .. Len(s) /\ Len(s) \in Nat /\ DOMAIN s = 1 .. Len(s)
    BY LeafKeys
  <2>2. PICK x \in 1 .. i - 1 : s[x].tag = "store" /\ s[x].name = n
    BY LeavesAre
  <2>3. x \in DOMAIN s
    BY <2>1
  <2>. QED BY <2>2, <2>3 DEF StoreNames
<1>2. Leaves(s, n) = {}
  BY <1>1
<1>. QED BY <1>2 DEF LeafItems, KVs, Read

(* The first leaf of store n, if the reader stands before it.              *)
LEMMA EnterSide ==
  ASSUME NEW s, Stream(s), NEW r \in Readers, NEW N \in Nat, Fresh(s, r, N), NEW b, b = PeekStore(s, r),
         NEW n \in Nat, n > N, b.cur # None => n <= b.cur,
         NEW a, a = (IF b.cur = n THEN Advance(s, b) ELSE b), NEW i, i = (IF b.cur = n THEN LeafOf(s, b) ELSE None)
  PROVE  Side(s, a, i, n) /\ Read(s, n, i) = {}
<1>1. b \in Readers /\ b.cur \in Nat /\ b.pos \in Nat
  <2>1. b \in Readers
    BY PeekIs DEF Stream
  <2>. QED BY <2>1 DEF Readers
<1>2. /\ Fresh(s, b, N)
      /\ b.cur # None => /\ Reading(s, b, b.cur) /\ b.cur > N /\ b.cur \in StoreNames(s)
                         /\ \A m \in StoreNames(s) : m > N => m >= b.cur
                         /\ \A j \in Leaves(s, b.cur) : j >= b.pos
      /\ b.cur = None => \A m \in StoreNames(s) : m <= N
  BY PeekReads
<1>3. \A m \in StoreNames(s) : m \in Nat
  <2>1. \A x \in Stores(s) : s[x].name \in Nat
    BY StoreOrder
  <2>. QED BY <2>1 DEF Stores, StoreNames
<1>4. CASE b.cur = n
  <2>1. n # None
    BY DEF None
  <2>2. Reading(s, b, n) /\ a = Advance(s, b) /\ i = LeafOf(s, b) /\ \A j \in Leaves(s, n) : j >= b.pos
    BY <1>2, <1>4, <2>1
  <2>3. /\ Side(s, a, i, n)
        /\ i # None => i >= b.pos /\ \A j \in Leaves(s, n) : j >= b.pos => j >= i
        /\ i = None => \A j \in Leaves(s, n) : j < b.pos
    BY <1>1, <2>2, AdvanceReads
  <2>4. AtLeaf(s, i)
    BY <1>1, <2>2, AdvanceIs DEF Stream
  <2>5. i \in Nat /\ \A j \in Leaves(s, n) : j \in Nat
    <3>1. \A j \in Leaves(s, n) : j \in 1 .. Len(s)
      BY LeafKeys
    <3>. QED BY <2>4, <3>1 DEF AtLeaf, None
  <2>6. ASSUME NEW j \in Leaves(s, n) PROVE ~(i = None \/ j < i)
    BY <1>1, <2>2, <2>3, <2>5
  <2>. QED BY <2>3, <2>6 DEF Read
<1>5. CASE b.cur # n
  <2>1. a = b /\ i = None
    BY <1>5
  <2>2. \A m \in StoreNames(s) : m > N => m > n
    BY <1>1, <1>2, <1>3, <1>5
  <2>3. n \notin StoreNames(s)
    BY <2>2
  <2>4. Fresh(s, b, n)
    BY <1>1, <1>2, <2>2, FreshUp
  <2>. QED BY <2>1, <2>3, <2>4, NoLeaves DEF Side
<1>. QED BY <1>4, <1>5

(* From one leaf to the next.                                              *)
LEMMA NextSide ==
  ASSUME NEW s, Stream(s), NEW r \in Readers, NEW n \in Nat, NEW i, i # None, Side(s, r, i, n),
         NEW a, a = Advance(s, r), NEW j, j = LeafOf(s, r)
  PROVE  /\ Side(s, a, j, n) /\ Read(s, n, j) = Read(s, n, i) \cup {s[i]}
         /\ \A x \in Read(s, n, i) : x.key # s[i].key
         /\ i \in Leaves(s, n)
         /\ j # None => j > i /\ j \in Leaves(s, n)
         /\ \A l \in Leaves(s, n) : l > i => j # None /\ l >= j
<1>1. Reading(s, r, n) /\ i \in Leaves(s, n) /\ r.pos = i + 1
  BY DEF Side
<1>2. /\ Side(s, a, j, n)
      /\ j # None => j >= r.pos /\ \A l \in Leaves(s, n) : l >= r.pos => l >= j
      /\ j = None => \A l \in Leaves(s, n) : l < r.pos
  BY <1>1, AdvanceReads
<1>3. /\ \A l \in Leaves(s, n) : l \in Nat
      /\ \A l, m \in Leaves(s, n) : s[l].key = s[m].key => l = m
  <2>1. Leaves(s, n) \in SUBSET (1 .. Len(s)) /\ \A l, m \in Leaves(s, n) : s[l].key = s[m].key => l = m
    BY LeafKeys
  <2>. QED BY <2>1
<1>4. j \in Nat
  <2>1. AtLeaf(s, j)
    BY AdvanceIs DEF Stream
  <2>. QED BY <2>1 DEF AtLeaf, None
<1>5. j # None => j > i /\ j \in Leaves(s, n)
  BY <1>1, <1>2, <1>3, <1>4 DEF Side
<1>6. \A l \in Leaves(s, n) : l > i => j # None /\ l >= j
  BY <1>1, <1>2, <1>3, <1>4
<1>7. \A l \in Leaves(s, n) : (j = None \/ l < j) <=> (i = None \/ l < i) \/ l = i
  BY <1>1, <1>2, <1>3, <1>4, <1>5
<1>8. Read(s, n, j) = Read(s, n, i) \cup {s[i]}
  BY <1>1, <1>7 DEF Read
<1>9. ASSUME NEW x \in Read(s, n, i) PROVE x.key # s[i].key
  <2>1. PICK l \in Leaves(s, n) : x = s[l] /\ (i = None \/ l < i)
    BY DEF Read
  <2>2. l # i
    BY <1>1, <1>3, <2>1
  <2>. QED BY <1>1, <1>3, <2>1, <2>2
<1>. QED BY <1>1, <1>2, <1>5, <1>6, <1>8, <1>9

-----------------------------------------------------------------------------
(* One more record of a store.                                             *)

LEMMA GivenNone == Given({}, {}, {})
BY DEF Given

(* An Insert for the next leaf of the target.                              *)
LEMMA GivenInsert ==
  ASSUME NEW R, NEW B, NEW T, Given(R, B, T), NEW t, \A x \in T : x.key # t.key
  PROVE  Given(R \cup {Insert(t.key, t.val)}, B, T \cup {t})
<1>. DEFINE q == Insert(t.key, t.val)
            S == R \cup {q}
            U == T \cup {t}
<1>1. q.tag = "Insert" /\ q.key = t.key /\ q.val = t.val
  BY DEF Insert
<1>. HIDE DEF q
<1>2. \A k : /\ Has(S, "Insert", k) <=> Has(R, "Insert", k) \/ k = t.key
             /\ Has(S, "Delete", k) <=> Has(R, "Delete", k)
             /\ Has(S, "Update", k) <=> Has(R, "Update", k)
  BY <1>1 DEF Has
<1>3. ASSUME NEW r \in S
      PROVE  /\ r.tag \in Edits
             /\ r.tag = "Delete" => \E b \in B : b.key = r.key
             /\ r.tag # "Delete" => \E x \in U : x.key = r.key /\ x.val = r.val
  BY <1>1 DEF Given, Edits
<1>. HIDE DEF S
<1>4. ASSUME NEW x \in U
      PROVE  \/ Has(S, "Insert", x.key)
             \/ /\ ~Has(S, "Delete", x.key)
                /\ \E b \in B : b.key = x.key /\ (Has(S, "Update", x.key) \/ b.val = x.val)
  <2>1. CASE x = t
    BY <1>2, <2>1
  <2>2. CASE x \in T
    BY <1>2, <2>2 DEF Given
  <2>. QED BY <2>1, <2>2
<1>5. ASSUME NEW b \in B
      PROVE  Has(S, "Delete", b.key) \/ (~Has(S, "Insert", b.key) /\ \E x \in U : x.key = b.key)
  <2>1. Has(R, "Delete", b.key) \/ (~Has(R, "Insert", b.key) /\ \E x \in T : x.key = b.key)
    BY DEF Given
  <2>. QED BY <1>2, <2>1
<1>6. Given(S, B, U)
  <2>. HIDE DEF U
  <2>. QED BY <1>3, <1>4, <1>5 DEF Given
<1>. QED BY <1>6 DEF S, U, q

LEMMA GivenDelete ==
  ASSUME NEW R, NEW B, NEW T, Given(R, B, T), NEW b, \A x \in B : x.key # b.key
  PROVE  Given(R \cup {Delete(b.key)}, B \cup {b}, T)
<1>. DEFINE q == Delete(b.key)
            S == R \cup {q}
            U == B \cup {b}
<1>1. q.tag = "Delete" /\ q.key = b.key
  BY DEF Delete
<1>. HIDE DEF q
<1>2. \A k : /\ Has(S, "Insert", k) <=> Has(R, "Insert", k)
             /\ Has(S, "Delete", k) <=> Has(R, "Delete", k) \/ k = b.key
             /\ Has(S, "Update", k) <=> Has(R, "Update", k)
  BY <1>1 DEF Has
<1>3. ASSUME NEW r \in S
      PROVE  /\ r.tag \in Edits
             /\ r.tag = "Delete" => \E x \in U : x.key = r.key
             /\ r.tag # "Delete" => \E t \in T : t.key = r.key /\ t.val = r.val
  BY <1>1 DEF Given, Edits
<1>. HIDE DEF S
<1>4. ASSUME NEW t \in T
      PROVE  \/ Has(S, "Insert", t.key)
             \/ /\ ~Has(S, "Delete", t.key)
                /\ \E x \in U : x.key = t.key /\ (Has(S, "Update", t.key) \/ x.val = t.val)
  <2>1. \/ Has(R, "Insert", t.key)
        \/ /\ ~Has(R, "Delete", t.key)
           /\ \E x \in B : x.key = t.key /\ (Has(R, "Update", t.key) \/ x.val = t.val)
    BY DEF Given
  <2>. QED BY <1>2, <2>1
<1>5. ASSUME NEW x \in U
      PROVE  Has(S, "Delete", x.key) \/ (~Has(S, "Insert", x.key) /\ \E t \in T : t.key = x.key)
  <2>1. CASE x = b
    BY <1>2, <2>1
  <2>2. CASE x \in B
    BY <1>2, <2>2 DEF Given
  <2>. QED BY <2>1, <2>2
<1>6. Given(S, U, T)
  <2>. HIDE DEF U
  <2>. QED BY <1>3, <1>4, <1>5 DEF Given
<1>. QED BY <1>6 DEF S, U, q

(* A leaf of both sides: equal, or with an Update.                         *)
LEMMA GivenBoth ==
  ASSUME NEW R, NEW B, NEW T, Given(R, B, T), NEW b, NEW t, b.key = t.key,
         \A x \in B : x.key # b.key, \A x \in T : x.key # t.key,
         NEW S, (S = R /\ b.val = t.val) \/ S = R \cup {Update(b.key, t.val)}
  PROVE  Given(S, B \cup {b}, T \cup {t})
<1>. DEFINE q == Update(b.key, t.val)
            U == B \cup {b}
            V == T \cup {t}
<1>1. q.tag = "Update" /\ q.key = b.key /\ q.val = t.val
  BY DEF Update
<1>0. (S = R /\ b.val = t.val) \/ S = R \cup {q}
  OBVIOUS
<1>. HIDE DEF q
<1>2. \A k : /\ Has(S, "Insert", k) <=> Has(R, "Insert", k)
             /\ Has(S, "Delete", k) <=> Has(R, "Delete", k)
             /\ Has(R, "Update", k) => Has(S, "Update", k)
  BY <1>0, <1>1 DEF Has
<1>3. b.val = t.val \/ Has(S, "Update", t.key)
  BY <1>0, <1>1 DEF Has
<1>4. ~Has(R, "Delete", t.key) /\ ~Has(R, "Insert", b.key)
  BY DEF Given, Has
<1>5. ASSUME NEW r \in S
      PROVE  /\ r.tag \in Edits
             /\ r.tag = "Delete" => \E x \in U : x.key = r.key
             /\ r.tag # "Delete" => \E y \in V : y.key = r.key /\ y.val = r.val
  <2>1. CASE r \in R
    BY <2>1 DEF Given
  <2>2. CASE r = q
    BY <1>1, <2>2 DEF Edits
  <2>. QED BY <1>0, <2>1, <2>2
<1>6. ASSUME NEW y \in V
      PROVE  \/ Has(S, "Insert", y.key)
             \/ /\ ~Has(S, "Delete", y.key)
                /\ \E x \in U : x.key = y.key /\ (Has(S, "Update", y.key) \/ x.val = y.val)
  <2>1. CASE y = t
    BY <1>2, <1>3, <1>4, <2>1
  <2>2. CASE y \in T
    <3>1. \/ Has(R, "Insert", y.key)
          \/ /\ ~Has(R, "Delete", y.key)
             /\ \E x \in B : x.key = y.key /\ (Has(R, "Update", y.key) \/ x.val = y.val)
      BY <2>2 DEF Given
    <3>. QED BY <1>2, <3>1
  <2>. QED BY <2>1, <2>2
<1>7. ASSUME NEW x \in U
      PROVE  Has(S, "Delete", x.key) \/ (~Has(S, "Insert", x.key) /\ \E y \in V : y.key = x.key)
  <2>1. CASE x = b
    BY <1>2, <1>4, <2>1
  <2>2. CASE x \in B
    <3>1. Has(R, "Delete", x.key) \/ (~Has(R, "Insert", x.key) /\ \E y \in T : y.key = x.key)
      BY <2>2 DEF Given
    <3>. QED BY <1>2, <3>1
  <2>. QED BY <2>1, <2>2
<1>8. Given(S, U, V)
  <2>. HIDE DEF U, V
  <2>. QED BY <1>5, <1>6, <1>7 DEF Given
<1>. QED BY <1>8 DEF U, V

-----------------------------------------------------------------------------
(* A file that grows.                                                      *)

(* What a longer file keeps of a shorter one.                              *)
Grown(g, f, q) ==
  /\ IsSeq(g) /\ Len(f) \in Nat /\ Len(q) \in Nat /\ Len(g) = Len(f) + Len(q)
  /\ DOMAIN f = 1 .. Len(f) /\ DOMAIN g = 1 .. Len(g) /\ DOMAIN q = 1 .. Len(q)
  /\ \A i \in 1 .. Len(f) : i \in 1 .. Len(g) /\ g[i] = f[i]
  /\ \A i \in 1 .. Len(q) : Len(f) + i \in 1 .. Len(g) /\ g[Len(f) + i] = q[i]
  /\ \A i \in 1 .. Len(g) : i \in 1 .. Len(f) \/ (i > Len(f) /\ i - Len(f) \in 1 .. Len(q) /\ g[i] = q[i - Len(f)])

LEMMA Grows ==
  ASSUME NEW f, IsSeq(f), NEW q, IsSeq(q), NEW g, g = f \o q
  PROVE  Grown(g, f, q)
<1>1. /\ IsSeq(g) /\ Len(g) = Len(f) + Len(q)
      /\ \A i \in 1 .. Len(f) : g[i] = f[i]
      /\ \A i \in 1 .. Len(q) : g[Len(f) + i] = q[i]
  BY Concat
<1>2. Len(f) \in Nat /\ Len(q) \in Nat /\ DOMAIN f = 1 .. Len(f) /\ DOMAIN g = 1 .. Len(g) /\ DOMAIN q = 1 .. Len(q)
  BY <1>1, SeqFacts
<1>3. \A i \in 1 .. Len(f) : i \in 1 .. Len(g)
  BY <1>1, <1>2
<1>4. \A i \in 1 .. Len(q) : Len(f) + i \in 1 .. Len(g)
  BY <1>1, <1>2
<1>5. ASSUME NEW i \in 1 .. Len(g), i \notin 1 .. Len(f)
      PROVE  i > Len(f) /\ i - Len(f) \in 1 .. Len(q) /\ g[i] = q[i - Len(f)]
  <2>1. i > Len(f) /\ i - Len(f) \in 1 .. Len(q) /\ i = Len(f) + (i - Len(f))
    BY <1>1, <1>2, <1>5
  <2>. QED BY <1>1, <2>1
<1>. QED BY <1>1, <1>2, <1>3, <1>4, <1>5 DEF Grown

(* A closed section stays closed.                                          *)
LEMMA StaysClosed ==
  ASSUME NEW f, IsSeq(f), NEW q, IsSeq(q), NEW g, g = f \o q, NEW x \in 1 .. Len(f), NEW b, NEW t
  PROVE  /\ Closed(f, x, b, t) => Closed(g, x, b, t)
         /\ ExtClosed(f, x, b, t) => ExtClosed(g, x, b, t)
<1>1. /\ Len(f) \in Nat /\ Len(q) \in Nat /\ Len(g) = Len(f) + Len(q)
      /\ \A i \in 1 .. Len(f) : i \in 1 .. Len(g) /\ g[i] = f[i]
  BY Grows DEF Grown
<1>2. g[x] = f[x]
  BY <1>1
<1>3. ASSUME NEW e \in x + 1 .. Len(f)
      PROVE  e \in x + 1 .. Len(g) /\ g[e] = f[e] /\ Span(g, x + 1, e - 1) = Span(f, x + 1, e - 1)
  <2>1. e \in x + 1 .. Len(g) /\ e \in 1 .. Len(f)
    BY <1>1
  <2>2. \A j \in x + 1 .. e - 1 : g[j] = f[j]
    <3>1. \A j \in x + 1 .. e - 1 : j \in 1 .. Len(f)
      BY <1>1
    <3>. QED BY <1>1, <3>1
  <2>. QED BY <1>1, <2>1, <2>2 DEF Span
<1>. QED BY <1>2, <1>3 DEF Closed, ExtClosed

EntersGrown(g, f, q) ==
  /\ \A x \in Enters(f) : x \in Enters(g) /\ g[x] = f[x] /\ x \in 1 .. Len(f)
  /\ \A x \in ExtEnters(f) : x \in ExtEnters(g) /\ g[x] = f[x] /\ x \in 1 .. Len(f)
  /\ \A x \in Enters(g) : x \in Enters(f) \/ (x > Len(f) /\ x - Len(f) \in Enters(q) /\ g[x] = q[x - Len(f)])
  /\ \A x \in ExtEnters(g) : x \in ExtEnters(f) \/ (x > Len(f) /\ x - Len(f) \in ExtEnters(q) /\ g[x] = q[x - Len(f)])

LEMMA EntersOf ==
  ASSUME NEW f, IsSeq(f), NEW q, IsSeq(q), NEW g, g = f \o q
  PROVE  EntersGrown(g, f, q)
<1>1. Grown(g, f, q)
  BY Grows
<1>. QED BY <1>1 DEF Grown, EntersGrown, Enters, ExtEnters

SpanGrown(g, f, x, r) ==
  /\ Len(g) = Len(f) + 1 /\ Len(f) \in Nat /\ g[Len(g)] = r /\ IsSeq(<<r>>)
  /\ Span(g, x + 1, Len(g)) = Span(f, x + 1, Len(f)) \cup {r}
  /\ Span(g, x + 1, Len(g) - 1) = Span(f, x + 1, Len(f))

(* The last span of a file that has grown by one record.                   *)
LEMMA SpanGrows ==
  ASSUME NEW f, IsSeq(f), NEW r, NEW g, g = f \o <<r>>, NEW x \in 1 .. Len(f)
  PROVE  SpanGrown(g, f, x, r)
<1>1. IsSeq(<<r>>) /\ Len(<<r>>) = 1 /\ <<r>>[1] = r
  BY OneElement
<1>2. /\ Len(f) \in Nat /\ Len(g) = Len(f) + 1
      /\ \A i \in 1 .. Len(f) : g[i] = f[i]
      /\ \A i \in 1 .. 1 : g[Len(f) + i] = <<r>>[i]
  BY <1>1, Grows DEF Grown
<1>3. g[Len(f) + 1] = r
  BY <1>1, <1>2
<1>4. \A j : j \in x + 1 .. Len(g) <=> j \in x + 1 .. Len(f) \/ j = Len(f) + 1
  BY <1>2
<1>5. \A j \in x + 1 .. Len(f) : g[j] = f[j]
  BY <1>2
<1>6. x + 1 .. Len(g) - 1 = x + 1 .. Len(f)
  BY <1>2
<1>7. Span(g, x + 1, Len(g) - 1) = Span(f, x + 1, Len(f))
  BY <1>5, <1>6 DEF Span
<1>8. Span(g, x + 1, Len(g)) = Span(f, x + 1, Len(f)) \cup {r}
  BY <1>3, <1>4, <1>5 DEF Span
<1>. QED BY <1>1, <1>2, <1>3, <1>7, <1>8 DEF SpanGrown

LEMMA HeadStays ==
  ASSUME NEW f, IsSeq(f), NEW q, IsSeq(q), NEW g, g = f \o q, FileHead(f)
  PROVE  FileHead(g)
<1>1. /\ Len(f) \in Nat /\ Len(q) \in Nat /\ Len(g) = Len(f) + Len(q)
      /\ \A i \in 1 .. Len(f) : g[i] = f[i]
  BY Grows DEF Grown
<1>2. 1 \in 1 .. Len(f) /\ 2 \in 1 .. Len(f)
  BY <1>1 DEF FileHead
<1>. QED BY <1>1, <1>2 DEF FileHead

(* Names of a pair of snapshots.                                           *)
LEMMA NamesAre ==
  ASSUME NEW b, Stream(b), NEW t, Stream(t)
  PROVE  \A n \in AllNames(b, t) : n \in Nat
<1>1. \A x \in Stores(b) : b[x].name \in Nat
  BY StoreOrder
<1>2. \A x \in Stores(t) : t[x].name \in Nat
  BY StoreOrder
<1>. QED BY <1>1, <1>2 DEF AllNames, StoreNames, Stores

-----------------------------------------------------------------------------
(* Compute, step by step.                                                  *)

(* EnterStore takes the first store that neither side has passed.          *)
LEMMA EnterName ==
  ASSUME NEW f, IsSeq(f), NEW b, Stream(b), NEW t, Stream(t), NEW r \in Readers, NEW u \in Readers, AtPeek(f, b, t, r, u),
         NEW p, p = PeekStore(b, r), NEW q, q = PeekStore(t, u), p.cur # None \/ q.cur # None,
         NEW n, n = (IF p.cur # None /\ (q.cur = None \/ p.cur <= q.cur) THEN p.cur ELSE q.cur),
         NEW r1, r1 = (IF p.cur = n THEN Advance(b, p) ELSE p), NEW i, i = (IF p.cur = n THEN LeafOf(b, p) ELSE None),
         NEW u1, u1 = (IF q.cur = n THEN Advance(t, q) ELSE q), NEW j, j = (IF q.cur = n THEN LeafOf(t, q) ELSE None)
  PROVE  \E N \in Nat :
           /\ SoFar(f, N, AllNames(b, t)) /\ ExtEnters(f) = {} /\ \A x \in Enters(f) : Closed(f, x, b, t)
           /\ n \in Nat /\ n > N /\ n \in AllNames(b, t) /\ (\A m \in AllNames(b, t) : m > N => m >= n)
           /\ Side(b, r1, i, n) /\ Side(t, u1, j, n) /\ Read(b, n, i) = {} /\ Read(t, n, j) = {}
<1>1. PICK N \in {0} \cup AllNames(b, t) :
        /\ Fresh(b, r, N) /\ Fresh(t, u, N) /\ SoFar(f, N, AllNames(b, t))
        /\ ExtEnters(f) = {} /\ \A x \in Enters(f) : Closed(f, x, b, t)
  BY DEF AtPeek
<1>2. N \in Nat /\ \A m \in AllNames(b, t) : m \in Nat
  BY NamesAre
<1>3. p.cur \in Nat /\ q.cur \in Nat
  <2>1. p \in Readers /\ q \in Readers
    BY PeekIs DEF Stream
  <2>. QED BY <2>1 DEF Readers
<1>4. /\ p.cur # None => p.cur > N /\ p.cur \in StoreNames(b) /\ \A m \in StoreNames(b) : m > N => m >= p.cur
      /\ p.cur = None => \A m \in StoreNames(b) : m <= N
  BY <1>1, <1>2, PeekReads
<1>5. /\ q.cur # None => q.cur > N /\ q.cur \in StoreNames(t) /\ \A m \in StoreNames(t) : m > N => m >= q.cur
      /\ q.cur = None => \A m \in StoreNames(t) : m <= N
  BY <1>1, <1>2, PeekReads
<1>6. /\ n \in Nat /\ n > N /\ n \in AllNames(b, t) /\ (p.cur # None => n <= p.cur) /\ (q.cur # None => n <= q.cur)
  BY <1>3, <1>4, <1>5 DEF AllNames
<1>7. \A m \in AllNames(b, t) : m > N => m >= n
  <2>1. ASSUME NEW m \in StoreNames(b), m > N PROVE m >= n
    <3>1. m \in Nat
      BY <1>2 DEF AllNames
    <3>. QED BY <1>2, <1>3, <1>4, <1>6, <2>1, <3>1
  <2>2. ASSUME NEW m \in StoreNames(t), m > N PROVE m >= n
    <3>1. m \in Nat
      BY <1>2 DEF AllNames
    <3>. QED BY <1>2, <1>3, <1>5, <1>6, <2>2, <3>1
  <2>. QED BY <2>1, <2>2 DEF AllNames
<1>8. Side(b, r1, i, n) /\ Read(b, n, i) = {}
  BY <1>1, <1>2, <1>6, EnterSide, SMTT(60)
<1>9. Side(t, u1, j, n) /\ Read(t, n, j) = {}
  BY <1>1, <1>2, <1>6, EnterSide, SMTT(60)
<1>. QED BY <1>1, <1>2, <1>6, <1>7, <1>8, <1>9

(* After EnterStore both sides stand at the first leaf of the store.       *)
LEMMA EnterGives ==
  ASSUME NEW f, IsSeq(f), NEW b, Stream(b), NEW t, Stream(t), NEW N \in Nat, NEW n \in Nat, n > N,
         SoFar(f, N, AllNames(b, t)), ExtEnters(f) = {}, \A x \in Enters(f) : Closed(f, x, b, t),
         n \in AllNames(b, t), \A m \in AllNames(b, t) : m > N => m >= n,
         NEW g, g = f \o <<StoreEnter(n)>>, NEW r1, NEW i, NEW u1, NEW j,
         Side(b, r1, i, n), Side(t, u1, j, n), Read(b, n, i) = {}, Read(t, n, j) = {}
  PROVE  AtMerge(g, b, t, n, r1, i, u1, j)
<1>2. N \in Nat /\ \A m \in AllNames(b, t) : m \in Nat
  BY NamesAre
<1>. DEFINE s == <<StoreEnter(n)>>
<1>10. IsSeq(s) /\ Len(s) = 1 /\ s[1] = StoreEnter(n) /\ g = f \o s
  BY OneElement
<1>11. StoreEnter(n).tag = "StoreEnter" /\ StoreEnter(n).name = n
  BY DEF StoreEnter
<1>12. ExtEnters(s) = {} /\ \A x \in Enters(s) : x = 1
  <2>1. DOMAIN s = 1 .. 1
    BY <1>10, SeqFacts
  <2>. QED BY <1>10, <1>11, <2>1 DEF ExtEnters, Enters
<1>. HIDE DEF s
<1>13. /\ Len(f) \in Nat /\ Len(g) = Len(f) + 1 /\ DOMAIN g = 1 .. Len(g)
       /\ \A k \in 1 .. Len(f) : g[k] = f[k]
       /\ \A k \in 1 .. 1 : Len(f) + k \in 1 .. Len(g) /\ g[Len(f) + k] = s[k]
  BY <1>10, Grows DEF Grown
<1>14. PICK z : z = Len(f) + 1 /\ z \in Enters(g) /\ g[z].name = n /\ z = Len(g)
  BY <1>10, <1>11, <1>13 DEF Enters
<1>15. /\ \A x \in Enters(f) : x \in Enters(g) /\ g[x] = f[x] /\ x \in 1 .. Len(f)
       /\ \A x \in ExtEnters(g) : x \in ExtEnters(f) \/ x - Len(f) \in ExtEnters(s)
       /\ \A x \in Enters(g) : x \in Enters(f) \/ (x > Len(f) /\ x - Len(f) \in Enters(s))
  BY <1>10, EntersOf DEF EntersGrown
<1>16. \A x \in Enters(g) : x \in Enters(f) \/ x = z
  <2>1. \A x \in Enters(g) : x \in Nat
    BY <1>13 DEF Enters
  <2>. QED BY <1>12, <1>13, <1>14, <1>15, <2>1
<1>17. ExtEnters(g) = {}
  BY <1>12, <1>15
<1>18. \A x \in Enters(f) : f[x].name \in Nat /\ f[x].name <= N /\ f[x].name \in AllNames(b, t) /\ g[x].name = f[x].name /\ x < z
  <2>1. \A x \in Enters(f) : f[x].name \in AllNames(b, t) /\ f[x].name <= N
    BY DEF SoFar
  <2>2. \A x \in Enters(f) : f[x].name \in Nat /\ g[x].name = f[x].name
    BY <1>2, <1>15, <2>1
  <2>3. \A x \in Enters(f) : x < z
    BY <1>13, <1>14, <1>15
  <2>. QED BY <2>1, <2>2, <2>3
<1>19. SoFar(g, n, AllNames(b, t))
  <2>1. ASSUME NEW x \in Enters(g) PROVE g[x].name \in AllNames(b, t) /\ g[x].name <= n
    <3>1. CASE x = z
      BY <1>14, <3>1
    <3>2. CASE x \in Enters(f)
      <4>1. PICK m \in Nat : m = f[x].name
        BY <1>18, <3>2
      <4>2. m <= N /\ g[x].name = m /\ m \in AllNames(b, t)
        BY <1>18, <3>2, <4>1
      <4>3. m <= n
        BY <4>2
      <4>. QED BY <4>2, <4>3
    <3>. QED BY <1>16, <3>1, <3>2
  <2>2. ASSUME NEW m \in AllNames(b, t), m <= n PROVE \E x \in Enters(g) : g[x].name = m
    <3>1. CASE m <= N
      <4>1. PICK x \in Enters(f) : f[x].name = m
        BY <3>1 DEF SoFar
      <4>. QED BY <1>15, <4>1
    <3>2. CASE m > N
      <4>1. m = n
        BY <1>2, <2>2, <3>2
      <4>. QED BY <1>14, <4>1
    <3>3. m \in Nat
      BY <1>2
    <3>4. m <= N \/ m > N
      BY <3>3
    <3>. QED BY <3>1, <3>2, <3>4
  <2>3. ASSUME NEW x \in Enters(g), NEW y \in Enters(g), x < y PROVE g[x].name < g[y].name
    <3>1. CASE x \in Enters(f) /\ y \in Enters(f)
      BY <1>15, <2>3, <3>1 DEF SoFar
    <3>2. CASE x \in Enters(f) /\ y = z
      <4>1. PICK m \in Nat : m = f[x].name
        BY <1>18, <3>2
      <4>2. m <= N /\ g[x].name = m /\ g[y].name = n
        BY <1>14, <1>18, <3>2, <4>1
      <4>3. m < n
        BY <4>2
      <4>. QED BY <4>2, <4>3
    <3>3. CASE x = z
      BY <1>13, <1>14, <1>15, <1>16, <2>3, <3>3
    <3>. QED BY <1>16, <3>1, <3>2, <3>3
  <2>. QED BY <2>1, <2>2, <2>3 DEF SoFar
<1>20. ASSUME NEW y \in Enters(g), y # z PROVE Closed(g, y, b, t)
  <2>1. y \in Enters(f) /\ y \in 1 .. Len(f) /\ Closed(f, y, b, t)
    BY <1>15, <1>16, <1>20
  <2>. QED BY <1>10, <2>1, StaysClosed
<1>21. Given(Span(g, z + 1, Len(g)), Read(b, n, i), Read(t, n, j))
  <2>1. z + 1 .. Len(g) = {}
    BY <1>13, <1>14
  <2>2. Span(g, z + 1, Len(g)) = {}
    BY <2>1 DEF Span
  <2>. QED BY <2>2, GivenNone
<1>. QED BY <1>14, <1>17, <1>19, <1>20, <1>21 DEF AtMerge

(* One more record that begins and ends no section.                        *)
SameEnters(g, f) ==
  /\ Enters(g) = Enters(f) /\ ExtEnters(g) = ExtEnters(f)
  /\ \A x \in Enters(f) \cup ExtEnters(f) : g[x] = f[x] /\ x \in 1 .. Len(f)

LEMMA OneMore ==
  ASSUME NEW f, IsSeq(f), NEW q, IsSeq(q), NEW g, g = f \o q, Enters(q) = {}, ExtEnters(q) = {}
  PROVE  SameEnters(g, f)
<1>1. EntersGrown(g, f, q)
  BY EntersOf
<1>. QED BY <1>1 DEF EntersGrown, SameEnters

LEMMA SoFarSame ==
  ASSUME NEW f, NEW g, NEW N, NEW A, Enters(g) = Enters(f), \A x \in Enters(f) : g[x] = f[x], SoFar(f, N, A)
  PROVE  SoFar(g, N, A)
BY DEF SoFar

LEMMA Plain ==
  ASSUME NEW r, r.tag \notin {"StoreEnter", "ExtEnter"}
  PROVE  IsSeq(<<r>>) /\ Enters(<<r>>) = {} /\ ExtEnters(<<r>>) = {}
<1>1. IsSeq(<<r>>) /\ Len(<<r>>) = 1 /\ <<r>>[1] = r
  BY OneElement
<1>2. DOMAIN <<r>> = 1 .. 1
  BY <1>1, SeqFacts
<1>3. \A x \in DOMAIN <<r>> : <<r>>[x] = r
  BY <1>1, <1>2
<1>. QED BY <1>1, <1>3 DEF Enters, ExtEnters

GoesOn(B, T, X, B1, T1) == \A R : Given(R, B, T) => Given(R \cup X, B1, T1)

(* A record of the merge brings the section up to the leaves read.         *)
LEMMA MergeGoes ==
  ASSUME NEW f, IsSeq(f), NEW b, NEW t, NEW n, NEW r, NEW i, NEW u, NEW j, AtMerge(f, b, t, n, r, i, u, j),
         NEW rec, rec.tag \in Edits, NEW g, g = f \o <<rec>>,
         NEW r1, NEW i1, NEW u1, NEW j1, Side(b, r1, i1, n), Side(t, u1, j1, n),
         GoesOn(Read(b, n, i), Read(t, n, j), {rec}, Read(b, n, i1), Read(t, n, j1))
  PROVE  AtMerge(g, b, t, n, r1, i1, u1, j1)
<1>1. IsSeq(<<rec>>) /\ Enters(<<rec>>) = {} /\ ExtEnters(<<rec>>) = {}
  BY Plain DEF Edits
<1>2. /\ Enters(g) = Enters(f) /\ ExtEnters(g) = ExtEnters(f)
      /\ \A x \in Enters(f) : g[x] = f[x] /\ x \in 1 .. Len(f)
  <2>1. SameEnters(g, f)
    BY <1>1, OneMore
  <2>. QED BY <2>1 DEF SameEnters
<1>3. n \in AllNames(b, t) /\ ExtEnters(f) = {} /\ SoFar(f, n, AllNames(b, t))
  BY DEF AtMerge
<1>4. PICK x \in Enters(f) : /\ f[x].name = n /\ \A y \in Enters(f) : y # x => Closed(f, y, b, t)
                             /\ Given(Span(f, x + 1, Len(f)), Read(b, n, i), Read(t, n, j))
  BY DEF AtMerge
<1>5. SoFar(g, n, AllNames(b, t))
  BY <1>2, <1>3, SoFarSame
<1>6. \A y \in Enters(g) : y # x => Closed(g, y, b, t)
  BY <1>1, <1>2, <1>4, StaysClosed
<1>7. Span(g, x + 1, Len(g)) = Span(f, x + 1, Len(f)) \cup {rec}
  <2>1. x \in 1 .. Len(f)
    BY <1>2, <1>4
  <2>2. SpanGrown(g, f, x, rec)
    BY <2>1, SpanGrows
  <2>. QED BY <2>2 DEF SpanGrown
<1>8. Given(Span(g, x + 1, Len(g)), Read(b, n, i1), Read(t, n, j1))
  BY <1>4, <1>7 DEF GoesOn
<1>. QED BY <1>2, <1>3, <1>4, <1>5, <1>6, <1>8 DEF AtMerge

LEMMA MergeSkips ==
  ASSUME NEW f, NEW b, NEW t, NEW n, NEW r, NEW i, NEW u, NEW j, AtMerge(f, b, t, n, r, i, u, j),
         NEW r1, NEW i1, NEW u1, NEW j1, Side(b, r1, i1, n), Side(t, u1, j1, n),
         GoesOn(Read(b, n, i), Read(t, n, j), {}, Read(b, n, i1), Read(t, n, j1))
  PROVE  AtMerge(f, b, t, n, r1, i1, u1, j1)
<1>1. \A R : R \cup {} = R
  OBVIOUS
<1>. QED BY <1>1 DEF AtMerge, GoesOn

(* LeaveStore closes the section of a store read to its end.               *)
LEMMA LeaveGives ==
  ASSUME NEW f, IsSeq(f), NEW b, Stream(b), NEW t, Stream(t), NEW n, NEW r, NEW u, AtMerge(f, b, t, n, r, None, u, None),
         NEW g, g = f \o <<StoreLeave>>
  PROVE  AtPeek(g, b, t, r, u)
<1>0. StoreLeave.tag = "StoreLeave"
  BY DEF StoreLeave
<1>1. PICK rec : rec = StoreLeave /\ rec.tag = "StoreLeave" /\ g = f \o <<rec>>
  BY <1>0
<1>2. IsSeq(<<rec>>) /\ Enters(<<rec>>) = {} /\ ExtEnters(<<rec>>) = {}
  BY <1>1, Plain
<1>3. /\ Enters(g) = Enters(f) /\ ExtEnters(g) = ExtEnters(f)
      /\ \A x \in Enters(f) : g[x] = f[x] /\ x \in 1 .. Len(f)
  <2>1. SameEnters(g, f)
    BY <1>1, <1>2, OneMore
  <2>. QED BY <2>1 DEF SameEnters
<1>4. n \in AllNames(b, t) /\ ExtEnters(f) = {} /\ SoFar(f, n, AllNames(b, t)) /\ Fresh(b, r, n) /\ Fresh(t, u, n)
  BY DEF AtMerge, Side
<1>5. PICK x \in Enters(f) : /\ f[x].name = n /\ \A y \in Enters(f) : y # x => Closed(f, y, b, t)
                             /\ Given(Span(f, x + 1, Len(f)), Read(b, n, None), Read(t, n, None))
  BY DEF AtMerge
<1>6. SoFar(g, n, AllNames(b, t))
  BY <1>3, <1>4, SoFarSame
<1>7. \A y \in Enters(g) : y # x => Closed(g, y, b, t)
  BY <1>1, <1>2, <1>3, <1>5, StaysClosed
<1>8. Closed(g, x, b, t)
  <2>1. x \in 1 .. Len(f) /\ g[x].name = n
    BY <1>3, <1>5
  <2>2. /\ Len(g) = Len(f) + 1 /\ Len(f) \in Nat /\ g[Len(g)] = rec
        /\ Span(g, x + 1, Len(g) - 1) = Span(f, x + 1, Len(f))
    <3>1. SpanGrown(g, f, x, rec)
      BY <1>1, <2>1, SpanGrows
    <3>. QED BY <3>1 DEF SpanGrown
  <2>3. Read(b, n, None) = LeafItems(b, n) /\ Read(t, n, None) = LeafItems(t, n)
    BY DEF Read, LeafItems
  <2>4. Len(g) \in x + 1 .. Len(g)
    BY <2>1, <2>2
  <2>. QED BY <1>1, <1>5, <2>1, <2>2, <2>3, <2>4 DEF Closed
<1>. QED BY <1>3, <1>4, <1>6, <1>7, <1>8 DEF AtPeek

(* Behind the last store, every store has its section.                     *)
LEMMA OverGives ==
  ASSUME NEW f, NEW b, Stream(b), NEW t, Stream(t), NEW r \in Readers, NEW u \in Readers, AtPeek(f, b, t, r, u),
         PeekStore(b, r).cur = None, PeekStore(t, u).cur = None
  PROVE  AtExts(f, b, t, AllExts(b, t))
<1>1. PICK N \in {0} \cup AllNames(b, t) :
        /\ Fresh(b, r, N) /\ Fresh(t, u, N) /\ SoFar(f, N, AllNames(b, t))
        /\ ExtEnters(f) = {} /\ \A x \in Enters(f) : Closed(f, x, b, t)
  BY DEF AtPeek
<1>2. N \in Nat
  BY NamesAre
<1>3. \A n \in StoreNames(b) : n <= N
  BY <1>1, <1>2, PeekReads
<1>4. \A n \in StoreNames(t) : n <= N
  BY <1>1, <1>2, PeekReads
<1>5. \A n \in AllNames(b, t) : n <= N
  BY <1>3, <1>4 DEF AllNames
<1>6. Sections(f, b, t)
  BY <1>1, <1>5 DEF SoFar, Sections
<1>7. ExtSecs(f, AllExts(b, t) \ AllExts(b, t), b, t)
  BY <1>1 DEF ExtSecs
<1>. QED BY <1>6, <1>7 DEF AtExts

LEMMA SectionsStay ==
  ASSUME NEW f, IsSeq(f), NEW b, NEW t, Sections(f, b, t), NEW q, IsSeq(q), NEW g, g = f \o q, Enters(q) = {}
  PROVE  Sections(g, b, t)
<1>1. /\ \A x \in Enters(f) : x \in Enters(g) /\ g[x] = f[x] /\ x \in 1 .. Len(f)
      /\ \A x \in Enters(g) : x \in Enters(f)
      /\ \A x \in ExtEnters(g) : x \in ExtEnters(f) \/ x > Len(f)
  <2>1. EntersGrown(g, f, q)
    BY EntersOf
  <2>. QED BY <2>1 DEF EntersGrown
<1>2. \A x \in Enters(f) : Closed(g, x, b, t)
  BY <1>1, StaysClosed DEF Sections
<1>3. \A x \in Enters(g), y \in ExtEnters(g) : x < y
  <2>1. Len(f) \in Nat /\ Len(g) \in Nat /\ DOMAIN g = 1 .. Len(g)
    <3>1. IsSeq(g)
      BY Grows DEF Grown
    <3>. QED BY <3>1, SeqFacts
  <2>2. \A y \in ExtEnters(g) : y \in Nat
    BY <2>1 DEF ExtEnters
  <2>3. ASSUME NEW x \in Enters(g), NEW y \in ExtEnters(g), y > Len(f) PROVE x < y
    <3>1. x \in 1 .. Len(f) /\ y \in Nat
      BY <1>1, <2>2
    <3>. QED BY <2>1, <2>3, <3>1
  <2>. QED BY <1>1, <2>3 DEF Sections
<1>. QED BY <1>1, <1>2, <1>3 DEF Sections

(* With no extension left, the file is done.                               *)
LEMMA CloseGives ==
  ASSUME NEW f, IsSeq(f), NEW b, NEW t, AtExts(f, b, t, {}), NEW g, g = f \o <<ZEnd>>
  PROVE  FileDone(g, b, t)
<1>0. ZEnd.tag = "ZlibEnd"
  BY DEF ZEnd
<1>1. PICK rec : rec = ZEnd /\ rec.tag = "ZlibEnd" /\ g = f \o <<rec>>
  BY <1>0
<1>2. IsSeq(<<rec>>) /\ Enters(<<rec>>) = {} /\ ExtEnters(<<rec>>) = {}
  BY <1>1, Plain
<1>3. ExtEnters(g) = ExtEnters(f) /\ \A x \in ExtEnters(f) : g[x] = f[x] /\ x \in 1 .. Len(f)
  <2>1. SameEnters(g, f)
    BY <1>1, <1>2, OneMore
  <2>. QED BY <2>1 DEF SameEnters
<1>4. Sections(g, b, t)
  BY <1>1, <1>2, SectionsStay DEF AtExts
<1>5. ExtSecs(f, AllExts(b, t), b, t)
  <2>1. AllExts(b, t) \ {} = AllExts(b, t)
    OBVIOUS
  <2>. QED BY <2>1 DEF AtExts
<1>6. \A x \in ExtEnters(f) : ExtClosed(g, x, b, t)
  BY <1>1, <1>2, <1>3, <1>5, StaysClosed DEF ExtSecs
<1>7. ExtSecs(g, AllExts(b, t), b, t)
  BY <1>3, <1>5, <1>6 DEF ExtSecs
<1>. QED BY <1>4, <1>7 DEF FileDone

(* The section of one extension.                                           *)
ExtShape(q, rm, add, n, fmt) ==
  /\ Len(q) = Len(rm) + Len(add) + 2 /\ q[1] = ExtEnter(n, fmt) /\ q[Len(q)] = ExtLeave
  /\ \A i \in 1 .. Len(rm) : q[1 + i] = ExtRemove(rm[i])
  /\ \A i \in 1 .. Len(add) : q[1 + Len(rm) + i] = ExtAdd(add[i])
Inside(q, bs, ts) ==
  /\ \A i \in 2 .. Len(q) - 1 : \/ q[i].tag = "ExtRemove" /\ q[i].body \in bs \ ts
                                \/ q[i].tag = "ExtAdd" /\ q[i].body \in ts \ bs
  /\ \A p \in bs \ ts : \E i \in 2 .. Len(q) - 1 : q[i].tag = "ExtRemove" /\ q[i].body = p
  /\ \A p \in ts \ bs : \E i \in 2 .. Len(q) - 1 : q[i].tag = "ExtAdd" /\ q[i].body = p
ExtSection(q, n, bs, ts) ==
  /\ Len(q) \in Nat /\ Len(q) >= 2 /\ q[1].tag = "ExtEnter" /\ q[1].name = n /\ q[Len(q)].tag = "ExtLeave"
  /\ Inside(q, bs, ts)

LEMMA Thirds ==
  ASSUME NEW a \in Nat, NEW c \in Nat, NEW i \in 2 .. a + c + 1
  PROVE  (i - 1 \in 1 .. a /\ i = 1 + (i - 1)) \/ (i - 1 - a \in 1 .. c /\ i = 1 + a + (i - 1 - a))
OBVIOUS

LEMMA ExtRecords ==
  ASSUME NEW bs, NEW ts, NEW rm, IsSeq(rm), ToSet(rm) = bs \ ts, NEW add, IsSeq(add), ToSet(add) = ts \ bs,
         NEW n, NEW fmt, NEW q, ExtShape(q, rm, add, n, fmt)
  PROVE  ExtSection(q, n, bs, ts)
<1>1. /\ Len(rm) \in Nat /\ Len(add) \in Nat /\ DOMAIN rm = 1 .. Len(rm) /\ DOMAIN add = 1 .. Len(add)
      /\ Len(q) = Len(rm) + Len(add) + 2
  BY SeqFacts DEF ExtShape
<1>2. PICK a \in Nat, c \in Nat : a = Len(rm) /\ c = Len(add)
  BY <1>1
<1>3. Len(q) - 1 = a + c + 1 /\ Len(q) \in Nat /\ Len(q) >= 2
  BY <1>1, <1>2
<1>4. \A x : ExtRemove(x).tag = "ExtRemove" /\ ExtRemove(x).body = x /\ ExtAdd(x).tag = "ExtAdd" /\ ExtAdd(x).body = x
  BY DEF ExtRemove, ExtAdd
<1>5. q[1].tag = "ExtEnter" /\ q[1].name = n /\ q[Len(q)].tag = "ExtLeave"
  BY DEF ExtShape, ExtEnter, ExtLeave
<1>6. ASSUME NEW i \in 1 .. a PROVE q[1 + i] = ExtRemove(rm[i]) /\ rm[i] \in bs \ ts
  BY <1>1, <1>2 DEF ExtShape, ToSet
<1>7. ASSUME NEW i \in 1 .. c PROVE q[1 + a + i] = ExtAdd(add[i]) /\ add[i] \in ts \ bs
  BY <1>1, <1>2 DEF ExtShape, ToSet
<1>8. ASSUME NEW i \in 2 .. a + c + 1
      PROVE  \/ q[i].tag = "ExtRemove" /\ q[i].body \in bs \ ts
             \/ q[i].tag = "ExtAdd" /\ q[i].body \in ts \ bs
  <2>1. (i - 1 \in 1 .. a /\ i = 1 + (i - 1)) \/ (i - 1 - a \in 1 .. c /\ i = 1 + a + (i - 1 - a))
    BY Thirds
  <2>2. CASE i - 1 \in 1 .. a /\ i = 1 + (i - 1)
    <3>1. PICK l \in 1 .. a : i = 1 + l
      BY <2>2
    <3>. QED BY <1>4, <1>6, <3>1
  <2>3. CASE i - 1 - a \in 1 .. c /\ i = 1 + a + (i - 1 - a)
    <3>1. PICK l \in 1 .. c : i = 1 + a + l
      BY <2>3
    <3>2. q[1 + a + l] = ExtAdd(add[l]) /\ add[l] \in ts \ bs
      BY <1>7
    <3>. QED BY <1>4, <3>1, <3>2
  <2>. QED BY <2>1, <2>2, <2>3
<1>9. ASSUME NEW p \in bs \ ts PROVE \E i \in 2 .. a + c + 1 : q[i].tag = "ExtRemove" /\ q[i].body = p
  <2>1. PICK i \in 1 .. a : rm[i] = p
    BY <1>1, <1>2 DEF ToSet
  <2>2. 1 + i \in 2 .. a + c + 1
    OBVIOUS
  <2>3. q[1 + i].tag = "ExtRemove" /\ q[1 + i].body = p
    BY <1>4, <1>6, <2>1
  <2>. QED BY <2>2, <2>3
<1>10. ASSUME NEW p \in ts \ bs PROVE \E i \in 2 .. a + c + 1 : q[i].tag = "ExtAdd" /\ q[i].body = p
  <2>1. PICK i \in 1 .. c : add[i] = p
    BY <1>1, <1>2 DEF ToSet
  <2>2. 1 + a + i \in 2 .. a + c + 1
    OBVIOUS
  <2>3. q[1 + a + i].tag = "ExtAdd" /\ q[1 + a + i].body = p
    BY <1>4, <1>7, <2>1
  <2>. QED BY <2>2, <2>3
<1>11. Inside(q, bs, ts)
  BY <1>3, <1>8, <1>9, <1>10 DEF Inside
<1>. QED BY <1>3, <1>5, <1>11 DEF ExtSection

(* The section of one extension, appended.                                 *)
LEMMA ExtensionGives ==
  ASSUME NEW f, IsSeq(f), NEW b, NEW t, NEW E, AtExts(f, b, t, E), NEW n \in E,
         NEW q, IsSeq(q), ExtSection(q, n, Payloads(b, n), Payloads(t, n)), NEW g, g = f \o q
  PROVE  AtExts(g, b, t, E \ {n})
<1>1. PICK bs, ts : bs = Payloads(b, n) /\ ts = Payloads(t, n)
  OBVIOUS
<1>2. PICK l \in Nat, k \in Nat : l = Len(f) /\ k = Len(q) /\ k >= 2
  BY SeqFacts DEF ExtSection
<1>3. /\ Len(g) = l + k /\ DOMAIN q = 1 .. k /\ DOMAIN g = 1 .. l + k
      /\ \A i \in 1 .. k : g[l + i] = q[i]
  <2>1. Grown(g, f, q)
    BY Grows
  <2>. QED BY <1>2, <2>1 DEF Grown
<1>4. /\ q[1].tag = "ExtEnter" /\ q[1].name = n /\ q[k].tag = "ExtLeave"
      /\ \A i \in 2 .. k - 1 : \/ q[i].tag = "ExtRemove" /\ q[i].body \in bs \ ts
                               \/ q[i].tag = "ExtAdd" /\ q[i].body \in ts \ bs
      /\ \A p \in bs \ ts : \E i \in 2 .. k - 1 : q[i].tag = "ExtRemove" /\ q[i].body = p
      /\ \A p \in ts \ bs : \E i \in 2 .. k - 1 : q[i].tag = "ExtAdd" /\ q[i].body = p
  BY <1>1, <1>2 DEF ExtSection, Inside
<1>5. Enters(q) = {} /\ \A x \in ExtEnters(q) : x = 1
  <2>1. ASSUME NEW x \in 1 .. k, x # 1 PROVE q[x].tag \notin {"StoreEnter", "ExtEnter"}
    <3>1. CASE x = k
      BY <1>4, <3>1
    <3>2. CASE x # k
      <4>1. x \in 2 .. k - 1
        BY <2>1, <3>2
      <4>. QED BY <1>4, <4>1
    <3>. QED BY <3>1, <3>2
  <2>. QED BY <1>3, <1>4, <2>1 DEF Enters, ExtEnters
<1>6. Sections(g, b, t)
  BY <1>5, SectionsStay DEF AtExts
<1>7. PICK z : z = l + 1 /\ z \in ExtEnters(g) /\ g[z].name = n
  <2>1. 1 \in 1 .. k /\ l + 1 \in 1 .. l + k
    BY <1>2
  <2>2. g[l + 1] = q[1]
    BY <1>3, <2>1
  <2>. QED BY <1>3, <1>4, <2>1, <2>2 DEF ExtEnters
<1>8. /\ \A x \in ExtEnters(f) : x \in ExtEnters(g) /\ g[x] = f[x] /\ x \in 1 .. Len(f)
      /\ \A x \in ExtEnters(g) : x \in ExtEnters(f) \/ (x > Len(f) /\ x - Len(f) \in ExtEnters(q))
  <2>1. EntersGrown(g, f, q)
    BY EntersOf
  <2>. QED BY <2>1 DEF EntersGrown
<1>9. \A x \in ExtEnters(g) : x \in ExtEnters(f) \/ x = z
  <2>1. \A x \in ExtEnters(g) : x \in Nat
    BY <1>3 DEF ExtEnters
  <2>. QED BY <1>2, <1>5, <1>7, <1>8, <2>1
<1>10. ExtSecs(f, AllExts(b, t) \ E, b, t) /\ E \subseteq AllExts(b, t)
  BY DEF AtExts
<1>11. ExtClosed(g, z, b, t)
  <2>. DEFINE R == Span(g, z + 1, Len(g) - 1)
  <2>1. \A x \in R : \E i \in 2 .. k - 1 : x = q[i]
    <3>1. ASSUME NEW j \in z + 1 .. Len(g) - 1 PROVE \E i \in 2 .. k - 1 : g[j] = q[i]
      <4>1. PICK i \in 2 .. k - 1 : j = l + i /\ i \in 1 .. k
        BY <1>3, <1>7
      <4>. QED BY <1>3, <4>1
    <3>. QED BY <3>1 DEF Span
  <2>2. \A i \in 2 .. k - 1 : q[i] \in R
    <3>1. ASSUME NEW i \in 2 .. k - 1 PROVE q[i] \in R
      <4>1. l + i \in z + 1 .. Len(g) - 1 /\ i \in 1 .. k
        BY <1>3, <1>7
      <4>2. g[l + i] = q[i]
        BY <1>3, <4>1
      <4>. QED BY <4>1, <4>2 DEF Span
    <3>. QED BY <3>1
  <2>. HIDE DEF R
  <2>3. ASSUME NEW x \in R
        PROVE  \/ x.tag = "ExtRemove" /\ x.body \in bs \ ts
               \/ x.tag = "ExtAdd" /\ x.body \in ts \ bs
    BY <1>4, <2>1
  <2>4. ASSUME NEW p \in bs \ ts PROVE \E x \in R : x.tag = "ExtRemove" /\ x.body = p
    BY <1>4, <2>2
  <2>5. ASSUME NEW p \in ts \ bs PROVE \E x \in R : x.tag = "ExtAdd" /\ x.body = p
    BY <1>4, <2>2
  <2>6. ExtGiven(R, bs, ts)
    BY <2>3, <2>4, <2>5 DEF ExtGiven
  <2>7. Len(g) \in z + 1 .. Len(g) /\ g[Len(g)] = q[k]
    BY <1>2, <1>3, <1>7
  <2>. QED BY <1>1, <1>4, <1>7, <2>6, <2>7 DEF ExtClosed, R
<1>12. ASSUME NEW x \in ExtEnters(f)
       PROVE  g[x] = f[x] /\ f[x].name \in AllExts(b, t) \ E /\ ExtClosed(g, x, b, t)
  <2>1. g[x] = f[x] /\ x \in 1 .. Len(f)
    BY <1>8
  <2>2. f[x].name \in AllExts(b, t) \ E /\ ExtClosed(f, x, b, t)
    BY <1>10 DEF ExtSecs
  <2>. QED BY <2>1, <2>2, StaysClosed
<1>13. ExtSecs(g, AllExts(b, t) \ (E \ {n}), b, t)
  <2>1. ASSUME NEW y \in ExtEnters(g) PROVE g[y].name \in AllExts(b, t) \ (E \ {n}) /\ ExtClosed(g, y, b, t)
    BY <1>7, <1>9, <1>10, <1>11, <1>12
  <2>2. ASSUME NEW m \in AllExts(b, t) \ (E \ {n}) PROVE \E y \in ExtEnters(g) : g[y].name = m
    <3>1. CASE m = n
      BY <1>7, <3>1
    <3>2. CASE m # n
      <4>1. PICK y \in ExtEnters(f) : f[y].name = m
        BY <1>10, <3>2 DEF ExtSecs
      <4>. QED BY <1>8, <4>1
    <3>. QED BY <3>1, <3>2
  <2>3. ASSUME NEW x \in ExtEnters(g), NEW y \in ExtEnters(g), g[x].name = g[y].name PROVE x = y
    <3>1. CASE x \in ExtEnters(f) /\ y \in ExtEnters(f)
      BY <1>10, <1>12, <2>3, <3>1 DEF ExtSecs
    <3>2. CASE x = z /\ y \in ExtEnters(f)
      BY <1>7, <1>12, <2>3, <3>2
    <3>3. CASE y = z /\ x \in ExtEnters(f)
      BY <1>7, <1>12, <2>3, <3>3
    <3>. QED BY <1>9, <3>1, <3>2, <3>3
  <2>. QED BY <2>1, <2>2, <2>3 DEF ExtSecs
<1>. QED BY <1>6, <1>10, <1>13 DEF AtExts

(* The two snapshots are streams with proper names.                        *)
LEMMA Streams ==
  ASSUME IsPair
  PROVE  /\ Stream(base) /\ Stream(target)
         /\ \A n \in AllNames(base, target) : n \in Nat \ {0}
         /\ \A n \in AllExts(base, target) : n \in Nat
<1>1. ASSUME NEW p \in Pairs, NEW i \in {1, 2}
      PROVE  /\ Stream(p[i]) /\ (\A n \in StoreNames(p[i]) : n \in Nat \ {0}) /\ \A n \in ExtNames(p[i]) : n \in Nat
  <2>1. PICK s : s = p[i]
    OBVIOUS
  <2>2. /\ IsSeq(s) /\ Ordered(s) /\ Nested(s)
        /\ \A j \in DOMAIN s : /\ s[j].tag \in {"store", "iavl", "ext", "payload"}
                               /\ LeafAt(s, j) => s[j].key \in Nat \cap DOMAIN Rank
                               /\ s[j].tag = "store" => s[j].name \in Nat \ {0}
                               /\ s[j].tag = "ext" => s[j].name \in Nat
    <3>1. /\ p[i] \in Seq(ToSet(p[i])) /\ Ordered(p[i]) /\ Nested(p[i])
          /\ \A j \in DOMAIN p[i] : /\ p[i][j].tag \in {"store", "iavl", "ext", "payload"}
                                    /\ LeafAt(p[i], j) => p[i][j].key \in Nat \cap DOMAIN Rank
                                    /\ p[i][j].tag = "store" => p[i][j].name \in Nat \ {0}
                                    /\ p[i][j].tag = "ext" => p[i][j].name \in Nat
      BY DiffConstants, Zenon
    <3>. QED BY <2>1, <3>1 DEF IsSeq
  <2>3. DOMAIN s = 1 .. Len(s)
    BY <2>2, SeqFacts
  <2>4. ASSUME NEW j \in 1 .. Len(s) PROVE Sound(s[j])
    BY <2>2, <2>3 DEF Sound, LeafAt
  <2>5. Stream(s)
    BY <2>2, <2>3, <2>4 DEF Good, Stream
  <2>6. (\A n \in StoreNames(s) : n \in Nat \ {0}) /\ \A n \in ExtNames(s) : n \in Nat
    BY <2>2 DEF StoreNames, ExtNames
  <2>. QED BY <2>1, <2>5, <2>6
<1>3. PICK p \in Pairs : p[1] = base /\ p[2] = target
  BY DEF IsPair
<1>4. /\ Stream(base) /\ (\A n \in StoreNames(base) : n \in Nat \ {0}) /\ \A n \in ExtNames(base) : n \in Nat
  BY <1>1, <1>3
<1>5. /\ Stream(target) /\ (\A n \in StoreNames(target) : n \in Nat \ {0}) /\ \A n \in ExtNames(target) : n \in Nat
  BY <1>1, <1>3
<1>. QED BY <1>4, <1>5 DEF AllNames, AllExts

ComputePcs == {"peek", "merge", "exts"}

(* Apply has not begun.                                                    *)
LEMMA NotYetApplied ==
  ASSUME ApplyInv, pc \in ComputePcs, pc' \in ComputePcs \cup {"diffed"}, UNCHANGED <<out, meta>>
  PROVE  ApplyInv'
BY DEF ApplyInv, ComputePcs

(* Everything the lemmas about Compute need.                               *)
Computing ==
  /\ IsSeq(file) /\ Stream(base) /\ Stream(target) /\ brd \in Readers /\ trd \in Readers
  /\ (\A n \in AllNames(base, target) : n \in Nat \ {0}) /\ (\A n \in AllExts(base, target) : n \in Nat)
  /\ ComputeInv /\ ApplyInv

LEMMA Computes ==
  ASSUME LeafInv, mode = "leaf", RoundInv
  PROVE  Computing
<1>1. LTypes /\ LFile /\ ComputeInv /\ ApplyInv
  BY DEF LeafInv, RoundInv
<1>2. IsSeq(file) /\ brd \in Readers /\ trd \in Readers /\ IsPair
  BY <1>1 DEF LTypes, LFile, Good
<1>. QED BY <1>1, <1>2, Streams DEF Computing

(* Each step of Compute keeps the invariant.                               *)
LEMMA RoundEnterStore ==
  ASSUME LeafInv, mode = "leaf", RoundInv, EnterStore, UNCHANGED syncVars
  PROVE  RoundInv'
<1>1. Computing
  BY Computes
<1>2. pc = "peek" /\ pc' = "merge" /\ mode' = mode /\ UNCHANGED <<base, target, cut, out, meta>>
  BY DEF EnterStore, applyVars, syncVars
<1>3. ApplyInv'
  BY <1>1, <1>2, NotYetApplied DEF Computing, ComputePcs
<1>4. ASSUME cut = "no" PROVE FileHead(file') /\ AtMerge(file', base, target, name', brd', brec', trd', trec')
  <2>1. PICK f, b, t, r, u : f = file /\ b = base /\ t = target /\ r = brd /\ u = trd
    OBVIOUS
  <2>2. /\ IsSeq(f) /\ Stream(b) /\ Stream(t) /\ r \in Readers /\ u \in Readers /\ FileHead(f) /\ AtPeek(f, b, t, r, u)
    BY <1>1, <1>2, <1>4, <2>1 DEF Computing, ComputeInv
  <2>3. PICK p, q : p = PeekStore(b, r) /\ q = PeekStore(t, u)
    OBVIOUS
  <2>4. PICK n : n = (IF p.cur # None /\ (q.cur = None \/ p.cur <= q.cur) THEN p.cur ELSE q.cur)
    OBVIOUS
  <2>5. PICK r1, i, u1, j : /\ r1 = (IF p.cur = n THEN Advance(b, p) ELSE p) /\ i = (IF p.cur = n THEN LeafOf(b, p) ELSE None)
                            /\ u1 = (IF q.cur = n THEN Advance(t, q) ELSE q) /\ j = (IF q.cur = n THEN LeafOf(t, q) ELSE None)
    OBVIOUS
  <2>6. p.cur # None \/ q.cur # None
    BY <2>1, <2>3 DEF EnterStore
  <2>7. PICK g : g = f \o <<StoreEnter(n)>>
    OBVIOUS
  <2>8. file' = g /\ name' = n /\ brd' = r1 /\ brec' = i /\ trd' = u1 /\ trec' = j
    BY <2>1, <2>3, <2>4, <2>5, <2>7 DEF EnterStore, Emit
  <2>9. PICK N \in Nat :
           /\ SoFar(f, N, AllNames(b, t)) /\ ExtEnters(f) = {} /\ \A x \in Enters(f) : Closed(f, x, b, t)
           /\ n \in Nat /\ n > N /\ n \in AllNames(b, t) /\ (\A m \in AllNames(b, t) : m > N => m >= n)
           /\ Side(b, r1, i, n) /\ Side(t, u1, j, n) /\ Read(b, n, i) = {} /\ Read(t, n, j) = {}
    BY <2>2, <2>3, <2>4, <2>5, <2>6, EnterName
  <2>10. AtMerge(g, b, t, n, r1, i, u1, j)
    BY <2>2, <2>7, <2>9, EnterGives
  <2>11. FileHead(g)
    BY <2>2, <2>7, OneElement, HeadStays
  <2>. QED BY <2>1, <2>8, <2>10, <2>11
<1>5. ComputeInv'
  BY <1>2, <1>4 DEF ComputeInv, Using
<1>. QED BY <1>3, <1>5 DEF RoundInv

LEMMA RoundLeaveStore ==
  ASSUME LeafInv, mode = "leaf", RoundInv, LeaveStore, UNCHANGED syncVars
  PROVE  RoundInv'
<1>1. Computing
  BY Computes
<1>2. pc = "merge" /\ pc' = "peek" /\ mode' = mode /\ UNCHANGED <<base, target, cut, out, meta, brd, trd>>
  BY DEF LeaveStore, applyVars, syncVars
<1>3. ApplyInv'
  BY <1>1, <1>2, NotYetApplied DEF Computing, ComputePcs
<1>4. ASSUME cut = "no" PROVE FileHead(file') /\ AtPeek(file', base, target, brd, trd)
  <2>1. PICK f, b, t, r, u, n, g : f = file /\ b = base /\ t = target /\ r = brd /\ u = trd /\ n = name /\ g = f \o <<StoreLeave>>
    OBVIOUS
  <2>2. brec = None /\ trec = None /\ file' = g
    BY <2>1 DEF LeaveStore, Emit
  <2>3. /\ IsSeq(f) /\ Stream(b) /\ Stream(t) /\ FileHead(f) /\ AtMerge(f, b, t, n, r, None, u, None)
    BY <1>1, <1>2, <1>4, <2>1, <2>2 DEF Computing, ComputeInv
  <2>4. AtPeek(g, b, t, r, u)
    BY <2>1, <2>3, LeaveGives
  <2>5. FileHead(g)
    BY <2>1, <2>3, OneElement, HeadStays
  <2>. QED BY <2>1, <2>2, <2>4, <2>5
<1>5. ComputeInv'
  BY <1>2, <1>4 DEF ComputeInv, Using
<1>. QED BY <1>3, <1>5 DEF RoundInv

LEMMA RoundStoresOver ==
  ASSUME LeafInv, mode = "leaf", RoundInv, StoresOver, UNCHANGED syncVars
  PROVE  RoundInv'
<1>1. Computing
  BY Computes
<1>2. pc = "peek" /\ pc' = "exts" /\ mode' = mode /\ UNCHANGED <<base, target, cut, out, meta, file>>
  BY DEF StoresOver, applyVars, syncVars
<1>3. ApplyInv'
  BY <1>1, <1>2, NotYetApplied DEF Computing, ComputePcs
<1>4. ASSUME cut = "no" PROVE FileHead(file') /\ AtExts(file', base, target, todo')
  <2>1. PICK f, b, t, r, u : f = file /\ b = base /\ t = target /\ r = brd /\ u = trd
    OBVIOUS
  <2>2. PeekStore(b, r).cur = None /\ PeekStore(t, u).cur = None /\ todo' = AllExts(b, t)
    BY <2>1 DEF StoresOver, AllExts
  <2>3. /\ Stream(b) /\ Stream(t) /\ r \in Readers /\ u \in Readers /\ FileHead(f) /\ AtPeek(f, b, t, r, u)
    BY <1>1, <1>2, <1>4, <2>1 DEF Computing, ComputeInv
  <2>4. AtExts(f, b, t, AllExts(b, t))
    BY <2>2, <2>3, OverGives
  <2>. QED BY <1>2, <2>1, <2>2, <2>3, <2>4
<1>5. ComputeInv'
  BY <1>2, <1>4 DEF ComputeInv, Using
<1>. QED BY <1>3, <1>5 DEF RoundInv

LEMMA RoundCloseFile ==
  ASSUME LeafInv, mode = "leaf", RoundInv, CloseFile, UNCHANGED syncVars
  PROVE  RoundInv'
<1>1. Computing
  BY Computes
<1>2. pc = "exts" /\ pc' = "diffed" /\ mode' = mode /\ UNCHANGED <<base, target, cut, out, meta>> /\ brd' = Start
  BY DEF CloseFile, applyVars, syncVars
<1>3. ApplyInv'
  BY <1>1, <1>2, NotYetApplied DEF Computing, ComputePcs
<1>4. ASSUME cut = "no" PROVE FileHead(file') /\ FileDone(file', base, target)
  <2>1. PICK f, b, t, g : f = file /\ b = base /\ t = target /\ g = f \o <<ZEnd>>
    OBVIOUS
  <2>2. file' = g /\ todo = {}
    BY <2>1 DEF CloseFile, Emit
  <2>3. /\ IsSeq(f) /\ FileHead(f) /\ AtExts(f, b, t, {})
    BY <1>1, <1>2, <1>4, <2>1, <2>2 DEF Computing, ComputeInv
  <2>4. FileDone(g, b, t)
    BY <2>1, <2>3, CloseGives
  <2>5. FileHead(g)
    BY <2>1, <2>3, OneElement, HeadStays
  <2>. QED BY <2>1, <2>2, <2>4, <2>5
<1>5. ComputeInv'
  BY <1>2, <1>4 DEF ComputeInv, Using
<1>. QED BY <1>3, <1>5 DEF RoundInv

LEMMA RoundStopShort ==
  ASSUME LeafInv, mode = "leaf", RoundInv, NEW how \in {"crash", "error"}, StopShort(how), UNCHANGED syncVars
  PROVE  RoundInv'
<1>1. Computing
  BY Computes
<1>2. pc \in ComputePcs /\ pc' = "diffed" /\ mode' = mode /\ cut' # "no" /\ UNCHANGED <<out, meta>>
  BY DEF StopShort, applyVars, syncVars, ComputePcs
<1>3. ApplyInv'
  BY <1>1, <1>2, NotYetApplied DEF Computing
<1>5. ComputeInv'
  BY <1>2 DEF ComputeInv
<1>. QED BY <1>3, <1>5 DEF RoundInv

(* One turn of the merge: a record for the base's leaf, for the target's,  *)
(* or for both.                                                            *)
LEMMA MergeInsert ==
  ASSUME NEW f, IsSeq(f), NEW b, NEW t, Stream(t), NEW n \in Nat, NEW r, NEW i, NEW u \in Readers, NEW j, j # None,
         AtMerge(f, b, t, n, r, i, u, j), NEW g, g = f \o <<Insert(t[j].key, t[j].val)>>,
         NEW u1, u1 = Advance(t, u), NEW j1, j1 = LeafOf(t, u)
  PROVE  AtMerge(g, b, t, n, r, i, u1, j1)
<1>1. Side(b, r, i, n) /\ Side(t, u, j, n)
  BY DEF AtMerge
<1>2. Side(t, u1, j1, n) /\ Read(t, n, j1) = Read(t, n, j) \cup {t[j]} /\ \A x \in Read(t, n, j) : x.key # t[j].key
  BY <1>1, NextSide
<1>3. PICK rec : rec = Insert(t[j].key, t[j].val)
  OBVIOUS
<1>4. rec.tag \in Edits /\ g = f \o <<rec>>
  BY <1>3 DEF Insert, Edits
<1>5. ASSUME NEW R, Given(R, Read(b, n, i), Read(t, n, j)) PROVE Given(R \cup {rec}, Read(b, n, i), Read(t, n, j1))
  BY <1>2, <1>3, <1>5, GivenInsert
<1>6. GoesOn(Read(b, n, i), Read(t, n, j), {rec}, Read(b, n, i), Read(t, n, j1))
  BY <1>5 DEF GoesOn
<1>. QED BY <1>1, <1>2, <1>4, <1>6, MergeGoes

LEMMA MergeDelete ==
  ASSUME NEW f, IsSeq(f), NEW b, Stream(b), NEW t, NEW n \in Nat, NEW r \in Readers, NEW i, i # None, NEW u, NEW j,
         AtMerge(f, b, t, n, r, i, u, j), NEW g, g = f \o <<Delete(b[i].key)>>,
         NEW r1, r1 = Advance(b, r), NEW i1, i1 = LeafOf(b, r)
  PROVE  AtMerge(g, b, t, n, r1, i1, u, j)
<1>1. Side(b, r, i, n) /\ Side(t, u, j, n)
  BY DEF AtMerge
<1>2. Side(b, r1, i1, n) /\ Read(b, n, i1) = Read(b, n, i) \cup {b[i]} /\ \A x \in Read(b, n, i) : x.key # b[i].key
  BY <1>1, NextSide
<1>3. PICK rec : rec = Delete(b[i].key)
  OBVIOUS
<1>4. rec.tag \in Edits /\ g = f \o <<rec>>
  BY <1>3 DEF Delete, Edits
<1>5. ASSUME NEW R, Given(R, Read(b, n, i), Read(t, n, j)) PROVE Given(R \cup {rec}, Read(b, n, i1), Read(t, n, j))
  BY <1>2, <1>3, <1>5, GivenDelete
<1>6. GoesOn(Read(b, n, i), Read(t, n, j), {rec}, Read(b, n, i1), Read(t, n, j))
  BY <1>5 DEF GoesOn
<1>. QED BY <1>1, <1>2, <1>4, <1>6, MergeGoes

LEMMA MergeBoth ==
  ASSUME NEW f, IsSeq(f), NEW b, Stream(b), NEW t, Stream(t), NEW n \in Nat,
         NEW r \in Readers, NEW i, i # None, NEW u \in Readers, NEW j, j # None,
         AtMerge(f, b, t, n, r, i, u, j), b[i].key = t[j].key,
         NEW g, (g = f /\ b[i] = t[j]) \/ g = f \o <<Update(b[i].key, t[j].val)>>,
         NEW r1, r1 = Advance(b, r), NEW i1, i1 = LeafOf(b, r), NEW u1, u1 = Advance(t, u), NEW j1, j1 = LeafOf(t, u)
  PROVE  AtMerge(g, b, t, n, r1, i1, u1, j1)
<1>1. Side(b, r, i, n) /\ Side(t, u, j, n)
  BY DEF AtMerge
<1>2. Side(b, r1, i1, n) /\ Read(b, n, i1) = Read(b, n, i) \cup {b[i]} /\ \A x \in Read(b, n, i) : x.key # b[i].key
  BY <1>1, NextSide
<1>3. Side(t, u1, j1, n) /\ Read(t, n, j1) = Read(t, n, j) \cup {t[j]} /\ \A x \in Read(t, n, j) : x.key # t[j].key
  BY <1>1, NextSide
<1>4. PICK rec : rec = Update(b[i].key, t[j].val)
  OBVIOUS
<1>5. rec.tag \in Edits
  BY <1>4 DEF Update, Edits
<1>6. ASSUME NEW R, Given(R, Read(b, n, i), Read(t, n, j)), NEW S, (S = R /\ b[i] = t[j]) \/ S = R \cup {rec}
      PROVE  Given(S, Read(b, n, i1), Read(t, n, j1))
  <2>1. (S = R /\ b[i].val = t[j].val) \/ S = R \cup {Update(b[i].key, t[j].val)}
    BY <1>4, <1>6
  <2>2. PICK B, T, x, y : B = Read(b, n, i) /\ T = Read(t, n, j) /\ x = b[i] /\ y = t[j]
    OBVIOUS
  <2>3. Given(S, B \cup {x}, T \cup {y})
    BY <1>2, <1>3, <1>6, <2>1, <2>2, GivenBoth
  <2>. QED BY <1>2, <1>3, <2>2, <2>3
<1>7. CASE g = f /\ b[i] = t[j]
  <2>1. GoesOn(Read(b, n, i), Read(t, n, j), {}, Read(b, n, i1), Read(t, n, j1))
    BY <1>6, <1>7 DEF GoesOn
  <2>. QED BY <1>2, <1>3, <1>7, <2>1, MergeSkips
<1>8. CASE g = f \o <<rec>>
  <2>1. GoesOn(Read(b, n, i), Read(t, n, j), {rec}, Read(b, n, i1), Read(t, n, j1))
    BY <1>6 DEF GoesOn
  <2>. QED BY <1>2, <1>3, <1>5, <1>8, <2>1, MergeGoes
<1>. QED BY <1>4, <1>7, <1>8

LEMMA RoundMerge ==
  ASSUME LTypes, AtLeaf(base, brec), AtLeaf(target, trec), brec # None \/ trec # None, MergeStep,
         NEW f, NEW b, NEW t, NEW n \in Nat, NEW r, NEW i, NEW u, NEW j,
         f = file, b = base, t = target, r = brd, i = brec, u = trd, j = trec,
         IsSeq(f), Stream(b), Stream(t), r \in Readers, u \in Readers, FileHead(f), AtMerge(f, b, t, n, r, i, u, j)
  PROVE  FileHead(file') /\ AtMerge(file', b, t, n, brd', brec', trd', trec')
<1>1. ASSUME NEW rec, NEW g, g = f \o <<rec>> PROVE FileHead(g)
  BY <1>1, OneElement, HeadStays
<1>2. PICK r1, i1, u1, j1 : r1 = Advance(b, r) /\ i1 = LeafOf(b, r) /\ u1 = Advance(t, u) /\ j1 = LeafOf(t, u)
  OBVIOUS
<1>3. ASSUME j # None, Emit(<<Insert(target[trec].key, target[trec].val)>>), AdvanceTarget, UNCHANGED <<brd, brec>>
      PROVE  FileHead(file') /\ AtMerge(file', b, t, n, brd', brec', trd', trec')
  <2>1. PICK g : g = f \o <<Insert(t[j].key, t[j].val)>>
    OBVIOUS
  <2>2. file' = g /\ brd' = r /\ brec' = i /\ trd' = u1 /\ trec' = j1
    BY <1>2, <1>3, <2>1 DEF Emit, AdvanceTarget
  <2>3. AtMerge(g, b, t, n, r, i, u1, j1)
    BY <1>2, <1>3, <2>1, MergeInsert
  <2>. QED BY <1>1, <2>1, <2>2, <2>3
<1>4. ASSUME i # None, Emit(<<Delete(base[brec].key)>>), AdvanceBase, UNCHANGED <<trd, trec>>
      PROVE  FileHead(file') /\ AtMerge(file', b, t, n, brd', brec', trd', trec')
  <2>1. PICK g : g = f \o <<Delete(b[i].key)>>
    OBVIOUS
  <2>2. file' = g /\ brd' = r1 /\ brec' = i1 /\ trd' = u /\ trec' = j
    BY <1>2, <1>4, <2>1 DEF Emit, AdvanceBase
  <2>3. AtMerge(g, b, t, n, r1, i1, u, j)
    BY <1>2, <1>4, <2>1, MergeDelete
  <2>. QED BY <1>1, <2>1, <2>2, <2>3
<1>5. ASSUME i # None, j # None, b[i].key = t[j].key, AdvanceBase, AdvanceTarget,
             (UNCHANGED file /\ b[i] = t[j]) \/ Emit(<<Update(base[brec].key, target[trec].val)>>)
      PROVE  FileHead(file') /\ AtMerge(file', b, t, n, brd', brec', trd', trec')
  <2>1. PICK g : g = file'
    OBVIOUS
  <2>2. (g = f /\ b[i] = t[j]) \/ g = f \o <<Update(b[i].key, t[j].val)>>
    BY <1>5, <2>1 DEF Emit
  <2>3. brd' = r1 /\ brec' = i1 /\ trd' = u1 /\ trec' = j1
    BY <1>2, <1>5 DEF AdvanceBase, AdvanceTarget
  <2>4. AtMerge(g, b, t, n, r1, i1, u1, j1)
    BY <1>2, <1>5, <2>2, MergeBoth
  <2>5. FileHead(g)
    BY <1>1, <2>2
  <2>. QED BY <2>1, <2>3, <2>4, <2>5
<1>8. CASE brec = None
  <2>1. trec # None /\ Emit(<<Insert(target[trec].key, target[trec].val)>>) /\ AdvanceTarget /\ UNCHANGED <<brd, brec>>
    BY <1>8 DEF MergeStep
  <2>. QED BY <1>3, <2>1
<1>9. CASE brec # None /\ trec = None
  <2>1. Emit(<<Delete(base[brec].key)>>) /\ AdvanceBase /\ UNCHANGED <<trd, trec>>
    BY <1>9 DEF MergeStep
  <2>. QED BY <1>4, <1>9, <2>1
<1>10. CASE brec # None /\ trec # None
  <2>1. PICK x, y : x = base[brec] /\ y = target[trec]
    OBVIOUS
  <2>2. CASE x = y \/ x.key = y.key
    <3>1. AdvanceBase /\ AdvanceTarget /\ ((UNCHANGED file /\ x = y) \/ Emit(<<Update(base[brec].key, target[trec].val)>>))
      BY <1>10, <2>1, <2>2 DEF MergeStep
    <3>. QED BY <1>5, <1>10, <2>1, <2>2, <3>1
  <2>3. CASE x.key # y.key
    <3>1. brec \in 1 .. Len(base) /\ LeafAt(base, brec) /\ trec \in 1 .. Len(target) /\ LeafAt(target, trec)
      BY <1>10 DEF AtLeaf
    <3>2. x.key \in DOMAIN Rank /\ y.key \in DOMAIN Rank
      BY <2>1, <3>1, Snapshots DEF LTypes
    <3>3. Rank[x.key] \in Int /\ Rank[y.key] \in Int /\ Rank[x.key] # Rank[y.key]
      BY <2>3, <3>2, DiffConstants
    <3>4. (Before(x, y) <=> Rank[x.key] < Rank[y.key]) /\ (Before(y, x) <=> Rank[y.key] < Rank[x.key])
      BY <2>3 DEF Before
    <3>5. CASE Before(x, y)
      <4>1. ~Before(y, x)
        BY <3>3, <3>4, <3>5
      <4>2. Emit(<<Delete(base[brec].key)>>) /\ AdvanceBase /\ UNCHANGED <<trd, trec>>
        BY <1>10, <2>1, <2>3, <3>5, <4>1 DEF MergeStep
      <4>. QED BY <1>4, <1>10, <4>2
    <3>6. CASE Before(y, x)
      <4>1. ~Before(x, y)
        BY <3>3, <3>4, <3>6
      <4>2. Emit(<<Insert(target[trec].key, target[trec].val)>>) /\ AdvanceTarget /\ UNCHANGED <<brd, brec>>
        BY <1>10, <2>1, <2>3, <3>6, <4>1 DEF MergeStep
      <4>. QED BY <1>3, <1>10, <4>2
    <3>7. Before(x, y) \/ Before(y, x)
      BY <3>3, <3>4
    <3>. QED BY <3>5, <3>6, <3>7
  <2>. QED BY <2>2, <2>3
<1>. QED BY <1>8, <1>9, <1>10

LEMMA RoundDiffStore ==
  ASSUME LeafInv, mode = "leaf", RoundInv, DiffStore, UNCHANGED syncVars
  PROVE  RoundInv'
<1>1. Computing /\ LTypes /\ AtLeaf(base, brec) /\ AtLeaf(target, trec)
  BY Computes DEF LeafInv, LMerge, DiffStore
<1>2. pc = "merge" /\ pc' = "merge" /\ mode' = mode /\ UNCHANGED <<base, target, cut, out, meta, name>>
  BY DEF DiffStore, applyVars, syncVars
<1>3. ApplyInv'
  BY <1>1, <1>2, NotYetApplied DEF Computing, ComputePcs
<1>4. ASSUME cut = "no" PROVE FileHead(file') /\ AtMerge(file', base, target, name, brd', brec', trd', trec')
  <2>1. PICK f, b, t, n, r, i, u, j : f = file /\ b = base /\ t = target /\ n = name /\ r = brd /\ i = brec /\ u = trd /\ j = trec
    OBVIOUS
  <2>2. /\ IsSeq(f) /\ Stream(b) /\ Stream(t) /\ r \in Readers /\ u \in Readers /\ FileHead(f)
        /\ AtMerge(f, b, t, n, r, i, u, j)
    BY <1>1, <1>2, <1>4, <2>1 DEF Computing, ComputeInv
  <2>3. n \in Nat
    BY <1>1, <2>1, <2>2 DEF Computing, AtMerge
  <2>4. MergeStep /\ (brec # None \/ trec # None)
    BY DEF DiffStore
  <2>5. FileHead(file') /\ AtMerge(file', b, t, n, brd', brec', trd', trec')
    BY <1>1, <2>1, <2>2, <2>3, <2>4, RoundMerge
  <2>. QED BY <2>1, <2>5
<1>5. ComputeInv'
  BY <1>2, <1>4 DEF ComputeInv, Using
<1>. QED BY <1>3, <1>5 DEF RoundInv

LEMMA Listed ==
  ASSUME NEW S, IsFiniteSet(S), NEW q \in SetToSeqs(S)
  PROVE  IsSeq(q) /\ ToSet(q) = S
<1>1. PICK c : c = Cardinality(S)
  OBVIOUS
<1>2. c \in Nat
  BY <1>1, FS_CardinalityType
<1>3. IsFiniteSet(1 .. c) /\ Cardinality(1 .. c) = c
  BY <1>2, FS_Interval
<1>4. q \in [1 .. c -> S] /\ \A i, j \in 1 .. c : q[i] = q[j] => i = j
  BY <1>1 DEF SetToSeqs
<1>5. q \in Injection(1 .. c, S)
  BY <1>4 DEF Injection, IsInjective
<1>6. q \in Surjection(1 .. c, S)
  BY <1>1, <1>3, <1>5, FS_Injection
<1>7. q \in Seq(S)
  BY <1>2, <1>4
<1>8. IsSeq(q)
  BY <1>7, SeqOfAny
<1>. QED BY <1>4, <1>6, <1>8 DEF ToSet, Surjection

LEMMA ExtShaped ==
  ASSUME NEW rm, IsSeq(rm), NEW add, IsSeq(add), NEW n, NEW fmt, NEW q,
         q = <<ExtEnter(n, fmt)>> \o [i \in DOMAIN rm |-> ExtRemove(rm[i])]
               \o [i \in DOMAIN add |-> ExtAdd(add[i])] \o <<ExtLeave>>
  PROVE  IsSeq(q) /\ ExtShape(q, rm, add, n, fmt)
<1>1. PICK a \in Nat, c \in Nat : a = Len(rm) /\ c = Len(add) /\ DOMAIN rm = 1 .. a /\ DOMAIN add = 1 .. c
  BY SeqFacts
<1>2. PICK u, v, x, y : /\ u = <<ExtEnter(n, fmt)>>
                        /\ v = [i \in DOMAIN rm |-> ExtRemove(rm[i])]
                        /\ x = [i \in DOMAIN add |-> ExtAdd(add[i])] /\ y = <<ExtLeave>>
  OBVIOUS
<1>3. IsSeq(v) /\ Len(v) = a /\ \A i \in 1 .. a : v[i] = ExtRemove(rm[i])
  <2>1. DOMAIN v = 1 .. a /\ v = [i \in DOMAIN v |-> v[i]] /\ \A i \in 1 .. a : v[i] = ExtRemove(rm[i])
    BY <1>1, <1>2
  <2>. QED BY <2>1, SeqFrom
<1>4. IsSeq(x) /\ Len(x) = c /\ \A i \in 1 .. c : x[i] = ExtAdd(add[i])
  <2>1. DOMAIN x = 1 .. c /\ x = [i \in DOMAIN x |-> x[i]] /\ \A i \in 1 .. c : x[i] = ExtAdd(add[i])
    BY <1>1, <1>2
  <2>. QED BY <2>1, SeqFrom
<1>5. IsSeq(u) /\ Len(u) = 1 /\ u[1] = ExtEnter(n, fmt) /\ IsSeq(y) /\ Len(y) = 1 /\ y[1] = ExtLeave
  BY <1>2, OneElement
<1>6. PICK w : w = u \o v
  OBVIOUS
<1>7. /\ IsSeq(w) /\ Len(w) = 1 + a /\ w[1] = ExtEnter(n, fmt) /\ \A i \in 1 .. a : w[1 + i] = ExtRemove(rm[i])
  <2>1. /\ IsSeq(w) /\ Len(w) = Len(u) + Len(v)
        /\ \A i \in 1 .. Len(u) : w[i] = u[i]
        /\ \A i \in 1 .. Len(v) : w[Len(u) + i] = v[i]
    <3>1. Grown(w, u, v)
      BY <1>3, <1>5, <1>6, Grows
    <3>. QED BY <3>1 DEF Grown
  <2>2. 1 \in 1 .. Len(u)
    BY <1>5
  <2>. QED BY <1>3, <1>5, <2>1, <2>2
<1>8. PICK z : z = w \o x
  OBVIOUS
<1>9. /\ IsSeq(z) /\ Len(z) = 1 + a + c /\ z[1] = ExtEnter(n, fmt) /\ (\A i \in 1 .. a : z[1 + i] = ExtRemove(rm[i]))
      /\ \A i \in 1 .. c : z[1 + a + i] = ExtAdd(add[i])
  <2>1. /\ IsSeq(z) /\ Len(z) = Len(w) + Len(x)
        /\ \A i \in 1 .. Len(w) : z[i] = w[i]
        /\ \A i \in 1 .. Len(x) : z[Len(w) + i] = x[i]
    <3>1. Grown(z, w, x)
      BY <1>4, <1>7, <1>8, Grows
    <3>. QED BY <3>1 DEF Grown
  <2>2. 1 \in 1 .. Len(w) /\ \A i \in 1 .. a : 1 + i \in 1 .. Len(w)
    BY <1>7
  <2>. QED BY <1>4, <1>7, <2>1, <2>2
<1>10. q = z \o y
  BY <1>2, <1>6, <1>8
<1>11. /\ IsSeq(q) /\ Len(q) = 1 + a + c + 1 /\ q[1] = ExtEnter(n, fmt) /\ (\A i \in 1 .. a : q[1 + i] = ExtRemove(rm[i]))
       /\ (\A i \in 1 .. c : q[1 + a + i] = ExtAdd(add[i])) /\ q[1 + a + c + 1] = ExtLeave
  <2>1. /\ IsSeq(q) /\ Len(q) = Len(z) + Len(y)
        /\ \A i \in 1 .. Len(z) : q[i] = z[i]
        /\ \A i \in 1 .. Len(y) : q[Len(z) + i] = y[i]
    <3>1. Grown(q, z, y)
      BY <1>5, <1>9, <1>10, Grows
    <3>. QED BY <3>1 DEF Grown
  <2>2. /\ 1 \in 1 .. Len(z) /\ (\A i \in 1 .. a : 1 + i \in 1 .. Len(z)) /\ 1 \in 1 .. Len(y)
        /\ \A i \in 1 .. c : 1 + a + i \in 1 .. Len(z)
    BY <1>5, <1>9
  <2>. QED BY <1>5, <1>9, <2>1, <2>2
<1>12. Len(q) = Len(rm) + Len(add) + 2 /\ Len(q) = 1 + a + c + 1
  BY <1>1, <1>11
<1>. QED BY <1>1, <1>11, <1>12 DEF ExtShape

LEMMA RoundDiffExtension ==
  ASSUME LeafInv, mode = "leaf", RoundInv, DiffExtension, UNCHANGED syncVars
  PROVE  RoundInv'
<1>1. Computing
  BY Computes
<1>2. pc = "exts" /\ todo # {} /\ pc' = "exts" /\ mode' = mode /\ UNCHANGED <<base, target, cut, out, meta>>
  BY DEF DiffExtension, applyVars, syncVars
<1>3. ApplyInv'
  BY <1>1, <1>2, NotYetApplied DEF Computing, ComputePcs
<1>4. ASSUME cut = "no" PROVE FileHead(file') /\ AtExts(file', base, target, todo')
  <2>1. PICK f, b, t, E, n, fmt : /\ f = file /\ b = base /\ t = target /\ E = todo /\ n = Min(E)
                                  /\ fmt = FormatOf(IF n \in ExtNames(base) THEN base ELSE target, n)
    OBVIOUS
  <2>2. PICK bs, ts : bs = Payloads(b, n) /\ ts = Payloads(t, n)
    OBVIOUS
  <2>3. PICK rm \in SetToSeqs(bs \ ts), add \in SetToSeqs(ts \ bs) :
          file' = f \o (<<ExtEnter(n, fmt)>> \o [i \in DOMAIN rm |-> ExtRemove(rm[i])]
                          \o [i \in DOMAIN add |-> ExtAdd(add[i])] \o <<ExtLeave>>)
    BY <2>1, <2>2 DEF DiffExtension, Emit
  <2>4. todo' = E \ {n}
    BY <2>1 DEF DiffExtension
  <2>5. IsSeq(f) /\ Stream(b) /\ Stream(t) /\ FileHead(f) /\ AtExts(f, b, t, E) /\ \A m \in AllExts(b, t) : m \in Nat
    BY <1>1, <1>2, <1>4, <2>1 DEF Computing, ComputeInv
  <2>6. n \in E
    <3>1. E \in SUBSET Nat
      BY <2>5 DEF AtExts
    <3>. QED BY <1>2, <2>1, <3>1, LeastIs
  <2>7. IsFiniteSet(bs \ ts) /\ IsFiniteSet(ts \ bs)
    <3>1. IsSeq(b) /\ IsSeq(t)
      BY <2>5 DEF Stream, Good
    <3>2. IsFiniteSet(bs) /\ IsFiniteSet(ts)
      BY <2>2, <3>1, FiniteNames
    <3>. QED BY <3>2, FS_Difference
  <2>8. IsSeq(rm) /\ ToSet(rm) = bs \ ts /\ IsSeq(add) /\ ToSet(add) = ts \ bs
    BY <2>7, Listed
  <2>9. PICK q : q = <<ExtEnter(n, fmt)>> \o [i \in DOMAIN rm |-> ExtRemove(rm[i])]
                       \o [i \in DOMAIN add |-> ExtAdd(add[i])] \o <<ExtLeave>>
    OBVIOUS
  <2>10. IsSeq(q) /\ ExtShape(q, rm, add, n, fmt)
    BY <2>8, <2>9, ExtShaped
  <2>11. ExtSection(q, n, bs, ts)
    BY <2>8, <2>10, ExtRecords
  <2>12. PICK g : g = f \o q
    OBVIOUS
  <2>13. AtExts(g, b, t, E \ {n})
    BY <2>2, <2>5, <2>6, <2>10, <2>11, <2>12, ExtensionGives
  <2>14. FileHead(g)
    BY <2>5, <2>10, <2>12, HeadStays
  <2>15. file' = g
    BY <2>3, <2>9, <2>12
  <2>. QED BY <2>1, <2>4, <2>13, <2>14, <2>15
<1>5. ComputeInv'
  BY <1>2, <1>4 DEF ComputeInv, Using
<1>. QED BY <1>3, <1>5 DEF RoundInv

LEMMA FreshAtStart ==
  ASSUME NEW s, Stream(s), \A n \in StoreNames(s) : n \in Nat \ {0}
  PROVE  Fresh(s, Start, 0)
<1>1. IsSeq(s) /\ Len(s) \in Nat /\ DOMAIN s = 1 .. Len(s)
  BY SeqFacts DEF Stream, Good
<1>2. Start.pos = 1 /\ Start.cur = None
  BY DEF Start
<1>3. 1 <= Len(s) => s[1].tag # "iavl"
  <2>1. ASSUME 1 <= Len(s), s[1].tag = "iavl" PROVE FALSE
    <3>1. 1 \in DOMAIN s
      BY <1>1, <2>1
    <3>2. PICK j \in 1 .. 1 : s[j].tag = "store"
      BY <2>1, <3>1 DEF Stream, Nested
    <3>3. j = 1
      OBVIOUS
    <3>. QED BY <2>1, <3>2, <3>3
  <2>. QED BY <2>1
<1>4. ASSUME NEW j \in Stores(s) PROVE s[j].name > 0 /\ j >= 1
  <2>1. j \in 1 .. Len(s) /\ s[j].name \in StoreNames(s)
    BY <1>1 DEF Stores, StoreNames
  <2>2. s[j].name \in Nat \ {0}
    BY <2>1
  <2>. QED BY <1>1, <2>1, <2>2
<1>. QED BY <1>1, <1>2, <1>3, <1>4 DEF Fresh

LEMMA RoundInit == Init => RoundInv
<1>. SUFFICES ASSUME Init, mode = "leaf" PROVE ComputeInv /\ ApplyInv
  BY DEF RoundInv
<1>1. pc = "peek" /\ file = <<Hdr, ZHdr>> /\ brd = Start /\ trd = Start /\ out = << >> /\ meta = {}
  BY DEF Init
<1>2. ApplyInv
  BY <1>1 DEF ApplyInv
<1>3. IsPair
  BY DEF Init, IsPair
<1>4. PICK b, t : b = base /\ t = target
  OBVIOUS
<1>5. Stream(b) /\ Stream(t) /\ \A n \in AllNames(b, t) : n \in Nat \ {0}
  BY <1>3, <1>4, Streams
<1>6. PICK x, y : x = Hdr /\ y = ZHdr
  OBVIOUS
<1>7. x.tag = "Header" /\ y.tag = "ZlibHeader"
  BY <1>6 DEF Hdr, ZHdr
<1>8. PICK f : f = <<x, y>>
  OBVIOUS
<1>9. Len(f) = 2 /\ DOMAIN f = 1 .. 2 /\ f[1] = x /\ f[2] = y
  BY <1>8
<1>10. FileHead(f)
  BY <1>7, <1>9 DEF FileHead
<1>11. Enters(f) = {} /\ ExtEnters(f) = {}
  <2>1. \A i \in 1 .. 2 : i = 1 \/ i = 2
    OBVIOUS
  <2>. QED BY <1>7, <1>9, <2>1 DEF Enters, ExtEnters
<1>12. Fresh(b, Start, 0) /\ Fresh(t, Start, 0)
  BY <1>5, FreshAtStart DEF AllNames
<1>13. SoFar(f, 0, AllNames(b, t))
  BY <1>5, <1>11 DEF SoFar
<1>14. AtPeek(f, b, t, Start, Start)
  BY <1>11, <1>12, <1>13 DEF AtPeek
<1>. QED BY <1>1, <1>2, <1>4, <1>6, <1>8, <1>10, <1>14 DEF ComputeInv, Using

-----------------------------------------------------------------------------
(* What Apply finds in a whole diff.                                       *)

Begins(f) == {j \in DOMAIN f : f[j].tag \in {"StoreEnter", "ExtEnter"}}
Ends(f, leave) == {j \in DOMAIN f : f[j].tag \in {leave, "StoreEnter", "ExtEnter"}}
From(T, d) == {j \in T : j >= d}

(* n is the first store after N.                                           *)
NextName(n, N, A) == n \in A /\ n > N /\ \A m \in A : m > N => m >= n

(* The next section behind those up to N is that of the next name.         *)
LEMMA SectionAt ==
  ASSUME NEW f, IsSeq(f), NEW b, Stream(b), NEW t, Stream(t), FileDone(f, b, t), NEW N \in Nat,
         NEW d, Ahead(f, d, N), NEW s, FirstOf(s, f, d, From(Begins(f), d))
  PROVE  /\ s <= Len(f) /\ f[s].tag = "StoreEnter" => s \in Enters(f) /\ NextName(f[s].name, N, AllNames(b, t))
         /\ ~(s <= Len(f) /\ f[s].tag = "StoreEnter") => \A n \in AllNames(b, t) : n <= N
<1>1. Len(f) \in Nat /\ DOMAIN f = 1 .. Len(f) /\ d \in 1 .. Len(f) + 1
  BY SeqFacts DEF Ahead
<1>2. s \in d .. Len(f) + 1 /\ s \in Nat /\ (s <= Len(f) => s \in Begins(f)) /\ \A j \in d .. s - 1 : j \notin From(Begins(f), d)
  <2>1. s \in d .. Len(f) + 1 /\ (s <= Len(f) => s \in From(Begins(f), d)) /\ \A j \in d .. s - 1 : j \notin From(Begins(f), d)
    BY DEF FirstOf
  <2>. QED BY <1>1, <2>1 DEF From
<1>3. \A n \in AllNames(b, t) : n \in Nat
  BY NamesAre
<1>4. /\ \A x \in Enters(f) : f[x].name \in AllNames(b, t) /\ f[x].name \in Nat /\ x \in 1 .. Len(f)
      /\ \A n \in AllNames(b, t) : \E x \in Enters(f) : f[x].name = n
      /\ \A x, y \in Enters(f) : x < y => f[x].name < f[y].name
      /\ \A x \in Enters(f), y \in ExtEnters(f) : x < y
  <2>1. Sections(f, b, t)
    BY DEF FileDone
  <2>2. \A x \in Enters(f) : f[x].name \in AllNames(b, t) /\ x \in 1 .. Len(f)
    BY <1>1, <2>1 DEF Sections, Enters
  <2>. QED BY <1>3, <2>1, <2>2 DEF Sections
<1>5. ASSUME NEW n \in AllNames(b, t), n > N
      PROVE  s <= Len(f) /\ f[s].tag = "StoreEnter" /\ s \in Enters(f) /\ f[s].name <= n
  <2>1. PICK x \in Enters(f) : f[x].name = n
    BY <1>4
  <2>2. x >= d /\ x \in 1 .. Len(f) /\ x \in Begins(f)
    BY <1>4, <1>5, <2>1 DEF Ahead, Enters, Begins
  <2>3. s <= x
    <3>1. CASE x < s
      <4>1. x \in d .. s - 1
        BY <1>1, <1>2, <2>2, <3>1
      <4>. QED BY <1>2, <2>2, <4>1 DEF From
    <3>. QED BY <1>1, <1>2, <2>2, <3>1
  <2>4. s <= Len(f) /\ s \in Begins(f)
    BY <1>1, <1>2, <2>2, <2>3
  <2>5. s \in Enters(f)
    <3>1. s \in Enters(f) \/ s \in ExtEnters(f)
      BY <2>4 DEF Begins, Enters, ExtEnters
    <3>2. s \in ExtEnters(f) => x < s
      BY <1>4
    <3>. QED BY <1>1, <1>2, <2>2, <2>3, <3>1, <3>2
  <2>6. f[s].name <= n
    <3>1. s < x => f[s].name < n
      BY <1>4, <2>1, <2>5
    <3>2. s < x \/ s = x
      BY <1>2, <2>2, <2>3
    <3>3. f[s].name \in Nat /\ n \in Nat
      BY <1>3, <1>4, <2>5
    <3>. QED BY <2>1, <3>1, <3>2, <3>3
  <2>. QED BY <2>4, <2>5, <2>6 DEF Enters
<1>6. ASSUME s <= Len(f), f[s].tag = "StoreEnter" PROVE s \in Enters(f) /\ NextName(f[s].name, N, AllNames(b, t))
  <2>1. s \in Enters(f)
    BY <1>2, <1>6 DEF Begins, Enters
  <2>2. f[s].name > N
    <3>1. s >= d
      BY <1>1, <1>2
    <3>. QED BY <2>1, <3>1 DEF Ahead
  <2>3. \A m \in AllNames(b, t) : m > N => m >= f[s].name
    BY <1>3, <1>4, <1>5, <2>1
  <2>. QED BY <1>4, <2>1, <2>2, <2>3 DEF NextName
<1>7. ASSUME ~(s <= Len(f) /\ f[s].tag = "StoreEnter"), NEW n \in AllNames(b, t) PROVE n <= N
  BY <1>3, <1>5, <1>7
<1>. QED BY <1>6, <1>7

(* The records of a store's section end where SectionEnd finds the end.    *)
LEMMA SectionCloses ==
  ASSUME NEW f, IsSeq(f), NEW b, Stream(b), NEW t, Stream(t), FileDone(f, b, t), NEW x \in Enters(f),
         NEW e, FirstOf(e, f, x + 1, From(Ends(f, "StoreLeave"), x + 1))
  PROVE  /\ e \in x + 1 .. Len(f) /\ f[e].tag = "StoreLeave"
         /\ Given(Span(f, x + 1, e - 1), LeafItems(b, f[x].name), LeafItems(t, f[x].name))
         /\ Ahead(f, e + 1, f[x].name)
<1>1. Len(f) \in Nat /\ DOMAIN f = 1 .. Len(f) /\ x \in 1 .. Len(f)
  BY SeqFacts DEF Enters
<1>2. Sections(f, b, t)
  BY DEF FileDone
<1>3. PICK c \in x + 1 .. Len(f) : f[c].tag = "StoreLeave" /\ Given(Span(f, x + 1, c - 1), LeafItems(b, f[x].name), LeafItems(t, f[x].name))
  BY <1>2 DEF Sections, Closed
<1>4. \A j \in x + 1 .. c - 1 : f[j].tag \in Edits
  BY <1>3 DEF Given, Span
<1>5. e \in x + 1 .. Len(f) + 1 /\ (e <= Len(f) => e \in Ends(f, "StoreLeave")) /\ \A j \in x + 1 .. e - 1 : j \notin From(Ends(f, "StoreLeave"), x + 1)
  BY DEF FirstOf, From
<1>6. e = c
  <2>1. c \in From(Ends(f, "StoreLeave"), x + 1)
    BY <1>1, <1>3 DEF Ends, From
  <2>2. ~(c < e)
    <3>1. c < e => c \in x + 1 .. e - 1
      BY <1>1, <1>5
    <3>. QED BY <1>5, <2>1, <3>1
  <2>3. ~(e < c)
    <3>1. ASSUME e < c PROVE FALSE
      <4>1. e \in x + 1 .. c - 1 /\ e <= Len(f)
        BY <1>1, <1>5, <3>1
      <4>2. f[e].tag \in Edits /\ f[e].tag \in {"StoreLeave", "StoreEnter", "ExtEnter"}
        BY <1>4, <1>5, <4>1 DEF Ends
      <4>. QED BY <4>2 DEF Edits
    <3>. QED BY <3>1
  <2>. QED BY <1>1, <1>5, <2>2, <2>3
<1>7. \A y \in Enters(f) \cup ExtEnters(f) : y \in 1 .. Len(f) /\ (y > x <=> y >= e + 1)
  <2>1. ASSUME NEW y \in Enters(f) \cup ExtEnters(f) PROVE y \in 1 .. Len(f) /\ (y > x <=> y >= e + 1)
    <3>1. y \in 1 .. Len(f) /\ f[y].tag \in {"StoreEnter", "ExtEnter"}
      BY <1>1 DEF Enters, ExtEnters
    <3>2. y # c /\ y \notin x + 1 .. c - 1
      BY <1>3, <1>4, <3>1 DEF Edits
    <3>. QED BY <1>1, <1>6, <3>1, <3>2
  <2>. QED BY <2>1
<1>8. \A y \in Enters(f) : f[y].name \in Nat
  BY <1>2, NamesAre DEF Sections
<1>9. ASSUME NEW y \in Enters(f) PROVE f[y].name > f[x].name <=> y >= e + 1
  <2>1. (x < y => f[x].name < f[y].name) /\ (y < x => f[y].name < f[x].name)
    BY <1>2 DEF Sections
  <2>2. y \in Nat /\ x \in Nat /\ f[x].name \in Nat /\ f[y].name \in Nat
    BY <1>1, <1>7, <1>8
  <2>3. f[y].name > f[x].name <=> y > x
    BY <2>1, <2>2
  <2>. QED BY <1>7, <2>3
<1>10. \A y \in ExtEnters(f) : y >= e + 1
  <2>1. \A y \in ExtEnters(f) : x < y
    BY <1>2 DEF Sections
  <2>2. ASSUME NEW y \in ExtEnters(f) PROVE y >= e + 1
    <3>0. y \in 1 .. Len(f) /\ (y > x <=> y >= e + 1)
      BY <1>7
    <3>1. y \in Nat /\ x \in Nat /\ x < y
      BY <1>1, <2>1, <3>0
    <3>2. y > x
      BY <3>1
    <3>. QED BY <3>0, <3>2
  <2>. QED BY <2>2
<1>11. e + 1 \in 1 .. Len(f) + 1
  BY <1>1, <1>6
<1>12. Ahead(f, e + 1, f[x].name)
  BY <1>9, <1>10, <1>11 DEF Ahead
<1>. QED BY <1>3, <1>6, <1>12

(* The maps readStoreChanges fills, as the records they stand for.         *)
ChangesOf(c, R) ==
  /\ \A k : (k \in c.del <=> Has(R, "Delete", k)) /\ (k \in DOMAIN c.upd <=> Has(R, "Update", k))
            /\ (k \in DOMAIN c.ins <=> Has(R, "Insert", k))
  /\ \A k \in DOMAIN c.upd : \E r \in R : r.tag = "Update" /\ r.key = k /\ r.val = c.upd[k]
  /\ \A k \in DOMAIN c.ins : \E r \in R : r.tag = "Insert" /\ r.key = k /\ r.val = c.ins[k]
  /\ c.left = DOMAIN c.ins

(* The maps of records that are Given make a Plan.                         *)
LEMMA PlanOf ==
  ASSUME NEW c, NEW R, ChangesOf(c, R), NEW B, NEW T, Given(R, B, T),
         \A x, y \in B : x.key = y.key => x = y
  PROVE  Plan(c, B, T)
<1>1. ASSUME NEW x \in B, x.key \notin c.del
      PROVE  /\ x.key \notin DOMAIN c.ins
             /\ \E y \in T : y.key = x.key /\ y.val = IF x.key \in DOMAIN c.upd THEN c.upd[x.key] ELSE x.val
  <2>1. ~Has(R, "Delete", x.key)
    BY <1>1 DEF ChangesOf
  <2>2. ~Has(R, "Insert", x.key) /\ \E y \in T : y.key = x.key
    BY <2>1 DEF Given
  <2>3. x.key \notin DOMAIN c.ins
    BY <2>2 DEF ChangesOf
  <2>4. CASE x.key \in DOMAIN c.upd
    <3>1. PICK r \in R : r.tag = "Update" /\ r.key = x.key /\ r.val = c.upd[x.key]
      BY <2>4 DEF ChangesOf
    <3>2. PICK y \in T : y.key = r.key /\ y.val = r.val
      BY <3>1 DEF Given
    <3>. QED BY <2>3, <2>4, <3>1, <3>2
  <2>5. CASE x.key \notin DOMAIN c.upd
    <3>1. ~Has(R, "Update", x.key)
      BY <2>5 DEF ChangesOf
    <3>2. PICK y \in T : y.key = x.key
      BY <2>2
    <3>3. PICK z \in B : z.key = y.key /\ (Has(R, "Update", y.key) \/ z.val = y.val)
      BY <2>2, <3>2 DEF Given
    <3>4. z = x
      BY <3>2, <3>3
    <3>. QED BY <2>3, <2>5, <3>1, <3>2, <3>3, <3>4
  <2>. QED BY <2>4, <2>5
<1>2. ASSUME NEW k \in DOMAIN c.ins PROVE \E y \in T : y.key = k /\ y.val = c.ins[k]
  <2>1. PICK r \in R : r.tag = "Insert" /\ r.key = k /\ r.val = c.ins[k]
    BY DEF ChangesOf
  <2>2. PICK y \in T : y.key = r.key /\ y.val = r.val
    BY <2>1 DEF Given
  <2>. QED BY <2>1, <2>2
<1>3. ASSUME NEW y \in T PROVE y.key \in DOMAIN c.ins \/ \E x \in B : x.key = y.key /\ x.key \notin c.del
  <2>1. \/ Has(R, "Insert", y.key)
        \/ /\ ~Has(R, "Delete", y.key)
           /\ \E x \in B : x.key = y.key
    BY DEF Given
  <2>. QED BY <2>1 DEF ChangesOf
<1>. QED BY <1>1, <1>2, <1>3 DEF Plan

LEMMA SectionFirst ==
  ASSUME NEW f, f = file, IsSeq(f), NEW d \in 1 .. Len(f) + 1, NEW s, s = Section(d)
  PROVE  FirstOf(s, f, d, From(Begins(f), d))
<1>1. Len(f) \in Nat /\ DOMAIN f = 1 .. Len(f) /\ d \in Nat \ {0} /\ d <= Len(f) + 1
  BY SeqFacts
<1>2. PICK T : T = {j \in d .. Len(f) : f[j].tag \in {"StoreEnter", "ExtEnter"}}
  OBVIOUS
<1>3. s = Min(T \cup {Len(f) + 1})
  BY <1>2 DEF Section, FirstFrom
<1>4. T \in SUBSET (d .. Len(f)) /\ T = From(Begins(f), d)
  BY <1>1, <1>2 DEF From, Begins
<1>. QED BY <1>1, <1>3, <1>4, FirstLeast

LEMMA EndFirst ==
  ASSUME NEW f, f = file, IsSeq(f), NEW d \in 1 .. Len(f) + 1, NEW leave, NEW e, e = SectionEnd(d, leave)
  PROVE  FirstOf(e, f, d, From(Ends(f, leave), d))
<1>1. Len(f) \in Nat /\ DOMAIN f = 1 .. Len(f) /\ d \in Nat \ {0} /\ d <= Len(f) + 1
  BY SeqFacts
<1>2. PICK T : T = {j \in d .. Len(f) : f[j].tag \in {leave, "StoreEnter", "ExtEnter"}}
  OBVIOUS
<1>3. e = Min(T \cup {Len(f) + 1})
  BY <1>2 DEF SectionEnd, FirstFrom
<1>4. T \in SUBSET (d .. Len(f)) /\ T = From(Ends(f, leave), d)
  BY <1>1, <1>2 DEF From, Ends
<1>. QED BY <1>1, <1>3, <1>4, FirstLeast

LEMMA ChangedIs ==
  ASSUME NEW f, f = file, IsSeq(f), NEW p \in Nat, NEW e \in Nat, NEW tag, NEW R, R = Span(f, p, e - 1),
         NEW g, g = Changed(p, e, tag)
  PROVE  /\ \A k : k \in DOMAIN g <=> Has(R, tag, k)
         /\ tag # "Delete" => \A k \in DOMAIN g : \E r \in R : r.tag = tag /\ r.key = k /\ r.val = g[k]
<1>. DEFINE at(k) == {i \in p .. e - 1 : f[i].tag = tag /\ f[i].key = k}
            keys  == {f[i].key : i \in {j \in p .. e - 1 : f[j].tag = tag}}
<1>1. g = [k \in keys |-> IF tag = "Delete" THEN None ELSE f[Max(at(k))].val]
  BY DEF Changed
<1>2. DOMAIN g = keys
  BY <1>1
<1>3. \A k : k \in keys <=> Has(R, tag, k)
  BY DEF Has, Span
<1>4. ASSUME tag # "Delete", NEW k \in keys PROVE \E r \in R : r.tag = tag /\ r.key = k /\ r.val = g[k]
  <2>1. PICK A : A = at(k)
    OBVIOUS
  <2>2. A # {} /\ A \in SUBSET Nat /\ (\A i \in A : i <= e - 1 /\ i <= e) /\ \A i \in A : i \in p .. e - 1 /\ f[i].tag = tag /\ f[i].key = k
    BY <2>1
  <2>3. Max(A) \in A
    BY <2>2, GreatestIs
  <2>4. PICK i \in A : i = Max(A)
    BY <2>3
  <2>5. g[k] = f[i].val
    BY <1>1, <1>4, <2>1, <2>4
  <2>6. f[i] \in R
    BY <2>2 DEF Span
  <2>. QED BY <2>2, <2>5, <2>6
<1>. QED BY <1>2, <1>3, <1>4

LEMMA ChangesGive ==
  ASSUME NEW f, f = file, IsSeq(f), NEW p \in Nat, NEW e \in Nat, e = SectionEnd(p, "StoreLeave"),
         NEW c, c = StoreChanges(p)
  PROVE  ChangesOf(c, Span(f, p, e - 1))
<1>1. PICK R : R = Span(f, p, e - 1)
  OBVIOUS
<1>2. PICK x, y, z : x = Changed(p, e, "Delete") /\ y = Changed(p, e, "Update") /\ z = Changed(p, e, "Insert")
  OBVIOUS
<1>3. \A k : k \in DOMAIN x <=> Has(R, "Delete", k)
  BY <1>1, <1>2, ChangedIs
<1>4. PICK u, v : u = "Update" /\ v = "Insert"
  OBVIOUS
<1>5. /\ \A k : k \in DOMAIN y <=> Has(R, u, k)
      /\ u # "Delete" => \A k \in DOMAIN y : \E r \in R : r.tag = u /\ r.key = k /\ r.val = y[k]
  BY <1>1, <1>2, <1>4, ChangedIs
<1>6. /\ \A k : k \in DOMAIN z <=> Has(R, v, k)
      /\ v # "Delete" => \A k \in DOMAIN z : \E r \in R : r.tag = v /\ r.key = k /\ r.val = z[k]
  BY <1>1, <1>2, <1>4, ChangedIs
<1>7. c = [del |-> DOMAIN x, upd |-> y, ins |-> z, left |-> DOMAIN z]
  BY <1>2 DEF StoreChanges
<1>8. c.del = DOMAIN x /\ c.upd = y /\ c.ins = z /\ c.left = DOMAIN z
  BY <1>7
<1>9. ChangesOf(c, R)
  BY <1>3, <1>4, <1>5, <1>6, <1>8 DEF ChangesOf
<1>. QED BY <1>1, <1>9

(* A store's section: its changes make the target's leaves of the base's,  *)
(* and the next section begins behind it.                                  *)
LEMMA SectionPlan ==
  ASSUME NEW f, f = file, IsSeq(f), NEW b, Stream(b), NEW t, Stream(t), FileDone(f, b, t), NEW x \in Enters(f),
         NEW n, n = f[x].name, NEW c, c = StoreChanges(x + 1), NEW d, d = AfterSection(x + 1, "StoreLeave")
  PROVE  Plan(c, LeafItems(b, n), LeafItems(t, n)) /\ Ahead(f, d, n) /\ c.left = DOMAIN c.ins
<1>1. Len(f) \in Nat /\ DOMAIN f = 1 .. Len(f) /\ x \in 1 .. Len(f)
  BY SeqFacts DEF Enters
<1>2. PICK p \in 1 .. Len(f) + 1 : p = x + 1 /\ p \in Nat
  BY <1>1
<1>3. PICK e : e = SectionEnd(p, "StoreLeave")
  OBVIOUS
<1>4. FirstOf(e, f, x + 1, From(Ends(f, "StoreLeave"), x + 1))
  BY <1>2, <1>3, EndFirst
<1>5. /\ e \in x + 1 .. Len(f) /\ f[e].tag = "StoreLeave"
      /\ Given(Span(f, x + 1, e - 1), LeafItems(b, f[x].name), LeafItems(t, f[x].name))
      /\ Ahead(f, e + 1, f[x].name)
  BY <1>4, SectionCloses
<1>6. e \in Nat /\ e <= Len(f)
  BY <1>1, <1>5
<1>7. d = e + 1
  <2>1. d = (IF e <= Len(file) /\ file[e].tag = "StoreLeave" THEN e + 1 ELSE e)
    BY <1>2, <1>3 DEF AfterSection
  <2>. QED BY <1>5, <1>6, <2>1
<1>8. PICK R : R = Span(f, x + 1, e - 1)
  OBVIOUS
<1>9. ChangesOf(c, R)
  BY <1>2, <1>3, <1>6, <1>8, ChangesGive
<1>10. PICK B, T : B = LeafItems(b, n) /\ T = LeafItems(t, n)
  OBVIOUS
<1>11. \A y, z \in B : y.key = z.key => y = z
  BY <1>10, LeafKeys
<1>12. Plan(c, B, T)
  BY <1>5, <1>8, <1>9, <1>10, <1>11, PlanOf
<1>. QED BY <1>5, <1>7, <1>9, <1>10, <1>12 DEF ChangesOf

-----------------------------------------------------------------------------
(* What Apply writes.                                                      *)

(* What is appended changes no item's owner.                               *)
LEMMA OwnerStays ==
  ASSUME NEW o, IsSeq(o), NEW q, NEW g, Grown(g, o, q), NEW i \in 1 .. Len(o), NEW tag,
         NEW k \in 1 .. i, o[k].tag = tag
  PROVE  Owner(g, i, tag) = Owner(o, i, tag)
<1>2. /\ IsSeq(g) /\ Len(o) \in Nat /\ \A j \in 1 .. Len(o) : j \in 1 .. Len(g) /\ g[j] = o[j]
  BY DEF Grown
<1>3. PICK x \in 1 .. i : /\ o[x].tag = tag /\ (\A j \in x + 1 .. i : o[j].tag # tag) /\ Owner(o, i, tag) = o[x].name
  BY LastOf
<1>4. x \in 1 .. Len(o) /\ (\A j \in x + 1 .. i : j \in 1 .. Len(o)) /\ i \in 1 .. Len(g)
  BY <1>2
<1>5. g[x] = o[x] /\ \A j \in x + 1 .. i : g[j].tag # tag
  <2>1. ASSUME NEW j \in x + 1 .. i PROVE g[j].tag # tag
    <3>1. g[j] = o[j]
      BY <1>2, <1>4
    <3>. QED BY <1>3, <3>1
  <2>2. g[x] = o[x]
    BY <1>2, <1>4
  <2>. QED BY <2>1, <2>2
<1>6. Owner(g, i, tag) = g[x].name
  BY <1>2, <1>3, <1>4, <1>5, OwnerIs
<1>. QED BY <1>3, <1>5, <1>6

Kept(g, o) ==
  \A i \in 1 .. Len(o) :
    /\ LeafAt(g, i) <=> LeafAt(o, i)
    /\ LeafAt(o, i) => Owner(g, i, "store") = Owner(o, i, "store")
    /\ o[i].tag = "payload" => Owner(g, i, "ext") = Owner(o, i, "ext")

LEMMA Keeps ==
  ASSUME NEW o, Stream(o), NEW q, NEW g, Grown(g, o, q)
  PROVE  Kept(g, o)
<1>1. IsSeq(o) /\ Len(o) \in Nat /\ DOMAIN o = 1 .. Len(o)
  BY SeqFacts DEF Stream, Good
<1>3. ASSUME NEW i \in 1 .. Len(o)
      PROVE  /\ LeafAt(g, i) <=> LeafAt(o, i)
             /\ LeafAt(o, i) => Owner(g, i, "store") = Owner(o, i, "store")
             /\ o[i].tag = "payload" => Owner(g, i, "ext") = Owner(o, i, "ext")
  <2>1. g[i] = o[i]
    BY DEF Grown
  <2>2. ASSUME LeafAt(o, i) PROVE Owner(g, i, "store") = Owner(o, i, "store")
    <3>1. PICK j \in 1 .. i : o[j].tag = "store"
      BY <1>1, <2>2 DEF Stream, Nested, LeafAt
    <3>2. PICK tag : tag = "store"
      OBVIOUS
    <3>3. o[j].tag = tag
      BY <3>1, <3>2
    <3>4. Owner(g, i, tag) = Owner(o, i, tag)
      BY <1>1, <3>3, OwnerStays
    <3>. QED BY <3>2, <3>4
  <2>3. ASSUME o[i].tag = "payload" PROVE Owner(g, i, "ext") = Owner(o, i, "ext")
    <3>1. PICK j \in 1 .. i : o[j].tag = "ext"
      BY <1>1, <2>3 DEF Stream, Nested
    <3>2. PICK tag : tag = "ext"
      OBVIOUS
    <3>3. o[j].tag = tag
      BY <3>1, <3>2
    <3>4. Owner(g, i, tag) = Owner(o, i, tag)
      BY <1>1, <3>3, OwnerStays
    <3>. QED BY <3>2, <3>4
  <2>. QED BY <2>1, <2>2, <2>3 DEF LeafAt
<1>. QED BY <1>3 DEF Kept

Later(g, o, m) == {i \in Len(o) + 1 .. Len(g) : LeafAt(g, i) /\ Owner(g, i, "store") = m}

LEMMA LeavesGrow ==
  ASSUME NEW o, NEW q, NEW g, Grown(g, o, q), Kept(g, o), NEW m
  PROVE  Leaves(g, m) = Leaves(o, m) \cup Later(g, o, m)
<1>. SUFFICES ASSUME NEW i PROVE i \in Leaves(g, m) <=> i \in Leaves(o, m) \cup Later(g, o, m)
  OBVIOUS
<1>1. /\ DOMAIN o = 1 .. Len(o) /\ DOMAIN g = 1 .. Len(g) /\ Len(o) \in Nat /\ Len(q) \in Nat /\ Len(g) = Len(o) + Len(q)
  BY DEF Grown
<1>2. i \in 1 .. Len(g) <=> i \in 1 .. Len(o) \/ i \in Len(o) + 1 .. Len(g)
  BY <1>1
<1>3. ~(i \in 1 .. Len(o) /\ i \in Len(o) + 1 .. Len(g))
  BY <1>1
<1>4. i \in 1 .. Len(o) => (i \in Leaves(g, m) <=> i \in Leaves(o, m))
  BY <1>1, <1>2 DEF Leaves, Kept
<1>. QED BY <1>1, <1>2, <1>3, <1>4 DEF Leaves, Later

(* The leaves of each store, when nothing that follows is a leaf.          *)
LEMMA LeavesStay ==
  ASSUME NEW o, NEW q, NEW g, Grown(g, o, q), Kept(g, o), \A i \in 1 .. Len(q) : ~LeafAt(q, i), NEW m
  PROVE  Leaves(g, m) = Leaves(o, m) /\ LeafItems(g, m) = LeafItems(o, m) /\ KVs(g, m) = KVs(o, m)
<1>1. /\ DOMAIN o = 1 .. Len(o) /\ DOMAIN g = 1 .. Len(g) /\ Len(o) \in Nat /\ Len(q) \in Nat /\ Len(g) = Len(o) + Len(q)
      /\ \A i \in 1 .. Len(o) : g[i] = o[i]
      /\ \A i \in 1 .. Len(q) : g[Len(o) + i] = q[i]
  BY DEF Grown
<1>2. ASSUME NEW i \in Len(o) + 1 .. Len(g) PROVE ~LeafAt(g, i)
  <2>1. PICK j \in 1 .. Len(q) : i = Len(o) + j
    <3>1. i - Len(o) \in 1 .. Len(q) /\ i = Len(o) + (i - Len(o))
      BY <1>1
    <3>. QED BY <3>1
  <2>. QED BY <1>1, <2>1 DEF LeafAt
<1>3. Later(g, o, m) = {}
  BY <1>2 DEF Later
<1>4. Leaves(g, m) = Leaves(o, m) /\ Leaves(o, m) \subseteq 1 .. Len(o)
  BY <1>1, <1>3, LeavesGrow DEF Leaves
<1>5. LeafItems(g, m) = LeafItems(o, m)
  BY <1>1, <1>4 DEF LeafItems
<1>. QED BY <1>4, <1>5 DEF KVs

Written1(g, o, n) ==
  /\ Stream(g) /\ NoExts(g) /\ InStore(g, n) /\ StoreNames(g) = StoreNames(o) \cup {n}
  /\ \A m : LeafItems(g, m) = LeafItems(o, m)

(* A store item appended: a store without leaves.                          *)
LEMMA StoreBegun ==
  ASSUME NEW o, Stream(o), NoExts(o), NEW n \in Nat, \A m \in StoreNames(o) : m < n,
         NEW g, g = o \o <<StoreItem(n)>>
  PROVE  Written1(g, o, n)
<1>1. PICK y : y = StoreItem(n) /\ y.tag = "store" /\ y.name = n
  BY DEF StoreItem
<1>2. PICK q : q = <<y>>
  OBVIOUS
<1>3. IsSeq(q) /\ Len(q) = 1 /\ q[1] = y /\ g = o \o q
  BY <1>1, <1>2, OneElement
<1>4. Kept(g, o) /\ Grown(g, o, q)
  BY <1>3, Grows, Keeps DEF Stream, Good
<1>5. /\ IsSeq(g) /\ DOMAIN o = 1 .. Len(o) /\ DOMAIN g = 1 .. Len(g) /\ Len(o) \in Nat /\ Len(g) = Len(o) + 1
      /\ \A i \in 1 .. Len(o) : g[i] = o[i]
      /\ \A i \in 1 .. Len(q) : g[Len(o) + i] = q[i]
  BY <1>3, <1>4 DEF Grown
<1>6. g[Len(g)] = y
  <2>1. 1 \in 1 .. Len(q)
    BY <1>3
  <2>. QED BY <1>3, <1>5, <2>1
<1>7. \A i \in 1 .. Len(g) : i \in 1 .. Len(o) \/ i = Len(g)
  BY <1>5
<1>8. \A i \in 1 .. Len(q) : ~LeafAt(q, i)
  <2>1. \A i \in 1 .. Len(q) : i = 1
    BY <1>3
  <2>. QED BY <1>1, <1>3, <2>1 DEF LeafAt
<1>9. \A m : LeafItems(g, m) = LeafItems(o, m)
  BY <1>4, <1>8, LeavesStay
<1>10. NoExts(g)
  <2>1. \A i \in 1 .. Len(g) : g[i].tag \in {"store", "iavl"}
    BY <1>1, <1>5, <1>6, <1>7 DEF NoExts
  <2>. QED BY <1>5, <2>1 DEF NoExts
<1>11. Good(g)
  <2>1. Good(<<y>>)
    BY <1>1, SoundRecords, GoodOne
  <2>. QED BY <1>2, <1>3, <2>1, GoodConcat DEF Stream
<1>12. Nested(g)
  <2>1. ASSUME NEW i \in DOMAIN g, g[i].tag = "iavl" PROVE \E j \in 1 .. i : g[j].tag = "store"
    <3>1. i \in 1 .. Len(o)
      BY <1>1, <1>5, <1>6, <1>7, <2>1
    <3>2. PICK j \in 1 .. i : o[j].tag = "store"
      BY <1>5, <2>1, <3>1 DEF Stream, Nested
    <3>3. j \in 1 .. Len(o)
      BY <1>5, <3>1
    <3>. QED BY <1>5, <3>2, <3>3
  <2>. QED BY <1>10, <2>1 DEF Nested, NoExts
<1>13. Ordered(g)
  <2>1. ASSUME NEW i \in DOMAIN g, NEW j \in DOMAIN g, i < j, g[i].tag = "store", g[j].tag = "store"
        PROVE  g[i].name < g[j].name
    <3>1. i \in 1 .. Len(o)
      BY <1>5, <1>7, <2>1
    <3>2. CASE j \in 1 .. Len(o)
      BY <1>5, <2>1, <3>1, <3>2 DEF Stream, Ordered
    <3>3. CASE j = Len(g)
      <4>1. o[i].name \in StoreNames(o)
        BY <1>5, <2>1, <3>1 DEF StoreNames
      <4>. QED BY <1>1, <1>5, <1>6, <3>1, <3>3, <4>1
    <3>. QED BY <1>5, <1>7, <3>2, <3>3
  <2>2. ASSUME NEW i \in DOMAIN g, NEW j \in DOMAIN g, i < j, LeafAt(g, i), LeafAt(g, j), Owner(g, i, "store") = Owner(g, j, "store")
        PROVE  g[i].key < g[j].key
    <3>1. i \in 1 .. Len(o) /\ j \in 1 .. Len(o)
      BY <1>1, <1>5, <1>6, <1>7, <2>2 DEF LeafAt
    <3>2. LeafAt(o, i) /\ LeafAt(o, j) /\ Owner(o, i, "store") = Owner(o, j, "store")
      BY <1>4, <2>2, <3>1 DEF Kept
    <3>. QED BY <1>5, <2>2, <3>1, <3>2 DEF Stream, Ordered
  <2>. QED BY <2>1, <2>2 DEF Ordered
<1>14. Stream(g)
  BY <1>5, <1>10, <1>11, <1>12, <1>13 DEF Stream, NoExts
<1>15. InStore(g, n)
  <2>1. Len(g) \in Stores(g) /\ g[Len(g)].name = n /\ Len(g) + 1 .. Len(g) = {}
    BY <1>1, <1>5, <1>6 DEF Stores
  <2>. QED BY <2>1 DEF InStore
<1>16. StoreNames(g) = StoreNames(o) \cup {n}
  <2>1. \A i \in 1 .. Len(o) : i \in 1 .. Len(g)
    BY <1>5
  <2>2. Len(g) \in 1 .. Len(g)
    BY <1>5
  <2>. QED BY <1>1, <1>5, <1>6, <1>7, <2>1, <2>2 DEF StoreNames
<1>. QED BY <1>9, <1>10, <1>14, <1>15, <1>16 DEF Written1

NewLeaves(q, o, n) ==
  /\ IsSeq(q)
  /\ \A i \in 1 .. Len(q) : LeafAt(q, i) /\ q[i].key \in Nat /\ \A x \in LeafItems(o, n) : x.key < q[i].key
  /\ \A i, j \in 1 .. Len(q) : i < j => q[i].key < q[j].key

Written2(g, o, q, n) ==
  /\ Stream(g) /\ NoExts(g) /\ InStore(g, n) /\ StoreNames(g) = StoreNames(o)
  /\ LeafItems(g, n) = LeafItems(o, n) \cup {q[i] : i \in 1 .. Len(q)}
  /\ \A m : m # n => LeafItems(g, m) = LeafItems(o, m)

Owned(g, o, n) ==
  /\ InStore(g, n)
  /\ \A i \in Len(o) + 1 .. Len(g) : LeafAt(g, i) /\ Owner(g, i, "store") = n /\ g[i].tag = "iavl"
  /\ \A i \in Len(o) + 1 .. Len(g) : \E j \in 1 .. i : g[j].tag = "store"

(* Leaves that follow the last store belong to it.                         *)
LEMMA NewOwner ==
  ASSUME NEW o, Stream(o), NEW n, InStore(o, n), NEW q, NewLeaves(q, o, n), NEW g, Grown(g, o, q)
  PROVE  Owned(g, o, n)
<1>1. /\ IsSeq(g) /\ Len(o) \in Nat /\ Len(q) \in Nat /\ Len(g) = Len(o) + Len(q) /\ DOMAIN o = 1 .. Len(o) /\ DOMAIN g = 1 .. Len(g)
      /\ \A j \in 1 .. Len(o) : j \in 1 .. Len(g) /\ g[j] = o[j]
      /\ \A i \in 1 .. Len(q) : g[Len(o) + i] = q[i]
  BY DEF Grown
<1>2. PICK w \in Stores(o) : o[w].name = n /\ \A j \in w + 1 .. Len(o) : o[j].tag = "iavl"
  BY DEF InStore
<1>3. w \in 1 .. Len(o) /\ o[w].tag = "store" /\ g[w] = o[w]
  BY <1>1, <1>2 DEF Stores
<1>4. ASSUME NEW i \in Len(o) + 1 .. Len(g) PROVE LeafAt(g, i) /\ g[i].tag = "iavl"
  <2>1. PICK j \in 1 .. Len(q) : i = Len(o) + j
    <3>1. i - Len(o) \in 1 .. Len(q) /\ i = Len(o) + (i - Len(o))
      BY <1>1
    <3>. QED BY <3>1
  <2>2. g[i] = q[j] /\ LeafAt(q, j)
    BY <1>1, <2>1 DEF NewLeaves
  <2>. QED BY <2>2 DEF LeafAt
<1>5. ASSUME NEW j \in w + 1 .. Len(g) PROVE g[j].tag = "iavl"
  <2>1. j \in w + 1 .. Len(o) \/ j \in Len(o) + 1 .. Len(g)
    BY <1>1, <1>3
  <2>2. ASSUME j \in w + 1 .. Len(o) PROVE j \in 1 .. Len(o)
    BY <1>1, <1>3, <2>2
  <2>. QED BY <1>1, <1>2, <1>4, <2>1, <2>2
<1>6. w \in Stores(g) /\ g[w].name = n
  BY <1>1, <1>2, <1>3 DEF Stores
<1>7. InStore(g, n)
  BY <1>5, <1>6 DEF InStore
<1>8. ASSUME NEW i \in Len(o) + 1 .. Len(g) PROVE Owner(g, i, "store") = n /\ \E j \in 1 .. i : g[j].tag = "store"
  <2>1. PICK tag : tag = "store"
    OBVIOUS
  <2>2. i \in 1 .. Len(g) /\ w \in 1 .. i /\ \A j \in w + 1 .. i : j \in w + 1 .. Len(g)
    BY <1>1, <1>3
  <2>3. g[w].tag = tag /\ \A j \in w + 1 .. i : g[j].tag # tag
    BY <1>3, <1>5, <2>1, <2>2
  <2>4. Owner(g, i, tag) = g[w].name
    BY <1>1, <2>2, <2>3, OwnerIs
  <2>. QED BY <1>6, <2>1, <2>2, <2>3, <2>4
<1>. QED BY <1>4, <1>7, <1>8 DEF Owned

(* Leaves appended to the last store, above those it has.                  *)
LEMMA LeavesWritten ==
  ASSUME NEW o, Stream(o), NoExts(o), NEW n, InStore(o, n), NEW q, NewLeaves(q, o, n), NEW g, g = o \o q
  PROVE  Written2(g, o, q, n)
<1>1. Grown(g, o, q)
  BY Grows DEF Stream, Good, NewLeaves
<1>2. Kept(g, o)
  BY <1>1, Keeps
<1>3. /\ InStore(g, n)
      /\ \A i \in Len(o) + 1 .. Len(g) : LeafAt(g, i) /\ Owner(g, i, "store") = n /\ g[i].tag = "iavl"
      /\ \A i \in Len(o) + 1 .. Len(g) : \E j \in 1 .. i : g[j].tag = "store"
  <2>1. Owned(g, o, n)
    BY <1>1, NewOwner
  <2>. QED BY <2>1 DEF Owned
<1>4. /\ IsSeq(g) /\ Len(o) \in Nat /\ Len(q) \in Nat /\ Len(g) = Len(o) + Len(q) /\ DOMAIN o = 1 .. Len(o) /\ DOMAIN g = 1 .. Len(g)
      /\ \A j \in 1 .. Len(o) : j \in 1 .. Len(g) /\ g[j] = o[j]
      /\ \A i \in 1 .. Len(q) : Len(o) + i \in 1 .. Len(g) /\ g[Len(o) + i] = q[i]
  BY <1>1 DEF Grown
<1>5. \A i \in 1 .. Len(g) : i \in 1 .. Len(o) \/ i \in Len(o) + 1 .. Len(g)
  BY <1>4
<1>6. ASSUME NEW i \in Len(o) + 1 .. Len(g) PROVE \E j \in 1 .. Len(q) : i = Len(o) + j /\ g[i] = q[j]
  <2>1. i - Len(o) \in 1 .. Len(q) /\ i = Len(o) + (i - Len(o))
    BY <1>4
  <2>. QED BY <1>4, <2>1
<1>7. NoExts(g)
  <2>1. \A i \in 1 .. Len(g) : g[i].tag \in {"store", "iavl"}
    BY <1>3, <1>4, <1>5 DEF NoExts
  <2>. QED BY <1>4, <2>1 DEF NoExts
<1>8. Good(g)
  <2>1. \A i \in 1 .. Len(q) : Sound(q[i])
    BY DEF NewLeaves, Sound, LeafAt
  <2>2. Good(q)
    BY <2>1 DEF Good, NewLeaves
  <2>. QED BY <2>2, GoodConcat DEF Stream
<1>9. Nested(g)
  <2>1. ASSUME NEW i \in DOMAIN g, g[i].tag = "iavl" PROVE \E j \in 1 .. i : g[j].tag = "store"
    <3>1. CASE i \in 1 .. Len(o)
      <4>1. PICK j \in 1 .. i : o[j].tag = "store"
        BY <1>4, <2>1, <3>1 DEF Stream, Nested
      <4>2. j \in 1 .. Len(o)
        BY <1>4, <3>1
      <4>. QED BY <1>4, <4>1, <4>2
    <3>. QED BY <1>3, <1>4, <1>5, <3>1
  <2>. QED BY <1>7, <2>1 DEF Nested, NoExts
<1>10. ASSUME NEW i \in 1 .. Len(o), LeafAt(o, i), Owner(o, i, "store") = n PROVE o[i] \in LeafItems(o, n)
  BY <1>4, <1>10 DEF LeafItems, Leaves
<1>11. Ordered(g)
  <2>1. ASSUME NEW i \in DOMAIN g, NEW j \in DOMAIN g, i < j, g[i].tag = "store", g[j].tag = "store"
        PROVE  g[i].name < g[j].name
    <3>1. i \in 1 .. Len(o) /\ j \in 1 .. Len(o)
      BY <1>3, <1>4, <1>5, <2>1
    <3>. QED BY <1>4, <2>1, <3>1 DEF Stream, Ordered
  <2>2. ASSUME NEW i \in DOMAIN g, NEW j \in DOMAIN g, i < j, LeafAt(g, i), LeafAt(g, j), Owner(g, i, "store") = Owner(g, j, "store")
        PROVE  g[i].key < g[j].key
    <3>1. CASE j \in 1 .. Len(o)
      <4>1. i \in 1 .. Len(o)
        BY <1>4, <1>5, <2>2, <3>1
      <4>2. LeafAt(o, i) /\ LeafAt(o, j) /\ Owner(o, i, "store") = Owner(o, j, "store")
        BY <1>2, <2>2, <3>1, <4>1 DEF Kept
      <4>. QED BY <1>4, <2>2, <3>1, <4>1, <4>2 DEF Stream, Ordered
    <3>2. CASE j \in Len(o) + 1 .. Len(g)
      <4>1. PICK l \in 1 .. Len(q) : j = Len(o) + l /\ g[j] = q[l]
        BY <1>6, <3>2
      <4>2. CASE i \in 1 .. Len(o)
        <5>1. LeafAt(o, i) /\ Owner(o, i, "store") = n
          BY <1>2, <1>3, <2>2, <3>2, <4>2 DEF Kept
        <5>2. o[i] \in LeafItems(o, n)
          BY <1>10, <4>2, <5>1
        <5>. QED BY <1>4, <4>1, <4>2, <5>2 DEF NewLeaves
      <4>3. CASE i \in Len(o) + 1 .. Len(g)
        <5>1. PICK k \in 1 .. Len(q) : i = Len(o) + k /\ g[i] = q[k]
          BY <1>6, <4>3
        <5>2. k < l
          BY <1>4, <2>2, <4>1, <5>1
        <5>. QED BY <4>1, <5>1, <5>2 DEF NewLeaves
      <4>. QED BY <1>4, <1>5, <4>2, <4>3
    <3>. QED BY <1>4, <1>5, <3>1, <3>2
  <2>. QED BY <2>1, <2>2 DEF Ordered
<1>12. Stream(g)
  BY <1>4, <1>7, <1>8, <1>9, <1>11 DEF Stream, NoExts
<1>13. StoreNames(g) = StoreNames(o)
  <2>1. \A i \in 1 .. Len(g) : g[i].tag = "store" => i \in 1 .. Len(o)
    BY <1>3, <1>5
  <2>. QED BY <1>4, <2>1 DEF StoreNames
<1>14. \A m, i : i \in Leaves(g, m) <=> i \in Leaves(o, m) \/ (i \in Len(o) + 1 .. Len(g) /\ m = n)
  <2>1. ASSUME NEW m PROVE Leaves(g, m) = Leaves(o, m) \cup Later(g, o, m)
    BY <1>1, <1>2, LeavesGrow
  <2>2. ASSUME NEW m, NEW i PROVE i \in Later(g, o, m) <=> i \in Len(o) + 1 .. Len(g) /\ m = n
    BY <1>3 DEF Later
  <2>. QED BY <2>1, <2>2
<1>15. \A m : Leaves(o, m) \subseteq 1 .. Len(o)
  BY <1>4 DEF Leaves
<1>16. ASSUME NEW m, m # n PROVE LeafItems(g, m) = LeafItems(o, m)
  <2>1. Leaves(g, m) = Leaves(o, m)
    BY <1>14, <1>16
  <2>. QED BY <1>4, <1>15, <2>1 DEF LeafItems
<1>17. LeafItems(g, n) = LeafItems(o, n) \cup {q[i] : i \in 1 .. Len(q)}
  <2>1. ASSUME NEW x \in LeafItems(g, n) PROVE x \in LeafItems(o, n) \cup {q[i] : i \in 1 .. Len(q)}
    <3>1. PICK i \in Leaves(g, n) : x = g[i]
      BY DEF LeafItems
    <3>2. CASE i \in Leaves(o, n)
      BY <1>4, <1>15, <3>1, <3>2 DEF LeafItems
    <3>3. CASE i \in Len(o) + 1 .. Len(g)
      BY <1>6, <3>1, <3>3
    <3>. QED BY <1>14, <3>2, <3>3
  <2>2. ASSUME NEW x \in LeafItems(o, n) PROVE x \in LeafItems(g, n)
    <3>1. PICK i \in Leaves(o, n) : x = o[i]
      BY DEF LeafItems
    <3>2. i \in Leaves(g, n) /\ g[i] = o[i]
      BY <1>4, <1>14, <1>15
    <3>. QED BY <3>1, <3>2 DEF LeafItems
  <2>3. ASSUME NEW i \in 1 .. Len(q) PROVE q[i] \in LeafItems(g, n)
    <3>1. Len(o) + i \in Len(o) + 1 .. Len(g) /\ g[Len(o) + i] = q[i]
      BY <1>4
    <3>2. Len(o) + i \in Leaves(g, n)
      BY <1>14, <3>1
    <3>. QED BY <3>1, <3>2 DEF LeafItems
  <2>. QED BY <2>1, <2>2, <2>3
<1>. QED BY <1>3, <1>7, <1>12, <1>13, <1>16, <1>17 DEF Written2

-----------------------------------------------------------------------------
(* Walking the stores of the base and of the diff.                         *)

(* Leaves with the same keys and values.                                   *)
LEMMA SameKVs ==
  ASSUME NEW o, NEW t, NEW n,
         \A x \in LeafItems(o, n) : \E y \in LeafItems(t, n) : y.key = x.key /\ y.val = x.val,
         \A y \in LeafItems(t, n) : \E x \in LeafItems(o, n) : x.key = y.key /\ x.val = y.val
  PROVE  KVs(o, n) = KVs(t, n)
<1>1. ASSUME NEW p \in KVs(o, n) PROVE p \in KVs(t, n)
  <2>1. PICK x \in LeafItems(o, n) : p = <<x.key, x.val>>
    BY DEF KVs
  <2>2. PICK y \in LeafItems(t, n) : y.key = x.key /\ y.val = x.val
    OBVIOUS
  <2>. QED BY <2>1, <2>2 DEF KVs
<1>2. ASSUME NEW p \in KVs(t, n) PROVE p \in KVs(o, n)
  <2>1. PICK y \in LeafItems(t, n) : p = <<y.key, y.val>>
    BY DEF KVs
  <2>2. PICK x \in LeafItems(o, n) : x.key = y.key /\ x.val = y.val
    OBVIOUS
  <2>. QED BY <2>1, <2>2 DEF KVs
<1>. QED BY <1>1, <1>2

(* The walk goes on behind store n.                                        *)
LEMMA WalkNext ==
  ASSUME NEW f, NEW b, Stream(b), NEW t, Stream(t), NEW N \in Nat, NEW n, NextName(n, N, AllNames(b, t)),
         NEW r, Fresh(b, r, n), NEW d, Ahead(f, d, n), NEW g, OutSoFar(g, n, AllNames(b, t)),
         \A m \in AllNames(b, t) : m <= N => KVs(g, m) = KVs(t, m), KVs(g, n) = KVs(t, n)
  PROVE  AtWalk(f, b, t, r, d, g)
<1>1. \A m \in AllNames(b, t) : m \in Nat
  BY NamesAre
<1>2. n \in AllNames(b, t) /\ n \in Nat /\ \A m \in AllNames(b, t) : m > N => m >= n
  BY <1>1 DEF NextName
<1>3. ASSUME NEW m \in AllNames(b, t), m <= n PROVE KVs(g, m) = KVs(t, m)
  <2>1. m <= N \/ m = n
    BY <1>1, <1>2, <1>3
  <2>. QED BY <2>1
<1>. QED BY <1>2, <1>3 DEF AtWalk

(* What has been written before store n.                                   *)
WrittenUpTo(o, N, n, b, t) ==
  /\ OutSoFar(o, N, AllNames(b, t)) /\ NextName(n, N, AllNames(b, t))
  /\ \A m \in AllNames(b, t) : m <= N => KVs(o, m) = KVs(t, m)

(* Nothing of store n is written before it is begun.                       *)
LEMMA NotWritten ==
  ASSUME NEW b, Stream(b), NEW t, Stream(t), NEW N \in Nat, NEW n, NEW o, WrittenUpTo(o, N, n, b, t)
  PROVE  /\ n \in Nat /\ n > N /\ n \in AllNames(b, t) /\ OutSoFar(o, n, AllNames(b, t)) /\ LeafItems(o, n) = {} /\ KVs(o, n) = {}
         /\ Stream(o) /\ NoExts(o) /\ (\A m \in StoreNames(o) : m < n)
         /\ \A m \in AllNames(b, t) : m < n => m <= N
<1>1. \A m \in AllNames(b, t) : m \in Nat
  BY NamesAre
<1>2. n \in AllNames(b, t) /\ n \in Nat /\ n > N /\ \A m \in AllNames(b, t) : m > N => m >= n
  BY <1>1 DEF NextName, WrittenUpTo
<1>3. Stream(o) /\ NoExts(o) /\ \A m \in StoreNames(o) : m \in AllNames(b, t) /\ m <= N
  BY DEF WrittenUpTo, OutSoFar
<1>4. ASSUME NEW m \in StoreNames(o) PROVE m < n /\ m <= n /\ m \in AllNames(b, t)
  <2>1. m \in Nat /\ m \in AllNames(b, t) /\ m <= N
    BY <1>1, <1>3
  <2>. QED BY <1>2, <2>1
<1>5. n \notin StoreNames(o)
  BY <1>2, <1>4
<1>6. LeafItems(o, n) = {} /\ KVs(o, n) = {}
  BY <1>3, <1>5, NoLeaves
<1>7. OutSoFar(o, n, AllNames(b, t))
  BY <1>3, <1>4 DEF OutSoFar
<1>8. \A m \in AllNames(b, t) : m < n => m <= N
  BY <1>1, <1>2
<1>. QED BY <1>2, <1>3, <1>4, <1>6, <1>7, <1>8

LEMMA StoreSkipped ==
  ASSUME NEW f, NEW b, Stream(b), NEW t, Stream(t), NEW N \in Nat, NEW n, NEW o, WrittenUpTo(o, N, n, b, t),
         NEW r, Fresh(b, r, n), NEW d, Ahead(f, d, n), LeafItems(t, n) = {}
  PROVE  AtWalk(f, b, t, r, d, o)
<1>1. KVs(t, n) = {} /\ KVs(o, n) = {} /\ OutSoFar(o, n, AllNames(b, t))
  BY NotWritten DEF KVs
<1>2. NextName(n, N, AllNames(b, t)) /\ \A m \in AllNames(b, t) : m <= N => KVs(o, m) = KVs(t, m)
  BY DEF WrittenUpTo
<1>. QED BY <1>1, <1>2, WalkNext

(* The items of emitTargetOnlyStore.                                       *)
SortedOf(q, ins) ==
  /\ IsSeq(q)
  /\ \A i \in 1 .. Len(q) : LeafAt(q, i) /\ q[i].key \in DOMAIN ins /\ q[i].val = ins[q[i].key]
  /\ \A i, j \in 1 .. Len(q) : i < j => q[i].key < q[j].key
  /\ \A k \in DOMAIN ins : \E i \in 1 .. Len(q) : q[i].key = k

LEMMA SortedGive ==
  ASSUME NEW ins, IsFiniteSet(DOMAIN ins), DOMAIN ins \subseteq Nat, NEW q, q = SortedItems(ins)
  PROVE  SortedOf(q, ins)
<1>0. PICK I : I = DOMAIN ins
  OBVIOUS
<1>1. PICK ks : ks = InOrder(I)
  OBVIOUS
<1>2. PICK c : c = Cardinality(I)
  OBVIOUS
<1>3. /\ c \in Nat /\ DOMAIN ks = 1 .. c
      /\ \A i \in 1 .. c : ks[i] \in I
      /\ \A i, j \in 1 .. c : i < j => ks[i] < ks[j]
      /\ \A k \in I : \E i \in 1 .. c : ks[i] = k
  <2>1. I \in SUBSET Nat /\ IsFiniteSet(I)
    BY <1>0
  <2>2. /\ Cardinality(I) \in Nat /\ DOMAIN InOrder(I) = 1 .. Cardinality(I)
        /\ \A i \in 1 .. Cardinality(I) : InOrder(I)[i] \in I
        /\ \A i, j \in 1 .. Cardinality(I) : i < j => InOrder(I)[i] < InOrder(I)[j]
        /\ \A k \in I : \E i \in 1 .. Cardinality(I) : InOrder(I)[i] = k
    BY <2>1, InOrderIs
  <2>. QED BY <1>1, <1>2, <2>2
<1>4. q = [i \in DOMAIN ks |-> LeafItem(ks[i], ins[ks[i]])]
  BY <1>0, <1>1 DEF SortedItems
<1>5. DOMAIN q = 1 .. c /\ q = [i \in DOMAIN q |-> q[i]] /\ \A i \in 1 .. c : q[i] = LeafItem(ks[i], ins[ks[i]])
  BY <1>3, <1>4
<1>6. IsSeq(q) /\ Len(q) = c
  BY <1>3, <1>5, SeqFrom
<1>7. \A i \in 1 .. c : q[i].tag = "iavl" /\ q[i].height = 0 /\ q[i].key = ks[i] /\ q[i].val = ins[ks[i]]
  BY <1>5 DEF LeafItem, IAVL
<1>. QED BY <1>0, <1>3, <1>6, <1>7 DEF SortedOf, LeafAt

(* emitTargetOnlyStore writes the target's leaves of a new store.          *)
LEMMA OnlyTarget ==
  ASSUME NEW f, NEW b, Stream(b), NEW t, Stream(t), NEW N \in Nat, NEW n, NEW o, WrittenUpTo(o, N, n, b, t),
         NEW r, Fresh(b, r, n), NEW d, Ahead(f, d, n), n \notin StoreNames(b), NEW c, DOMAIN c.ins # {}, 
         Plan(c, LeafItems(b, n), LeafItems(t, n)),
         DOMAIN c.ins \subseteq Nat, NEW q, SortedOf(q, c.ins), NEW h, h = o \o <<StoreItem(n)>>, NEW g, g = h \o q
  PROVE  AtWalk(f, b, t, r, d, g)
<1>1. /\ n \in Nat /\ n > N /\ n \in AllNames(b, t) /\ OutSoFar(o, n, AllNames(b, t)) /\ LeafItems(o, n) = {} /\ KVs(o, n) = {}
      /\ Stream(o) /\ NoExts(o) /\ (\A m \in StoreNames(o) : m < n)
  BY NotWritten
<1>2. Written1(h, o, n)
  BY <1>1, StoreBegun
<1>3. Stream(h) /\ NoExts(h) /\ InStore(h, n) /\ StoreNames(h) = StoreNames(o) \cup {n} /\ \A m : LeafItems(h, m) = LeafItems(o, m)
  BY <1>2 DEF Written1
<1>4. LeafItems(h, n) = {}
  BY <1>1, <1>3
<1>5. NewLeaves(q, h, n)
  BY <1>4 DEF NewLeaves, SortedOf
<1>6. Written2(g, h, q, n)
  BY <1>3, <1>5, LeavesWritten
<1>7. /\ Stream(g) /\ NoExts(g) /\ StoreNames(g) = StoreNames(o) \cup {n}
      /\ LeafItems(g, n) = {q[i] : i \in 1 .. Len(q)}
      /\ \A m : m # n => LeafItems(g, m) = LeafItems(o, m)
  BY <1>3, <1>4, <1>6 DEF Written2
<1>8. OutSoFar(g, n, AllNames(b, t))
  <2>1. n <= n
    BY <1>1
  <2>. QED BY <1>1, <1>7, <2>1 DEF OutSoFar
<1>9. LeafItems(b, n) = {}
  BY NoLeaves
<1>10. ASSUME NEW x \in LeafItems(g, n) PROVE \E y \in LeafItems(t, n) : y.key = x.key /\ y.val = x.val
  <2>1. PICK i \in 1 .. Len(q) : x = q[i]
    BY <1>7
  <2>2. x.key \in DOMAIN c.ins /\ x.val = c.ins[x.key]
    BY <2>1 DEF SortedOf
  <2>3. PICK k \in DOMAIN c.ins : k = x.key /\ x.val = c.ins[k]
    BY <2>2
  <2>4. PICK y \in LeafItems(t, n) : y.key = k /\ y.val = c.ins[k]
    BY DEF Plan
  <2>. QED BY <2>3, <2>4
<1>11. ASSUME NEW y \in LeafItems(t, n) PROVE \E x \in LeafItems(g, n) : x.key = y.key /\ x.val = y.val
  <2>1. y.key \in DOMAIN c.ins
    BY <1>9 DEF Plan
  <2>2. PICK i \in 1 .. Len(q) : q[i].key = y.key
    BY <2>1 DEF SortedOf
  <2>3. PICK z \in LeafItems(t, n) : z.key = q[i].key /\ z.val = q[i].val
    BY <1>7, <1>10
  <2>4. z = y
    BY <2>2, <2>3, LeafKeys
  <2>. QED BY <1>7, <2>2, <2>3, <2>4
<1>12. KVs(g, n) = KVs(t, n)
  BY <1>10, <1>11, SameKVs
<1>13. ASSUME NEW m \in AllNames(b, t), m <= N PROVE KVs(g, m) = KVs(t, m)
  <2>1. m # n
    <3>1. m \in Nat
      BY NamesAre
    <3>. QED BY <1>1, <1>13, <3>1
  <2>2. KVs(g, m) = KVs(o, m)
    BY <1>7, <2>1 DEF KVs
  <2>. QED BY <1>13, <2>2 DEF WrittenUpTo
<1>14. NextName(n, N, AllNames(b, t))
  BY DEF WrittenUpTo
<1>. QED BY <1>8, <1>12, <1>13, <1>14, WalkNext

LEMMA FromBaseSkips ==
  ASSUME NEW f, NEW b, Stream(b), NEW t, Stream(t), NEW N \in Nat, NEW n, NEW o, WrittenUpTo(o, N, n, b, t),
         NEW a, Side(b, a, None, n), Read(b, n, None) = {}, NEW d, Ahead(f, d, n), NEW c, c.left = {}, c.left = DOMAIN c.ins,
         Plan(c, LeafItems(b, n), LeafItems(t, n))
  PROVE  AtWalk(f, b, t, a, d, o)
<1>1. Fresh(b, a, n)
  BY DEF Side
<1>2. LeafItems(b, n) = {}
  BY DEF Read, LeafItems
<1>3. LeafItems(t, n) = {}
  BY <1>2 DEF Plan
<1>. QED BY <1>1, <1>3, StoreSkipped

(* emitStoreFromBase has begun a store and read its first leaf.            *)
LEMMA FromBaseBegins ==
  ASSUME NEW f, NEW b, Stream(b), NEW t, Stream(t), NEW N \in Nat, NEW n, NEW o, WrittenUpTo(o, N, n, b, t),
         NEW a, NEW i, Side(b, a, i, n), Read(b, n, i) = {}, i = None \/ i \in Nat,
         NEW d, Ahead(f, d, n), NEW c, c.left = DOMAIN c.ins,
         Plan(c, LeafItems(b, n), LeafItems(t, n)), NEW g, g = o \o <<StoreItem(n)>>
  PROVE  AtStore(f, b, t, n, a, i, d, c, g)
<1>1. /\ n \in Nat /\ n > N /\ n \in AllNames(b, t) /\ OutSoFar(o, n, AllNames(b, t)) /\ LeafItems(o, n) = {}
      /\ Stream(o) /\ NoExts(o) /\ (\A m \in StoreNames(o) : m < n)
      /\ \A m \in AllNames(b, t) : m < n => m <= N
  BY NotWritten
<1>2. Written1(g, o, n)
  BY <1>1, StoreBegun
<1>3. Stream(g) /\ NoExts(g) /\ InStore(g, n) /\ StoreNames(g) = StoreNames(o) \cup {n} /\ \A m : LeafItems(g, m) = LeafItems(o, m)
  BY <1>2 DEF Written1
<1>4. OutSoFar(g, n, AllNames(b, t))
  <2>1. n <= n
    BY <1>1
  <2>. QED BY <1>1, <1>3, <2>1 DEF OutSoFar
<1>5. ASSUME NEW m \in AllNames(b, t), m < n PROVE KVs(g, m) = KVs(t, m)
  <2>1. KVs(g, m) = KVs(o, m)
    BY <1>3 DEF KVs
  <2>. QED BY <1>1, <1>5, <2>1 DEF WrittenUpTo
<1>6. LeafItems(g, n) = {}
  BY <1>1, <1>3
<1>7. ASSUME NEW y \in LeafItems(t, n)
      PROVE  y.key \in c.left \/ (i # None /\ y.key \notin c.del /\ \E j \in Leaves(b, n) : j >= i /\ b[j].key = y.key)
  <2>1. CASE y.key \notin DOMAIN c.ins
    <3>1. PICK x \in LeafItems(b, n) : x.key = y.key /\ x.key \notin c.del
      BY <2>1 DEF Plan
    <3>2. PICK j \in Leaves(b, n) : x = b[j]
      BY DEF LeafItems
    <3>3. ~(i = None \/ j < i)
      BY DEF Read
    <3>4. j \in Nat
      BY LeafKeys
    <3>5. j >= i
      BY <3>3, <3>4
    <3>. QED BY <3>1, <3>2, <3>3, <3>5
  <2>. QED BY <2>1
<1>8. Merged(b, t, n, i, c, g)
  BY <1>6, <1>7 DEF Merged
<1>. QED BY <1>1, <1>3, <1>4, <1>5, <1>8 DEF AtStore

LEMMA Reassociate ==
  ASSUME NEW o, IsSeq(o), NEW u, IsSeq(u), NEW q, IsSeq(q)
  PROVE  o \o (u \o q) = (o \o u) \o q
<1>1. PICK v, h : v = u \o q /\ h = o \o u
  OBVIOUS
<1>2. PICK x, y : x = o \o v /\ y = h \o q
  OBVIOUS
<1>3. Grown(v, u, q) /\ Grown(h, o, u)
  BY <1>1, Grows
<1>4. IsSeq(v) /\ IsSeq(h)
  BY <1>3 DEF Grown
<1>5. Grown(x, o, v) /\ Grown(y, h, q)
  BY <1>2, <1>4, Grows
<1>6. /\ Len(o) \in Nat /\ Len(u) \in Nat /\ Len(q) \in Nat /\ IsSeq(x) /\ IsSeq(y)
      /\ Len(v) = Len(u) + Len(q) /\ Len(h) = Len(o) + Len(u) /\ Len(x) = Len(o) + Len(v) /\ Len(y) = Len(h) + Len(q)
      /\ (\A i \in 1 .. Len(u) : v[i] = u[i]) /\ (\A i \in 1 .. Len(q) : v[Len(u) + i] = q[i])
      /\ (\A i \in 1 .. Len(o) : h[i] = o[i]) /\ (\A i \in 1 .. Len(u) : h[Len(o) + i] = u[i])
      /\ (\A i \in 1 .. Len(o) : x[i] = o[i]) /\ (\A i \in 1 .. Len(v) : x[Len(o) + i] = v[i])
      /\ (\A i \in 1 .. Len(h) : y[i] = h[i]) /\ (\A i \in 1 .. Len(q) : y[Len(h) + i] = q[i])
  BY <1>3, <1>5 DEF Grown
<1>7. ASSUME NEW i \in 1 .. Len(x) PROVE x[i] = y[i]
  <2>1. CASE i <= Len(o)
    <3>1. i \in 1 .. Len(o) /\ i \in 1 .. Len(h)
      BY <1>6, <2>1
    <3>. QED BY <1>6, <3>1
  <2>2. CASE i > Len(o) /\ i <= Len(o) + Len(u)
    <3>1. PICK j \in 1 .. Len(u) : i = Len(o) + j
      <4>1. i - Len(o) \in 1 .. Len(u) /\ i = Len(o) + (i - Len(o))
        BY <1>6, <2>2
      <4>. QED BY <4>1
    <3>2. j \in 1 .. Len(v) /\ i \in 1 .. Len(h)
      BY <1>6, <3>1
    <3>3. x[i] = v[j] /\ y[i] = h[i] /\ v[j] = u[j] /\ h[i] = u[j]
      BY <1>6, <3>1, <3>2
    <3>. QED BY <3>3
  <2>3. CASE i > Len(o) + Len(u)
    <3>1. PICK j \in 1 .. Len(q) : i = Len(o) + Len(u) + j
      <4>1. i - Len(o) - Len(u) \in 1 .. Len(q) /\ i = Len(o) + Len(u) + (i - Len(o) - Len(u))
        BY <1>6, <2>3
      <4>. QED BY <4>1
    <3>2. PICK k \in 1 .. Len(v) : k = Len(u) + j
      BY <1>6, <3>1
    <3>3. i = Len(o) + k /\ i = Len(h) + j
      BY <1>6, <3>1, <3>2
    <3>4. x[i] = v[k] /\ v[k] = q[j] /\ y[i] = q[j]
      BY <1>6, <3>2, <3>3
    <3>. QED BY <3>4
  <2>. QED BY <1>6, <2>1, <2>2, <2>3
<1>8. Len(x) = Len(y)
  BY <1>6
<1>9. x = y
  BY <1>6, <1>7, <1>8, SameSeq
<1>. QED BY <1>1, <1>2, <1>9

(* Apply leaves the file and the snapshots alone.                          *)
LEMMA StillComputed ==
  ASSUME ComputeInv, pc \in Using \cup {"applied", "verified"}, pc' \notin ComputePcs \cup {"diffed"},
         pc' \in Using => pc \in Using, UNCHANGED <<base, target, file, cut>>
  PROVE  ComputeInv'
BY DEF ComputeInv, Using, ComputePcs

LEMMA RoundFails ==
  ASSUME LeafInv, mode = "leaf", RoundInv, Fail, pc \in Using, UNCHANGED syncVars
  PROVE  RoundInv'
<1>1. pc' = "failed" /\ mode' = mode /\ UNCHANGED <<base, target, file, cut, meta, out>>
  BY DEF Fail, applyVars, syncVars
<1>2. ComputeInv'
  BY <1>1, StillComputed DEF RoundInv, Using, ComputePcs
<1>3. ApplyInv'
  BY <1>1 DEF RoundInv, ApplyInv, Using
<1>. QED BY <1>2, <1>3 DEF RoundInv

(* A turn of WalkStores, the base and the diff being those of the target.  *)
LEMMA WalkTarget ==
  ASSUME Computing, NEW f, NEW b, NEW t, NEW r, NEW d, NEW o, NEW s, f = file, b = base, t = target, r = brd, d = dpos, o = out,
         src = base, s = Section(d), LFile, d \in Nat \ {0},
         FileDone(f, b, t), AtWalk(f, b, t, r, d, o), NEW p \in Readers, p = PeekStore(b, r),
         s <= Len(f) /\ f[s].tag = "StoreEnter", NEW n, n = f[s].name, p.cur = None \/ n < p.cur, NEW c, c = StoreChanges(s + 1),
         TargetOnlyStore(n, c), ~Fail
  PROVE  AtWalk(f, b, t, r, dpos', out') /\ pc' = pc /\ brd' = brd
<1>1. IsSeq(f) /\ Stream(b) /\ Stream(t) /\ r \in Readers
  BY DEF Computing
<1>2. PICK N \in Nat : /\ Fresh(b, r, N) /\ Ahead(f, d, N) /\ OutSoFar(o, N, AllNames(b, t))
                       /\ \A m \in AllNames(b, t) : m <= N => KVs(o, m) = KVs(t, m)
  <2>1. \A m \in {0} \cup AllNames(b, t) : m \in Nat
    BY <1>1, NamesAre
  <2>. QED BY <2>1 DEF AtWalk
<1>3. FirstOf(s, f, d, From(Begins(f), d))
  <2>1. d \in 1 .. Len(f) + 1
    BY <1>2 DEF Ahead
  <2>. QED BY <1>1, <2>1, SectionFirst
<1>4. s \in Enters(f) /\ NextName(n, N, AllNames(b, t))
  BY <1>1, <1>2, <1>3, SectionAt
<1>5. WrittenUpTo(o, N, n, b, t)
  BY <1>2, <1>4 DEF WrittenUpTo
<1>6. n \in Nat /\ n > N
  BY <1>1, <1>5, NotWritten
<1>7. PICK d1 : d1 = AfterSection(s + 1, "StoreLeave")
  OBVIOUS
<1>8. Plan(c, LeafItems(b, n), LeafItems(t, n)) /\ Ahead(f, d1, n)
  BY <1>1, <1>4, <1>7, SectionPlan
<1>9. \A m \in StoreNames(b) : m > N => m > n
  <2>1. p.cur # None => \A m \in StoreNames(b) : m > N => m >= p.cur
    BY <1>1, <1>2, PeekReads
  <2>2. p.cur = None => \A m \in StoreNames(b) : m <= N
    BY <1>1, <1>2, PeekReads
  <2>3. ASSUME NEW m \in StoreNames(b), m > N PROVE m > n
    <3>1. m \in Nat
      BY <1>1, NamesAre DEF AllNames
    <3>2. p.cur \in Nat
      BY DEF Readers
    <3>3. CASE p.cur = None
      <4>1. m <= N
        BY <2>2, <3>3
      <4>. QED BY <2>3, <3>1, <4>1
    <3>4. CASE p.cur # None
      <4>1. m >= p.cur /\ n < p.cur
        BY <2>1, <2>3, <3>4
      <4>. QED BY <1>6, <3>1, <3>2, <4>1
    <3>. QED BY <3>3, <3>4
  <2>. QED BY <2>3
<1>10. Fresh(b, r, n)
  <2>1. N <= n
    BY <1>6
  <2>. QED BY <1>1, <1>2, <1>6, <1>9, <2>1, FreshUp
<1>11. n \notin StoreNames(b)
  BY <1>6, <1>9
<1>12. /\ out' = o \o (IF DOMAIN c.ins = {} THEN << >> ELSE <<StoreItem(n)>> \o SortedItems(c.ins))
       /\ dpos' = d1 /\ pc' = pc /\ brd' = brd
  BY <1>7 DEF TargetOnlyStore, Write, readers
<1>13. Stream(o)
  BY <1>1, <1>5, NotWritten
<1>14. IsSeq(o)
  BY <1>13 DEF Stream, Good
<1>15. CASE DOMAIN c.ins = {}
  <2>1. out' = o
    <3>1. out' = o \o << >>
      BY <1>12, <1>15
    <3>2. o \o << >> = o
      BY <1>14 DEF IsSeq
    <3>. QED BY <3>1, <3>2
  <2>2. LeafItems(t, n) = {}
    <3>1. LeafItems(b, n) = {}
      BY <1>1, <1>11, NoLeaves
    <3>. QED BY <1>8, <1>15, <3>1 DEF Plan
  <2>3. AtWalk(f, b, t, r, d1, o)
    BY <1>1, <1>5, <1>8, <1>10, <2>2, StoreSkipped
  <2>. QED BY <1>12, <2>1, <2>3
<1>16. CASE DOMAIN c.ins # {}
  <2>0. s \in Nat
    BY <1>4, SeqFacts, <1>1 DEF Enters
  <2>1. IsChanges(c) /\ IsFiniteSet(DOMAIN c.ins)
    <3>1. PICK e \in Nat \ {0} : e = s + 1
      BY <2>0
    <3>. QED BY <3>1, ChangesAre
  <2>2. PICK ins : ins = c.ins
    OBVIOUS
  <2>3. PICK q : q = SortedItems(ins)
    OBVIOUS
  <2>4. SortedOf(q, c.ins)
    <3>1. IsFiniteSet(DOMAIN ins) /\ DOMAIN ins \subseteq Nat
      BY <2>1, <2>2 DEF IsChanges
    <3>. QED BY <2>2, <2>3, <3>1, SortedGive
  <2>5. PICK h : h = o \o <<StoreItem(n)>>
    OBVIOUS
  <2>6. PICK g : g = h \o q
    OBVIOUS
  <2>7. out' = g
    <3>1. out' = o \o (<<StoreItem(n)>> \o q)
      BY <1>12, <1>16, <2>2, <2>3
    <3>2. PICK u : u = <<StoreItem(n)>>
      OBVIOUS
    <3>3. IsSeq(u) /\ IsSeq(q)
      BY <2>4, <3>2, OneElement DEF SortedOf
    <3>4. o \o (u \o q) = (o \o u) \o q
      BY <1>14, <3>3, Reassociate
    <3>. QED BY <2>5, <2>6, <3>1, <3>2, <3>4
  <2>8. DOMAIN c.ins \subseteq Nat
    BY <2>1 DEF IsChanges
  <2>9. AtWalk(f, b, t, r, d1, g)
    BY <1>1, <1>5, <1>8, <1>10, <1>11, <1>16, <2>4, <2>5, <2>6, <2>8, OnlyTarget
  <2>. QED BY <1>12, <2>7, <2>9
<1>. QED BY <1>15, <1>16

(* A store of the base is in the diff, since every store is.               *)
LEMMA WalkBoth ==
  ASSUME Computing, NEW f, NEW b, NEW t, NEW r, NEW d, NEW o, NEW s, f = file, b = base, t = target, r = brd, d = dpos, o = out,
         src = base, s = Section(d), LFile, d \in Nat \ {0},
         FileDone(f, b, t), AtWalk(f, b, t, r, d, o), NEW p \in Readers, p = PeekStore(b, r), p.cur # None
  PROVE  s <= Len(f) /\ f[s].tag = "StoreEnter" /\ s \in Enters(f) /\ f[s].name <= p.cur
<1>1. IsSeq(f) /\ Stream(b) /\ Stream(t) /\ r \in Readers
  BY DEF Computing
<1>2. PICK N \in Nat : Fresh(b, r, N) /\ Ahead(f, d, N)
  <2>1. \A m \in {0} \cup AllNames(b, t) : m \in Nat
    BY <1>1, NamesAre
  <2>. QED BY <2>1 DEF AtWalk
<1>3. FirstOf(s, f, d, From(Begins(f), d))
  <2>1. d \in 1 .. Len(f) + 1
    BY <1>2 DEF Ahead
  <2>. QED BY <1>1, <2>1, SectionFirst
<1>4. p.cur > N /\ p.cur \in AllNames(b, t) /\ p.cur \in Nat
  BY <1>1, <1>2, PeekReads DEF AllNames, Readers
<1>5. s <= Len(f) /\ f[s].tag = "StoreEnter"
  <2>1. ~(s <= Len(f) /\ f[s].tag = "StoreEnter") => \A n \in AllNames(b, t) : n <= N
    BY <1>1, <1>2, <1>3, SectionAt
  <2>2. ~(p.cur <= N)
    BY <1>4
  <2>. QED BY <1>4, <2>1, <2>2
<1>6. s \in Enters(f) /\ NextName(f[s].name, N, AllNames(b, t))
  BY <1>1, <1>2, <1>3, <1>5, SectionAt
<1>7. f[s].name <= p.cur
  <2>1. p.cur >= f[s].name
    BY <1>4, <1>6 DEF NextName
  <2>2. f[s].name \in Nat
    BY <1>1, <1>6, NamesAre DEF NextName
  <2>. QED BY <1>4, <2>1, <2>2
<1>. QED BY <1>5, <1>6, <1>7

LEMMA EnterBase ==
  ASSUME NEW s, Stream(s), NEW r \in Readers, NEW N \in Nat, Fresh(s, r, N), NEW p, p = PeekStore(s, r), p.cur # None,
         NEW n \in Nat, n > N, n = p.cur, NEW a, a = Advance(s, p), NEW i, i = LeafOf(s, p)
  PROVE  Side(s, a, i, n) /\ Read(s, n, i) = {}
<1>1. /\ p.cur # None => n <= p.cur
      /\ a = (IF p.cur = n THEN Advance(s, p) ELSE p) /\ i = (IF p.cur = n THEN LeafOf(s, p) ELSE None)
  OBVIOUS
<1>. QED BY <1>1, EnterSide

(* The next store of the base is n.                                        *)
IsNext(p, n) == p.cur = n

(* A turn of WalkStores at a store that base and diff have.                *)
LEMMA WalkBase ==
  ASSUME Computing, NEW f, NEW b, NEW t, NEW r, NEW d, NEW o, NEW s, f = file, b = base, t = target, r = brd, d = dpos, o = out,
         src = base, s = Section(d), LFile, d \in Nat \ {0}, pc = "walk",
         FileDone(f, b, t), AtWalk(f, b, t, r, d, o), NEW p \in Readers, p = PeekStore(b, r), p.cur # None,
         s <= Len(f) /\ f[s].tag = "StoreEnter", NEW n, n = f[s].name, IsNext(p, n), NEW c, c = StoreChanges(s + 1),
         StoreFromBase(p, c), dpos' = AfterSection(s + 1, "StoreLeave")
  PROVE  \/ pc' = "walk" /\ AtWalk(f, b, t, brd', dpos', out')
         \/ pc' = "store" /\ AtStore(f, b, t, name', brd', brec', dpos', ch', out')
<1>1. IsSeq(f) /\ Stream(b) /\ Stream(t) /\ r \in Readers
  BY DEF Computing
<1>2. PICK N \in Nat : /\ Fresh(b, r, N) /\ Ahead(f, d, N) /\ OutSoFar(o, N, AllNames(b, t))
                       /\ \A m \in AllNames(b, t) : m <= N => KVs(o, m) = KVs(t, m)
  <2>1. \A m \in {0} \cup AllNames(b, t) : m \in Nat
    BY <1>1, NamesAre
  <2>. QED BY <2>1 DEF AtWalk
<1>3. FirstOf(s, f, d, From(Begins(f), d))
  <2>1. d \in 1 .. Len(f) + 1
    BY <1>2 DEF Ahead
  <2>. QED BY <1>1, <2>1, SectionFirst
<1>4. s \in Enters(f) /\ NextName(n, N, AllNames(b, t))
  BY <1>1, <1>2, <1>3, SectionAt
<1>5. WrittenUpTo(o, N, n, b, t)
  BY <1>2, <1>4 DEF WrittenUpTo
<1>6. n \in Nat /\ n > N
  BY <1>1, <1>5, NotWritten
<1>7. PICK d1 : d1 = AfterSection(s + 1, "StoreLeave")
  OBVIOUS
<1>8. Plan(c, LeafItems(b, n), LeafItems(t, n)) /\ Ahead(f, d1, n) /\ c.left = DOMAIN c.ins
  BY <1>1, <1>4, <1>7, SectionPlan
<1>9. PICK a, i : a = Advance(b, p) /\ i = LeafOf(b, p)
  OBVIOUS
<1>10. Side(b, a, i, n) /\ Read(b, n, i) = {}
  <2>1. n \in Nat /\ n > N /\ n = p.cur
    BY <1>6 DEF IsNext
  <2>. QED BY <1>1, <1>2, <1>9, <2>1, EnterBase
<1>11. i = None \/ i \in Nat
  <2>1. i # None => i \in Leaves(b, n)
    BY <1>10 DEF Side
  <2>. QED BY <1>1, <2>1, LeafKeys
<1>12. brd' = a /\ brec' = i /\ dpos' = d1
  BY <1>7, <1>9 DEF StoreFromBase
<1>13. CASE i = None /\ c.left = {}
  <2>1. pc' = "walk" /\ out' = o
    BY <1>12, <1>13 DEF StoreFromBase
  <2>2. AtWalk(f, b, t, a, d1, o)
    BY <1>1, <1>5, <1>8, <1>10, <1>13, FromBaseSkips
  <2>. QED BY <1>12, <2>1, <2>2
<1>14. CASE ~(i = None /\ c.left = {})
  <2>1. PICK g : g = o \o <<StoreItem(n)>>
    OBVIOUS
  <2>2. pc' = "store" /\ name' = n /\ ch' = c /\ out' = g
    BY <1>12, <1>14, <2>1 DEF StoreFromBase, Write, IsNext
  <2>3. AtStore(f, b, t, n, a, i, d1, c, g)
    BY <1>1, <1>5, <1>8, <1>10, <1>11, <2>1, FromBaseBegins
  <2>. QED BY <1>12, <2>2, <2>3
<1>. QED BY <1>13, <1>14

LEMMA RoundWalkStores ==
  ASSUME LeafInv, mode = "leaf", RoundInv, WalkStores, UNCHANGED syncVars
  PROVE  RoundInv'
<1>1. Computing /\ LFile /\ LTypes /\ dpos \in Nat \ {0} /\ pc = "walk"
  <2>1. pc = "walk"
    BY DEF WalkStores
  <2>. QED BY <2>1, Computes DEF LeafInv, LMerge
<1>2. PICK p \in Readers : p = PeekStore(src, brd)
  BY <1>1, Snapshots, PeekIs DEF LTypes
<1>3. PICK s \in Nat \ {0} : s = Section(dpos)
  BY <1>1, SectionsIn
<1>4. PICK c, n : c = StoreChanges(s + 1) /\ n = file[s].name
  OBVIOUS
<1>5. PICK inDiff \in BOOLEAN : inDiff = (s <= Len(file) /\ file[s].tag = "StoreEnter")
  OBVIOUS
<1>6. inDiff => n \in Nat \ {0}
  <2>1. Len(file) \in Nat
    BY <1>1, SeqFacts DEF LFile, Good
  <2>2. ASSUME inDiff PROVE s \in 1 .. Len(file) /\ file[s].tag = "StoreEnter"
    <3>1. s <= Len(file) /\ file[s].tag = "StoreEnter"
      BY <1>5, <2>2, Zenon
    <3>. QED BY <2>1, <3>1
  <2>. QED BY <1>1, <1>4, <2>2 DEF LFile, Good, Sound
<1>7. p.cur \in Nat
  BY DEF Readers
<1>8. inDiff = SectionIs(dpos, "StoreEnter")
  BY <1>3, <1>5 DEF SectionIs
<1>9. /\ p.cur # None \/ inDiff
      /\ CASE inDiff /\ (p.cur = None \/ n < p.cur) -> TargetOnlyStore(n, c)
           [] p.cur # None /\ (~inDiff \/ n > p.cur) ->
                StoreFromBase(p, NoChanges) /\ dpos' = Section(dpos)
           [] inDiff /\ p.cur = n ->
                StoreFromBase(p, c) /\ dpos' = AfterSection(s + 1, "StoreLeave")
  BY <1>2, <1>3, <1>4, <1>8 DEF WalkStores
<1>10. \/ inDiff /\ (p.cur = None \/ n < p.cur) /\ TargetOnlyStore(n, c)
       \/ p.cur # None /\ (~inDiff \/ n > p.cur) /\ StoreFromBase(p, NoChanges)
       \/ inDiff /\ p.cur = n /\ p.cur # None /\ StoreFromBase(p, c) /\ dpos' = AfterSection(s + 1, "StoreLeave")
  <2>1. CASE inDiff /\ (p.cur = None \/ n < p.cur)
    <3>1. ~(p.cur # None /\ (~inDiff \/ n > p.cur)) /\ p.cur # n
      BY <1>6, <1>7, <2>1 DEF None
    <3>. QED BY <1>9, <2>1, <3>1
  <2>2. CASE p.cur # None /\ (~inDiff \/ n > p.cur)
    <3>1. ~(inDiff /\ (p.cur = None \/ n < p.cur)) /\ ~(inDiff /\ p.cur = n)
      BY <1>6, <1>7, <2>2
    <3>. QED BY <1>9, <2>2, <3>1
  <2>3. CASE inDiff /\ p.cur = n /\ p.cur # None
    <3>1. ~(p.cur = None \/ n < p.cur) /\ ~(~inDiff \/ n > p.cur)
      BY <1>6, <1>7, <2>3
    <3>. QED BY <1>9, <2>3, <3>1
  <2>. QED BY <1>6, <1>7, <1>9, <2>1, <2>2, <2>3
<1>11. CASE Fail
  BY <1>1, <1>11, RoundFails DEF Using
<1>12. CASE ~Fail
  <2>1. mode' = mode /\ pc' \in {"walk", "store"} /\ UNCHANGED <<base, target, file, cut, src, meta>>
    <3>1. CASE TargetOnlyStore(n, c)
      BY <1>1, <1>12, <3>1 DEF TargetOnlyStore, syncVars
    <3>2. ASSUME NEW e, StoreFromBase(p, e) PROVE mode' = mode /\ pc' \in {"walk", "store"} /\ UNCHANGED <<base, target, file, cut, src, meta>>
      BY <1>1, <3>2 DEF StoreFromBase, syncVars
    <3>. QED BY <1>10, <3>1, <3>2
  <2>2. ComputeInv'
    BY <1>1, <2>1, StillComputed DEF Computing, Using, ComputePcs
  <2>3. ASSUME cut = "no", src = base
        PROVE  \/ pc' = "walk" /\ AtWalk(file, base, target, brd', dpos', out')
               \/ pc' = "store" /\ AtStore(file, base, target, name', brd', brec', dpos', ch', out')
    <3>1. PICK f, b, t, r, d, o : f = file /\ b = base /\ t = target /\ r = brd /\ d = dpos /\ o = out
      OBVIOUS
    <3>2. FileDone(f, b, t) /\ AtWalk(f, b, t, r, d, o)
      BY <1>1, <2>3, <3>1 DEF Computing, ComputeInv, ApplyInv, Using
    <3>3. p = PeekStore(b, r) /\ s = Section(d) /\ n = f[s].name
      BY <1>2, <1>3, <1>4, <2>3, <3>1
    <3>4. CASE inDiff /\ (p.cur = None \/ n < p.cur) /\ TargetOnlyStore(n, c)
      <4>1. s <= Len(f) /\ f[s].tag = "StoreEnter"
        BY <1>5, <3>1, <3>4
      <4>2. AtWalk(f, b, t, r, dpos', out') /\ pc' = pc /\ brd' = brd
        BY <1>1, <1>4, <1>12, <2>3, <3>1, <3>2, <3>3, <3>4, <4>1, WalkTarget
      <4>. QED BY <1>1, <3>1, <4>2
    <3>5. p.cur # None => inDiff /\ f[s].name <= p.cur
      <4>1. p.cur # None => s <= Len(f) /\ f[s].tag = "StoreEnter" /\ f[s].name <= p.cur
        BY <1>1, <2>3, <3>1, <3>2, <3>3, WalkBoth
      <4>. QED BY <1>5, <3>1, <4>1
    <3>6. CASE inDiff /\ p.cur = n /\ p.cur # None /\ StoreFromBase(p, c) /\ dpos' = AfterSection(s + 1, "StoreLeave")
      <4>1. s <= Len(f) /\ f[s].tag = "StoreEnter"
        BY <1>5, <3>1, <3>6
      <4>2. \/ pc' = "walk" /\ AtWalk(f, b, t, brd', dpos', out')
            \/ pc' = "store" /\ AtStore(f, b, t, name', brd', brec', dpos', ch', out')
        BY <1>1, <1>4, <2>3, <3>1, <3>2, <3>3, <3>6, <4>1, WalkBase DEF IsNext
      <4>. QED BY <3>1, <4>2
    <3>7. ~(p.cur # None /\ (~inDiff \/ n > p.cur))
      BY <1>6, <1>7, <3>3, <3>5
    <3>. QED BY <1>10, <3>4, <3>6, <3>7
  <2>4. ApplyInv'
    <3>1. meta' = {}
      BY <1>1, <2>1 DEF Computing, ApplyInv
    <3>. QED BY <2>1, <2>3, <3>1 DEF ApplyInv
  <2>. QED BY <2>2, <2>4 DEF RoundInv
<1>. QED BY <1>11, <1>12

-----------------------------------------------------------------------------
(* Merging the changes of a store into the leaves of the base.             *)

(* Three turns of emitStoreFromBase's merge: an item of the base, an       *)
(* insert, or an insert in the place of a deleted item.                    *)
Following(b, n, i, j) ==
  /\ i \in Leaves(b, n) /\ (j # None => j > i /\ j \in Leaves(b, n))
  /\ \A l \in Leaves(b, n) : l > i => j # None /\ l >= j

(* The base's leaf is the least: written unless it was deleted.            *)
LEMMA MergedBase ==
  ASSUME NEW b, Stream(b), NEW t, Stream(t), NEW n, NEW i, i # None, NEW c, NEW o, Merged(b, t, n, i, c, o),
         Plan(c, LeafItems(b, n), LeafItems(t, n)), NEW j, Following(b, n, i, j),
         NEW k, k = b[i].key, \A l \in c.left : k < l, c.left \subseteq Nat,
         NEW W, NEW x0, \/ k \in c.del /\ W = {}
                        \/ k \notin c.del /\ W = {x0} /\ x0.key = k /\ x0.val = IF k \in DOMAIN c.upd THEN c.upd[k] ELSE b[i].val,
         NEW g, LeafItems(g, n) = LeafItems(o, n) \cup W
  PROVE  Merged(b, t, n, j, c, g)
<1>1. i \in Leaves(b, n) /\ b[i] \in LeafItems(b, n) /\ k \in Nat /\ i \in Nat
  BY LeafKeys DEF Following, LeafItems
<1>2. j # None => j \in Leaves(b, n) /\ j > i /\ k < b[j].key /\ b[j].key \in Nat
  BY <1>1, LeafKeys DEF Following
<1>3. ASSUME k \notin c.del PROVE \E y \in LeafItems(t, n) : y.key = x0.key /\ y.val = x0.val
  BY <1>1, <1>3 DEF Plan
<1>4. ASSUME NEW x \in LeafItems(g, n)
      PROVE  /\ \E y \in LeafItems(t, n) : y.key = x.key /\ y.val = x.val
             /\ j # None => x.key < b[j].key
             /\ \A l \in c.left : x.key < l
  <2>1. CASE x \in LeafItems(o, n)
    <3>1. /\ \E y \in LeafItems(t, n) : y.key = x.key /\ y.val = x.val
          /\ x.key < k
          /\ \A l \in c.left : x.key < l
      BY <2>1 DEF Merged
    <3>2. x.key \in Nat
      BY <3>1, LeafKeys
    <3>. QED BY <1>1, <1>2, <3>1, <3>2
  <2>2. CASE x \notin LeafItems(o, n)
    <3>1. k \notin c.del /\ x = x0 /\ x.key = k
      BY <2>2
    <3>. QED BY <1>2, <1>3, <3>1
  <2>. QED BY <2>1, <2>2
<1>5. ASSUME NEW y \in LeafItems(t, n)
      PROVE  \/ \E x \in LeafItems(g, n) : x.key = y.key /\ x.val = y.val
             \/ y.key \in c.left
             \/ j # None /\ y.key \notin c.del /\ \E l \in Leaves(b, n) : l >= j /\ b[l].key = y.key
  <2>1. CASE \E x \in LeafItems(o, n) : x.key = y.key /\ x.val = y.val
    BY <2>1
  <2>2. ASSUME y.key \notin c.del, NEW l \in Leaves(b, n), l >= i, b[l].key = y.key
        PROVE  \/ \E x \in LeafItems(g, n) : x.key = y.key /\ x.val = y.val
               \/ j # None /\ y.key \notin c.del /\ \E m \in Leaves(b, n) : m >= j /\ b[m].key = y.key
    <3>1. l \in Nat
      BY LeafKeys
    <3>2. CASE l = i
      <4>1. k \notin c.del /\ W = {x0} /\ x0.key = y.key
        BY <2>2, <3>2
      <4>2. PICK z \in LeafItems(t, n) : z.key = x0.key /\ z.val = x0.val
        BY <1>3, <4>1
      <4>3. z = y
        BY <4>1, <4>2, LeafKeys
      <4>. QED BY <4>1, <4>2, <4>3
    <3>3. CASE l > i
      BY <2>2, <3>3 DEF Following
    <3>. QED BY <1>1, <2>2, <3>1, <3>2, <3>3
  <2>. QED BY <2>1, <2>2 DEF Merged
<1>. QED BY <1>4, <1>5 DEF Merged

(* An insert is the least: written, alone or for the base's leaf.          *)
LEMMA MergedInsert ==
  ASSUME NEW b, Stream(b), NEW t, Stream(t), NEW n, NEW i, i # None => i \in Leaves(b, n), NEW c, NEW o, Merged(b, t, n, i, c, o),
         Plan(c, LeafItems(b, n), LeafItems(t, n)), c.left \subseteq Nat, c.left \subseteq DOMAIN c.ins,
         NEW k \in c.left, \A l \in c.left : k <= l,
         NEW j, \/ j = i /\ (i # None => k < b[i].key)
                \/ i # None /\ k = b[i].key /\ Following(b, n, i, j),
         NEW c1, c1.del = c.del, c1.left = c.left \ {k},
         NEW x0, x0.key = k, x0.val = c.ins[k],
         NEW g, LeafItems(g, n) = LeafItems(o, n) \cup {x0}
  PROVE  Merged(b, t, n, j, c1, g)
<1>1. k \in Nat /\ (i # None => b[i].key \in Nat /\ b[i] \in LeafItems(b, n) /\ i \in Nat)
  BY LeafKeys DEF LeafItems
<1>2. \E y \in LeafItems(t, n) : y.key = x0.key /\ y.val = x0.val
  BY DEF Plan
<1>3. i # None /\ k = b[i].key => k \in c.del
  BY <1>1 DEF Plan
<1>4. ASSUME j # None PROVE i # None /\ k < b[j].key /\ b[i].key <= b[j].key /\ b[j].key \in Nat
  <2>1. CASE j = i /\ (i # None => k < b[i].key)
    BY <1>1, <1>4, <2>1
  <2>2. CASE i # None /\ k = b[i].key /\ Following(b, n, i, j)
    <3>1. i \in Leaves(b, n) /\ j \in Leaves(b, n) /\ i < j
      <4>1. i \in Leaves(b, n) /\ j \in Leaves(b, n) /\ j > i
        BY <1>4, <2>2 DEF Following
      <4>2. i \in Nat /\ j \in Nat
        BY <4>1, LeafKeys
      <4>. QED BY <4>1, <4>2
    <3>2. b[i].key < b[j].key /\ b[i].key \in Nat /\ b[j].key \in Nat
      BY <3>1, LeafKeys
    <3>. QED BY <2>2, <3>2
  <2>. QED BY <2>1, <2>2
<1>5. ASSUME NEW x \in LeafItems(g, n)
      PROVE  /\ \E y \in LeafItems(t, n) : y.key = x.key /\ y.val = x.val
             /\ j # None => x.key < b[j].key
             /\ \A l \in c1.left : x.key < l
  <2>1. CASE x \in LeafItems(o, n)
    <3>1. /\ \E y \in LeafItems(t, n) : y.key = x.key /\ y.val = x.val
          /\ i # None => x.key < b[i].key
          /\ \A l \in c.left : x.key < l
      BY <2>1 DEF Merged
    <3>2. x.key \in Nat
      BY <3>1, LeafKeys
    <3>3. ASSUME j # None PROVE x.key < b[j].key
      BY <1>1, <1>4, <3>1, <3>2, <3>3
    <3>. QED BY <3>1, <3>3
  <2>2. CASE x = x0
    <3>1. ASSUME NEW l \in c1.left PROVE k < l
      <4>1. l \in c.left /\ l # k /\ l \in Nat
        OBVIOUS
      <4>2. k <= l
        BY <4>1
      <4>. QED BY <1>1, <4>1, <4>2
    <3>. QED BY <1>2, <1>4, <2>2, <3>1
  <2>. QED BY <2>1, <2>2
<1>6. ASSUME NEW y \in LeafItems(t, n)
      PROVE  \/ \E x \in LeafItems(g, n) : x.key = y.key /\ x.val = y.val
             \/ y.key \in c1.left
             \/ j # None /\ y.key \notin c1.del /\ \E l \in Leaves(b, n) : l >= j /\ b[l].key = y.key
  <2>1. CASE \E x \in LeafItems(o, n) : x.key = y.key /\ x.val = y.val
    BY <2>1
  <2>2. CASE y.key \in c.left
    <3>1. CASE y.key = k
      <4>1. PICK z \in LeafItems(t, n) : z.key = x0.key /\ z.val = x0.val
        BY <1>2
      <4>2. z = y
        BY <3>1, <4>1, LeafKeys
      <4>. QED BY <4>1, <4>2
    <3>. QED BY <2>2, <3>1
  <2>3. ASSUME i # None, y.key \notin c.del, NEW l \in Leaves(b, n), l >= i, b[l].key = y.key
        PROVE  j # None /\ \E m \in Leaves(b, n) : m >= j /\ b[m].key = y.key
    <3>1. l \in Nat /\ i \in Nat
      BY <1>1, <2>3, LeafKeys
    <3>2. CASE j = i
      BY <2>3, <3>2
    <3>3. CASE k = b[i].key /\ Following(b, n, i, j)
      <4>1. l # i
        BY <1>3, <2>3, <3>3
      <4>2. l > i
        BY <2>3, <3>1, <4>1
      <4>. QED BY <2>3, <3>3, <4>2 DEF Following
    <3>. QED BY <3>2, <3>3
  <2>. QED BY <2>1, <2>2, <2>3 DEF Merged
<1>. QED BY <1>5, <1>6 DEF Merged

(* A turn that wrote to store n only.                                      *)
LEMMA StoreGoesOn ==
  ASSUME NEW f, NEW b, Stream(b), NEW t, Stream(t), NEW n, NEW r, NEW i, NEW d, NEW c, NEW o, AtStore(f, b, t, n, r, i, d, c, o),
         NEW r1, NEW i1, Side(b, r1, i1, n), NEW c1, c1.del = c.del, c1.upd = c.upd, c1.ins = c.ins,
         NEW q, NEW g, Written2(g, o, q, n), Merged(b, t, n, i1, c1, g)
  PROVE  AtStore(f, b, t, n, r1, i1, d, c1, g)
<1>1. /\ n \in AllNames(b, t) /\ Ahead(f, d, n) /\ OutSoFar(o, n, AllNames(b, t))
      /\ \A m \in AllNames(b, t) : m < n => KVs(o, m) = KVs(t, m)
      /\ Plan(c, LeafItems(b, n), LeafItems(t, n))
  BY DEF AtStore
<1>2. /\ Stream(g) /\ NoExts(g) /\ InStore(g, n) /\ StoreNames(g) = StoreNames(o)
      /\ \A m : m # n => LeafItems(g, m) = LeafItems(o, m)
  BY DEF Written2
<1>3. OutSoFar(g, n, AllNames(b, t))
  BY <1>1, <1>2 DEF OutSoFar
<1>4. ASSUME NEW m \in AllNames(b, t), m < n PROVE KVs(g, m) = KVs(t, m)
  <2>1. m # n
    <3>1. n \in Nat
      BY <1>1, NamesAre
    <3>. QED BY <1>4, <3>1
  <2>. QED BY <1>1, <1>2, <1>4, <2>1 DEF KVs
<1>5. Plan(c1, LeafItems(b, n), LeafItems(t, n))
  BY <1>1 DEF Plan
<1>. QED BY <1>1, <1>2, <1>3, <1>4, <1>5 DEF AtStore

Appended(x, o, n) == x.tag = "iavl" /\ x.height = 0 /\ x.key \in Nat /\ \A y \in LeafItems(o, n) : y.key < x.key

LEMMA OneLeaf ==
  ASSUME NEW n, NEW o, NEW x0, Appended(x0, o, n), NEW q, q = <<x0>>
  PROVE  NewLeaves(q, o, n) /\ \A g : Written2(g, o, q, n) => LeafItems(g, n) = LeafItems(o, n) \cup {x0}
<1>1. IsSeq(q) /\ Len(q) = 1 /\ q[1] = x0
  BY OneElement
<1>2. \A j \in 1 .. Len(q) : j = 1
  BY <1>1
<1>3. \A j, l \in 1 .. Len(q) : ~(j < l)
  BY <1>2
<1>4. NewLeaves(q, o, n)
  BY <1>1, <1>2, <1>3 DEF NewLeaves, LeafAt, Appended
<1>5. {q[j] : j \in 1 .. Len(q)} = {x0}
  <2>1. 1 \in 1 .. Len(q)
    BY <1>1
  <2>. QED BY <1>1, <1>2, <2>1
<1>. QED BY <1>4, <1>5 DEF Written2

LEMMA NoLeaf ==
  ASSUME NEW f, NEW b, NEW t, NEW n, NEW r, NEW i, NEW d, NEW c, NEW o, AtStore(f, b, t, n, r, i, d, c, o)
  PROVE  Written2(o, o, << >>, n) /\ LeafItems(o, n) = LeafItems(o, n) \cup {}
<1>1. Stream(o) /\ NoExts(o) /\ InStore(o, n)
  BY DEF AtStore, OutSoFar
<1>2. PICK q : q = << >>
  OBVIOUS
<1>3. Len(q) = 0
  BY <1>2
<1>4. {q[j] : j \in 1 .. Len(q)} = {}
  BY <1>3
<1>5. Written2(o, o, q, n)
  BY <1>1, <1>4 DEF Written2
<1>. QED BY <1>2, <1>5

LEMMA Nothing ==
  ASSUME NEW q, IsSeq(q)
  PROVE  << >> \o q = q /\ q \o << >> = q
BY DEF IsSeq

LEMMA ItemIs ==
  ASSUME NEW k, NEW v, NEW x, x = LeafItem(k, v)
  PROVE  x.tag = "iavl" /\ x.height = 0 /\ x.key = k /\ x.val = v
BY DEF LeafItem, IAVL

(* The two kinds of turn, for the whole of AtStore.                        *)
LEMMA TurnBase ==
  ASSUME NEW f, NEW b, Stream(b), NEW t, Stream(t), NEW n, NEW r \in Readers, NEW i, NEW d, NEW c, NEW o, AtStore(f, b, t, n, r, i, d, c, o),
         i # None, NEW k, k = b[i].key, \A l \in c.left : k < l, c.left \subseteq Nat,
         NEW a, a = Advance(b, r), NEW j, j = LeafOf(b, r),
         NEW v, v = (IF k \in DOMAIN c.upd THEN c.upd[k] ELSE b[i].val),
         NEW q, q = (IF k \in c.del THEN << >> ELSE <<LeafItem(k, v)>>), NEW g, g = o \o q
  PROVE  AtStore(f, b, t, n, a, j, d, c, g)
<1>1. /\ n \in Nat /\ Side(b, r, i, n) /\ Plan(c, LeafItems(b, n), LeafItems(t, n)) /\ Merged(b, t, n, i, c, o) /\ Stream(o)
  BY NamesAre DEF AtStore, OutSoFar
<1>2. Side(b, a, j, n) /\ Following(b, n, i, j)
  BY <1>1, NextSide DEF Following
<1>3. k \in Nat /\ \A x \in LeafItems(o, n) : x.key < k
  <2>1. i \in Leaves(b, n)
    BY <1>2 DEF Following
  <2>. QED BY <1>1, <2>1, LeafKeys DEF Merged
<1>4. IsSeq(o)
  BY <1>1 DEF Stream, Good
<1>5. CASE k \in c.del
  <2>1. g = o
    <3>1. g = o \o << >>
      BY <1>5
    <3>. QED BY <1>4, <3>1, Nothing
  <2>2. Written2(g, o, << >>, n) /\ LeafItems(g, n) = LeafItems(o, n) \cup {}
    BY <2>1, NoLeaf
  <2>3. PICK W : W = {}
    OBVIOUS
  <2>4. Merged(b, t, n, j, c, g)
    <3>1. LeafItems(g, n) = LeafItems(o, n) \cup W
      BY <2>2, <2>3
    <3>2. PICK x0 : x0 = 0
      OBVIOUS
    <3>. QED BY <1>1, <1>2, <1>5, <2>3, <3>1, MergedBase
  <2>5. PICK z : z = << >>
    OBVIOUS
  <2>. QED BY <1>2, <2>2, <2>4, <2>5, StoreGoesOn
<1>6. CASE k \notin c.del
  <2>1. PICK x0 : x0 = LeafItem(k, v)
    OBVIOUS
  <2>2. x0.tag = "iavl" /\ x0.height = 0 /\ x0.key = k /\ x0.val = v
    BY <2>1, ItemIs
  <2>3. q = <<x0>>
    BY <1>6, <2>1
  <2>4. Written2(g, o, q, n) /\ LeafItems(g, n) = LeafItems(o, n) \cup {x0}
    <3>1. x0.key \in Nat /\ \A x \in LeafItems(o, n) : x.key < x0.key
      BY <1>3, <2>2
    <3>2. x0.tag = "iavl" /\ x0.height = 0
      BY <2>2
    <3>4. Stream(o) /\ NoExts(o) /\ InStore(o, n)
      BY DEF AtStore, OutSoFar
    <3>5. Appended(x0, o, n)
      BY <3>1, <3>2 DEF Appended
    <3>6. NewLeaves(q, o, n) /\ \A h : Written2(h, o, q, n) => LeafItems(h, n) = LeafItems(o, n) \cup {x0}
      BY <2>3, <3>5, OneLeaf
    <3>7. Written2(g, o, q, n)
      BY <3>4, <3>6, LeavesWritten
    <3>. QED BY <3>6, <3>7
  <2>5. Merged(b, t, n, j, c, g)
    <3>1. PICK W : W = {x0}
      OBVIOUS
    <3>2. k \notin c.del /\ W = {x0} /\ x0.key = k /\ x0.val = IF k \in DOMAIN c.upd THEN c.upd[k] ELSE b[i].val
      BY <1>6, <2>2, <3>1
    <3>3. LeafItems(g, n) = LeafItems(o, n) \cup W
      BY <2>4, <3>1
    <3>. QED BY <1>1, <1>2, <3>2, <3>3, MergedBase
  <2>. QED BY <1>2, <2>4, <2>5, StoreGoesOn
<1>. QED BY <1>5, <1>6

(* The items of one turn, and the output they make.                        *)
ItemOf(q, k, v) == q = <<LeafItem(k, v)>>
LongerBy(g, o, q)  == g = o \o q

LEMMA TurnInsert ==
  ASSUME NEW f, NEW b, Stream(b), NEW t, Stream(t), NEW n, NEW r \in Readers, NEW i, NEW d, NEW c, NEW o, AtStore(f, b, t, n, r, i, d, c, o),
         c.left \subseteq Nat, c.left \subseteq DOMAIN c.ins, NEW k \in c.left, \A l \in c.left : k <= l,
         NEW a, NEW j, \/ a = r /\ j = i /\ (i # None => k < b[i].key)
                       \/ i # None /\ k = b[i].key /\ a = Advance(b, r) /\ j = LeafOf(b, r),
         NEW c1, c1.del = c.del, c1.upd = c.upd, c1.ins = c.ins, c1.left = c.left \ {k},
         NEW q, ItemOf(q, k, c.ins[k]), NEW g, LongerBy(g, o, q)
  PROVE  AtStore(f, b, t, n, a, j, d, c1, g)
<1>1. /\ n \in Nat /\ Side(b, r, i, n) /\ Plan(c, LeafItems(b, n), LeafItems(t, n)) /\ Merged(b, t, n, i, c, o)
  BY NamesAre DEF AtStore
<1>2. i # None => i \in Leaves(b, n)
  BY <1>1 DEF Side
<1>3. /\ Side(b, a, j, n)
      /\ \/ j = i /\ (i # None => k < b[i].key)
         \/ i # None /\ k = b[i].key /\ Following(b, n, i, j)
  <2>1. CASE a = r /\ j = i /\ (i # None => k < b[i].key)
    BY <1>1, <2>1
  <2>2. CASE i # None /\ k = b[i].key /\ a = Advance(b, r) /\ j = LeafOf(b, r)
    BY <1>1, <2>2, NextSide DEF Following
  <2>. QED BY <2>1, <2>2
<1>4. PICK x0 : x0 = LeafItem(k, c.ins[k])
  OBVIOUS
<1>5. x0.tag = "iavl" /\ x0.height = 0 /\ x0.key = k /\ x0.val = c.ins[k] /\ q = <<x0>>
  BY <1>4, ItemIs DEF ItemOf
<1>6. k \in Nat /\ \A x \in LeafItems(o, n) : x.key < k
  BY <1>1 DEF Merged
<1>7. Written2(g, o, q, n) /\ LeafItems(g, n) = LeafItems(o, n) \cup {x0}
  <2>1. x0.key \in Nat /\ \A x \in LeafItems(o, n) : x.key < x0.key
    BY <1>5, <1>6
  <2>2. x0.tag = "iavl" /\ x0.height = 0 /\ q = <<x0>>
    BY <1>5
  <2>4. Stream(o) /\ NoExts(o) /\ InStore(o, n)
    BY DEF AtStore, OutSoFar
  <2>5. x0.tag = "iavl" /\ x0.height = 0
    BY <2>2
  <2>6. Appended(x0, o, n)
    BY <2>1, <2>5 DEF Appended
  <2>7. NewLeaves(q, o, n) /\ \A h : Written2(h, o, q, n) => LeafItems(h, n) = LeafItems(o, n) \cup {x0}
    BY <2>2, <2>6, OneLeaf
  <2>8. Written2(g, o, q, n)
    BY <2>4, <2>7, LeavesWritten DEF LongerBy
  <2>. QED BY <2>7, <2>8
<1>8. Merged(b, t, n, j, c1, g)
  <2>1. LeafItems(g, n) = LeafItems(o, n) \cup {x0} /\ x0.key = k /\ x0.val = c.ins[k]
    BY <1>5, <1>7
  <2>2. \/ j = i /\ (i # None => k < b[i].key)
        \/ i # None /\ k = b[i].key /\ Following(b, n, i, j)
    BY <1>3
  <2>. QED BY <1>1, <1>2, <2>1, <2>2, MergedInsert
<1>. QED BY <1>3, <1>7, <1>8, StoreGoesOn

LEMMA RoundApplyStore ==
  ASSUME LeafInv, mode = "leaf", RoundInv, ApplyStore, UNCHANGED syncVars
  PROVE  RoundInv'
<1>1. Computing /\ pc = "store" /\ IsChanges(ch) /\ pc' = pc /\ mode' = mode /\ UNCHANGED <<base, target, file, cut, src, meta, name, dpos>>
  <2>1. pc = "store" /\ pc' = pc /\ mode' = mode /\ UNCHANGED <<base, target, file, cut, src, meta, name, dpos>>
    BY DEF ApplyStore, syncVars
  <2>. QED BY <2>1, Computes DEF LeafInv, LMerge
<1>2. ComputeInv'
  BY <1>1, StillComputed DEF Computing, Using, ComputePcs
<1>3. ASSUME cut = "no", src = base PROVE AtStore(file, base, target, name, brd', brec', dpos, ch', out')
  <2>1. PICK f, b, t, n, r, i, d, c, o : f = file /\ b = base /\ t = target /\ n = name /\ r = brd /\ i = brec /\ d = dpos /\ c = ch /\ o = out
    OBVIOUS
  <2>2. AtStore(f, b, t, n, r, i, d, c, o) /\ Stream(b) /\ Stream(t) /\ r \in Readers /\ IsChanges(c)
    BY <1>1, <1>3, <2>1 DEF Computing, ApplyInv
  <2>3. c.left \subseteq Nat /\ c.left \subseteq DOMAIN c.ins /\ c = [del |-> c.del, upd |-> c.upd, ins |-> c.ins, left |-> c.left]
    BY <2>2 DEF IsChanges
  <2>4. PICK k, ik : k = b[i].key /\ ik = Min(c.left)
    OBVIOUS
  <2>5. c.left # {} => ik \in c.left /\ ik \in Nat /\ \A l \in c.left : ik <= l
    <3>1. PICK S : S = c.left
      OBVIOUS
    <3>2. S # {} => Min(S) \in S /\ \A l \in S : Min(S) <= l
      BY <2>3, <3>1, LeastIs
    <3>. QED BY <2>3, <2>4, <3>1, <3>2
  <2>6. i # None => k \in Nat
    <3>1. Side(b, r, i, n)
      BY <2>2 DEF AtStore
    <3>. QED BY <2>2, <2>4, <3>1, LeafKeys DEF Side
  <2>7. PICK tb \in BOOLEAN : tb = (i # None /\ (c.left = {} \/ k <= ik))
    OBVIOUS
  <2>8. PICK ti \in BOOLEAN : ti = (c.left # {} /\ (i = None \/ ik <= k))
    OBVIOUS
  <2>9. PICK v : v = (IF k \in DOMAIN c.upd THEN c.upd[k] ELSE b[i].val)
    OBVIOUS
  <2>10. PICK x, y, q : x = (IF k \in c.del THEN << >> ELSE <<LeafItem(k, v)>>) /\ y = <<LeafItem(ik, c.ins[ik])>>
                        /\ q = (IF tb THEN x ELSE << >>) \o (IF ti THEN y ELSE << >>)
    OBVIOUS
  <2>11. PICK c1 : c1 = [c EXCEPT !.left = @ \ {ik}]
    OBVIOUS
  <2>12. PICK a, j, g : a = Advance(b, r) /\ j = LeafOf(b, r) /\ g = o \o q
    OBVIOUS
  <2>13. /\ i # None \/ c.left # {}
         /\ out' = g
         /\ IF tb THEN brd' = a /\ brec' = j ELSE brd' = r /\ brec' = i
         /\ ch' = IF ti THEN c1 ELSE c
    <3>1. BaseItem(k, b[i].val) = x
      BY <2>1, <2>9, <2>10 DEF BaseItem
    <3>. QED BY <1>3, <2>1, <2>4, <2>7, <2>8, <2>10, <2>11, <2>12, <3>1 DEF ApplyStore, Write
  <2>14. c1.del = c.del /\ c1.upd = c.upd /\ c1.ins = c.ins /\ c1.left = c.left \ {ik}
    BY <2>3, <2>11
  <2>15. IsSeq(x) /\ IsSeq(y)
    BY <2>10, OneElement
  <2>16. AtStore(f, b, t, n, brd', brec', d, ch', out')
    <3>1. CASE tb /\ ~ti
      <4>1. q = x
        BY <2>10, <2>15, <3>1, Nothing
      <4>2. i # None /\ \A l \in c.left : k < l
        <5>1. i # None /\ (c.left = {} \/ k <= ik) /\ ~(c.left # {} /\ (i = None \/ ik <= k))
          BY <2>7, <2>8, <3>1, Zenon
        <5>2. ASSUME NEW l \in c.left PROVE k < l
          <6>1. k <= ik /\ ~(ik <= k) /\ ik <= l /\ l \in Nat /\ ik \in Nat /\ k \in Nat
            BY <2>3, <2>5, <2>6, <5>1
          <6>. QED BY <6>1
        <5>. QED BY <5>1, <5>2
      <4>3. brd' = a /\ brec' = j /\ ch' = c /\ out' = g
        BY <2>13, <3>1
      <4>4. AtStore(f, b, t, n, a, j, d, c, g)
        BY <2>2, <2>3, <2>4, <2>9, <2>10, <2>12, <4>1, <4>2, TurnBase
      <4>. QED BY <4>3, <4>4
    <3>2. CASE ti
      <4>1. c.left # {} /\ (i = None \/ ik <= k)
        BY <2>8, <3>2, Zenon
      <4>2. ik \in c.left /\ ik \in Nat /\ \A l \in c.left : ik <= l
        BY <2>5, <4>1
      <4>3. CASE ~tb
        <5>1. q = y
          BY <2>10, <2>15, <3>2, <4>3, Nothing
        <5>2. brd' = r /\ brec' = i /\ ch' = c1 /\ out' = g
          BY <2>13, <3>2, <4>3
        <5>3. i # None => ik < b[i].key
          <6>1. ~(i # None /\ (c.left = {} \/ k <= ik))
            BY <2>7, <4>3, Zenon
          <6>. QED BY <2>4, <2>6, <4>1, <4>2, <6>1
        <5>4. AtStore(f, b, t, n, r, i, d, c1, g)
          BY <2>2, <2>3, <2>10, <2>12, <2>14, <4>2, <5>1, <5>3, TurnInsert DEF LongerBy, ItemOf
        <5>. QED BY <5>2, <5>4
      <4>4. CASE tb
        <5>0. i # None /\ k <= ik
          BY <2>7, <4>1, <4>4, Zenon
        <5>1. ik = k /\ ik = b[i].key
          BY <2>4, <2>6, <4>1, <4>2, <5>0
        <5>2. k \in c.del
          <6>1. Plan(c, LeafItems(b, n), LeafItems(t, n)) /\ Side(b, r, i, n)
            BY <2>2 DEF AtStore
          <6>2. b[i] \in LeafItems(b, n)
            BY <5>0, <6>1 DEF Side, LeafItems
          <6>. QED BY <2>3, <2>4, <4>2, <5>1, <6>1, <6>2 DEF Plan
        <5>3. q = y
          <6>1. x = << >>
            BY <2>10, <5>2
          <6>. QED BY <2>10, <2>15, <3>2, <4>4, <6>1, Nothing
        <5>4. brd' = a /\ brec' = j /\ ch' = c1 /\ out' = g
          BY <2>13, <3>2, <4>4
        <5>5. AtStore(f, b, t, n, a, j, d, c1, g)
          BY <2>2, <2>3, <2>10, <2>12, <2>14, <4>2, <5>0, <5>1, <5>3, TurnInsert DEF LongerBy, ItemOf
        <5>. QED BY <5>4, <5>5
      <4>. QED BY <4>3, <4>4
    <3>3. tb \/ ti
      <4>1. ~(k <= ik) /\ k \in Nat /\ ik \in Nat => ik <= k
        OBVIOUS
      <4>. QED BY <2>5, <2>6, <2>7, <2>8, <2>13, <4>1, Zenon
    <3>. QED BY <3>1, <3>2, <3>3
  <2>. QED BY <2>1, <2>16
<1>4. ApplyInv'
  <2>1. meta' = {}
    BY <1>1 DEF Computing, ApplyInv
  <2>. QED BY <1>1, <1>3, <2>1 DEF ApplyInv
<1>. QED BY <1>2, <1>4 DEF RoundInv

LEMMA RoundStoreApplied ==
  ASSUME LeafInv, mode = "leaf", RoundInv, StoreApplied, UNCHANGED syncVars
  PROVE  RoundInv'
<1>1. /\ Computing /\ pc = "store" /\ brec = None /\ ch.left = {} /\ pc' = "walk" /\ mode' = mode
      /\ UNCHANGED <<base, target, file, cut, src, meta, brd, dpos, out>>
  BY Computes DEF StoreApplied, syncVars
<1>2. ComputeInv'
  BY <1>1, StillComputed DEF Computing, Using, ComputePcs
<1>3. ASSUME cut = "no", src = base PROVE AtWalk(file, base, target, brd, dpos, out)
  <2>1. PICK f, b, t, n, r, d, c, o : f = file /\ b = base /\ t = target /\ n = name /\ r = brd /\ d = dpos /\ c = ch /\ o = out
    OBVIOUS
  <2>2. AtStore(f, b, t, n, r, None, d, c, o) /\ Stream(b) /\ Stream(t) /\ c.left = {}
    BY <1>1, <1>3, <2>1 DEF Computing, ApplyInv
  <2>3. /\ n \in AllNames(b, t) /\ Fresh(b, r, n) /\ Ahead(f, d, n) /\ OutSoFar(o, n, AllNames(b, t))
        /\ \A m \in AllNames(b, t) : m < n => KVs(o, m) = KVs(t, m)
    BY <2>2 DEF AtStore, Side
  <2>4. /\ \A x \in LeafItems(o, n) : \E y \in LeafItems(t, n) : y.key = x.key /\ y.val = x.val
        /\ \A y \in LeafItems(t, n) : \E x \in LeafItems(o, n) : x.key = y.key /\ x.val = y.val
    BY <2>2 DEF AtStore, Merged
  <2>5. KVs(o, n) = KVs(t, n)
    BY <2>4, SameKVs
  <2>6. ASSUME NEW m \in AllNames(b, t), m <= n PROVE KVs(o, m) = KVs(t, m)
    <3>1. m \in Nat /\ n \in Nat
      BY <2>2, <2>3, NamesAre
    <3>2. m < n \/ m = n
      BY <2>6, <3>1
    <3>. QED BY <2>3, <2>5, <3>2
  <2>7. AtWalk(f, b, t, r, d, o)
    BY <2>3, <2>6 DEF AtWalk
  <2>. QED BY <2>1, <2>7
<1>4. ApplyInv'
  <2>1. meta' = {}
    BY <1>1 DEF Computing, ApplyInv
  <2>. QED BY <1>1, <1>3, <2>1 DEF ApplyInv
<1>. QED BY <1>2, <1>4 DEF RoundInv

-----------------------------------------------------------------------------
(* Opening a diff, and leaving its stores.                                 *)

LEMMA EmptyStream == Stream(<< >>) /\ NoExts(<< >>) /\ StoreNames(<< >>) = {}
<1>1. PICK o : o = << >>
  OBVIOUS
<1>2. IsSeq(o) /\ Len(o) = 0 /\ DOMAIN o = {}
  <2>1. IsSeq(o) /\ Len(o) = 0
    BY <1>1, OneElement
  <2>2. DOMAIN o = 1 .. Len(o)
    BY <2>1, SeqFacts
  <2>. QED BY <2>1, <2>2
<1>. HIDE <1>1
<1>3. Stream(o) /\ NoExts(o) /\ StoreNames(o) = {}
  BY <1>2 DEF Stream, Good, Ordered, Nested, NoExts, StoreNames
<1>. QED BY <1>1, <1>3

(* The walk begins before every store and section.                         *)
LEMMA OpenGives ==
  ASSUME NEW f, IsSeq(f), FileHead(f), NEW b, Stream(b), NEW t, Stream(t), FileDone(f, b, t),
         \A n \in AllNames(b, t) : n \in Nat \ {0}
  PROVE  AtWalk(f, b, t, Start, 3, << >>)
<1>1. Len(f) \in Nat /\ DOMAIN f = 1 .. Len(f) /\ Len(f) >= 2 /\ f[1].tag = "Header" /\ f[2].tag = "ZlibHeader"
  BY SeqFacts DEF FileHead
<1>2. 3 \in 1 .. Len(f) + 1
  BY <1>1
<1>3. \A x \in Enters(f) \cup ExtEnters(f) : x >= 3
  <2>1. ASSUME NEW x \in Enters(f) \cup ExtEnters(f) PROVE x >= 3
    <3>1. x \in 1 .. Len(f) /\ f[x].tag \in {"StoreEnter", "ExtEnter"}
      BY <1>1 DEF Enters, ExtEnters
    <3>2. x # 1 /\ x # 2
      BY <1>1, <3>1
    <3>. QED BY <1>1, <3>1, <3>2
  <2>. QED BY <2>1
<1>4. \A x \in Enters(f) : f[x].name > 0
  <2>1. \A x \in Enters(f) : f[x].name \in AllNames(b, t)
    BY DEF FileDone, Sections
  <2>2. ASSUME NEW x \in Enters(f) PROVE f[x].name > 0
    <3>1. f[x].name \in Nat \ {0}
      BY <2>1
    <3>. QED BY <3>1
  <2>. QED BY <2>2
<1>5. Ahead(f, 3, 0)
  BY <1>2, <1>3, <1>4 DEF Ahead
<1>6. Fresh(b, Start, 0)
  <2>1. \A n \in StoreNames(b) : n \in Nat \ {0}
    BY DEF AllNames
  <2>. QED BY <2>1, FreshAtStart
<1>7. OutSoFar(<< >>, 0, AllNames(b, t))
  BY EmptyStream DEF OutSoFar
<1>8. \A n \in AllNames(b, t) : ~(n <= 0)
  <2>1. ASSUME NEW n \in AllNames(b, t) PROVE ~(n <= 0)
    <3>1. n \in Nat \ {0}
      OBVIOUS
    <3>. QED BY <3>1
  <2>. QED BY <2>1
<1>. QED BY <1>5, <1>6, <1>7, <1>8 DEF AtWalk

LEMMA RoundOpenDiff ==
  ASSUME LeafInv, mode = "leaf", RoundInv, OpenDiff, UNCHANGED syncVars
  PROVE  RoundInv'
<1>1. Computing /\ pc = "diffed"
  BY Computes DEF OpenDiff
<1>2. CASE Fail
  BY <1>1, <1>2, RoundFails DEF Using
<1>3. CASE ~Fail
  <2>1. dpos' = 3 /\ pc' = "walk" /\ mode' = mode /\ UNCHANGED <<base, target, file, cut, brd, out, meta>>
    BY <1>3 DEF OpenDiff, readers, syncVars
  <2>2. ComputeInv'
    BY <1>1, <2>1, StillComputed DEF Computing, Using, ComputePcs
  <2>3. out = << >> /\ meta = {}
    BY <1>1 DEF Computing, ApplyInv
  <2>4. ASSUME cut = "no" PROVE AtWalk(file, base, target, brd, 3, out)
    <3>1. PICK f, b, t : f = file /\ b = base /\ t = target
      OBVIOUS
    <3>2. /\ IsSeq(f) /\ FileHead(f) /\ Stream(b) /\ Stream(t) /\ FileDone(f, b, t) /\ brd = Start
          /\ \A n \in AllNames(b, t) : n \in Nat \ {0}
      BY <1>1, <2>4, <3>1 DEF Computing, ComputeInv, Using
    <3>3. AtWalk(f, b, t, Start, 3, << >>)
      BY <3>2, OpenGives
    <3>. QED BY <2>3, <3>1, <3>2, <3>3
  <2>5. ApplyInv'
    BY <2>1, <2>3, <2>4 DEF ApplyInv
  <2>. QED BY <2>2, <2>5 DEF RoundInv
<1>. QED BY <1>2, <1>3

LEMMA ExtSectionsAre ==
  ASSUME NEW f, f = file, IsSeq(f), NEW d \in 1 .. Len(f) + 1, d = dpos,
         \A x \in Enters(f) : x < d, \A y \in ExtEnters(f) : y >= d
  PROVE  ExtSections = ExtEnters(f)
<1>1. Len(f) \in Nat /\ DOMAIN f = 1 .. Len(f) /\ d \in Nat \ {0} /\ d <= Len(f) + 1
  BY SeqFacts
<1>2. PICK T : T = {j \in d .. Len(f) : f[j].tag = "StoreEnter"}
  OBVIOUS
<1>3. T = {}
  <2>1. ASSUME NEW j \in T PROVE FALSE
    <3>1. j \in d .. Len(f) /\ f[j].tag = "StoreEnter"
      BY <1>2
    <3>2. j \in Enters(f) /\ j >= d /\ j \in Nat
      BY <1>1, <3>1 DEF Enters
    <3>3. j < d
      BY <3>2
    <3>. QED BY <1>1, <3>2, <3>3
  <2>. QED BY <2>1
<1>4. PICK p : p = Min(T \cup {Len(f) + 1})
  OBVIOUS
<1>5. FirstOf(p, f, d, T)
  BY <1>1, <1>3, <1>4, FirstLeast
<1>6. p = Len(f) + 1
  <2>1. p \in d .. Len(f) + 1 /\ (p <= Len(f) => p \in T)
    BY <1>5 DEF FirstOf
  <2>. QED BY <1>1, <1>3, <2>1
<1>7. ExtSections = {i \in d .. p - 1 : f[i].tag = "ExtEnter"}
  BY <1>2, <1>4 DEF ExtSections, FirstFrom
<1>8. \A i : i \in d .. p - 1 <=> i \in 1 .. Len(f) /\ i >= d
  BY <1>1, <1>6
<1>. QED BY <1>1, <1>7, <1>8 DEF ExtEnters

(* Behind the last store the output has all of the target's pairs.         *)
LEMMA WalkOverGives ==
  ASSUME NEW f, IsSeq(f), NEW b, Stream(b), NEW t, Stream(t), FileDone(f, b, t), NEW r, NEW d, NEW o, AtWalk(f, b, t, r, d, o),
         NEW s, FirstOf(s, f, d, From(Begins(f), d)), ~(s <= Len(f) /\ f[s].tag = "StoreEnter")
  PROVE  /\ AtApplyExts(f, b, t, d, AllExts(b, t), o)
         /\ d \in 1 .. Len(f) + 1 /\ (\A x \in Enters(f) : x < d) /\ \A y \in ExtEnters(f) : y >= d
<1>1. PICK N \in Nat : /\ Ahead(f, d, N) /\ OutSoFar(o, N, AllNames(b, t))
                       /\ \A m \in AllNames(b, t) : m <= N => KVs(o, m) = KVs(t, m)
  <2>1. \A m \in {0} \cup AllNames(b, t) : m \in Nat
    BY NamesAre
  <2>. QED BY <2>1 DEF AtWalk
<1>2. \A n \in AllNames(b, t) : n <= N
  BY <1>1, SectionAt
<1>3. d \in 1 .. Len(f) + 1 /\ \A y \in ExtEnters(f) : y >= d
  BY <1>1 DEF Ahead
<1>4. ASSUME NEW x \in Enters(f) PROVE x < d
  <2>1. f[x].name \in AllNames(b, t)
    BY DEF FileDone, Sections
  <2>2. f[x].name \in Nat /\ f[x].name <= N
    BY <1>2, <2>1, NamesAre
  <2>3. ~(f[x].name > N)
    BY <2>2
  <2>4. ~(x >= d)
    BY <1>1, <2>3 DEF Ahead
  <2>5. x \in Nat /\ d \in Nat
    BY <1>3, SeqFacts DEF Enters
  <2>. QED BY <2>4, <2>5
<1>5. Stream(o) /\ NoExts(o) /\ StoreNames(o) \subseteq AllNames(b, t)
  BY <1>1 DEF OutSoFar
<1>6. ExtNames(o) = {}
  BY <1>5 DEF NoExts, ExtNames
<1>. QED BY <1>1, <1>2, <1>3, <1>4, <1>5, <1>6 DEF AtApplyExts

LEMMA RoundWalkOver ==
  ASSUME LeafInv, mode = "leaf", RoundInv, WalkOver, UNCHANGED syncVars
  PROVE  RoundInv'
<1>1. /\ Computing /\ pc = "walk" /\ pc' = "applyexts" /\ mode' = mode
      /\ UNCHANGED <<base, target, file, cut, src, meta, dpos, out>>
  BY Computes DEF WalkOver, syncVars, applyVars
<1>2. ComputeInv'
  BY <1>1, StillComputed DEF Computing, Using, ComputePcs
<1>3. ASSUME cut = "no", src = base PROVE AtApplyExts(file, base, target, dpos, todo', out)
  <2>1. PICK f, b, t, r, d, o, s : f = file /\ b = base /\ t = target /\ r = brd /\ d = dpos /\ o = out /\ s = Section(d)
    OBVIOUS
  <2>2. IsSeq(f) /\ FileDone(f, b, t) /\ AtWalk(f, b, t, r, d, o) /\ Stream(b) /\ Stream(t)
    BY <1>1, <1>3, <2>1 DEF Computing, ComputeInv, ApplyInv, Using
  <2>3. d \in 1 .. Len(f) + 1
    BY <2>2 DEF AtWalk, Ahead
  <2>4. FirstOf(s, f, d, From(Begins(f), d))
    BY <2>1, <2>2, <2>3, SectionFirst
  <2>5. ~(s <= Len(f) /\ f[s].tag = "StoreEnter")
    BY <2>1 DEF WalkOver, SectionIs
  <2>6. /\ AtApplyExts(f, b, t, d, AllExts(b, t), o)
        /\ (\A x \in Enters(f) : x < d) /\ \A y \in ExtEnters(f) : y >= d
    BY <2>2, <2>4, <2>5, WalkOverGives
  <2>7. ExtSections = ExtEnters(f)
    BY <2>1, <2>2, <2>3, <2>6, ExtSectionsAre
  <2>8. todo' = ExtNames(b) \cup {f[i].name : i \in ExtEnters(f)}
    BY <1>3, <2>1, <2>7 DEF WalkOver
  <2>9. todo' = AllExts(b, t)
    <3>1. /\ \A y \in ExtEnters(f) : f[y].name \in AllExts(b, t)
          /\ \A n \in AllExts(b, t) : \E y \in ExtEnters(f) : f[y].name = n
      BY <2>2 DEF FileDone, ExtSecs
    <3>. QED BY <2>8, <3>1 DEF AllExts
  <2>. QED BY <2>1, <2>6, <2>9
<1>4. ApplyInv'
  <2>1. meta' = {}
    BY <1>1 DEF Computing, ApplyInv
  <2>. QED BY <1>1, <1>3, <2>1 DEF ApplyInv
<1>. QED BY <1>2, <1>4 DEF RoundInv

-----------------------------------------------------------------------------
(* Extensions.                                                             *)

(* The items of an extension, and the stream that ends with them.          *)
ExtItems(q, n) == /\ IsSeq(q) /\ Len(q) >= 1 /\ q[1].tag = "ext" /\ q[1].name = n
                  /\ \A i \in 2 .. Len(q) : q[i].tag = "payload"

Written3(g, o, q, n) ==
  /\ Stream(g) /\ StoreNames(g) = StoreNames(o) /\ ExtNames(g) = ExtNames(o) \cup {n}
  /\ \A m : KVs(g, m) = KVs(o, m)
  /\ \A m : m # n => Payloads(g, m) = Payloads(o, m)
  /\ Payloads(g, n) = {q[i].body : i \in 2 .. Len(q)}

LEMMA NoPayloads ==
  ASSUME NEW s, Stream(s), NEW n, n \notin ExtNames(s)
  PROVE  PayloadsAt(s, n) = {} /\ Payloads(s, n) = {}
<1>1. IsSeq(s) /\ Len(s) \in Nat /\ DOMAIN s = 1 .. Len(s)
  BY SeqFacts DEF Stream, Good
<1>2. ASSUME NEW i \in PayloadsAt(s, n) PROVE FALSE
  <2>1. i \in 1 .. Len(s) /\ s[i].tag = "payload" /\ Owner(s, i, "ext") = n
    BY <1>1 DEF PayloadsAt
  <2>2. PICK tag : tag = "ext"
    OBVIOUS
  <2>3. \E j \in 1 .. i : s[j].tag = tag
    BY <1>1, <2>1, <2>2 DEF Stream, Nested
  <2>4. PICK x \in 1 .. i : s[x].tag = tag /\ Owner(s, i, tag) = s[x].name
    BY <1>1, <2>1, <2>3, LastOf
  <2>5. x \in 1 .. Len(s)
    BY <1>1, <2>1
  <2>. QED BY <1>1, <2>1, <2>2, <2>4, <2>5 DEF ExtNames
<1>3. PayloadsAt(s, n) = {}
  BY <1>2
<1>. QED BY <1>3 DEF Payloads

NewPays(g, o) ==
  /\ g[Len(o) + 1].tag = "ext" /\ Len(o) + 1 \in 1 .. Len(g)
  /\ \A i \in Len(o) + 2 .. Len(g) : g[i].tag = "payload" /\ Owner(g, i, "ext") = g[Len(o) + 1].name
  /\ \A i \in 1 .. Len(g) : i \in 1 .. Len(o) \/ i = Len(o) + 1 \/ i \in Len(o) + 2 .. Len(g)

LEMMA NewExt ==
  ASSUME NEW o, IsSeq(o), NEW n, NEW q, ExtItems(q, n), NEW g, Grown(g, o, q)
  PROVE  NewPays(g, o) /\ g[Len(o) + 1].name = n
<1>1. /\ IsSeq(g) /\ Len(o) \in Nat /\ Len(q) \in Nat /\ Len(g) = Len(o) + Len(q)
      /\ \A i \in 1 .. Len(q) : g[Len(o) + i] = q[i]
  BY DEF Grown
<1>2. Len(q) >= 1 /\ q[1].tag = "ext" /\ q[1].name = n /\ \A i \in 2 .. Len(q) : q[i].tag = "payload"
  BY DEF ExtItems
<1>3. PICK w \in Nat : w = Len(o) + 1
  BY <1>1
<1>4. w \in 1 .. Len(g) /\ g[w].tag = "ext" /\ g[w].name = n
  <2>1. 1 \in 1 .. Len(q)
    BY <1>1, <1>2
  <2>. QED BY <1>1, <1>2, <1>3, <2>1
<1>5. ASSUME NEW i \in w + 1 .. Len(g) PROVE g[i].tag = "payload"
  <2>1. PICK j \in 2 .. Len(q) : i = Len(o) + j
    <3>1. i - Len(o) \in 2 .. Len(q) /\ i = Len(o) + (i - Len(o))
      BY <1>1, <1>3
    <3>. QED BY <3>1
  <2>2. j \in 1 .. Len(q)
    BY <1>1
  <2>. QED BY <1>1, <1>2, <2>1, <2>2
<1>6. ASSUME NEW i \in w + 1 .. Len(g) PROVE Owner(g, i, "ext") = g[w].name
  <2>1. PICK tag : tag = "ext"
    OBVIOUS
  <2>2. i \in 1 .. Len(g) /\ w \in 1 .. i /\ \A j \in w + 1 .. i : j \in w + 1 .. Len(g)
    BY <1>1, <1>4
  <2>3. g[w].tag = tag /\ \A j \in w + 1 .. i : g[j].tag # tag
    BY <1>4, <1>5, <2>1, <2>2
  <2>4. Owner(g, i, tag) = g[w].name
    BY <1>1, <2>2, <2>3, OwnerIs
  <2>. QED BY <2>1, <2>4
<1>7. w + 1 = Len(o) + 2 /\ \A i \in 1 .. Len(g) : i \in 1 .. Len(o) \/ i = Len(o) + 1 \/ i \in Len(o) + 2 .. Len(g)
  BY <1>1, <1>3
<1>. QED BY <1>3, <1>4, <1>5, <1>6, <1>7 DEF NewPays

LEMMA ExtStream ==
  ASSUME NEW o, Stream(o), NEW n, NEW q, ExtItems(q, n), NEW g, g = o \o q
  PROVE  Stream(g)
<1>1. Grown(g, o, q) /\ IsSeq(o)
  BY Grows DEF Stream, Good, ExtItems
<1>2. Kept(g, o) /\ NewPays(g, o)
  BY <1>1, Keeps, NewExt
<1>3. Good(g)
  <2>1. \A i \in 1 .. Len(q) : q[i].tag \in {"ext", "payload"}
    <3>1. Len(q) \in Nat
      BY SeqFacts DEF ExtItems
    <3>2. \A i \in 1 .. Len(q) : i = 1 \/ i \in 2 .. Len(q)
      BY <3>1
    <3>. QED BY <3>2 DEF ExtItems
  <2>2. \A i \in 1 .. Len(q) : Sound(q[i])
    BY <2>1 DEF Sound
  <2>3. Good(q)
    BY <2>2 DEF Good, ExtItems
  <2>. QED BY <2>3, GoodConcat DEF Stream
<1>4. /\ IsSeq(g) /\ Len(o) \in Nat /\ Len(g) \in Nat /\ DOMAIN o = 1 .. Len(o) /\ DOMAIN g = 1 .. Len(g)
      /\ \A j \in 1 .. Len(o) : j \in 1 .. Len(g) /\ g[j] = o[j]
  BY <1>1 DEF Grown
<1>5. ASSUME NEW i \in 1 .. Len(g), ~(i \in 1 .. Len(o)) PROVE g[i].tag \in {"ext", "payload"} /\ i > Len(o)
  <2>1. i > Len(o)
    BY <1>4, <1>5
  <2>. QED BY <1>2, <1>5, <2>1 DEF NewPays
<1>6. \A i \in 1 .. Len(g) : g[i].tag \in {"store", "iavl", "ext", "payload"}
  <2>1. \A i \in 1 .. Len(o) : g[i].tag \in {"store", "iavl", "ext", "payload"}
    BY <1>4 DEF Stream
  <2>. QED BY <1>5, <2>1
<1>7. Nested(g)
  <2>1. ASSUME NEW i \in DOMAIN g, g[i].tag = "iavl" PROVE \E j \in 1 .. i : g[j].tag = "store"
    <3>1. i \in 1 .. Len(o)
      BY <1>4, <1>5, <2>1
    <3>2. PICK j \in 1 .. i : o[j].tag = "store"
      BY <1>4, <2>1, <3>1 DEF Stream, Nested
    <3>3. j \in 1 .. Len(o)
      BY <1>4, <3>1
    <3>. QED BY <1>4, <3>2, <3>3
  <2>2. ASSUME NEW i \in DOMAIN g, g[i].tag = "payload" PROVE \E j \in 1 .. i : g[j].tag = "ext"
    <3>1. CASE i \in 1 .. Len(o)
      <4>2. PICK j \in 1 .. i : o[j].tag = "ext"
        BY <1>4, <2>2, <3>1 DEF Stream, Nested
      <4>3. j \in 1 .. Len(o)
        BY <1>4, <3>1
      <4>. QED BY <1>4, <4>2, <4>3
    <3>2. CASE ~(i \in 1 .. Len(o))
      <4>1. i > Len(o)
        BY <1>4, <1>5, <3>2
      <4>2. Len(o) + 1 \in 1 .. i
        BY <1>4, <4>1
      <4>. QED BY <1>2, <4>2 DEF NewPays
    <3>. QED BY <3>1, <3>2
  <2>3. ASSUME NEW i \in DOMAIN g, NEW j \in DOMAIN g, i < j, g[i].tag \in {"ext", "payload"} PROVE g[j].tag \in {"ext", "payload"}
    <3>1. CASE j \in 1 .. Len(o)
      <4>1. i \in 1 .. Len(o)
        BY <1>4, <2>3, <3>1
      <4>. QED BY <1>4, <2>3, <3>1, <4>1 DEF Stream, Nested
    <3>. QED BY <1>4, <1>5, <3>1
  <2>. QED BY <2>1, <2>2, <2>3 DEF Nested
<1>8. Ordered(g)
  <2>1. ASSUME NEW i \in DOMAIN g, NEW j \in DOMAIN g, i < j, g[i].tag = "store", g[j].tag = "store"
        PROVE  g[i].name < g[j].name
    <3>1. i \in 1 .. Len(o) /\ j \in 1 .. Len(o)
      BY <1>4, <1>5, <2>1
    <3>. QED BY <1>4, <2>1, <3>1 DEF Stream, Ordered
  <2>2. ASSUME NEW i \in DOMAIN g, NEW j \in DOMAIN g, i < j, LeafAt(g, i), LeafAt(g, j), Owner(g, i, "store") = Owner(g, j, "store")
        PROVE  g[i].key < g[j].key
    <3>1. i \in 1 .. Len(o) /\ j \in 1 .. Len(o)
      BY <1>4, <1>5, <2>2 DEF LeafAt
    <3>2. LeafAt(o, i) /\ LeafAt(o, j) /\ Owner(o, i, "store") = Owner(o, j, "store")
      BY <1>2, <2>2, <3>1 DEF Kept
    <3>. QED BY <1>4, <2>2, <3>1, <3>2 DEF Stream, Ordered
  <2>. QED BY <2>1, <2>2 DEF Ordered
<1>. QED BY <1>3, <1>6, <1>7, <1>8 DEF Stream

(* An extension appended: its payloads, and no other's changed.            *)
LEMMA ExtWritten ==
  ASSUME NEW o, Stream(o), NEW n, n \notin ExtNames(o), NEW q, ExtItems(q, n), NEW g, g = o \o q
  PROVE  Written3(g, o, q, n)
<1>1. Grown(g, o, q) /\ IsSeq(o)
  BY Grows DEF Stream, Good, ExtItems
<1>2. Kept(g, o) /\ NewPays(g, o) /\ g[Len(o) + 1].name = n
  BY <1>1, Keeps, NewExt
<1>3. Stream(g)
  BY ExtStream
<1>4. /\ IsSeq(g) /\ Len(o) \in Nat /\ Len(q) \in Nat /\ Len(g) = Len(o) + Len(q) /\ DOMAIN o = 1 .. Len(o) /\ DOMAIN g = 1 .. Len(g)
      /\ \A j \in 1 .. Len(o) : j \in 1 .. Len(g) /\ g[j] = o[j]
      /\ \A i \in 1 .. Len(q) : g[Len(o) + i] = q[i]
  BY <1>1 DEF Grown
<1>5. \A i \in 1 .. Len(q) : q[i].tag \in {"ext", "payload"}
  <2>2. \A i \in 1 .. Len(q) : i = 1 \/ i \in 2 .. Len(q)
    BY <1>4
  <2>. QED BY <2>2 DEF ExtItems
<1>6. ASSUME NEW m PROVE KVs(g, m) = KVs(o, m)
  <2>1. \A i \in 1 .. Len(q) : ~LeafAt(q, i)
    BY <1>5 DEF LeafAt
  <2>. QED BY <1>1, <1>2, <2>1, LeavesStay
<1>7. /\ g[Len(o) + 1].tag = "ext" /\ Len(o) + 1 \in 1 .. Len(g) /\ g[Len(o) + 1].name = n
      /\ \A i \in Len(o) + 2 .. Len(g) : g[i].tag = "payload" /\ Owner(g, i, "ext") = n
      /\ \A i \in 1 .. Len(g) : i \in 1 .. Len(o) \/ i = Len(o) + 1 \/ i \in Len(o) + 2 .. Len(g)
  BY <1>2 DEF NewPays
<1>8. StoreNames(g) = StoreNames(o)
  <2>1. \A i \in 1 .. Len(g) : g[i].tag = "store" => i \in 1 .. Len(o)
    BY <1>7
  <2>. QED BY <1>4, <2>1 DEF StoreNames
<1>9. ExtNames(g) = ExtNames(o) \cup {n}
  <2>1. \A i \in 1 .. Len(g) : g[i].tag = "ext" => i \in 1 .. Len(o) \/ i = Len(o) + 1
    BY <1>7
  <2>2. PICK w \in 1 .. Len(g) : w = Len(o) + 1
    BY <1>7
  <2>3. ASSUME NEW m \in ExtNames(g) PROVE m \in ExtNames(o) \cup {n}
    <3>1. PICK i \in 1 .. Len(g) : g[i].tag = "ext" /\ m = g[i].name
      BY <1>4 DEF ExtNames
    <3>2. i \in 1 .. Len(o) \/ i = w
      BY <2>1, <2>2, <3>1
    <3>3. CASE i \in 1 .. Len(o)
      <4>1. o[i].tag = "ext" /\ m = o[i].name /\ i \in DOMAIN o
        BY <1>4, <3>1, <3>3
      <4>. QED BY <4>1 DEF ExtNames
    <3>4. CASE i = w
      BY <1>7, <2>2, <3>1, <3>4
    <3>. QED BY <3>2, <3>3, <3>4
  <2>4. n \in ExtNames(g)
    BY <1>4, <1>7, <2>2 DEF ExtNames
  <2>5. ExtNames(o) \subseteq ExtNames(g)
    BY <1>4 DEF ExtNames
  <2>. QED BY <2>3, <2>4, <2>5
<1>10. \A m, i : i \in PayloadsAt(g, m) <=> i \in PayloadsAt(o, m) \/ (i \in Len(o) + 2 .. Len(g) /\ m = n)
  <2>1. ASSUME NEW m, NEW i PROVE i \in PayloadsAt(g, m) <=> i \in PayloadsAt(o, m) \/ (i \in Len(o) + 2 .. Len(g) /\ m = n)
    <3>1. i \in Len(o) + 2 .. Len(g) => i \in 1 .. Len(g) /\ ~(i \in 1 .. Len(o))
      BY <1>4
    <3>2. i \in 1 .. Len(o) => (i \in PayloadsAt(g, m) <=> i \in PayloadsAt(o, m))
      BY <1>2, <1>4 DEF PayloadsAt, Kept
    <3>3. i = Len(o) + 1 => i \notin PayloadsAt(g, m)
      BY <1>7 DEF PayloadsAt
    <3>4. i \in Len(o) + 2 .. Len(g) => (i \in PayloadsAt(g, m) <=> m = n)
      BY <1>4, <1>7, <3>1 DEF PayloadsAt
    <3>5. (i \in PayloadsAt(g, m) => i \in 1 .. Len(g)) /\ (i \in PayloadsAt(o, m) => i \in 1 .. Len(o))
      BY <1>4 DEF PayloadsAt
    <3>. QED BY <1>7, <3>1, <3>2, <3>3, <3>4, <3>5
  <2>. QED BY <2>1
<1>11. \A m : PayloadsAt(o, m) \subseteq 1 .. Len(o)
  BY <1>4 DEF PayloadsAt
<1>12. ASSUME NEW m, m # n PROVE Payloads(g, m) = Payloads(o, m)
  <2>1. PayloadsAt(g, m) = PayloadsAt(o, m)
    BY <1>10, <1>12
  <2>. QED BY <1>4, <1>11, <2>1 DEF Payloads
<1>13. Payloads(g, n) = {q[i].body : i \in 2 .. Len(q)}
  <2>1. PayloadsAt(o, n) = {}
    BY NoPayloads
  <2>2. \A i : i \in PayloadsAt(g, n) <=> i \in Len(o) + 2 .. Len(g)
    BY <1>10, <2>1
  <2>3. ASSUME NEW x \in Payloads(g, n) PROVE x \in {q[i].body : i \in 2 .. Len(q)}
    <3>1. PICK i \in Len(o) + 2 .. Len(g) : x = g[i].body
      BY <2>2 DEF Payloads
    <3>2. i - Len(o) \in 2 .. Len(q) /\ i - Len(o) \in 1 .. Len(q) /\ i = Len(o) + (i - Len(o))
      BY <1>4
    <3>3. g[i] = q[i - Len(o)]
      BY <1>4, <3>2
    <3>. QED BY <3>1, <3>2, <3>3
  <2>4. ASSUME NEW i \in 2 .. Len(q) PROVE q[i].body \in Payloads(g, n)
    <3>1. Len(o) + i \in Len(o) + 2 .. Len(g) /\ i \in 1 .. Len(q)
      BY <1>4
    <3>2. g[Len(o) + i] = q[i] /\ Len(o) + i \in PayloadsAt(g, n)
      BY <1>4, <2>2, <3>1
    <3>. QED BY <3>2 DEF Payloads
  <2>. QED BY <2>3, <2>4
<1>. QED BY <1>3, <1>6, <1>8, <1>9, <1>12, <1>13 DEF Written3

(* One extension done.                                                     *)
LEMMA ExtApplied ==
  ASSUME NEW f, NEW b, NEW t, NEW d, NEW E, NEW o, AtApplyExts(f, b, t, d, E, o), NEW n \in E,
         NEW q, NEW g, \/ g = o /\ Payloads(t, n) = {}
                       \/ Written3(g, o, q, n) /\ {q[i].body : i \in 2 .. Len(q)} = Payloads(t, n)
  PROVE  AtApplyExts(f, b, t, d, E \ {n}, g)
<1>1. /\ Stream(o) /\ StoreNames(o) \subseteq AllNames(b, t)
      /\ \A m \in AllNames(b, t) : KVs(o, m) = KVs(t, m)
      /\ E \subseteq AllExts(b, t) /\ ExtNames(o) \subseteq AllExts(b, t) \ E
      /\ \A m \in AllExts(b, t) \ E : Payloads(o, m) = Payloads(t, m)
  BY DEF AtApplyExts
<1>2. /\ Stream(g) /\ StoreNames(g) = StoreNames(o) /\ ExtNames(g) \subseteq ExtNames(o) \cup {n}
      /\ \A m : KVs(g, m) = KVs(o, m)
      /\ \A m : m # n => Payloads(g, m) = Payloads(o, m)
      /\ Payloads(g, n) = Payloads(t, n)
  <2>1. CASE g = o /\ Payloads(t, n) = {}
    <3>1. Payloads(o, n) = {}
      BY <1>1, NoPayloads
    <3>. QED BY <1>1, <2>1, <3>1
  <2>2. CASE Written3(g, o, q, n) /\ {q[i].body : i \in 2 .. Len(q)} = Payloads(t, n)
    BY <2>2 DEF Written3
  <2>. QED BY <2>1, <2>2
<1>3. d \in 1 .. Len(f) + 1 /\ (\A x \in Enters(f) : x < d) /\ \A y \in ExtEnters(f) : y >= d
  BY DEF AtApplyExts
<1>4. E \ {n} \subseteq AllExts(b, t) /\ ExtNames(g) \subseteq AllExts(b, t) \ (E \ {n})
  BY <1>1, <1>2
<1>5. \A m \in AllExts(b, t) \ (E \ {n}) : Payloads(g, m) = Payloads(t, m)
  BY <1>1, <1>2
<1>. QED BY <1>1, <1>2, <1>3, <1>4, <1>5 DEF AtApplyExts

(* Payload items with the bodies B.                                        *)
PaysOf(q, B) == /\ IsSeq(q) /\ \A i \in 1 .. Len(q) : q[i].tag = "payload"
                /\ \A x : x \in B <=> \E i \in 1 .. Len(q) : q[i].body = x

LEMMA PaysFrom ==
  ASSUME NEW s, IsSeq(s), NEW I \in SUBSET DOMAIN s, NEW at, at = InOrder(I),
         NEW q, q = [i \in DOMAIN at |-> ExtPayload(s[at[i]].body)], NEW B, B = {s[i].body : i \in I}
  PROVE  PaysOf(q, B)
<1>1. IsFiniteSet(I) /\ I \in SUBSET Nat
  BY FinitePlaces
<1>2. PICK c \in Nat : c = Cardinality(I)
  BY <1>1, InOrderIs
<1>3. /\ DOMAIN at = 1 .. c /\ (\A i \in 1 .. c : at[i] \in I) /\ \A k \in I : \E i \in 1 .. c : at[i] = k
  BY <1>1, <1>2, InOrderIs
<1>4. /\ DOMAIN q = 1 .. c /\ q = [i \in DOMAIN q |-> q[i]]
      /\ \A i \in 1 .. c : q[i] = ExtPayload(s[at[i]].body)
  BY <1>3
<1>5. IsSeq(q) /\ Len(q) = c
  BY <1>4, SeqFrom
<1>6. \A i \in 1 .. c : q[i].tag = "payload" /\ q[i].body = s[at[i]].body
  BY <1>4 DEF ExtPayload
<1>7. ASSUME NEW x PROVE x \in B <=> \E i \in 1 .. c : q[i].body = x
  <2>1. ASSUME x \in B PROVE \E i \in 1 .. c : q[i].body = x
    <3>1. PICK k \in I : x = s[k].body
      BY <2>1
    <3>2. PICK i \in 1 .. c : at[i] = k
      BY <1>3
    <3>. QED BY <1>6, <3>1, <3>2
  <2>2. ASSUME NEW i \in 1 .. c, q[i].body = x PROVE x \in B
    BY <1>3, <1>6, <2>2
  <2>. QED BY <2>1, <2>2
<1>. QED BY <1>5, <1>6, <1>7 DEF PaysOf

LEMMA PaysJoin ==
  ASSUME NEW x, NEW B, PaysOf(x, B), NEW y, NEW C, PaysOf(y, C), NEW p, p = x \o y, NEW D, D = B \cup C
  PROVE  PaysOf(p, D)
<1>1. Grown(p, x, y)
  BY Grows DEF PaysOf
<1>2. /\ IsSeq(p) /\ Len(x) \in Nat /\ Len(y) \in Nat /\ Len(p) = Len(x) + Len(y)
      /\ (\A i \in 1 .. Len(x) : i \in 1 .. Len(p) /\ p[i] = x[i]) /\ \A i \in 1 .. Len(y) : Len(x) + i \in 1 .. Len(p) /\ p[Len(x) + i] = y[i]
  BY <1>1 DEF Grown
<1>3. ASSUME NEW i \in 1 .. Len(p) PROVE (i \in 1 .. Len(x) /\ p[i] = x[i]) \/ \E j \in 1 .. Len(y) : p[i] = y[j]
  <2>1. CASE i \in 1 .. Len(x)
    BY <1>2, <2>1
  <2>2. CASE ~(i \in 1 .. Len(x))
    <3>1. i - Len(x) \in 1 .. Len(y) /\ i = Len(x) + (i - Len(x))
      BY <1>2, <2>2
    <3>. QED BY <1>2, <3>1
  <2>. QED BY <2>1, <2>2
<1>4. \A i \in 1 .. Len(p) : p[i].tag = "payload"
  BY <1>3 DEF PaysOf
<1>5. ASSUME NEW z PROVE z \in D <=> \E i \in 1 .. Len(p) : p[i].body = z
  <2>1. ASSUME z \in B PROVE \E i \in 1 .. Len(p) : p[i].body = z
    BY <1>2, <2>1 DEF PaysOf
  <2>2. ASSUME z \in C PROVE \E i \in 1 .. Len(p) : p[i].body = z
    <3>1. PICK j \in 1 .. Len(y) : y[j].body = z
      BY <2>2 DEF PaysOf
    <3>. QED BY <1>2, <3>1
  <2>3. ASSUME NEW i \in 1 .. Len(p), p[i].body = z PROVE z \in D
    BY <1>3, <2>3 DEF PaysOf
  <2>. QED BY <2>1, <2>2, <2>3
<1>. QED BY <1>2, <1>4, <1>5 DEF PaysOf

PaysAfter(q, B) == {q[i].body : i \in 2 .. Len(q)} = B

LEMMA WithMeta ==
  ASSUME NEW p, NEW B, PaysOf(p, B), NEW n, NEW fmt, NEW q, q = <<ExtMeta(n, fmt)>> \o p
  PROVE  ExtItems(q, n) /\ PaysAfter(q, B)
<1>1. PICK y : y = ExtMeta(n, fmt)
  OBVIOUS
<1>2. y.tag = "ext" /\ y.name = n
  BY <1>1 DEF ExtMeta
<1>3. PICK u : u = <<y>>
  OBVIOUS
<1>4. IsSeq(u) /\ Len(u) = 1 /\ u[1] = y
  BY <1>3, OneElement
<1>5. q = u \o p
  BY <1>1, <1>3
<1>. HIDE <1>3
<1>6. Grown(q, u, p)
  BY <1>4, <1>5, Grows DEF PaysOf
<1>7. /\ IsSeq(q) /\ Len(p) \in Nat /\ Len(q) = 1 + Len(p)
      /\ (\A i \in 1 .. Len(u) : q[i] = u[i]) /\ \A i \in 1 .. Len(p) : q[Len(u) + i] = p[i]
  BY <1>4, <1>6 DEF Grown
<1>8. q[1] = y
  <2>1. 1 \in 1 .. Len(u)
    BY <1>4
  <2>. QED BY <1>4, <1>7, <2>1
<1>9. \A i \in 1 .. Len(p) : 1 + i \in 2 .. Len(q) /\ q[1 + i] = p[i]
  BY <1>4, <1>7
<1>10. ASSUME NEW i \in 2 .. Len(q) PROVE \E j \in 1 .. Len(p) : q[i] = p[j]
  <2>1. i - 1 \in 1 .. Len(p) /\ i = 1 + (i - 1)
    BY <1>7
  <2>. QED BY <1>9, <2>1
<1>11. ExtItems(q, n)
  <2>1. \A i \in 2 .. Len(q) : q[i].tag = "payload"
    BY <1>10 DEF PaysOf
  <2>2. Len(q) >= 1
    BY <1>7
  <2>. QED BY <1>2, <1>7, <1>8, <2>1, <2>2 DEF ExtItems
<1>12. ASSUME NEW x \in B PROVE x \in {q[i].body : i \in 2 .. Len(q)}
  <2>1. PICK j \in 1 .. Len(p) : p[j].body = x
    BY DEF PaysOf
  <2>2. 1 + j \in 2 .. Len(q) /\ q[1 + j] = p[j]
    BY <1>9
  <2>. QED BY <2>1, <2>2
<1>13. ASSUME NEW i \in 2 .. Len(q) PROVE q[i].body \in B
  BY <1>10 DEF PaysOf
<1>. QED BY <1>11, <1>12, <1>13 DEF PaysAfter

(* The records of an extension's section end where SectionEnd finds it.    *)
LEMMA ExtSectionCloses ==
  ASSUME NEW f, IsSeq(f), NEW b, NEW t, FileDone(f, b, t), NEW z \in ExtEnters(f),
         NEW e, FirstOf(e, f, z + 1, From(Ends(f, "ExtLeave"), z + 1))
  PROVE  e \in z + 1 .. Len(f) /\ ExtGiven(Span(f, z + 1, e - 1), Payloads(b, f[z].name), Payloads(t, f[z].name))
<1>1. Len(f) \in Nat /\ DOMAIN f = 1 .. Len(f) /\ z \in 1 .. Len(f)
  BY SeqFacts DEF ExtEnters
<1>2. ExtSecs(f, AllExts(b, t), b, t)
  BY DEF FileDone
<1>3. PICK c \in z + 1 .. Len(f) : f[c].tag = "ExtLeave" /\ ExtGiven(Span(f, z + 1, c - 1), Payloads(b, f[z].name), Payloads(t, f[z].name))
  BY <1>2 DEF ExtSecs, ExtClosed
<1>4. \A j \in z + 1 .. c - 1 : f[j].tag \in {"ExtRemove", "ExtAdd"}
  BY <1>3 DEF ExtGiven, Span
<1>5. e \in z + 1 .. Len(f) + 1 /\ (e <= Len(f) => e \in Ends(f, "ExtLeave")) /\ \A j \in z + 1 .. e - 1 : j \notin From(Ends(f, "ExtLeave"), z + 1)
  BY DEF FirstOf, From
<1>6. e = c
  <2>1. c \in From(Ends(f, "ExtLeave"), z + 1)
    BY <1>1, <1>3 DEF Ends, From
  <2>2. ~(c < e)
    <3>1. c < e => c \in z + 1 .. e - 1
      BY <1>1, <1>5
    <3>. QED BY <1>5, <2>1, <3>1
  <2>3. ~(e < c)
    <3>1. ASSUME e < c PROVE FALSE
      <4>1. e \in z + 1 .. c - 1 /\ e <= Len(f)
        BY <1>1, <1>5, <3>1
      <4>2. f[e].tag \in {"ExtRemove", "ExtAdd"} /\ f[e].tag \in {"ExtLeave", "StoreEnter", "ExtEnter"}
        BY <1>4, <1>5, <4>1 DEF Ends
      <4>. QED BY <4>2
    <3>. QED BY <3>1
  <2>. QED BY <1>1, <1>5, <2>2, <2>3
<1>. QED BY <1>3, <1>6

(* What ApplyExtension reads and writes.                                   *)
GoneOf(f, R)        == {f[i].body : i \in {j \in R : f[j].tag = "ExtRemove"}}
KeptAt(s, n, gone)  == {i \in PayloadsAt(s, n) : s[i].body \notin gone}
AddsAt(f, R)        == {i \in R : f[i].tag = "ExtAdd"}
PaySeq(s, at)       == [i \in DOMAIN at |-> ExtPayload(s[at[i]].body)]
PaysFor(s, f, n, R) == PaySeq(s, InOrder(KeptAt(s, n, GoneOf(f, R)))) \o PaySeq(f, InOrder(AddsAt(f, R)))
SecsOf(n)           == {i \in ExtSections : file[i].name = n}
RecsOf(S)           == IF S = {} THEN {} ELSE Max(S) + 1 .. SectionEnd(Max(S) + 1, "ExtLeave") - 1
FormatFor(S, n)     == IF S # {} THEN file[Max(S)].format ELSE FormatOf(src, n)
WrittenFor(n, fmt, pays) == IF pays = << >> THEN << >> ELSE <<ExtMeta(n, fmt)>> \o pays

LEMMA ExtensionIs ==
  ASSUME ApplyExtension, NEW n, n = Min(todo), NEW S, S = SecsOf(n), NEW R, R = RecsOf(S)
  PROVE  out' = out \o WrittenFor(n, FormatFor(S, n), PaysFor(src, file, n, R)) /\ todo' = todo \ {n}
<1>1. out' = out \o WrittenFor(Min(todo), FormatFor(SecsOf(Min(todo)), Min(todo)), PaysFor(src, file, Min(todo), RecsOf(SecsOf(Min(todo)))))
  BY DEF ApplyExtension, Write, WrittenFor, FormatFor, SecsOf, PaysFor, RecsOf, PaySeq, AddsAt, KeptAt, GoneOf
<1>2. todo' = todo \ {Min(todo)}
  BY DEF ApplyExtension
<1>. QED BY <1>1, <1>2

LEMMA ExtBodies ==
  ASSUME NEW f, NEW p \in Nat, NEW e \in Nat, NEW bs, NEW ts, ExtGiven(Span(f, p, e - 1), bs, ts)
  PROVE  GoneOf(f, p .. e - 1) = bs \ ts /\ {f[i].body : i \in AddsAt(f, p .. e - 1)} = ts \ bs
<1>1. /\ {r.body : r \in {q \in Span(f, p, e - 1) : q.tag = "ExtRemove"}} = bs \ ts
      /\ {r.body : r \in {q \in Span(f, p, e - 1) : q.tag = "ExtAdd"}} = ts \ bs
  BY DEF ExtGiven
<1>2. ASSUME NEW tag
      PROVE  {f[i].body : i \in {j \in p .. e - 1 : f[j].tag = tag}} = {r.body : r \in {q \in Span(f, p, e - 1) : q.tag = tag}}
  <2>1. ASSUME NEW x \in {f[i].body : i \in {j \in p .. e - 1 : f[j].tag = tag}}
        PROVE  x \in {r.body : r \in {q \in Span(f, p, e - 1) : q.tag = tag}}
    <3>1. PICK i \in p .. e - 1 : f[i].tag = tag /\ x = f[i].body
      OBVIOUS
    <3>2. f[i] \in Span(f, p, e - 1)
      BY DEF Span
    <3>. QED BY <3>1, <3>2
  <2>2. ASSUME NEW x \in {r.body : r \in {q \in Span(f, p, e - 1) : q.tag = tag}}
        PROVE  x \in {f[i].body : i \in {j \in p .. e - 1 : f[j].tag = tag}}
    <3>1. PICK r \in Span(f, p, e - 1) : r.tag = tag /\ x = r.body
      OBVIOUS
    <3>2. PICK i \in p .. e - 1 : r = f[i]
      BY DEF Span
    <3>. QED BY <3>1, <3>2
  <2>. QED BY <2>1, <2>2
<1>. QED BY <1>1, <1>2 DEF GoneOf, AddsAt

(* ApplyExtension with its names for what it computes.                     *)
LEMMA ExtensionTurn ==
  ASSUME NEW f, f = file, IsSeq(f), NEW b, b = src, Stream(b), NEW t, NEW d, d = dpos, NEW E, E = todo, NEW o, o = out,
         FileDone(f, b, t), AtApplyExts(f, b, t, d, E, o), \A m \in E : m \in Nat, ApplyExtension
  PROVE  AtApplyExts(f, b, t, d, todo', out')
<1>1. IsSeq(b) /\ Len(f) \in Nat /\ DOMAIN f = 1 .. Len(f)
  BY SeqFacts DEF Stream, Good
<1>2. E # {} /\ E \in SUBSET Nat
  BY DEF ApplyExtension
<1>3. PICK n \in E : n = Min(E)
  BY <1>2, LeastIs
<1>4. /\ d \in 1 .. Len(f) + 1 /\ (\A x \in Enters(f) : x < d) /\ (\A y \in ExtEnters(f) : y >= d) /\ E \subseteq AllExts(b, t)
      /\ Stream(o) /\ n \notin ExtNames(o)
  BY DEF AtApplyExts
<1>5. ExtSections = ExtEnters(f)
  BY <1>4, ExtSectionsAre
<1>6. PICK S : S = SecsOf(n)
  OBVIOUS
<1>60. S = {i \in ExtEnters(f) : f[i].name = n}
  BY <1>5, <1>6 DEF SecsOf
<1>7. PICK z \in ExtEnters(f) : S = {z} /\ f[z].name = n
  <2>1. ExtSecs(f, AllExts(b, t), b, t) /\ n \in AllExts(b, t)
    BY <1>4 DEF FileDone
  <2>2. PICK z \in ExtEnters(f) : f[z].name = n
    BY <2>1 DEF ExtSecs
  <2>3. \A x \in S : x = z
    BY <1>60, <2>1, <2>2 DEF ExtSecs
  <2>. QED BY <1>60, <2>2, <2>3
<1>8. z \in 1 .. Len(f) /\ z \in Nat
  BY <1>1 DEF ExtEnters
<1>9. Max(S) = z
  <2>1. S \in SUBSET Nat /\ S # {} /\ (\A x \in S : x <= Len(f)) /\ \A x \in S : x = z
    BY <1>1, <1>7, <1>8
  <2>2. Max(S) \in S
    BY <1>1, <2>1, GreatestIs
  <2>. QED BY <2>1, <2>2
<1>10. PICK p \in 1 .. Len(f) + 1 : p = z + 1 /\ p \in Nat
  BY <1>1, <1>8
<1>11. PICK e : e = SectionEnd(p, "ExtLeave")
  OBVIOUS
<1>12. PICK bs, ts : bs = Payloads(b, n) /\ ts = Payloads(t, n)
  OBVIOUS
<1>13. e \in Nat /\ e <= Len(f) /\ p <= e /\ ExtGiven(Span(f, p, e - 1), bs, ts)
  <2>1. FirstOf(e, f, p, From(Ends(f, "ExtLeave"), p))
    <3>1. PICK leave : leave = "ExtLeave"
      OBVIOUS
    <3>2. FirstOf(e, f, p, From(Ends(f, leave), p))
      BY <1>11, <3>1, EndFirst
    <3>. QED BY <3>1, <3>2
  <2>2. e \in z + 1 .. Len(f) /\ ExtGiven(Span(f, z + 1, e - 1), Payloads(b, f[z].name), Payloads(t, f[z].name))
    BY <1>10, <2>1, ExtSectionCloses
  <2>. QED BY <1>1, <1>7, <1>8, <1>10, <1>12, <2>2
<1>14. PICK R, gone, I, J : R = p .. e - 1 /\ gone = GoneOf(f, R) /\ I = KeptAt(b, n, gone) /\ J = AddsAt(f, R)
  OBVIOUS
<1>15. gone = bs \ ts /\ {f[i].body : i \in J} = ts \ bs
  <2>1. GoneOf(f, p .. e - 1) = bs \ ts /\ {f[i].body : i \in AddsAt(f, p .. e - 1)} = ts \ bs
    BY <1>10, <1>13, ExtBodies
  <2>. QED BY <1>14, <2>1
<1>16. PICK kept, adds : kept = InOrder(I) /\ adds = InOrder(J)
  OBVIOUS
<1>17. PICK x, y : x = PaySeq(b, kept) /\ y = PaySeq(f, adds)
  OBVIOUS
<1>18. PICK pays, fmt : pays = x \o y /\ fmt = FormatFor(S, n)
  OBVIOUS
<1>19. out' = o \o WrittenFor(n, fmt, pays) /\ todo' = E \ {n}
  <2>1. R = RecsOf(S)
    <3>1. S # {}
      BY <1>7
    <3>. QED BY <1>9, <1>10, <1>11, <1>14, <3>1 DEF RecsOf
  <2>2. PaysFor(b, f, n, R) = pays
    BY <1>14, <1>16, <1>17, <1>18 DEF PaysFor
  <2>3. out' = out \o WrittenFor(n, FormatFor(S, n), PaysFor(src, file, n, R)) /\ todo' = todo \ {n}
    BY <1>3, <1>6, <2>1, ExtensionIs
  <2>. QED BY <1>18, <2>2, <2>3
<1>20. PICK B, C, D : B = {b[i].body : i \in I} /\ C = {f[i].body : i \in J} /\ D = B \cup C
  OBVIOUS
<1>21. D = ts
  <2>1. B = bs \ gone
    <3>1. \A v : v \in bs <=> \E i \in PayloadsAt(b, n) : v = b[i].body
      BY <1>12 DEF Payloads
    <3>2. \A i : i \in I <=> i \in PayloadsAt(b, n) /\ b[i].body \notin gone
      BY <1>14 DEF KeptAt
    <3>. QED BY <1>20, <3>1, <3>2
  <2>. QED BY <1>15, <1>20, <2>1
<1>22. I \in SUBSET DOMAIN b /\ J \in SUBSET DOMAIN f
  <2>1. I \in SUBSET DOMAIN b
    BY <1>14 DEF PayloadsAt, KeptAt
  <2>2. \A i \in p .. e - 1 : i \in 1 .. Len(f)
    BY <1>1, <1>10, <1>13
  <2>. QED BY <1>1, <1>14, <2>1, <2>2 DEF AddsAt
<1>23. PaysOf(x, B)
  <2>1. x = [i \in DOMAIN kept |-> ExtPayload(b[kept[i]].body)]
    BY <1>17 DEF PaySeq
  <2>. QED BY <1>1, <1>16, <1>20, <1>22, <2>1, PaysFrom
<1>24. PaysOf(y, C)
  <2>1. y = [i \in DOMAIN adds |-> ExtPayload(f[adds[i]].body)]
    BY <1>17 DEF PaySeq
  <2>. QED BY <1>16, <1>20, <1>22, <2>1, PaysFrom
<1>25. PaysOf(pays, ts)
  BY <1>18, <1>20, <1>21, <1>23, <1>24, PaysJoin
<1>26. CASE pays = << >>
  <2>1. Len(pays) = 0
    BY <1>26
  <2>2. Payloads(t, n) = {}
    <3>1. 1 .. Len(pays) = {}
      BY <2>1
    <3>2. \A v : v \notin ts
      BY <1>25, <3>1 DEF PaysOf
    <3>. QED BY <1>12, <3>2
  <2>3. IsSeq(o)
    BY <1>4 DEF Stream, Good
  <2>4. out' = o
    <3>1. out' = o \o << >>
      BY <1>19, <1>26 DEF WrittenFor
    <3>. QED BY <2>3, <3>1, Nothing
  <2>5. AtApplyExts(f, b, t, d, E \ {n}, o)
    BY <2>2, ExtApplied
  <2>. QED BY <1>19, <2>4, <2>5
<1>27. CASE pays # << >>
  <2>1. PICK q : q = <<ExtMeta(n, fmt)>> \o pays
    OBVIOUS
  <2>2. ExtItems(q, n) /\ {q[i].body : i \in 2 .. Len(q)} = ts
    <3>1. ExtItems(q, n) /\ PaysAfter(q, ts)
      BY <1>25, <2>1, WithMeta
    <3>. QED BY <3>1 DEF PaysAfter
  <2>3. PICK g : g = o \o q
    OBVIOUS
  <2>4. Written3(g, o, q, n)
    BY <1>4, <2>2, <2>3, ExtWritten
  <2>5. out' = g
    BY <1>19, <1>27, <2>1, <2>3 DEF WrittenFor
  <2>6. AtApplyExts(f, b, t, d, E \ {n}, g)
    BY <1>12, <2>2, <2>4, ExtApplied
  <2>. QED BY <1>19, <2>5, <2>6
<1>. QED BY <1>26, <1>27

LEMMA RoundApplyExtension ==
  ASSUME LeafInv, mode = "leaf", RoundInv, ApplyExtension, UNCHANGED syncVars
  PROVE  RoundInv'
<1>1. /\ Computing /\ pc = "applyexts" /\ pc' = pc /\ mode' = mode
      /\ UNCHANGED <<base, target, file, cut, src, meta, dpos>>
  <2>1. pc = "applyexts" /\ pc' = pc /\ mode' = mode /\ UNCHANGED <<base, target, file, cut, src, meta, dpos>>
    BY DEF ApplyExtension, syncVars
  <2>. QED BY <2>1, Computes
<1>2. ComputeInv'
  BY <1>1, StillComputed DEF Computing, Using, ComputePcs
<1>3. ASSUME cut = "no", src = base PROVE AtApplyExts(file, base, target, dpos, todo', out')
  <2>1. PICK f, b, t, d, E, o : f = file /\ b = src /\ t = target /\ d = dpos /\ E = todo /\ o = out
    OBVIOUS
  <2>2. IsSeq(f) /\ FileDone(f, b, t) /\ AtApplyExts(f, b, t, d, E, o) /\ Stream(b) /\ \A m \in AllExts(b, t) : m \in Nat
    BY <1>1, <1>3, <2>1 DEF Computing, ComputeInv, ApplyInv, Using
  <2>3. \A m \in E : m \in Nat
    BY <2>2 DEF AtApplyExts
  <2>4. AtApplyExts(f, b, t, d, todo', out')
    BY <2>1, <2>2, <2>3, ExtensionTurn
  <2>. QED BY <1>3, <2>1, <2>4
<1>4. ApplyInv'
  <2>1. meta' = {}
    BY <1>1 DEF Computing, ApplyInv
  <2>. QED BY <1>1, <1>3, <2>1 DEF ApplyInv
<1>. QED BY <1>2, <1>4 DEF RoundInv

-----------------------------------------------------------------------------
(* The output is whole.                                                    *)

(* Sequences of pairs with increasing keys; one holds what the other does. *)
Rising(q)    == /\ IsSeq(q) /\ \A i \in 1 .. Len(q) : q[i][1] \in Nat
                /\ \A i, j \in 1 .. Len(q) : i < j => q[i][1] < q[j][1]
Within(q, r) == \A i \in 1 .. Len(q) : \E j \in 1 .. Len(r) : q[i] = r[j]
Agree(q, r)  == \A i \in 1 .. Len(q) : i \in 1 .. Len(r) /\ q[i] = r[i]

(* Rising sequences of the same pairs agree at every place.                *)
LEMMA RisingAgree ==
  ASSUME NEW q, NEW r, Rising(q), Rising(r), Within(q, r), Within(r, q)
  PROVE  Agree(q, r)
<1>. DEFINE S == {i \in 1 .. Len(q) : ~(i \in 1 .. Len(r) /\ q[i] = r[i])}
<1>1. Len(q) \in Nat /\ Len(r) \in Nat
  BY SeqFacts DEF Rising
<1>2. ASSUME S # {} PROVE FALSE
  <2>1. S \in SUBSET Nat
    BY <1>1
  <2>2. \A j \in 1 .. Len(q) : j \notin S => j \in 1 .. Len(r) /\ q[j] = r[j]
    OBVIOUS
  <2>3. \A j \in S : j \in 1 .. Len(q) /\ ~(j \in 1 .. Len(r) /\ q[j] = r[j])
    OBVIOUS
  <2>. HIDE DEF S
  <2>4. PICK i \in S : \A j \in S : i <= j
    BY <1>2, <2>1, LeastOf
  <2>5. i \in 1 .. Len(q) /\ i \in Nat
    BY <1>1, <2>3
  <2>6. \A j \in 1 .. i - 1 : j \in 1 .. Len(q) /\ j \in 1 .. Len(r) /\ q[j] = r[j]
    <3>1. \A j \in 1 .. i - 1 : j \in 1 .. Len(q) /\ j < i
      BY <1>1, <2>5
    <3>. QED BY <1>1, <2>2, <2>4, <2>5, <3>1
  <2>7. PICK k \in 1 .. Len(r) : q[i] = r[k]
    BY <2>5 DEF Within
  <2>8. k >= i
    <3>1. ASSUME k < i PROVE FALSE
      <4>1. k \in 1 .. i - 1
        BY <1>1, <2>5, <3>1
      <4>2. q[k] = q[i] /\ k \in 1 .. Len(q)
        BY <2>6, <2>7, <4>1
      <4>3. q[k][1] < q[i][1] /\ q[i][1] \in Nat /\ q[k][1] = q[i][1]
        BY <2>5, <3>1, <4>2 DEF Rising
      <4>. QED BY <4>3
    <3>. QED BY <1>1, <2>5, <3>1
  <2>9. i \in 1 .. Len(r)
    BY <1>1, <2>5, <2>8
  <2>10. PICK l \in 1 .. Len(q) : r[i] = q[l]
    BY <2>9 DEF Within
  <2>11. l >= i
    <3>1. ASSUME l < i PROVE FALSE
      <4>1. l \in 1 .. i - 1
        BY <1>1, <2>5, <3>1
      <4>2. r[l] = r[i] /\ l \in 1 .. Len(r)
        BY <2>6, <2>10, <4>1
      <4>3. r[l][1] < r[i][1] /\ r[i][1] \in Nat /\ r[l][1] = r[i][1]
        BY <2>9, <3>1, <4>2 DEF Rising
      <4>. QED BY <4>3
    <3>. QED BY <1>1, <2>5, <3>1
  <2>12. k # i
    BY <2>3, <2>7, <2>9
  <2>13. i < k
    BY <1>1, <2>5, <2>8, <2>12
  <2>14. r[i][1] < r[k][1] /\ r[i][1] \in Nat /\ r[k][1] \in Nat
    BY <2>9, <2>13 DEF Rising
  <2>15. l = i \/ q[i][1] < q[l][1]
    BY <1>1, <2>5, <2>11 DEF Rising
  <2>. QED BY <2>7, <2>10, <2>14, <2>15
<1>. QED BY <1>2 DEF Agree

LEMMA RisingSame ==
  ASSUME NEW q, NEW r, Rising(q), Rising(r), Within(q, r), Within(r, q)
  PROVE  q = r
<1>1. Agree(q, r) /\ Agree(r, q)
  BY RisingAgree
<1>2. Len(q) \in Nat /\ Len(r) \in Nat /\ IsSeq(q) /\ IsSeq(r)
  BY SeqFacts DEF Rising
<1>3. Len(q) <= Len(r)
  BY <1>1, <1>2 DEF Agree
<1>4. Len(r) <= Len(q)
  BY <1>1, <1>2 DEF Agree
<1>5. Len(q) = Len(r)
  BY <1>2, <1>3, <1>4
<1>6. \A i \in 1 .. Len(q) : q[i] = r[i]
  BY <1>1 DEF Agree
<1>. QED BY <1>2, <1>5, <1>6, SameSeq

(* The pairs of a store, in the order of their keys.                       *)
LEMMA KeyValuesRise ==
  ASSUME NEW s, Stream(s), NEW n
  PROVE  /\ Rising(KeyValues(s, n))
         /\ \A v : v \in KVs(s, n) <=> \E i \in 1 .. Len(KeyValues(s, n)) : v = KeyValues(s, n)[i]
<1>1. PICK I : I = Leaves(s, n)
  OBVIOUS
<1>2. PICK at : at = InOrder(I)
  OBVIOUS
<1>3. PICK q : q = KeyValues(s, n)
  OBVIOUS
<1>4. q = [i \in DOMAIN at |-> <<s[at[i]].key, s[at[i]].val>>]
  BY <1>1, <1>2, <1>3 DEF KeyValues
<1>5. I \in SUBSET DOMAIN s /\ IsSeq(s)
  BY <1>1, LeafKeys
<1>6. I \in SUBSET Nat /\ IsFiniteSet(I)
  BY <1>5, FinitePlaces
<1>7. /\ Cardinality(I) \in Nat /\ DOMAIN InOrder(I) = 1 .. Cardinality(I)
      /\ \A i \in 1 .. Cardinality(I) : InOrder(I)[i] \in I
      /\ \A i, j \in 1 .. Cardinality(I) : i < j => InOrder(I)[i] < InOrder(I)[j]
      /\ \A k \in I : \E i \in 1 .. Cardinality(I) : InOrder(I)[i] = k
  BY <1>6, InOrderIs
<1>8. PICK m \in Nat : m = Cardinality(I)
  BY <1>7
<1>9. /\ DOMAIN at = 1 .. m /\ (\A i \in 1 .. m : at[i] \in I)
      /\ (\A i, j \in 1 .. m : i < j => at[i] < at[j]) /\ \A k \in I : \E i \in 1 .. m : at[i] = k
  BY <1>2, <1>7, <1>8
<1>10. q = [i \in 1 .. m |-> <<s[at[i]].key, s[at[i]].val>>]
  BY <1>4, <1>9
<1>11. IsSeq(q) /\ Len(q) = m
  BY <1>10, SeqFrom
<1>12. \A i \in 1 .. m : q[i] = <<s[at[i]].key, s[at[i]].val>> /\ q[i][1] = s[at[i]].key
  BY <1>10
<1>13. \A i \in I : s[i].key \in Nat
  BY <1>1, LeafKeys
<1>14. \A i, j \in I : i < j => s[i].key < s[j].key
  BY <1>1, LeafKeys
<1>15. Rising(q)
  BY <1>9, <1>11, <1>12, <1>13, <1>14 DEF Rising
<1>16. ASSUME NEW v PROVE v \in KVs(s, n) <=> \E i \in 1 .. m : v = q[i]
  <2>1. v \in KVs(s, n) <=> \E j \in I : v = <<s[j].key, s[j].val>>
    BY <1>1 DEF KVs, LeafItems
  <2>2. ASSUME NEW j \in I, v = <<s[j].key, s[j].val>> PROVE \E i \in 1 .. m : v = q[i]
    <3>1. PICK i \in 1 .. m : at[i] = j
      BY <1>9
    <3>. QED BY <1>12, <2>2, <3>1
  <2>3. ASSUME NEW i \in 1 .. m, v = q[i] PROVE \E j \in I : v = <<s[j].key, s[j].val>>
    <3>1. PICK j \in I : j = at[i]
      BY <1>9
    <3>. QED BY <1>12, <2>3, <3>1
  <2>. QED BY <2>1, <2>2, <2>3
<1>. QED BY <1>3, <1>11, <1>15, <1>16

LEMMA KVEqual ==
  ASSUME NEW s, NEW t, Stream(s), Stream(t), NEW n, KVs(s, n) = KVs(t, n)
  PROVE  KeyValues(s, n) = KeyValues(t, n)
<1>1. PICK q, r : q = KeyValues(s, n) /\ r = KeyValues(t, n)
  OBVIOUS
<1>2. Rising(q) /\ \A v : v \in KVs(s, n) <=> \E i \in 1 .. Len(q) : v = q[i]
  BY <1>1, KeyValuesRise
<1>3. Rising(r) /\ \A v : v \in KVs(t, n) <=> \E i \in 1 .. Len(r) : v = r[i]
  BY <1>1, KeyValuesRise
<1>4. Within(q, r) /\ Within(r, q)
  BY <1>2, <1>3 DEF Within
<1>5. q = r
  BY <1>2, <1>3, <1>4, RisingSame
<1>. QED BY <1>1, <1>5

(* With every extension written, the output holds what the target does.    *)
LEMMA AllWritten ==
  ASSUME NEW f, NEW b, NEW t, NEW d, NEW o, Stream(t), AtApplyExts(f, b, t, d, {}, o)
  PROVE  SameContents(o, t) /\ Ordered(o)
<1>1. Stream(o) /\ StoreNames(o) \subseteq AllNames(b, t) /\ ExtNames(o) \subseteq AllExts(b, t)
  BY DEF AtApplyExts
<1>2. ASSUME NEW n \in StoreNames(o) \cup StoreNames(t) PROVE KeyValues(o, n) = KeyValues(t, n)
  <2>1. n \in AllNames(b, t)
    BY <1>1 DEF AllNames
  <2>2. KVs(o, n) = KVs(t, n)
    BY <2>1 DEF AtApplyExts
  <2>. QED BY <1>1, <2>2, KVEqual
<1>3. ASSUME NEW n \in ExtNames(o) \cup ExtNames(t) PROVE Payloads(o, n) = Payloads(t, n)
  <2>1. n \in AllExts(b, t) \ {}
    BY <1>1 DEF AllExts
  <2>. QED BY <2>1 DEF AtApplyExts
<1>. QED BY <1>1, <1>2, <1>3 DEF SameContents, Stream

LEMMA RoundWriteMeta ==
  ASSUME LeafInv, mode = "leaf", RoundInv, WriteMeta, UNCHANGED syncVars
  PROVE  RoundInv'
<1>1. /\ Computing /\ pc = "applyexts" /\ todo = {} /\ pc' = "applied" /\ mode' = mode
      /\ UNCHANGED <<base, target, file, cut, src, out>>
  <2>1. /\ pc = "applyexts" /\ todo = {} /\ pc' = "applied" /\ mode' = mode
        /\ UNCHANGED <<base, target, file, cut, src, out>>
    BY DEF WriteMeta, syncVars
  <2>. QED BY <2>1, Computes
<1>2. ComputeInv'
  BY <1>1, StillComputed DEF Computing, Using, ComputePcs
<1>3. ASSUME cut = "no", src = base PROVE SameContents(out, target) /\ Ordered(out)
  <2>1. PICK f, b, t, d, o : f = file /\ b = base /\ t = target /\ d = dpos /\ o = out
    OBVIOUS
  <2>2. Stream(t) /\ AtApplyExts(f, b, t, d, {}, o)
    BY <1>1, <1>3, <2>1 DEF Computing, ApplyInv
  <2>3. SameContents(o, t) /\ Ordered(o)
    BY <2>2, AllWritten
  <2>. QED BY <2>1, <2>3
<1>4. ASSUME cut = "no", src = base PROVE SameContents(out', target') /\ Ordered(out')
  BY <1>1, <1>3, <1>4
<1>5. ApplyInv'
  BY <1>1, <1>4 DEF ApplyInv
<1>. QED BY <1>2, <1>5 DEF RoundInv

LEMMA RoundVerify ==
  ASSUME LeafInv, mode = "leaf", RoundInv, VerifyEquivalent, UNCHANGED syncVars
  PROVE  RoundInv'
<1>1. /\ Computing /\ pc = "applied" /\ pc' = "verified" /\ mode' = mode
      /\ UNCHANGED <<base, target, file, cut, src, out>>
  <2>1. /\ pc = "applied" /\ pc' = "verified" /\ mode' = mode
        /\ UNCHANGED <<base, target, file, cut, src, out>>
    BY DEF VerifyEquivalent, syncVars
  <2>. QED BY <2>1, Computes
<1>2. ComputeInv'
  BY <1>1, StillComputed DEF Computing, Using, ComputePcs
<1>3. ASSUME cut = "no", src = base PROVE SameContents(out', target') /\ Ordered(out')
  BY <1>1, <1>3 DEF Computing, ApplyInv
<1>4. ApplyInv'
  BY <1>1, <1>3 DEF ApplyInv
<1>. QED BY <1>2, <1>4 DEF RoundInv

LEMMA RoundStutter ==
  ASSUME RoundInv, UNCHANGED allVars
  PROVE  RoundInv'
<1>1. UNCHANGED <<base, target, file, cut, pc, brd, trd, brec, trec, name, todo, src, dpos, ch, out, meta, mode>>
  BY DEF allVars, vars, readers, applyVars, syncVars
<1>. SUFFICES ASSUME mode = "leaf" PROVE ComputeInv' /\ ApplyInv'
  BY <1>1 DEF RoundInv
<1>2. ComputeInv /\ ApplyInv
  BY DEF RoundInv
<1>3. ComputeInv'
  BY <1>1, <1>2 DEF ComputeInv
<1>4. ApplyInv'
  BY <1>1, <1>2 DEF ApplyInv
<1>. QED BY <1>3, <1>4

(* Every step keeps the invariant.                                         *)
LEMMA RoundStep == LeafInv /\ RoundInv /\ [Next]_allVars => RoundInv'
<1>. SUFFICES ASSUME LeafInv, RoundInv, [Next]_allVars PROVE RoundInv'
  OBVIOUS
<1>1. CASE UNCHANGED allVars
  BY <1>1, RoundStutter
<1>2. CASE mode # "leaf" /\ Next
  <2>1. mode' = mode
    BY <1>2 DEF Next, Runs, Stops, ComputeStateSync, ApplyStateSync, syncVars, SyncCrash, SyncComputeFails, SyncStopShort,
       IndexBase, IndexItem, CreateFile, EmitOp, CloseOps, RewriteHeader, OpenSyncDiff, IndexByNumber, OpenOutput,
       ReplayOp, ReplayEnd, WriteSyncMeta
  <2>. QED BY <1>2, <2>1 DEF RoundInv
<1>3. CASE mode = "leaf" /\ Next
  <2>1. ~(ComputeStateSync \/ ApplyStateSync \/ SyncCrash \/ SyncComputeFails)
    BY <1>3, SyncIdle DEF LeafInv, LTypes
  <2>2. CASE Compute /\ UNCHANGED syncVars
    BY <1>3, <2>2, RoundEnterStore, RoundDiffStore, RoundLeaveStore, RoundStoresOver, RoundDiffExtension, RoundCloseFile
       DEF Compute
  <2>3. CASE Apply /\ UNCHANGED syncVars
    BY <1>3, <2>3, RoundOpenDiff, RoundWalkStores, RoundApplyStore, RoundStoreApplied, RoundWalkOver, RoundApplyExtension,
       RoundWriteMeta DEF Apply
  <2>4. CASE VerifyEquivalent /\ UNCHANGED syncVars
    BY <1>3, <2>4, RoundVerify
  <2>5. CASE (Crash \/ ComputeFails) /\ UNCHANGED syncVars
    BY <1>3, <2>5, RoundStopShort DEF Crash, ComputeFails
  <2>. QED BY <1>3, <2>1, <2>2, <2>3, <2>4, <2>5 DEF Next, Runs, Stops
<1>. QED BY <1>1, <1>2, <1>3

(* For all ordered snapshots: the diff that Compute finished, applied to   *)
(* its base, gives the target's keys and values store by store, in key     *)
(* order, and the target's payloads (diff.go:110, apply.go:68), although   *)
(* the merge compares encoded records in an order that is not the order of *)
(* the streams.                                                            *)
THEOREM DiffRoundTrip == Spec => []AppliedIsTarget
<1>1. RoundInv => AppliedIsTarget
  BY DEF RoundInv, ApplyInv, AppliedIsTarget, Whole
<1>. QED BY LeafInit, LeafStep, RoundInit, RoundStep, <1>1, PTL DEF Spec
=============================================================================
