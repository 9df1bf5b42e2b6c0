------------------------ MODULE SnapshotServer_proofs ------------------------
(***************************************************************************)
(* Proofs about the snapshot server, for every root, catalogue and number  *)
(* of changes: what a chunk request is answered with belongs to what the   *)
(* catalogue advertises, and a static server serves all it was given.      *)
(***************************************************************************)
EXTENDS SnapshotServer, NaturalsInduction, WellFoundedInduction, TLAPS

(* The part of the types the arguments rest on; a candidate is only there  *)
(* while the directory it was read from is still to be decided on.         *)
DiskOK == root \in [Dirs -> Content] /\ stale \in SUBSET Entries

ScanOK == /\ todo \in SUBSET Dirs
          /\ loaded \in Stores /\ provider \in Stores
          /\ req \in SUBSET Entries
          /\ cand \in [bin : Some, meta : Some]
          /\ scan = "json" => todo # {} /\ cand.bin \in Snaps
          /\ scan = "chunks" => todo # {} /\ cand.bin \in Snaps /\ cand.meta \in Snaps

(* A catalogue entry is true, or its chunks were changed since; with       *)
(* per-chunk hashes its metadata is of the same snapshot.                  *)
Fits(e) == /\ root[e[1]].chunks = e[2] \/ e \in stale
           /\ perChunk => e[2] = e[3]

EntriesFit == \A e \in InUse : Fits(e)

AnswerInv == DiskOK /\ ScanOK /\ EntriesFit /\ AnswerFits

(* scan takes the least of the directories that are left.                  *)
LEMMA FirstIsLeft == ASSUME todo \in SUBSET Dirs, todo # {} PROVE First \in todo
<1>1. ASSUME NEW S \in SUBSET Nat, S # {} PROVE \E d \in S : \A e \in S : d <= e
  <2>1. PICK d \in S : \A e \in S : ~(<<e, d>> \in OpToRel(<, Nat))
    BY <1>1, NatLessThanWellFounded, WFMin
  <2>2. \A e \in S : ~(e < d)
    BY <2>1 DEF OpToRel
  <2>. QED BY <2>2
<1>2. \E d \in todo : \A e \in todo : d <= e
  <2>1. todo \in SUBSET Nat
    BY ServerConstants DEF Dirs
  <2>. QED BY <1>1, <2>1
<1>. QED
  BY <1>2 DEF First

LEMMA DiskInit == Init => DiskOK
<1>1. Empty \in Content
  BY DEF Empty, Content, Some
<1>2. \A s \in Snaps : Complete(s) \in Content
  BY DEF Complete, Content, Some
<1>3. {Empty} \cup {Complete(s) : s \in Snaps} \subseteq Content
  BY <1>1, <1>2
<1>. QED
  BY <1>3 DEF Init, DiskOK

LEMMA UsedEntries == ScanOK => InUse \subseteq Entries
BY DEF ScanOK, InUse, Listed, Stores

(* What a refused directory, and a loaded one, do to the Store in the      *)
(* making.                                                                 *)
LEMMA RefuseStep ==
  ASSUME ScanOK, Refuse
  PROVE  /\ loaded' = loaded /\ todo' \in SUBSET Dirs /\ scan' \notin {"json", "chunks"}
         /\ cand' \in [bin : Some, meta : Some]
BY DEF ScanOK, Refuse, NoCand, Some

LEMMA LoadStep ==
  ASSUME ScanOK, scan = "chunks", Loads(cand)
  PROVE  /\ First \in Dirs /\ First \in todo /\ KeyOf[cand.meta] \in Keys
         /\ <<First, cand.meta, cand.bin>> \in Entries /\ <<First, cand.meta, cand.bin>> # None
         /\ root[First].chunks = cand.meta /\ loaded[KeyOf[cand.meta]] = None
         /\ perChunk => cand.meta = cand.bin
BY FirstIsLeft, ServerConstants DEF ScanOK, Loads, Entries

(* The actions by what they touch.                                         *)
Root == \E d \in Dirs : \/ RefetchChunks(d) \/ FetchDone(d) \/ Remove(d)
                        \/ \E s \in Ours : Place(d, s) \/ Refetch(d, s)
                        \/ \E e \in Dirs : Move(d, e)

(* The verify mode is the operator's and stays.                            *)
LEMMA ModeStays == [Next]_vars => perChunk' = perChunk
BY DEF Next, Scanner, InitialScan, PeriodicScan, TriggeredScan, StartScan, RootUnreadable, ReadMetadata,
       ReadMetaJSON, CheckChunks, ScanStep, Publish, LoopEnds, StartServing, StartFails, Interrupt,
       BeginShutdown, Stopped, RunServeStep, Hup, LoadChunk, ChunkRequest, Handler, RefetchChunks, FetchDone,
       Remove, Place, Refetch, Move, Change, RootStep, vars, runVars, modeVars

(* Whatever happens to the root, the chunks under an entry in use stay or  *)
(* the entry is recorded as stale: a fetch begins in an empty directory    *)
(* only, and an entry that is loaded again has been verified again.        *)
StillThere(e) == root'[e[1]].chunks = e[2] \/ e \in stale'

LEMMA DiskStep ==
  ASSUME DiskOK, ScanOK, [Next]_vars
  PROVE  /\ DiskOK'
         /\ \A e \in InUse : root[e[1]].chunks = e[2] \/ e \in stale => StillThere(e)
<1> DEFINE Goal == /\ DiskOK'
                   /\ \A e \in InUse : root[e[1]].chunks = e[2] \/ e \in stale => StillThere(e)
<1>0. InUse \subseteq Entries /\ \A e \in InUse : e[1] \in Dirs /\ e[2] \in Snaps
  BY UsedEntries DEF Entries
<1> USE ServerConstants DEF DiskOK, StillThere, Content, Some
<1>1. ASSUME NEW d \in Dirs, FetchDone(d) PROVE Goal
  <2>1. root' = [root EXCEPT ![d] = Complete(root[d].bin)] /\ root[d].chunks = root[d].bin /\ stale' = stale
    BY <1>1 DEF FetchDone
  <2>2. Complete(root[d].bin) \in Content /\ Complete(root[d].bin).chunks = root[d].bin
    BY DEF Complete
  <2>. QED BY <1>0, <2>1, <2>2
<1>2. ASSUME NEW d \in Dirs, Remove(d) PROVE Goal
  BY <1>0, <1>2 DEF Remove, Empty, Outdates
<1>3. ASSUME NEW d \in Dirs, NEW s \in Ours, Place(d, s) PROVE Goal
  <2>1. /\ root' = [root EXCEPT ![d] = [Complete(s) EXCEPT !.complete = FALSE, !.meta = NoSnap]]
        /\ root[d] = Empty /\ stale' = stale
    BY <1>3 DEF Place
  <2>2. [Complete(s) EXCEPT !.complete = FALSE, !.meta = NoSnap] \in Content
    BY DEF Complete
  <2>3. Empty.chunks = NoSnap
    BY DEF Empty
  <2>. QED BY <1>0, <2>1, <2>2, <2>3
<1>4. ASSUME NEW d \in Dirs, NEW s \in Ours, Refetch(d, s) PROVE Goal
  BY <1>0, <1>4 DEF Refetch
<1>5. ASSUME NEW d \in Dirs, NEW c \in Dirs, Move(d, c) PROVE Goal
  <2>1. /\ d # c /\ root' = [root EXCEPT ![d] = Empty, ![c] = root[d]]
        /\ stale' = stale \cup {e \in InUse : e[1] = d}
    BY <1>5 DEF Move, Outdates
  <2>2. Empty \in Content /\ Empty.chunks = NoSnap /\ root[c] = Empty
    BY <1>5 DEF Move, Empty
  <2>3. root' \in [Dirs -> Content]
    BY <2>1, <2>2
  <2>4. \A x \in Dirs : x # d /\ x # c => root'[x] = root[x]
    BY <2>1, <2>2
  <2>5. ASSUME NEW e \in InUse, root[e[1]].chunks = e[2] \/ e \in stale PROVE StillThere(e)
    BY <1>0, <2>1, <2>2, <2>4, <2>5
  <2>. QED BY <1>0, <2>1, <2>3, <2>5
<1>6. ASSUME NEW d \in Dirs, RefetchChunks(d) PROVE Goal
  BY <1>0, <1>6 DEF RefetchChunks, Outdates
<1>7. CASE CheckChunks
  <2>1. root' = root
    BY <1>7 DEF CheckChunks, ScanStep
  <2>2. CASE stale' = stale
    BY <2>1, <2>2
  <2>3. CASE scan = "chunks" /\ Loads(cand) /\ stale' = stale \ {<<First, cand.meta, cand.bin>>}
    <3>1. \A e \in InUse : e \in stale \ stale' => root[e[1]].chunks = e[2]
      BY <2>3, LoadStep
    <3>. QED BY <1>0, <2>1, <2>3, <3>1
  <2>. QED
    BY <1>7, <2>2, <2>3 DEF CheckChunks
<1>8. ASSUME UNCHANGED diskVars PROVE Goal
  BY <1>8 DEF diskVars
<1>. QED
  <2>1. Root \/ CheckChunks \/ UNCHANGED diskVars
    BY DEF Next, Root, Scanner, InitialScan, PeriodicScan, TriggeredScan, StartScan, RootUnreadable,
           ReadMetadata, ReadMetaJSON, ScanStep, Publish, LoopEnds, StartServing, StartFails, Interrupt,
           BeginShutdown, Stopped, RunServeStep, Hup, LoadChunk, ChunkRequest, Handler, vars, diskVars
  <2>. QED
    BY <1>1, <1>2, <1>3, <1>4, <1>5, <1>6, <1>7, <1>8, <2>1 DEF Root

LEMMA ScanOKStep == DiskOK /\ ScanOK /\ [Next]_vars => ScanOK'
<1> SUFFICES ASSUME DiskOK, ScanOK, [Next]_vars PROVE ScanOK'
  OBVIOUS
<1> USE ServerConstants DEF ScanOK, Stores, storeVars, reqVars
<1>1. EmptyStore \in Stores
  BY DEF EmptyStore
<1>2. CASE InitialScan \/ PeriodicScan \/ TriggeredScan
  BY <1>1, <1>2 DEF InitialScan, PeriodicScan, TriggeredScan, StartScan, Present
<1>3. CASE ReadMetadata \/ ReadMetaJSON
  <2>1. UNCHANGED <<provider, req>>
    BY <1>3 DEF ReadMetadata, ReadMetaJSON, ScanStep
  <2>2. CASE Refuse
    BY <2>1, <2>2, RefuseStep
  <2>3. CASE /\ root[First].bin # NoSnap /\ cand' = [cand EXCEPT !.bin = root[First].bin]
             /\ scan' = "json" /\ UNCHANGED <<todo, loaded>> /\ todo # {}
    <3>1. First \in Dirs
      BY <2>3, FirstIsLeft
    <3>2. cand' \in [bin : Some, meta : Some] /\ cand'.bin \in Snaps
      BY <2>3, <3>1 DEF DiskOK, Content, Some
    <3>. QED
      BY <2>1, <2>3, <3>2
  <2>4. CASE /\ CountsAgree(root[First].meta) /\ cand' = [cand EXCEPT !.meta = root[First].meta]
             /\ scan = "json" /\ scan' = "chunks" /\ UNCHANGED <<todo, loaded>>
    <3>1. First \in Dirs
      BY <2>4, FirstIsLeft
    <3>2. cand' \in [bin : Some, meta : Some] /\ cand'.bin \in Snaps /\ cand'.meta \in Snaps
      BY <2>4, <3>1 DEF DiskOK, Content, Some, CountsAgree
    <3>. QED
      BY <2>1, <2>4, <3>2
  <2>. QED
    BY <1>3, <2>2, <2>3, <2>4 DEF ReadMetadata, ReadMetaJSON
<1>4. CASE CheckChunks
  <2>1. UNCHANGED <<provider, req>>
    BY <1>4 DEF CheckChunks, ScanStep
  <2>2. CASE Refuse
    BY <2>1, <2>2, RefuseStep
  <2>3. CASE /\ Loads(cand) /\ scan = "chunks"
             /\ loaded' = [loaded EXCEPT ![KeyOf[cand.meta]] = <<First, cand.meta, cand.bin>>]
             /\ todo' = todo \ {First} /\ scan' = "metadata" /\ cand' = NoCand
    BY <2>1, <2>3, LoadStep DEF NoCand, Some
  <2>. QED
    BY <1>4, <2>2, <2>3 DEF CheckChunks
<1>5. CASE Publish
  BY <1>1, <1>5 DEF Publish
<1>6. ASSUME NEW k \in Keys, ChunkRequest(k) PROVE ScanOK'
  BY <1>6 DEF ChunkRequest, Handler, scanVars
<1>7. CASE LoadChunk
  BY <1>7 DEF LoadChunk, Handler, scanVars, NoRequest
<1>8. CASE UNCHANGED <<scanVars, storeVars, reqVars>>
  BY <1>8 DEF scanVars
<1>9. CASE LoopEnds
  BY <1>9 DEF LoopEnds
<1>10. CASE Stopped
  BY <1>1, <1>10 DEF Stopped, NoRequest, NoCand, Some
<1>. QED
  BY <1>2, <1>3, <1>4, <1>5, <1>6, <1>7, <1>8, <1>9, <1>10
  DEF Next, Scanner, RootUnreadable, StartServing, StartFails, Interrupt, BeginShutdown,
      RunServeStep, Hup, RefetchChunks, FetchDone, Remove, Place, Refetch, Move, Change, RootStep, vars

(* An entry gets into the catalogue after its chunks were hashed, goes     *)
(* from there to the reactor and into requests, and the disk only changes  *)
(* under it with a record of it.                                           *)
LEMMA EntriesStep == DiskOK /\ ScanOK /\ EntriesFit /\ [Next]_vars => EntriesFit'
<1> SUFFICES ASSUME DiskOK, ScanOK, EntriesFit, [Next]_vars PROVE EntriesFit'
  OBVIOUS
<1> DEFINE Fits1(e) == StillThere(e) /\ (perChunk => e[2] = e[3])
<1>1. \A e \in InUse : Fits1(e)
  BY DiskStep DEF EntriesFit, Fits
<1>2. /\ \A k \in Keys : loaded[k] # None => Fits1(loaded[k])
      /\ \A k \in Keys : provider[k] # None => Fits1(provider[k])
      /\ \A e \in req : Fits1(e)
  BY <1>1 DEF InUse, Listed
<1>3. \A k \in Keys : loaded'[k] # None => Fits1(loaded'[k])
  <2>1. CASE loaded' = loaded
    BY <1>2, <2>1
  <2>2. CASE loaded' = EmptyStore
    BY <2>2 DEF EmptyStore
  <2>3. CASE /\ Loads(cand) /\ scan = "chunks" /\ CheckChunks
             /\ loaded' = [loaded EXCEPT ![KeyOf[cand.meta]] = <<First, cand.meta, cand.bin>>]
    <3>1. Fits1(<<First, cand.meta, cand.bin>>)
      <4>1. root' = root
        BY <2>3 DEF CheckChunks, ScanStep
      <4>. QED BY <2>3, <4>1, LoadStep DEF StillThere
    <3> HIDE DEF Fits1
    <3>. QED
      BY <1>2, <2>3, <3>1, LoadStep DEF ScanOK, Stores
  <2>. QED
    BY <2>1, <2>2, <2>3, RefuseStep
    DEF Next, Scanner, InitialScan, PeriodicScan, TriggeredScan, StartScan, RootUnreadable, ReadMetadata,
           ReadMetaJSON, CheckChunks, ScanStep, Publish, LoopEnds, StartServing, StartFails, Interrupt,
           BeginShutdown, Stopped, RunServeStep, Hup, LoadChunk, ChunkRequest, Handler, RefetchChunks,
           FetchDone, Remove, Place, Refetch, Move, Change, RootStep, vars, scanVars
<1>4. \A k \in Keys : provider'[k] # None => Fits1(provider'[k])
  <2>1. provider' \in {provider, loaded, EmptyStore}
    BY DEF Next, Scanner, InitialScan, PeriodicScan, TriggeredScan, StartScan, RootUnreadable, ReadMetadata,
           ReadMetaJSON, CheckChunks, ScanStep, Publish, LoopEnds, StartServing, StartFails, Interrupt,
           BeginShutdown, Stopped, RunServeStep, Hup, LoadChunk, ChunkRequest, Handler, RefetchChunks,
           FetchDone, Remove, Place, Refetch, Move, Change, RootStep, vars, storeVars
  <2>. QED
    BY <1>2, <2>1 DEF EmptyStore
<1>5. \A e \in req' : Fits1(e)
  <2>1. req' \in {req, {}} \/ \E k \in Keys : provider[k] # None /\ req' = {provider[k]}
    BY DEF Next, Scanner, InitialScan, PeriodicScan, TriggeredScan, StartScan, RootUnreadable, ReadMetadata,
           ReadMetaJSON, CheckChunks, ScanStep, Publish, LoopEnds, StartServing, StartFails, Interrupt,
           BeginShutdown, Stopped, RunServeStep, Hup, LoadChunk, ChunkRequest, Handler, RefetchChunks,
           FetchDone, Remove, Place, Refetch, Move, Change, RootStep, vars, reqVars, NoRequest
  <2>. QED
    BY <1>2, <2>1
<1>6. \A e \in InUse' : Fits1(e)
  <2> HIDE DEF Fits1
  <2>. QED BY <1>3, <1>4, <1>5 DEF InUse, Listed
<1>. QED BY <1>6, ModeStays DEF EntriesFit, Fits, StillThere

(* Only an answer can be a misfit, and the entry of a request fits.        *)
LEMMA AnswerStep == ScanOK /\ EntriesFit /\ AnswerFits /\ [Next]_vars => AnswerFits'
<1> SUFFICES ASSUME ScanOK, EntriesFit, AnswerFits, [Next]_vars PROVE AnswerFits'
  OBVIOUS
<1>1. CASE LoadChunk
  <2>1. ASSUME NEW e \in req, NEW c, c = root[e[1]].chunks,
               misfits' = IF c \in Snaps /\ {c} # {e[2], e[3]} /\ e \notin stale THEN {e} ELSE {}
        PROVE  \A x \in misfits' : ~perChunk /\ x[2] # x[3]
    <3>1. Fits(e)
      BY DEF EntriesFit, InUse
    <3>. QED BY <2>1, <3>1 DEF Fits
  <2>2. CASE misfits' = misfits
    BY <2>2, ModeStays DEF AnswerFits
  <2>. QED
    BY <1>1, <2>1, <2>2, ModeStays DEF LoadChunk, AnswerFits
<1>2. CASE ~LoadChunk
  <2>1. misfits' \in {misfits, {}}
    BY <1>2
    DEF Next, Scanner, InitialScan, PeriodicScan, TriggeredScan, StartScan, RootUnreadable, ReadMetadata,
           ReadMetaJSON, CheckChunks, ScanStep, Publish, LoopEnds, StartServing, StartFails, Interrupt,
           BeginShutdown, Stopped, RunServeStep, Hup, ChunkRequest, Handler, RefetchChunks,
           FetchDone, Remove, Place, Refetch, Move, Change, RootStep, vars, reqVars
  <2>. QED
    BY <2>1, ModeStays DEF AnswerFits
<1>. QED BY <1>1, <1>2

(* For any number of directories, snapshots, changes and rescans: a chunk  *)
(* that is sent is one of the hash and metadata its request's catalogue    *)
(* advertised, unless the chunks were replaced after they were verified,   *)
(* or, in the default verify mode, the directory had another offer's       *)
(* metadata.bin when it was loaded (store.go LoadChunk, verifyChunks).     *)
THEOREM AnswersFit == Spec => []AnswerFits
<1>1. Init => AnswerInv
  <2> SUFFICES ASSUME Init PROVE AnswerInv
    OBVIOUS
  <2>1. DiskOK
    BY DiskInit
  <2>2. ScanOK /\ EntriesFit /\ AnswerFits
    BY DEF Init, ScanOK, EntriesFit, AnswerFits, EmptyStore, Stores, NoRequest, NoCand, Some, InUse, Listed
  <2>. QED BY <2>1, <2>2 DEF AnswerInv
<1>2. AnswerInv /\ [Next]_vars => AnswerInv'
  BY DiskStep, ScanOKStep, EntriesStep, AnswerStep DEF AnswerInv
<1>3. AnswerInv => AnswerFits
  BY DEF AnswerInv
<1>. QED
  BY <1>1, <1>2, <1>3, PTL DEF Spec

-----------------------------------------------------------------------------
(***************************************************************************)
(* The static server.  Its only scan goes over every directory it was      *)
(* given and stops the program at the first it cannot load, so what is     *)
(* loaded and what is left make up the whole at every step of it.          *)
(***************************************************************************)
Covers(store, dirs) ==
  /\ \A k \in Keys : store[k] # None => store[k][1] \in dirs
  /\ \A d \in dirs : \E k \in Keys : store[k] # None /\ store[k][1] = d

StaticInv ==
  static => /\ phase = "scanning" /\ scan \in {"metadata", "json", "chunks"} => Covers(loaded, Dirs \ todo)
            /\ phase \in {"starting", "serving", "draining"} =>
                 scan \in {"idle", "off"} /\ Covers(provider, Dirs)
            /\ phase = "scanning" => scan # "off"

LEMMA StaticStep == DiskOK /\ ScanOK /\ StaticInv /\ [Next]_vars => StaticInv'
<1> SUFFICES ASSUME DiskOK, ScanOK, StaticInv, [Next]_vars, static' PROVE StaticInv'
  BY DEF StaticInv
<1>1. static
  BY DEF Next, Scanner, InitialScan, PeriodicScan, TriggeredScan, StartScan, RootUnreadable, ReadMetadata,
         ReadMetaJSON, CheckChunks, ScanStep, Publish, LoopEnds, StartServing, StartFails, Interrupt,
         BeginShutdown, Stopped, RunServeStep, Hup, LoadChunk, ChunkRequest, Handler, RefetchChunks,
         FetchDone, Remove, Place, Refetch, Move, Change, RootStep, vars, runVars, modeVars
<1> USE <1>1 DEF StaticInv
<1>2. CASE InitialScan
  <2>1. phase' = phase /\ scan' = "metadata" /\ todo' = Dirs /\ loaded' = EmptyStore /\ phase = "scanning"
    BY <1>2 DEF InitialScan, StartScan, runVars
  <2>2. Covers(EmptyStore, Dirs \ Dirs)
    BY DEF Covers, EmptyStore
  <2>. QED BY <2>1, <2>2 DEF Covers
<1>3. CASE ReadMetadata \/ ReadMetaJSON \/ CheckChunks
  <2>1. CASE Refuse
    BY <1>3, <2>1 DEF Refuse
  <2>2. CASE /\ UNCHANGED <<todo, loaded, phase>> /\ scan \in {"metadata", "json"}
             /\ scan' \in {"json", "chunks"}
    BY <1>3, <2>2 DEF ReadMetadata, ReadMetaJSON, CheckChunks, ScanStep, storeVars, Covers
  <2>3. CASE /\ Loads(cand) /\ scan = "chunks" /\ UNCHANGED phase
             /\ loaded' = [loaded EXCEPT ![KeyOf[cand.meta]] = <<First, cand.meta, cand.bin>>]
             /\ todo' = todo \ {First} /\ scan' = "metadata"
    <3>1. provider' = provider
      BY <1>3 DEF ReadMetadata, ReadMetaJSON, CheckChunks, ScanStep, storeVars
    <3>2. ASSUME phase = "scanning" PROVE Covers(loaded, Dirs \ todo)'
      <4> DEFINE c == KeyOf[cand.meta]
      <4>1. Covers(loaded, Dirs \ todo) /\ c \in Keys /\ loaded[c] = None /\ First \in todo /\ First \in Dirs
        BY <2>3, <3>2, LoadStep
      <4>2. /\ loaded'[c] = <<First, cand.meta, cand.bin>> /\ loaded'[c] # None
            /\ \A k \in Keys \ {c} : loaded'[k] = loaded[k]
        BY <2>3, <4>1, LoadStep DEF ScanOK, Stores
      <4>3. \A k \in Keys : loaded'[k] # None => loaded'[k][1] \in Dirs \ todo'
        BY <2>3, <4>1, <4>2 DEF Covers
      <4>4. ASSUME NEW d \in Dirs \ todo' PROVE \E k \in Keys : loaded'[k] # None /\ loaded'[k][1] = d
        <5>1. CASE d = First
          <6>1. loaded'[c][1] = First
            BY <4>2
          <6>. QED BY <4>1, <4>2, <5>1, <6>1
        <5>2. CASE d # First
          BY <2>3, <4>1, <4>2, <5>2 DEF Covers
        <5>. QED BY <5>1, <5>2
      <4>. QED BY <4>3, <4>4 DEF Covers
    <3>. QED BY <2>3, <3>1, <3>2
  <2>. QED
    BY <1>3, <2>1, <2>2, <2>3 DEF ReadMetadata, ReadMetaJSON, CheckChunks
<1>4. CASE Publish
  <2>1. CASE phase = "scanning"
    <3>1. Covers(loaded, Dirs)
      BY <1>4, <2>1 DEF Publish, Covers
    <3>2. provider' = loaded /\ phase' = "starting" /\ scan' = "idle"
      BY <1>4, <2>1 DEF Publish
    <3>. QED BY <3>1, <3>2 DEF Covers
  <2>2. CASE phase # "scanning"
    BY <1>4, <2>2 DEF Publish
  <2>. QED BY <2>1, <2>2
<1>5. CASE LoopEnds
  BY <1>5 DEF LoopEnds, storeVars, runVars, Covers
<1>9. CASE Stopped
  BY <1>9 DEF Stopped
<1>6. CASE StartServing \/ StartFails \/ Interrupt \/ BeginShutdown
  BY <1>6 DEF StartServing, StartFails, Interrupt, BeginShutdown, RunServeStep, scanVars, storeVars,
              Covers
<1>7. CASE PeriodicScan \/ TriggeredScan \/ RootUnreadable
  BY <1>7 DEF PeriodicScan, TriggeredScan, RootUnreadable, Looping
<1>8. CASE UNCHANGED <<scanVars, storeVars, runVars>>
  BY <1>8 DEF scanVars, storeVars, runVars, Covers
<1>. QED
  BY <1>2, <1>3, <1>4, <1>5, <1>6, <1>7, <1>8, <1>9
  DEF Next, Scanner, Hup, LoadChunk, ChunkRequest, Handler, RefetchChunks, FetchDone, Remove, Place, Refetch,
      Move, Change, RootStep, vars

(* A server started with explicit directories never serves fewer: it       *)
(* serves each of them, or it has stopped, whatever fails while it scans   *)
(* and whatever happens to the directories later (store.go LoadStore).     *)
THEOREM StaticServerServesAll == Spec => []StaticServesAll
<1> DEFINE Inv == DiskOK /\ ScanOK /\ StaticInv
<1>1. Init => Inv
  <2> SUFFICES ASSUME Init PROVE Inv
    OBVIOUS
  <2>1. DiskOK
    BY DiskInit
  <2>2. ScanOK
    BY DEF Init, ScanOK, EmptyStore, Stores, NoRequest, NoCand, Some
  <2>3. StaticInv
    BY DEF Init, StaticInv
  <2>. QED BY <2>1, <2>2, <2>3
<1>2. Inv /\ [Next]_vars => Inv'
  BY DiskStep, ScanOKStep, StaticStep
<1>3. Inv => StaticServesAll
  <2> SUFFICES ASSUME StaticInv, static, phase \in {"starting", "serving", "draining"}
               PROVE  {e[1] : e \in Listed(provider)} = Dirs
    BY DEF StaticServesAll
  <2>. QED
    BY DEF StaticInv, Covers, Listed
<1>. QED
  BY <1>1, <1>2, <1>3, PTL DEF Spec
=============================================================================
