--------------------------- MODULE Durable_proofs ---------------------------
(***************************************************************************)
(* Proofs about what is kept on disk.  The snapshot directory: for any     *)
(* offers, any number of chunks and any number of runs, failures and power *)
(* losses.  Bootstrap and heal: for any heights and any number of failed   *)
(* steps, crashes and commands on one home.                                *)
(***************************************************************************)
EXTENDS SnapshotDir, Bootstrap, TLAPS

(* The snapshot directory.                                                 *)

(* The files of the directory are distinct.                                *)
LEMMA FilesDistinct ==
  /\ Metadata \in Files /\ MetaJSON \in Files /\ Sentinel \in Files
  /\ \A i \in AllChunks : ChunkFile(i) \in Files
  /\ \A i : ChunkFile(i) \notin {Metadata, MetaJSON, Sentinel}
  /\ \A i, j : ChunkFile(i) = ChunkFile(j) => i = j
  /\ Metadata # MetaJSON /\ Metadata # Sentinel /\ MetaJSON # Sentinel
BY DEF Files, ChunkFile, Metadata, MetaJSON, Sentinel

LEMMA ChunkRange ==
  ASSUME NEW o \in Offers
  PROVE  ChunksOf(o) \subseteq AllChunks /\ 0 \in ChunksOf(o)
BY DirConstants DEF AllChunks, ChunksOf

-----------------------------------------------------------------------------
(* What a run has established when it is in a given stage.                 *)
PastMetadata == (Stages \ {"metadata"}) \cup {"done"}
PastDownload == {"verify", "meta.json", "fsync", "sentinel", "fsyncLast", "done"}
PastVerify   == PastDownload \ {"verify"}
PastMetaJSON == {"fsync", "sentinel", "fsyncLast", "done"}
PastSentinel == {"fsyncLast", "done"}

(* A rename that waits for its FsyncDir is the one its stage is about.     *)
TodoInv ==
  todo # None =>
    /\ cur[todo] = offer
    /\ \/ pc = "metadata"  /\ todo = Metadata
       \/ pc = "seed"      /\ todo = ChunkFile(0)
       \/ pc = "download"  /\ \E i \in ChunksOf(offer) : todo = ChunkFile(i)
       \/ pc = "meta.json" /\ todo = MetaJSON
       \/ pc = "sentinel"  /\ todo = Sentinel

StageInv ==
  /\ pc # "idle" => offer \in Offers
  /\ pc \in PastMetadata => cur[Metadata] = offer
  /\ \A i \in completed : cur[ChunkFile(i)] = offer
  /\ pc \in PastDownload => completed = ChunksOf(offer)
  /\ pc \in PastVerify => offer \in Genuine \/ SkipVerifyHash
  /\ pc \in PastMetaJSON => cur[MetaJSON] = offer
  /\ pc \in PastSentinel => cur[Sentinel] = offer
  /\ pc = "done" => \A f \in Files : dur[f] = {cur[f]}

DirInv == TypeOK /\ TodoInv /\ StageInv

LEMMA DirInit == Init => DirInv
<1> SUFFICES ASSUME Init PROVE DirInv
  OBVIOUS
<1>1. mixed \in BOOLEAN
  BY DEF Init
<1>2. TypeOK
  BY <1>1 DEF Init, TypeOK, Stages
<1>3. TodoInv /\ StageInv
  BY DEF Init, TodoInv, StageInv, PastMetadata, PastDownload, PastVerify,
         PastMetaJSON, PastSentinel, Stages
<1>. QED
  BY <1>2, <1>3 DEF DirInv

(* The pure facts about Write, used by every stage that writes a file.     *)
LEMMA WriteFacts ==
  ASSUME DirInv, offer \in Offers, NEW f \in Files, NEW next, Write(f, next)
  PROVE  /\ cur' \in [Files -> Offers \cup {None}]
         /\ dur' \in [Files -> SUBSET (Offers \cup {None})]
         /\ todo' \in {f, None}
         /\ cur'[f] = offer
         /\ \A x \in Files : x # f => cur'[x] = cur[x]
         /\ \/ pc' = pc /\ todo = None /\ todo' = f
            \/ pc' = next /\ todo = f /\ todo' = None
<1>1. ASSUME todo = None, Rename(f), UNCHANGED pc
      PROVE  /\ cur' \in [Files -> Offers \cup {None}]
             /\ dur' \in [Files -> SUBSET (Offers \cup {None})]
             /\ cur'[f] = offer /\ todo' = f
             /\ \A x \in Files : x # f => cur'[x] = cur[x]
  BY <1>1 DEF Rename, DirInv, TypeOK
<1>2. ASSUME todo = f, FsyncDir, todo' = None, UNCHANGED cur
      PROVE  /\ dur' \in [Files -> SUBSET (Offers \cup {None})]
             /\ cur'[f] = offer
  BY <1>2, NoneIsNoFile DEF FsyncDir, DirInv, TypeOK, TodoInv
<1>. QED
  BY <1>1, <1>2 DEF Write, DirInv, TypeOK

LEMMA DirPrepare ==
  ASSUME DirInv, PrepareMetadata
  PROVE  DirInv'
<1> USE DEF Stages, PastMetadata, PastDownload, PastVerify, PastMetaJSON,
            PastSentinel
<1>1. offer \in Offers /\ offer' = offer /\ Metadata \in Files
  BY FilesDistinct DEF PrepareMetadata, DirInv, StageInv
<1>2. CASE /\ cur[Metadata] = offer /\ todo = None /\ pc' = "seed"
           /\ UNCHANGED <<cur, dur, todo>>
  BY <1>1, <1>2 DEF PrepareMetadata, DirInv, TypeOK, TodoInv, StageInv
<1>3. CASE Write(Metadata, "seed")
  <2>1. TypeOK'
    BY <1>1, <1>3, WriteFacts DEF PrepareMetadata, DirInv, TypeOK
  <2>2. TodoInv'
    BY <1>1, <1>3, WriteFacts DEF PrepareMetadata, DirInv, TodoInv
  <2>3. \A i \in completed' : cur'[ChunkFile(i)] = offer
    BY <1>1, <1>3, WriteFacts, FilesDistinct
    DEF PrepareMetadata, DirInv, StageInv, TypeOK
  <2>4. StageInv'
    BY <1>1, <1>3, <2>3, WriteFacts DEF PrepareMetadata, DirInv, StageInv
  <2>. QED
    BY <2>1, <2>2, <2>4 DEF DirInv
<1>. QED
  BY <1>2, <1>3 DEF PrepareMetadata

LEMMA DirSeed ==
  ASSUME DirInv, SeedChunk0
  PROVE  DirInv'
<1> USE DEF Stages, PastMetadata, PastDownload, PastVerify, PastMetaJSON,
            PastSentinel
<1>1. offer \in Offers /\ offer' = offer /\ ChunkFile(0) \in Files
  BY FilesDistinct, ChunkRange DEF SeedChunk0, DirInv, StageInv
<1>2. CASE pc' = "resume" /\ todo' = None /\ UNCHANGED <<cur, dur>>
  BY <1>1, <1>2 DEF SeedChunk0, DirInv, TypeOK, TodoInv, StageInv
<1>3. CASE Write(ChunkFile(0), "resume")
  <2>1. TypeOK'
    BY <1>1, <1>3, WriteFacts DEF SeedChunk0, DirInv, TypeOK
  <2>2. TodoInv'
    BY <1>1, <1>3, WriteFacts DEF SeedChunk0, DirInv, TodoInv
  <2>3. \A i \in completed' : cur'[ChunkFile(i)] = offer
    BY <1>1, <1>3, WriteFacts, FilesDistinct
    DEF SeedChunk0, DirInv, StageInv, TypeOK
  <2>4. cur'[Metadata] = offer
    BY <1>1, <1>3, WriteFacts, FilesDistinct DEF SeedChunk0, DirInv, StageInv
  <2>5. StageInv'
    BY <1>1, <1>3, <2>3, <2>4, WriteFacts DEF SeedChunk0, DirInv, StageInv
  <2>. QED
    BY <2>1, <2>2, <2>5 DEF DirInv
<1>. QED
  BY <1>2, <1>3 DEF SeedChunk0

LEMMA DirResume ==
  ASSUME DirInv, NEW unreadable \in SUBSET AllChunks, ResumeFromDisk(unreadable)
  PROVE  DirInv'
<1> USE DEF Stages, PastMetadata, PastDownload, PastVerify, PastMetaJSON,
            PastSentinel
<1>1. offer \in Offers /\ offer' = offer /\ pc = "resume" /\ pc' = "download"
  BY DEF ResumeFromDisk, DirInv, StageInv
<1>2. PICK gone \in SUBSET Stale(unreadable) : Unlink(gone)
  BY DEF ResumeFromDisk
<1>3. /\ cur' \in [Files -> Offers \cup {None}]
      /\ dur' \in [Files -> SUBSET (Offers \cup {None})]
  BY <1>2 DEF Unlink, DirInv, TypeOK
<1>4. completed' \in SUBSET AllChunks
  BY <1>1, ChunkRange DEF ResumeFromDisk
<1>5. \A i \in completed' : i \notin gone
  BY <1>2, DirConstants DEF ResumeFromDisk, Stale
<1>6. \A i \in completed' : cur'[ChunkFile(i)] = offer
  BY <1>2, <1>4, <1>5, FilesDistinct DEF ResumeFromDisk, Unlink
<1>7. cur'[Metadata] = offer
  BY <1>1, <1>2, FilesDistinct DEF Unlink, DirInv, StageInv
<1>8. todo = None /\ todo' = None
  BY <1>1 DEF ResumeFromDisk, DirInv, TodoInv
<1>. QED
  BY <1>1, <1>3, <1>4, <1>6, <1>7, <1>8
  DEF ResumeFromDisk, DirInv, TypeOK, TodoInv, StageInv

LEMMA DirStore ==
  ASSUME DirInv, NEW i \in AllChunks, StoreChunk(i)
  PROVE  DirInv'
<1> USE DEF Stages, PastMetadata, PastDownload, PastVerify, PastMetaJSON,
            PastSentinel
<1>1. offer \in Offers /\ offer' = offer /\ pc = "download" /\ ChunkFile(i) \in Files
  BY FilesDistinct DEF StoreChunk, DirInv, StageInv
<1>2. CASE todo = ChunkFile(i) /\ todo' = None /\ UNCHANGED <<pc, cur, dur, completed>>
  BY <1>1, <1>2 DEF StoreChunk, DirInv, TypeOK, TodoInv, StageInv
<1>3. CASE Write(ChunkFile(i), "download")
             /\ completed' = completed \cup (IF todo = None THEN {} ELSE {i})
  <2>1. TypeOK'
    BY <1>1, <1>3, WriteFacts DEF StoreChunk, DirInv, TypeOK
  <2>2. TodoInv'
    BY <1>1, <1>3, WriteFacts DEF StoreChunk, DirInv, TodoInv
  <2>3. \A j \in completed' : cur'[ChunkFile(j)] = offer
    BY <1>1, <1>3, WriteFacts, FilesDistinct DEF DirInv, StageInv, TypeOK
  <2>4. cur'[Metadata] = offer
    BY <1>1, <1>3, WriteFacts, FilesDistinct DEF DirInv, StageInv
  <2>5. StageInv'
    BY <1>1, <1>3, <2>3, <2>4, WriteFacts DEF StoreChunk, DirInv, StageInv
  <2>. QED
    BY <2>1, <2>2, <2>5 DEF DirInv
<1>. QED
  BY <1>2, <1>3 DEF StoreChunk

LEMMA DirWriteMeta ==
  ASSUME DirInv, WriteMeta
  PROVE  DirInv'
<1> USE DEF Stages, PastMetadata, PastDownload, PastVerify, PastMetaJSON,
            PastSentinel
<1>1. offer \in Offers /\ UNCHANGED <<offer, first, mixed, completed, runs>>
  BY DEF WriteMeta, DirInv, StageInv
<1>2. CASE pc = "meta.json" /\ Write(MetaJSON, "fsync")
  <2>1. TypeOK' /\ TodoInv'
    BY <1>1, <1>2, WriteFacts, FilesDistinct DEF DirInv, TypeOK, TodoInv
  <2>2. \A i \in completed' : cur'[ChunkFile(i)] = offer
    BY <1>1, <1>2, WriteFacts, FilesDistinct DEF DirInv, StageInv, TypeOK
  <2>3. cur'[Metadata] = offer /\ cur'[MetaJSON] = offer
    BY <1>1, <1>2, WriteFacts, FilesDistinct DEF DirInv, StageInv
  <2>4. StageInv'
    BY <1>1, <1>2, <2>2, <2>3, WriteFacts, FilesDistinct DEF DirInv, StageInv
  <2>. QED
    BY <2>1, <2>4 DEF DirInv
<1>3. CASE pc = "sentinel" /\ Write(Sentinel, "fsyncLast")
  <2>1. TypeOK' /\ TodoInv'
    BY <1>1, <1>3, WriteFacts, FilesDistinct DEF DirInv, TypeOK, TodoInv
  <2>2. \A i \in completed' : cur'[ChunkFile(i)] = offer
    BY <1>1, <1>3, WriteFacts, FilesDistinct DEF DirInv, StageInv, TypeOK
  <2>3. cur'[Metadata] = offer /\ cur'[MetaJSON] = offer /\ cur'[Sentinel] = offer
    BY <1>1, <1>3, WriteFacts, FilesDistinct DEF DirInv, StageInv
  <2>4. StageInv'
    BY <1>1, <1>3, <2>2, <2>3, WriteFacts, FilesDistinct DEF DirInv, StageInv
  <2>. QED
    BY <2>1, <2>4 DEF DirInv
<1>4. ASSUME FsyncDir
      PROVE  /\ \A f \in Files : dur'[f] = {cur[f]}
             /\ dur' \in [Files -> SUBSET (Offers \cup {None})]
  BY <1>4 DEF FsyncDir, DirInv, TypeOK
<1>5. CASE pc = "fsync" /\ FsyncDir /\ pc' = "sentinel" /\ UNCHANGED <<cur, todo>>
  BY <1>1, <1>4, <1>5 DEF DirInv, TypeOK, TodoInv, StageInv
<1>6. CASE pc = "fsyncLast" /\ FsyncDir /\ pc' = "done" /\ UNCHANGED <<cur, todo>>
  BY <1>1, <1>4, <1>6 DEF DirInv, TypeOK, TodoInv, StageInv
<1>. QED
  BY <1>2, <1>3, <1>5, <1>6 DEF WriteMeta

LEMMA DirRest ==
  ASSUME DirInv
  PROVE  /\ \A o \in Offers : StartRun(o) => DirInv'
         /\ DownloadDone \/ VerifyHash => DirInv'
         /\ RunEnds \/ PowerLoss => DirInv'
         /\ UNCHANGED vars => DirInv'
<1> USE DEF Stages, PastMetadata, PastDownload, PastVerify, PastMetaJSON,
            PastSentinel
<1>1. ASSUME NEW o \in Offers, StartRun(o) PROVE DirInv'
  BY <1>1 DEF StartRun, DirInv, TypeOK, TodoInv, StageInv
<1>2. ASSUME DownloadDone \/ VerifyHash PROVE DirInv'
  BY <1>2 DEF DownloadDone, VerifyHash, HashAgrees, DirInv, TypeOK, TodoInv, StageInv
<1>3. ASSUME RunEnds PROVE DirInv'
  BY <1>3 DEF RunEnds, DirInv, TypeOK, TodoInv, StageInv
<1>4. ASSUME PowerLoss PROVE DirInv'
  <2>1. cur' \in [Files -> Offers \cup {None}]
    BY <1>4 DEF PowerLoss
  <2>2. dur' \in [Files -> SUBSET (Offers \cup {None})]
    BY <1>4, <2>1 DEF PowerLoss
  <2>. QED
    BY <1>4, <2>1, <2>2 DEF PowerLoss, DirInv, TypeOK, TodoInv, StageInv
<1>5. ASSUME UNCHANGED vars PROVE DirInv'
  BY <1>5 DEF vars, DirInv, TypeOK, TodoInv, StageInv
<1>. QED
  BY <1>1, <1>2, <1>3, <1>4, <1>5

LEMMA DirStep == DirInv /\ [Next]_vars => DirInv'
BY DirPrepare, DirSeed, DirResume, DirStore, DirWriteMeta, DirRest DEF Next

(* A fetch that reports success leaves a directory complete for its offer, *)
(* with the sentinel, and a power loss afterwards takes nothing of it      *)
(* away, whatever runs, offers, failures and losses came before.           *)
THEOREM SuccessIsDurable == Spec => [](TypeOK /\ DoneIsDurable)
<1>1. Init => DirInv
  BY DirInit
<1>2. DirInv /\ [Next]_vars => DirInv'
  BY DirStep
<1>3. DirInv => TypeOK /\ DoneIsDurable
  <2> SUFFICES ASSUME DirInv, pc = "done" PROVE DoneIsDurable
    BY DEF DirInv, DoneIsDurable
  <2>1. offer \in Offers /\ offer # None
    BY DirConstants DEF DirInv, StageInv
  <2>. QED
    BY <2>1 DEF DirInv, StageInv, DoneIsDurable, CompleteFor, PastMetadata,
                PastDownload, PastVerify, PastMetaJSON, PastSentinel, Stages
<1>. QED
  BY <1>1, <1>2, <1>3, PTL DEF Spec

-----------------------------------------------------------------------------
(***************************************************************************)
(* The sentinel, when every run of this height finds the same offer.  It   *)
(* must be shown that whenever .complete could be there after a power loss *)
(* all it stands for is durable: cur alone is not inductive.               *)
(***************************************************************************)
Needed(o) == {ChunkFile(i) : i \in ChunksOf(o)} \cup {Metadata, MetaJSON}

OneOffer ==
  /\ \A f \in Files : cur[f] \in dur[f] /\ dur[f] \subseteq {None, first}
  /\ first \in Offers \/ (pc = "idle" /\ first = None)
  /\ pc # "idle" => offer = first

SentinelInv ==
  /\ pc = "sentinel" /\ todo = None => \A f \in Files : dur[f] = {cur[f]}
  /\ dur[Sentinel] # {None} =>
       /\ first \in Genuine \/ SkipVerifyHash
       /\ \A f \in Needed(first) : dur[f] = {first}

OneInv == DirInv /\ OneOffer /\ SentinelInv

LEMMA NeededFiles ==
  ASSUME NEW o \in Offers
  PROVE  Needed(o) \subseteq Files /\ Sentinel \notin Needed(o)
BY FilesDistinct, ChunkRange DEF Needed

(* Rename and FsyncDir of a needed or unneeded file keep what the sentinel *)
(* stands for.                                                             *)
LEMMA WriteKeepsSentinel ==
  ASSUME OneInv, pc # "idle", NEW f \in Files, f # Sentinel, NEW next,
         Write(f, next), first' = first, offer' = offer,
         pc' # "sentinel", pc' # "idle"
  PROVE  OneOffer' /\ SentinelInv'
<1>1. offer = first /\ first \in Offers
  BY DEF OneInv, OneOffer, DirInv, StageInv
<1>2. CASE todo = None /\ Rename(f) /\ UNCHANGED pc
  <2>1. OneOffer'
    BY <1>1, <1>2 DEF OneInv, OneOffer, Rename, DirInv, TypeOK
  <2>2. dur'[Sentinel] = dur[Sentinel]
    BY <1>2, FilesDistinct DEF Rename, OneInv, DirInv, TypeOK
  <2>3. \A x \in Needed(first) : dur[x] = {first} => dur'[x] = {first}
    BY <1>1, <1>2, NeededFiles DEF Rename, OneInv, DirInv, TypeOK
  <2>. QED
    BY <1>2, <2>1, <2>2, <2>3 DEF OneInv, SentinelInv
<1>3. CASE FsyncDir /\ todo' = None /\ UNCHANGED cur
  <2>1. \A x \in Files : dur'[x] = {cur[x]} /\ cur'[x] = cur[x]
    BY <1>3 DEF FsyncDir
  <2>2. OneOffer'
    BY <1>1, <2>1 DEF OneInv, OneOffer
  <2>3. dur'[Sentinel] # {None} => dur[Sentinel] # {None}
    BY <2>1, FilesDistinct DEF OneInv, OneOffer
  <2>4. \A x \in Needed(first) : dur[x] = {first} => dur'[x] = {first}
    BY <1>1, <2>1, NeededFiles DEF OneInv, OneOffer
  <2>. QED
    BY <2>2, <2>3, <2>4 DEF OneInv, SentinelInv
<1>. QED
  BY <1>2, <1>3 DEF Write

LEMMA OneStep ==
  ASSUME OneInv, ~mixed', [Next]_vars
  PROVE  OneOffer' /\ SentinelInv'
<1>1. ASSUME NEW o \in Offers, StartRun(o) PROVE OneOffer' /\ SentinelInv'
  <2>1. o = first \/ (first = None /\ \A f \in Files : dur[f] = {None})
    BY <1>1 DEF StartRun, OneInv, OneOffer
  <2>2. first' = o /\ offer' = o /\ pc' = "metadata" /\ cur' = cur /\ dur' = dur
    BY <1>1, DirConstants DEF StartRun
  <2>3. OneOffer'
    BY <2>1, <2>2 DEF OneInv, OneOffer
  <2>4. SentinelInv'
    BY <2>1, <2>2, FilesDistinct DEF OneInv, SentinelInv
  <2>. QED
    BY <2>3, <2>4
<1>2. ASSUME PrepareMetadata PROVE OneOffer' /\ SentinelInv'
  <2>1. CASE Write(Metadata, "seed")
    BY <1>2, <2>1, WriteKeepsSentinel, FilesDistinct
    DEF PrepareMetadata, Write
  <2>2. CASE pc' = "seed" /\ UNCHANGED <<cur, dur, todo>>
    BY <1>2, <2>2 DEF PrepareMetadata, OneInv, OneOffer, SentinelInv
  <2>. QED
    BY <1>2, <2>1, <2>2 DEF PrepareMetadata
<1>3. ASSUME SeedChunk0 PROVE OneOffer' /\ SentinelInv'
  <2>1. ChunkFile(0) \in Files /\ ChunkFile(0) # Sentinel
    BY <1>3, ChunkRange, FilesDistinct DEF SeedChunk0, OneInv, DirInv, StageInv
  <2>2. CASE Write(ChunkFile(0), "resume")
    BY <1>3, <2>1, <2>2, WriteKeepsSentinel DEF SeedChunk0, Write
  <2>3. CASE pc' = "resume" /\ UNCHANGED <<cur, dur>>
    BY <1>3, <2>3 DEF SeedChunk0, OneInv, OneOffer, SentinelInv
  <2>. QED
    BY <1>3, <2>2, <2>3 DEF SeedChunk0
<1>4. ASSUME NEW unreadable \in SUBSET AllChunks, ResumeFromDisk(unreadable)
      PROVE  OneOffer' /\ SentinelInv'
  <2>1. PICK gone \in SUBSET Stale(unreadable) : Unlink(gone)
    BY <1>4 DEF ResumeFromDisk
  <2>2. offer = first /\ first \in Offers /\ first' = first /\ offer' = offer
        /\ pc' = "download"
    BY <1>4 DEF ResumeFromDisk, OneInv, OneOffer
  <2>3. OneOffer'
    BY <2>1, <2>2 DEF Unlink, OneInv, OneOffer, DirInv, TypeOK
  <2>4. dur'[Sentinel] = dur[Sentinel]
    BY <2>1, FilesDistinct DEF Unlink
  <2>5. ASSUME NEW x \in Needed(first), dur[x] = {first}
        PROVE  dur'[x] = {first}
    <3>1. x \in Files /\ cur[x] = first
      BY <2>2, <2>5, NeededFiles DEF OneInv, OneOffer
    <3>2. x \notin {ChunkFile(i) : i \in gone}
      <4>1. ASSUME NEW i \in gone, x = ChunkFile(i) PROVE FALSE
        <5>1. i \in ChunksOf(first)
          BY <2>5, <4>1, FilesDistinct DEF Needed
        <5>. QED
          BY <2>1, <2>2, <3>1, <4>1, <5>1 DEF Stale
      <4>. QED
        BY <4>1
    <3>. QED
      BY <2>1, <2>5, <3>1, <3>2 DEF Unlink
  <2>. QED
    BY <2>2, <2>3, <2>4, <2>5 DEF OneInv, SentinelInv
<1>5. ASSUME NEW i \in AllChunks, StoreChunk(i) PROVE OneOffer' /\ SentinelInv'
  <2>1. ChunkFile(i) \in Files /\ ChunkFile(i) # Sentinel
    BY FilesDistinct
  <2>2. CASE Write(ChunkFile(i), "download")
    BY <1>5, <2>1, <2>2, WriteKeepsSentinel DEF StoreChunk, Write
  <2>3. CASE UNCHANGED <<pc, cur, dur, completed>>
    BY <1>5, <2>3 DEF StoreChunk, OneInv, OneOffer, SentinelInv
  <2>. QED
    BY <1>5, <2>2, <2>3 DEF StoreChunk
<1>6. ASSUME DownloadDone \/ VerifyHash \/ RunEnds PROVE OneOffer' /\ SentinelInv'
  BY <1>6 DEF DownloadDone, VerifyHash, RunEnds, OneInv, OneOffer, SentinelInv,
              Stages
<1>7. ASSUME WriteMeta PROVE OneOffer' /\ SentinelInv'
  <2>1. /\ UNCHANGED <<offer, first>> /\ offer = first /\ first \in Offers
        /\ pc # "idle"
    BY <1>7 DEF WriteMeta, OneInv, OneOffer
  <2>2. CASE pc = "meta.json" /\ Write(MetaJSON, "fsync")
    BY <2>1, <2>2, WriteKeepsSentinel, FilesDistinct DEF Write
  <2>3. ASSUME FsyncDir, UNCHANGED <<cur, todo>>, pc' \in {"sentinel", "done"}
        PROVE  OneOffer' /\ SentinelInv'
    <3>1. \A x \in Files : dur'[x] = {cur[x]} /\ cur'[x] = cur[x]
      BY <2>3 DEF FsyncDir
    <3>2. OneOffer'
      BY <2>1, <2>3, <3>1 DEF OneInv, OneOffer
    <3>3. dur'[Sentinel] # {None} => dur[Sentinel] # {None}
      BY <3>1, FilesDistinct DEF OneInv, OneOffer
    <3>4. \A x \in Needed(first) : dur[x] = {first} => dur'[x] = {first}
      BY <2>1, <3>1, NeededFiles DEF OneInv, OneOffer
    <3>. QED
      BY <2>1, <3>1, <3>2, <3>3, <3>4 DEF OneInv, SentinelInv
  <2>4. CASE pc = "sentinel" /\ todo = None /\ Rename(Sentinel) /\ UNCHANGED pc
    <3>1. \A x \in Needed(first) : cur[x] = first
      BY <2>1, <2>4 DEF Needed, OneInv, DirInv, StageInv, PastDownload,
                        PastMetadata, PastMetaJSON, Stages
    <3>2. \A x \in Needed(first) : dur'[x] = {first}
      BY <2>1, <2>4, <3>1, NeededFiles
      DEF Rename, OneInv, SentinelInv, DirInv, TypeOK
    <3>3. first \in Genuine \/ SkipVerifyHash
      BY <2>1, <2>4 DEF OneInv, DirInv, StageInv, PastVerify, PastDownload
    <3>4. OneOffer'
      BY <2>1, <2>4 DEF Rename, OneInv, OneOffer, DirInv, TypeOK
    <3>5. todo' # None
      BY <2>4, NoneIsNoFile, FilesDistinct DEF Rename
    <3>. QED
      BY <2>1, <3>2, <3>3, <3>4, <3>5 DEF SentinelInv
  <2>5. CASE FsyncDir /\ UNCHANGED cur /\ pc' = "fsyncLast"
    <3>1. \A x \in Files : dur'[x] = {cur[x]} /\ cur'[x] = cur[x]
      BY <2>5 DEF FsyncDir
    <3>2. OneOffer'
      BY <2>1, <2>5, <3>1 DEF OneInv, OneOffer
    <3>3. dur'[Sentinel] # {None} => dur[Sentinel] # {None}
      BY <3>1, FilesDistinct DEF OneInv, OneOffer
    <3>4. \A x \in Needed(first) : dur[x] = {first} => dur'[x] = {first}
      BY <2>1, <3>1, NeededFiles DEF OneInv, OneOffer
    <3>. QED
      BY <2>1, <2>5, <3>2, <3>3, <3>4 DEF OneInv, SentinelInv
  <2>. QED
    BY <1>7, <2>2, <2>3, <2>4, <2>5 DEF WriteMeta, Write
<1>8. ASSUME PowerLoss PROVE OneOffer' /\ SentinelInv'
  <2>1. \A x \in Files : cur'[x] \in dur[x] /\ dur'[x] = {cur'[x]}
    BY <1>8 DEF PowerLoss
  <2>2. OneOffer'
    BY <1>8, <2>1 DEF PowerLoss, OneInv, OneOffer, DirInv, TypeOK
  <2>3. dur'[Sentinel] # {None} => dur[Sentinel] # {None}
    BY <2>1, FilesDistinct
  <2>4. first \in Offers =>
          \A x \in Needed(first) : dur[x] = {first} => dur'[x] = {first}
    BY <2>1, NeededFiles
  <2>5. first = None => dur'[Sentinel] = {None}
    BY <2>1, FilesDistinct DEF OneInv, OneOffer
  <2>. QED
    BY <1>8, <2>2, <2>3, <2>4, <2>5 DEF PowerLoss, OneInv, OneOffer, SentinelInv
<1>9. ASSUME UNCHANGED vars PROVE OneOffer' /\ SentinelInv'
  BY <1>9 DEF vars, OneInv, OneOffer, SentinelInv
<1>. QED
  BY <1>1, <1>2, <1>3, <1>4, <1>5, <1>6, <1>7, <1>8, <1>9 DEF Next

(* No step takes back that the runs have found different offers.           *)
LEMMA MixedStays ==
  ASSUME DirInv, [Next]_vars, mixed
  PROVE  mixed'
BY DEF Next, vars, StartRun, PrepareMetadata, SeedChunk0, ResumeFromDisk,
       StoreChunk, DownloadDone, VerifyHash, WriteMeta, RunEnds, PowerLoss

(* As long as every run of a height finds the same offer, .complete stands *)
(* for a complete directory through failures, kills and power losses: what *)
(* the importer and the server rely on.                                    *)
THEOREM SentinelSound == Spec => []SentinelSoundOneOffer
<1> DEFINE Inv == DirInv /\ (~mixed => OneOffer /\ SentinelInv)
<1>1. Init => Inv
  BY DirInit, FilesDistinct DEF Init, OneOffer, SentinelInv
<1>2. Inv /\ [Next]_vars => Inv'
  <2> SUFFICES ASSUME Inv, [Next]_vars PROVE Inv'
    OBVIOUS
  <2>1. DirInv'
    BY DirStep
  <2>2. ASSUME ~mixed' PROVE OneOffer' /\ SentinelInv'
    <3>1. ~mixed
      BY <2>2, MixedStays
    <3>. QED
      BY <2>2, <3>1, OneStep DEF OneInv
  <2>. QED
    BY <2>1, <2>2
<1>3. Inv => SentinelSoundOneOffer
  <2> SUFFICES ASSUME OneInv, cur[Sentinel] # None
               PROVE  \E o \in Offers : CompleteFor(o)
    BY DEF SentinelSoundOneOffer, SentinelImpliesComplete, OneInv
  <2>1. first \in Offers /\ dur[Sentinel] # {None}
    BY FilesDistinct DEF OneInv, OneOffer
  <2>2. \A f \in Needed(first) : cur[f] = first
    BY <2>1, NeededFiles DEF OneInv, OneOffer, SentinelInv
  <2>3. CompleteFor(first)
    BY <2>1, <2>2 DEF CompleteFor, Needed, OneInv, SentinelInv
  <2>. QED
    BY <2>1, <2>3
<1>. QED
  BY <1>1, <1>2, <1>3, PTL DEF Spec

-----------------------------------------------------------------------------
(* Bootstrap and heal.                                                     *)

RunSteps   == {"wipe", "init", "genesis", "trust", "patch", "peers", "place", "copying", "wasm",
               "probe", "boot", "signal", "marker"}
HealSteps  == {"rm blockstore", "rm state", "rm evidence", "boot", "signal", "marker"}
AfterWasm  == {"probe", "boot", "signal", "marker"}
AfterPlace == {"wasm"} \cup AfterWasm
AfterPatch == {"peers", "place", "copying"} \cup AfterPlace
AfterInit  == {"genesis", "trust", "patch"} \cup AfterPatch

(* What the steps a bootstrap has behind it have left.                     *)
Progress ==
  /\ cmd.op = "run" => cmd.at \in RunSteps
  /\ cmd.op = "heal" => cmd.at \in HealSteps
  /\ cmd.op = "run" =>
       /\ cmd.at \in AfterInit => cfg # "none"
       /\ cmd.at \in AfterPatch => cfg = "patched"
       /\ cmd.at \in AfterPlace => app = "whole" \/ (inPlace /\ wiped)

WasmPlaced == cmd.op = "run" /\ cmd.at \in AfterWasm /\ ext => wasm

(* An appdb inside the home is its own destination: there is no second     *)
(* copy, and it is whole until it is wiped.                                *)
Placed ==
  /\ cfg = "none" <=> gen = "none"
  /\ inPlace => ~src /\ (app = "whole" \/ wiped)

(* A heal that took its height from the marker leaves the marker there.    *)
HealMarked == cmd.op = "heal" /\ ~flagHealed => marker # 0

(* The height a command works with is the appdb's, unless a flag was the   *)
(* only source of one.                                                     *)
CmdHeight == cmd.op # "none" => cmd.h # 0 /\ (flagOnly \/ cmd.h = AppHeight)

(* The signal of bootstrap-state waits beside an empty blockstore only,    *)
(* and heal has looked at the blockstore it removes.                       *)
BlocksInv ==
  /\ signal # 0 \/ cmd.at = "signal" => blocks \in {"none", "empty"}
  /\ At("heal", "rm blockstore") /\ LooksPopulated => cmd.force

BootInv ==
  /\ BootTypeOK
  /\ Progress /\ WasmPlaced /\ Placed /\ HealMarked /\ CmdHeight /\ BlocksInv
  /\ MarkerMeansWhole /\ AppDBKept /\ HeightsAgree

LEMMA BootStarts == BootInit => BootInv
<1> SUFFICES ASSUME BootInit PROVE BootInv
  OBVIOUS
<1> USE BootstrapConstants DEF BootInit
<1>1. BootTypeOK
  <2>1. HomeOK
    BY DEF HomeOK
  <2>2. CmdOK
    BY DEF CmdOK, Idle, Steps
  <2>3. faults \in 0 .. MaxFaults
    OBVIOUS
  <2>4. wiped \in BOOLEAN /\ halfWiped \in BOOLEAN /\ flagOnly \in BOOLEAN /\ flagHealed \in BOOLEAN
    OBVIOUS
  <2>. QED BY <2>1, <2>2, <2>3, <2>4 DEF BootTypeOK, HistoryOK
<1>2. Progress /\ WasmPlaced /\ Placed /\ HealMarked /\ CmdHeight /\ BlocksInv
  BY DEF Progress, WasmPlaced, Placed, HealMarked, CmdHeight, BlocksInv, At, Idle
<1>3. MarkerMeansWhole /\ AppDBKept /\ HeightsAgree
  BY DEF MarkerMeansWhole, AppDBKept, HeightsAgree
<1>. QED
  BY <1>1, <1>2, <1>3 DEF BootInv

-----------------------------------------------------------------------------
(* Types.                                                                  *)

LEMMA Running == CmdOK /\ cmd.op = "none" => cmd = Idle /\ cmd.at = "idle"
BY DEF CmdOK, Idle

LEMMA GotoMoves ==
  ASSUME CmdOK, cmd.at # "idle", NEW s \in Steps \ {"idle"}, Goto(s)
  PROVE  /\ CmdOK'
         /\ cmd'.at = s /\ cmd'.op = cmd.op /\ cmd'.h = cmd.h /\ cmd'.force = cmd.force
BY DEF Goto, Idle, CmdOK

LEMMA EndStops ==
  ASSUME End
  PROVE  CmdOK' /\ cmd'.op = "none" /\ cmd'.at = "idle"
BY DEF End, Idle, Steps, CmdOK

LEMMA CmdStep == BootTypeOK /\ [BootNext]_bootVars => CmdOK'
<1> SUFFICES ASSUME CmdOK, HomeOK, [BootNext]_bootVars PROVE CmdOK'
  BY DEF BootTypeOK
<1>1. CASE RunStep
  <2> USE GotoMoves, EndStops DEF Steps, At
  <2>1. CASE WipeConfig \/ WipeData \/ WipeRest
    BY <2>1 DEF WipeConfig, WipeData, WipeRest, CmdOK
  <2>2. CASE Wiped \/ DaemonInit \/ OverlayGenesis \/ FetchTrust
    BY <2>2 DEF Wiped, DaemonInit, OverlayGenesis, FetchTrust
  <2>3. CASE PatchTOML \/ ForwardPeers \/ CopyDone \/ PlaceWasmPayloads \/ Probe
    BY <2>3 DEF PatchTOML, ForwardPeers, CopyDone, PlaceWasmPayloads, Probe
  <2>4. CASE PlaceAppDB
    BY <2>4 DEF PlaceAppDB, MoveApp, CopyApp
  <2>. QED
    BY <1>1, <2>1, <2>2, <2>3, <2>4 DEF RunStep
<1>2. CASE SharedStep
  BY <1>2, GotoMoves, EndStops DEF SharedStep, BootstrapState, SetOfflineHeight, WriteHeightMarker, Steps
<1>3. CASE HealStep
  <2>1. CASE RemoveBlockstore /\ UNCHANGED cmd
    BY <2>1 DEF CmdOK
  <2>2. CASE cmd.at # "idle" /\ (Goto("rm state") \/ Goto("rm evidence") \/ Goto("boot"))
    BY <2>2, GotoMoves DEF Steps
  <2>. QED
    BY <1>3, <2>1, <2>2 DEF HealStep, RemoveBlockstore, RemoveState, RemoveEvidence, At
<1>4. ASSUME NEW flag \in Heights \cup {0}, NEW skip \in BOOLEAN, NEW over \in BOOLEAN,
             NEW move \in BOOLEAN, RunBootstrap(flag, skip, over, move)
      PROVE  CmdOK'
  BY <1>4 DEF RunBootstrap, CmdOK, HomeOK, Idle, Steps
<1>5. ASSUME NEW flag \in Heights \cup {0}, NEW force \in BOOLEAN, RunHeal(flag, force)
      PROVE  CmdOK'
  <2>1. ResolveHealHeight(flag) \in Heights \cup {0}
    BY DEF ResolveHealHeight, HomeOK
  <2>. QED
    BY <1>5, <2>1 DEF RunHeal, CmdOK, Idle, Steps
<1>6. CASE Stop
  BY <1>6, EndStops DEF Stop
<1>7. CASE StartDaemon \/ UNCHANGED bootVars
  BY <1>7 DEF StartDaemon, bootVars, CmdOK
<1>. QED
  BY <1>1, <1>2, <1>3, <1>4, <1>5, <1>6, <1>7 DEF BootNext, Step, Operator

LEMMA HomeStep == BootTypeOK /\ [BootNext]_bootVars => HomeOK'
<1> SUFFICES ASSUME HomeOK, CmdOK, [BootNext]_bootVars PROVE HomeOK'
  BY DEF BootTypeOK
<1> USE DEF HomeOK, args, confVars, dataVars, cometVars
<1>0. ASSUME UNCHANGED args
      PROVE  (home \in Heights /\ hasMeta \in BOOLEAN /\ ext \in BOOLEAN /\ inPlace \in BOOLEAN)'
  BY <1>0
<1>1. CASE WipeConfig \/ WipeData
  BY <1>1 DEF WipeConfig, WipeData
<1>2. CASE WipeRest
  <2>1. CASE wasm' = FALSE /\ UNCHANGED marker
    <3>1. UNCHANGED <<args, confVars, src, app, cometVars>>
      BY <1>2 DEF WipeRest
    <3>2. (src \in BOOLEAN /\ app \in {"none", "empty", "part", "whole"} /\ wasm \in BOOLEAN)'
      BY <2>1, <3>1
    <3>. QED BY <1>0, <2>1, <3>1, <3>2
  <2>2. CASE marker' = 0 /\ UNCHANGED wasm
    BY <1>2, <2>2 DEF WipeRest
  <2>. QED
    BY <1>2, <2>1, <2>2 DEF WipeRest
<1>3. CASE DaemonInit
  BY <1>3 DEF DaemonInit
<1>4. CASE OverlayGenesis \/ PatchTOML
  BY <1>4 DEF OverlayGenesis, PatchTOML
<1>5. CASE PlaceAppDB
  <2>1. src' \in BOOLEAN /\ app' \in {"none", "empty", "part", "whole"}
    BY <1>5 DEF PlaceAppDB, MoveApp, CopyApp
  <2>. QED
    BY <1>5, <2>1 DEF PlaceAppDB
<1>6. CASE CopyDone \/ PlaceWasmPayloads
  BY <1>6 DEF CopyDone, PlaceWasmPayloads
<1>7. CASE SharedStep
  <2>1. cmd.h \in Heights \cup {0}
    BY DEF CmdOK
  <2>2. state' \in Heights \cup {0} /\ signal' \in Heights \cup {0} /\ marker' \in Heights \cup {0}
    BY <1>7, <2>1 DEF SharedStep, BootstrapState, SetOfflineHeight, WriteHeightMarker
  <2>3. UNCHANGED <<args, confVars, dataVars, blocks>>
    BY <1>7 DEF SharedStep, BootstrapState, SetOfflineHeight, WriteHeightMarker
  <2>. QED
    BY <2>2, <2>3
<1>8. CASE RemoveBlockstore
  <2>1. blocks' \in {"none", "torn"}
    BY <1>8 DEF RemoveBlockstore
  <2>2. UNCHANGED <<args, confVars, dataVars, state, signal, marker>>
    BY <1>8 DEF RemoveBlockstore
  <2>3. (src \in BOOLEAN /\ app \in {"none", "empty", "part", "whole"} /\ wasm \in BOOLEAN)'
    BY <2>2
  <2>. QED
    BY <1>0, <2>1, <2>2, <2>3
<1>9. CASE RemoveState \/ StartDaemon
  <2>1. UNCHANGED <<args, confVars, dataVars, marker>>
    BY <1>9 DEF RemoveState, StartDaemon
  <2>2. state' \in {state, 0} /\ signal' = 0 /\ blocks' \in {blocks, "empty", "sst"}
    BY <1>9 DEF RemoveState, StateRemoved, StartDaemon
  <2>3. (src \in BOOLEAN /\ app \in {"none", "empty", "part", "whole"} /\ wasm \in BOOLEAN)'
    BY <2>1
  <2>. QED
    BY <1>0, <2>1, <2>2, <2>3
<1>10. CASE UNCHANGED <<args, confVars, dataVars, cometVars, marker>>
  BY <1>10
<1>. QED
  BY <1>1, <1>2, <1>3, <1>4, <1>5, <1>6, <1>7, <1>8, <1>9, <1>10
  DEF BootNext, Step, RunStep, HealStep, Operator, Wiped, FetchTrust, ForwardPeers, Probe,
      RemoveEvidence, RunBootstrap, RunHeal, Stop, bootVars

LEMMA HistoryStep == BootTypeOK /\ [BootNext]_bootVars => HistoryOK'
<1> SUFFICES ASSUME HistoryOK, HomeOK, [BootNext]_bootVars PROVE HistoryOK'
  BY DEF BootTypeOK
<1> USE DEF HistoryOK, wipes, flags, history
<1>1. CASE WipeConfig \/ WipeData \/ WipeRest \/ Wiped
  BY <1>1 DEF WipeConfig, WipeData, WipeRest, Wiped
<1>2. CASE WriteHeightMarker \/ Stop
  BY <1>2, BootstrapConstants DEF WriteHeightMarker, Stop
<1>3. ASSUME NEW flag \in Heights \cup {0}, NEW skip \in BOOLEAN, NEW over \in BOOLEAN,
             NEW move \in BOOLEAN, RunBootstrap(flag, skip, over, move)
      PROVE  HistoryOK'
  BY <1>3 DEF RunBootstrap
<1>4. ASSUME NEW flag \in Heights \cup {0}, NEW force \in BOOLEAN, RunHeal(flag, force)
      PROVE  HistoryOK'
  BY <1>4 DEF RunHeal
<1>5. CASE UNCHANGED <<faults, history>>
  BY <1>5
<1>. QED
  BY <1>1, <1>2, <1>3, <1>4, <1>5
  DEF BootNext, Step, RunStep, SharedStep, HealStep, Operator, DaemonInit, OverlayGenesis, FetchTrust,
      PatchTOML, ForwardPeers, PlaceAppDB, CopyDone, PlaceWasmPayloads, Probe, BootstrapState,
      SetOfflineHeight, RemoveBlockstore, RemoveState, RemoveEvidence, StartDaemon, bootVars

-----------------------------------------------------------------------------
(* The other parts of the invariant, each with the actions that touch it.  *)

LEMMA ProgressStep == BootTypeOK /\ Progress /\ Placed /\ [BootNext]_bootVars => Progress'
<1> SUFFICES ASSUME BootTypeOK, Progress, Placed, [BootNext]_bootVars PROVE Progress'
  OBVIOUS
<1> USE DEF BootTypeOK, Progress, RunSteps, HealSteps, AfterInit, AfterPatch, AfterPlace, AfterWasm
<1>1. CASE End
  BY <1>1, EndStops
<1>2. CASE WipeConfig \/ WipeData \/ WipeRest
  BY <1>2 DEF WipeConfig, WipeData, WipeRest, At, confVars
<1>3. CASE RunStep /\ ~End /\ cmd' # cmd
  <2>1. cmd.op = "run" /\ cmd.at \in RunSteps
    BY <1>3 DEF RunStep, WipeConfig, WipeData, WipeRest, Wiped, DaemonInit, OverlayGenesis, FetchTrust,
                PatchTOML, ForwardPeers, PlaceAppDB, CopyDone, PlaceWasmPayloads, Probe, At
  <2>2. CASE cmd.at = "wipe"
    <3>1. Goto("init")
      BY <1>3, <2>2 DEF RunStep, WipeConfig, WipeData, WipeRest, Wiped, DaemonInit, OverlayGenesis, FetchTrust,
                PatchTOML, ForwardPeers, PlaceAppDB, CopyDone, PlaceWasmPayloads, Probe, At
    <3>2. cmd'.op = "run" /\ cmd'.at = "init"
      BY <2>1, <2>2, <3>1, GotoMoves DEF Steps
    <3>. QED BY <3>2
  <2>3. CASE DaemonInit
    <3>1. Goto("genesis") /\ cfg' # "none" /\ cmd.at = "init"
      BY <1>3, <2>3 DEF DaemonInit, At, confVars
    <3>2. cmd'.op = "run" /\ cmd'.at = "genesis"
      BY <2>1, <3>1, GotoMoves DEF Steps
    <3>. QED BY <2>1, <3>1, <3>2
  <2>4. CASE OverlayGenesis \/ FetchTrust
    <3>1. (Goto("trust") \/ Goto("patch")) /\ cfg' = cfg /\ cmd.at \in {"genesis", "trust"}
      BY <2>4 DEF OverlayGenesis, FetchTrust, At, confVars
    <3>2. cmd'.op = "run" /\ cmd'.at \in {"trust", "patch"}
      BY <2>1, <3>1, GotoMoves DEF Steps
    <3>. QED BY <2>1, <3>1, <3>2
  <2>5. CASE PatchTOML \/ ForwardPeers
    <3>1. (Goto("peers") \/ Goto("place")) /\ cfg' = "patched"
      BY <2>5 DEF PatchTOML, ForwardPeers, At, confVars
    <3>2. cmd.at \in {"patch", "peers"}
      BY <2>5 DEF PatchTOML, ForwardPeers, At
    <3>3. cmd'.op = "run" /\ cmd'.at \in {"peers", "place"}
      BY <2>1, <3>1, <3>2, GotoMoves DEF Steps
    <3>. QED BY <2>1, <3>1, <3>2, <3>3
  <2>6. CASE PlaceAppDB
    <3>1. cmd.at = "place" /\ cfg' = cfg
      BY <2>6 DEF PlaceAppDB, At, confVars
    <3>2. CASE Goto("wasm") /\ (app' = "whole" \/ (inPlace' /\ wiped'))
      <4>1. cmd'.op = "run" /\ cmd'.at = "wasm"
        BY <2>1, <3>1, <3>2, GotoMoves DEF Steps
      <4>. QED BY <2>1, <3>1, <3>2, <4>1
    <3>3. CASE Goto("copying")
      <4>1. cmd'.op = "run" /\ cmd'.at = "copying"
        BY <2>1, <3>1, <3>3, GotoMoves DEF Steps
      <4>. QED BY <2>1, <3>1, <4>1
    <3>4. wiped' = wiped /\ inPlace' = inPlace
      BY <2>6 DEF PlaceAppDB, history, wipes, args
    <3>5. CASE SameOnDisk
      BY <2>6, <3>2, <3>4, <3>5 DEF PlaceAppDB, SameOnDisk, Placed
    <3>6. CASE ~SameOnDisk /\ MoveApp
      BY <1>3, <3>2, <3>6 DEF MoveApp
    <3>7. CASE ~SameOnDisk /\ ~PlaceRefuses /\ CopyApp
      BY <1>3, <3>2, <3>3, <3>4, <3>7 DEF CopyApp, Placed, SameOnDisk, PlaceRefuses
    <3>. QED
      BY <1>3, <2>6, <3>5, <3>6, <3>7 DEF PlaceAppDB
  <2>7. CASE CopyDone \/ PlaceWasmPayloads \/ Probe
    <3>1. /\ Goto("wasm") \/ Goto("probe") \/ Goto("boot")
          /\ cmd.at \in {"copying", "wasm", "probe"}
          /\ cfg' = cfg /\ (app' = "whole" \/ (inPlace' /\ wiped'))
      BY <2>1, <2>7
      DEF CopyDone, PlaceWasmPayloads, Probe, At, confVars, dataVars, args, history, wipes
    <3>. QED BY <2>1, <3>1, GotoMoves DEF Steps
  <2>. QED
    BY <1>3, <2>1, <2>2, <2>3, <2>4, <2>5, <2>6, <2>7
    DEF RunStep, WipeConfig, WipeData, WipeRest, Wiped, At
<1>4. CASE (BootstrapState \/ SetOfflineHeight) /\ ~End
  <2>1. /\ Goto("signal") \/ Goto("marker")
        /\ cmd.at \in {"boot", "signal"} /\ cfg' = cfg /\ app' = app
        /\ inPlace' = inPlace /\ wiped' = wiped
    BY <1>4 DEF BootstrapState, SetOfflineHeight, confVars, dataVars, args, history, wipes
  <2>. QED BY <2>1, GotoMoves DEF Steps
<1>5. CASE HealStep
  BY <1>5, GotoMoves DEF HealStep, RemoveBlockstore, RemoveState, RemoveEvidence, Steps, At
<1>6. ASSUME NEW flag \in Heights \cup {0}, NEW skip \in BOOLEAN, NEW over \in BOOLEAN,
             NEW move \in BOOLEAN, RunBootstrap(flag, skip, over, move)
      PROVE  Progress'
  BY <1>6 DEF RunBootstrap
<1>7. ASSUME NEW flag \in Heights \cup {0}, NEW force \in BOOLEAN, RunHeal(flag, force)
      PROVE  Progress'
  BY <1>7 DEF RunHeal, Idle
<1>8. CASE StartDaemon \/ UNCHANGED bootVars
  BY <1>8 DEF StartDaemon, bootVars, confVars, dataVars, args, history, wipes
<1>9. CASE RunStep
  BY <1>1, <1>2, <1>3, <1>9 DEF RunStep, Wiped, DaemonInit, OverlayGenesis, FetchTrust,
     PatchTOML, ForwardPeers, PlaceAppDB, CopyDone, PlaceWasmPayloads, Probe, At, Goto, CmdOK, MoveApp, CopyApp
<1>10. CASE SharedStep
  BY <1>1, <1>4, <1>10 DEF SharedStep, WriteHeightMarker
<1>. QED
  BY <1>1, <1>5, <1>6, <1>7, <1>8, <1>9, <1>10 DEF BootNext, Step, Operator, Stop

LEMMA PlacedStep ==
  BootTypeOK /\ Progress /\ Placed /\ AppDBKept /\ [BootNext]_bootVars => Placed' /\ AppDBKept'
<1> SUFFICES ASSUME BootTypeOK, Progress, Placed, AppDBKept, [BootNext]_bootVars PROVE Placed' /\ AppDBKept'
  OBVIOUS
<1> USE DEF Placed, AppDBKept, args, confVars, dataVars, wipes, history
<1>1. CASE WipeConfig \/ WipeData \/ WipeRest
  BY <1>1 DEF WipeConfig, WipeData, WipeRest
<1>2. CASE DaemonInit \/ OverlayGenesis \/ PatchTOML
  BY <1>2 DEF DaemonInit, OverlayGenesis, PatchTOML, At, Progress, AfterInit
<1>3. CASE PlaceAppDB
  BY <1>3 DEF PlaceAppDB, SameOnDisk, PlaceRefuses, MoveApp, CopyApp
<1>4. CASE CopyDone \/ PlaceWasmPayloads
  BY <1>4 DEF CopyDone, PlaceWasmPayloads
<1>5. CASE UNCHANGED <<args, confVars, dataVars, wiped>>
  BY <1>5
<1>. QED
  BY <1>1, <1>2, <1>3, <1>4, <1>5
  DEF BootNext, Step, RunStep, SharedStep, HealStep, Operator, Wiped, FetchTrust, ForwardPeers, Probe,
      BootstrapState, SetOfflineHeight, WriteHeightMarker, RemoveBlockstore, RemoveState,
      RemoveEvidence, RunBootstrap, RunHeal, Stop, StartDaemon, bootVars

LEMMA WasmStep == BootTypeOK /\ Progress /\ WasmPlaced /\ [BootNext]_bootVars => WasmPlaced'
<1> SUFFICES ASSUME BootTypeOK, Progress, WasmPlaced, [BootNext]_bootVars PROVE WasmPlaced'
  OBVIOUS
<1> USE DEF BootTypeOK, WasmPlaced, AfterWasm
<1>1. CASE End
  BY <1>1, EndStops
<1>2. CASE WipeConfig \/ WipeData \/ WipeRest
  BY <1>2 DEF WipeConfig, WipeData, WipeRest, At
<1>3. ASSUME cmd.at # "idle", Goto("boot") \/ Goto("signal") \/ Goto("marker"), wasm' = wasm, ext' = ext,
             cmd.op = "run" => cmd.at \in AfterWasm
      PROVE  WasmPlaced'
  <2>1. cmd'.op = cmd.op
    BY <1>3, GotoMoves DEF Steps
  <2>. QED BY <1>3, <2>1
<1>4. CASE PlaceWasmPayloads
  BY <1>4 DEF PlaceWasmPayloads, args
<1>5. ASSUME cmd.at # "idle", NEW s \in Steps \ (AfterWasm \cup {"idle"}), Goto(s) PROVE WasmPlaced'
  <2>1. cmd'.at = s
    BY <1>5, GotoMoves
  <2>. QED BY <1>5, <2>1
<1>6. CASE Wiped \/ DaemonInit \/ OverlayGenesis \/ FetchTrust \/ PatchTOML \/ ForwardPeers
  <2>1. cmd.at # "idle"
    BY <1>6 DEF Wiped, DaemonInit, OverlayGenesis, FetchTrust, PatchTOML, ForwardPeers, At
  <2>2. \/ End \/ Goto("init") \/ Goto("genesis") \/ Goto("trust") \/ Goto("patch") \/ Goto("peers")
        \/ Goto("place")
    BY <1>6 DEF Wiped, DaemonInit, OverlayGenesis, FetchTrust, PatchTOML, ForwardPeers
  <2>. QED
    BY <1>1, <1>5, <2>1, <2>2 DEF Steps
<1>7. CASE PlaceAppDB \/ CopyDone
  <2>1. cmd.at # "idle" /\ (End \/ Goto("copying") \/ Goto("wasm"))
    BY <1>7 DEF PlaceAppDB, CopyDone, MoveApp, CopyApp, At
  <2>. QED
    BY <1>1, <1>5, <2>1 DEF Steps
<1>8. CASE Probe \/ BootstrapState \/ SetOfflineHeight
  <2>1. cmd.at \in AfterWasm /\ (End \/ Goto("boot") \/ Goto("signal") \/ Goto("marker"))
    BY <1>8 DEF Probe, BootstrapState, SetOfflineHeight, At
  <2>2. wasm' = wasm /\ ext' = ext
    BY <1>8 DEF Probe, BootstrapState, SetOfflineHeight, dataVars, args
  <2>. QED
    BY <1>1, <1>3, <2>1, <2>2
<1>9. CASE HealStep
  <2>1. cmd.op = "heal" /\ wasm' = wasm /\ cmd.at # "idle"
    BY <1>9 DEF HealStep, RemoveBlockstore, RemoveState, RemoveEvidence, At, dataVars
  <2>2. UNCHANGED cmd \/ Goto("rm state") \/ Goto("rm evidence") \/ Goto("boot")
    BY <1>9 DEF HealStep, RemoveBlockstore, RemoveState, RemoveEvidence
  <2>3. cmd'.op = "heal"
    BY <2>1, <2>2, GotoMoves DEF Steps
  <2>. QED BY <2>3
<1>10. ASSUME NEW flag \in Heights \cup {0}, NEW skip \in BOOLEAN, NEW over \in BOOLEAN,
             NEW move \in BOOLEAN, RunBootstrap(flag, skip, over, move)
       PROVE  WasmPlaced'
  BY <1>10 DEF RunBootstrap
<1>11. ASSUME NEW flag \in Heights \cup {0}, NEW force \in BOOLEAN, RunHeal(flag, force)
       PROVE  WasmPlaced'
  BY <1>11 DEF RunHeal, Idle
<1>12. CASE StartDaemon \/ UNCHANGED bootVars
  BY <1>12 DEF StartDaemon, bootVars, dataVars, args
<1>. QED
  BY <1>1, <1>2, <1>4, <1>6, <1>7, <1>8, <1>9, <1>10, <1>11, <1>12
  DEF BootNext, Step, RunStep, SharedStep, Operator, WriteHeightMarker, Stop

(* A step of a command changes neither which command it is nor its height. *)
LEMMA CmdKept ==
  ASSUME BootTypeOK, Step
  PROVE  \/ cmd'.op = "none" /\ cmd'.at = "idle"
         \/ cmd'.op = cmd.op /\ cmd'.h = cmd.h /\ cmd'.force = cmd.force
<1>1. CASE \E s \in Steps \ {"idle"} : cmd.at # "idle" /\ Goto(s)
  BY <1>1, GotoMoves DEF BootTypeOK
<1>2. CASE End
  BY <1>2, EndStops
<1>3. CASE UNCHANGED cmd
  BY <1>3
<1>4. CASE RunStep
  BY <1>1, <1>2, <1>3, <1>4
  DEF RunStep, WipeConfig, WipeData, WipeRest, Wiped, DaemonInit, OverlayGenesis, FetchTrust, PatchTOML,
      ForwardPeers, PlaceAppDB, MoveApp, CopyApp, CopyDone, PlaceWasmPayloads, Probe, At, Steps
<1>5. CASE SharedStep
  BY <1>1, <1>2, <1>5 DEF SharedStep, BootstrapState, SetOfflineHeight, WriteHeightMarker, Steps
<1>6. CASE HealStep
  BY <1>1, <1>3, <1>6 DEF HealStep, RemoveBlockstore, RemoveState, RemoveEvidence, At, Steps
<1>. QED
  BY <1>4, <1>5, <1>6 DEF Step

LEMMA HealMarkedStep == BootTypeOK /\ HealMarked /\ [BootNext]_bootVars => HealMarked'
<1> SUFFICES ASSUME BootTypeOK, HealMarked, [BootNext]_bootVars PROVE HealMarked'
  OBVIOUS
<1> USE DEF HealMarked
<1>1. CASE Step
  <2>1. flagHealed' = flagHealed
    BY <1>1
    DEF Step, RunStep, SharedStep, HealStep, WipeConfig, WipeData, WipeRest, Wiped, DaemonInit, OverlayGenesis,
        FetchTrust, PatchTOML, ForwardPeers, PlaceAppDB, CopyDone, PlaceWasmPayloads, Probe, BootstrapState,
        SetOfflineHeight, WriteHeightMarker, RemoveBlockstore, RemoveState, RemoveEvidence, flags, history
  <2>2. CASE WriteHeightMarker
    BY <2>2, EndStops DEF WriteHeightMarker
  <2>3. CASE WipeRest
    BY <2>3 DEF WipeRest, At
  <2>4. CASE ~WriteHeightMarker /\ ~WipeRest
    <3>1. marker' = marker
      BY <1>1, <2>4
      DEF Step, RunStep, SharedStep, HealStep, WipeConfig, WipeData, Wiped, DaemonInit, OverlayGenesis,
          FetchTrust, PatchTOML, ForwardPeers, PlaceAppDB, CopyDone, PlaceWasmPayloads, Probe, BootstrapState,
          SetOfflineHeight, RemoveBlockstore, RemoveState, RemoveEvidence
    <3>. QED BY <1>1, <2>1, <3>1, CmdKept
  <2>. QED BY <2>2, <2>3, <2>4
<1>2. ASSUME NEW flag \in Heights \cup {0}, NEW skip \in BOOLEAN, NEW over \in BOOLEAN,
             NEW move \in BOOLEAN, RunBootstrap(flag, skip, over, move)
      PROVE  HealMarked'
  BY <1>2 DEF RunBootstrap
<1>3. ASSUME NEW flag \in Heights \cup {0}, NEW force \in BOOLEAN, RunHeal(flag, force)
      PROVE  HealMarked'
  BY <1>3 DEF RunHeal
<1>4. CASE Stop
  BY <1>4, EndStops DEF Stop
<1>5. CASE StartDaemon \/ UNCHANGED bootVars
  BY <1>5 DEF StartDaemon, bootVars, flags, history
<1>. QED
  BY <1>1, <1>2, <1>3, <1>4, <1>5 DEF BootNext, Operator

LEMMA HeightStep ==
  BootTypeOK /\ CmdHeight /\ HeightsAgree /\ [BootNext]_bootVars => CmdHeight' /\ HeightsAgree'
<1> SUFFICES ASSUME BootTypeOK, CmdHeight, HeightsAgree, [BootNext]_bootVars PROVE CmdHeight' /\ HeightsAgree'
  OBVIOUS
<1> USE DEF CmdHeight, HeightsAgree
<1>1. CASE Step
  <2>1. flagOnly' = flagOnly
    BY <1>1
    DEF Step, RunStep, SharedStep, HealStep, WipeConfig, WipeData, WipeRest, Wiped, DaemonInit, OverlayGenesis,
        FetchTrust, PatchTOML, ForwardPeers, PlaceAppDB, CopyDone, PlaceWasmPayloads, Probe, BootstrapState,
        SetOfflineHeight, WriteHeightMarker, RemoveBlockstore, RemoveState, RemoveEvidence, flags, history
  <2>2. CmdHeight'
    BY <1>1, <2>1, CmdKept
  <2>3. CASE SharedStep
    <3>1. cmd.op # "none"
      BY <2>3, Running DEF SharedStep, BootstrapState, SetOfflineHeight, WriteHeightMarker, BootTypeOK
    <3>2. /\ state' \in {state, cmd.h} /\ signal' \in {signal, cmd.h} /\ marker' \in {marker, cmd.h}
      BY <2>3 DEF SharedStep, BootstrapState, SetOfflineHeight, WriteHeightMarker, cometVars
    <3>. QED
      BY <2>1, <2>2, <3>1, <3>2
  <2>4. CASE ~SharedStep
    <3>1. state' \in {state, 0} /\ signal' \in {signal, 0} /\ marker' \in {marker, 0}
      BY <1>1, <2>4
      DEF Step, RunStep, HealStep, WipeConfig, WipeData, WipeRest, Wiped, DaemonInit, OverlayGenesis,
          FetchTrust, PatchTOML, ForwardPeers, PlaceAppDB, CopyDone, PlaceWasmPayloads, Probe,
          RemoveBlockstore, RemoveState, StateRemoved, RemoveEvidence, cometVars
    <3>. QED
      BY <2>1, <2>2, <3>1
  <2>. QED BY <2>3, <2>4
<1>2. ASSUME NEW flag \in Heights \cup {0}, NEW skip \in BOOLEAN, NEW over \in BOOLEAN,
             NEW move \in BOOLEAN, RunBootstrap(flag, skip, over, move)
      PROVE  CmdHeight' /\ HeightsAgree'
  BY <1>2, BootstrapConstants DEF RunBootstrap, ResolveHeight, BootTypeOK, HomeOK, cometVars
<1>3. ASSUME NEW flag \in Heights \cup {0}, NEW force \in BOOLEAN, RunHeal(flag, force)
      PROVE  CmdHeight' /\ HeightsAgree'
  <2>1. cmd'.h = ResolveHealHeight(flag)
    BY <1>3 DEF RunHeal, Idle
  <2>. QED
    BY <1>3, <2>1 DEF RunHeal, ResolveHealHeight, cometVars
<1>4. CASE Stop
  BY <1>4, EndStops DEF Stop, cometVars, flags, history
<1>5. CASE StartDaemon \/ UNCHANGED bootVars
  BY <1>5 DEF StartDaemon, bootVars, cometVars, flags, history
<1>. QED
  BY <1>1, <1>2, <1>3, <1>4, <1>5 DEF BootNext, Operator

(* A step other than bootstrap-state and the heal's own leaves the         *)
(* blockstore and the signal alone, or wipes both.                         *)
LEMMA BlocksStep == BootTypeOK /\ BlocksInv /\ [BootNext]_bootVars => BlocksInv'
<1> SUFFICES ASSUME BootTypeOK, BlocksInv, [BootNext]_bootVars PROVE BlocksInv'
  OBVIOUS
<1> USE DEF BlocksInv, LooksPopulated, At, cometVars
<1>1. CASE RunStep
  <2>1. cmd.op = "run"
    BY <1>1
    DEF RunStep, WipeConfig, WipeData, WipeRest, Wiped, DaemonInit, OverlayGenesis, FetchTrust, PatchTOML,
        ForwardPeers, PlaceAppDB, CopyDone, PlaceWasmPayloads, Probe
  <2>2. (signal' = signal /\ blocks' = blocks) \/ (signal' = 0 /\ blocks' = "none")
    <3>1. CASE WipeData
      BY <3>1 DEF WipeData
    <3>2. CASE ~WipeData
      <4>1. UNCHANGED cometVars
        BY <1>1, <3>2
        DEF RunStep, WipeConfig, WipeRest, Wiped, DaemonInit, OverlayGenesis, FetchTrust, PatchTOML,
            ForwardPeers, PlaceAppDB, CopyDone, PlaceWasmPayloads, Probe
      <4>. QED
        BY <4>1
    <3>. QED BY <3>1, <3>2
  <2>3. cmd'.op # "heal"
    BY <1>1, <2>1, CmdKept DEF Step
  <2>4. cmd'.at # "signal" \/ cmd' = cmd
    <3>1. \/ cmd' = cmd \/ End
          \/ \E s \in Steps \ {"idle", "signal"} : cmd.at # "idle" /\ Goto(s)
      BY <1>1
      DEF RunStep, WipeConfig, WipeData, WipeRest, Wiped, DaemonInit, OverlayGenesis, FetchTrust, PatchTOML,
          ForwardPeers, PlaceAppDB, MoveApp, CopyApp, CopyDone, PlaceWasmPayloads, Probe, Steps
    <3>. QED
      BY <3>1, GotoMoves, EndStops DEF BootTypeOK
  <2>. QED
    BY <2>2, <2>3, <2>4
<1>2. CASE BootstrapState
  <2>1. CASE End
    BY <1>2, <2>1, EndStops DEF BootstrapState
  <2>2. CASE Goto("signal") /\ blocks \in {"none", "empty"}
    BY <1>2, <2>2 DEF BootstrapState
  <2>. QED
    BY <1>2, <2>1, <2>2 DEF BootstrapState
<1>3. CASE SetOfflineHeight
  <2>1. cmd'.at = "marker"
    BY <1>3, GotoMoves DEF SetOfflineHeight, BootTypeOK, Steps
  <2>. QED
    BY <1>3, <2>1 DEF SetOfflineHeight
<1>4. CASE WriteHeightMarker \/ Stop
  BY <1>4, EndStops DEF WriteHeightMarker, Stop
<1>5. CASE RemoveBlockstore
  <2>1. CASE blocks' = "none" /\ Goto("rm state")
    BY <1>5, <2>1, GotoMoves DEF RemoveBlockstore, BootTypeOK, Steps
  <2>2. CASE blocks = "sst" /\ blocks' = "torn" /\ UNCHANGED cmd
    BY <1>5, <2>2 DEF RemoveBlockstore
  <2>. QED
    BY <1>5, <2>1, <2>2 DEF RemoveBlockstore
<1>6. CASE RemoveState \/ RemoveEvidence
  <2>1. cmd'.at \in {"rm evidence", "boot"}
    BY <1>6, GotoMoves DEF RemoveState, RemoveEvidence, BootTypeOK, Steps
  <2>2. blocks' = blocks /\ signal' \in {signal, 0}
    BY <1>6 DEF RemoveState, RemoveEvidence, StateRemoved
  <2>. QED
    BY <2>1, <2>2
<1>7. ASSUME NEW flag \in Heights \cup {0}, NEW skip \in BOOLEAN, NEW over \in BOOLEAN,
             NEW move \in BOOLEAN, RunBootstrap(flag, skip, over, move)
      PROVE  BlocksInv'
  <2>1. cmd'.op = "run" /\ cmd'.at # "signal"
    BY <1>7 DEF RunBootstrap
  <2>. QED
    BY <1>7, <2>1 DEF RunBootstrap
<1>8. ASSUME NEW flag \in Heights \cup {0}, NEW force \in BOOLEAN, RunHeal(flag, force)
      PROVE  BlocksInv'
  <2>1. cmd'.at = "rm blockstore" /\ cmd'.force = force
    BY <1>8 DEF RunHeal, Idle
  <2>. QED
    BY <1>8, <2>1 DEF RunHeal
<1>9. CASE StartDaemon
  BY <1>9 DEF StartDaemon, Idle
<1>10. CASE UNCHANGED bootVars
  BY <1>10 DEF bootVars
<1>. QED
  BY <1>1, <1>2, <1>3, <1>4, <1>5, <1>6, <1>7, <1>8, <1>9, <1>10
  DEF BootNext, Step, SharedStep, HealStep, Operator

LEMMA MarkerStep ==
  BootTypeOK /\ Progress /\ WasmPlaced /\ Placed /\ HealMarked /\ MarkerMeansWhole /\ [BootNext]_bootVars
    => MarkerMeansWhole'
<1> SUFFICES ASSUME BootTypeOK, Progress, WasmPlaced, Placed, HealMarked, MarkerMeansWhole, [BootNext]_bootVars,
                    marker' # 0, ~halfWiped', ~flagHealed', ~(inPlace' /\ wiped')
             PROVE  app' = "whole" /\ (ext' => wasm') /\ cfg' = "patched" /\ gen' # "none"
  BY DEF MarkerMeansWhole
<1>1. CASE WriteHeightMarker
  <2>1. cmd.op # "none" /\ ~halfWiped /\ ~flagHealed /\ ~(inPlace /\ wiped) /\ ext' = ext
    BY <1>1, Running DEF WriteHeightMarker, BootTypeOK, history, wipes, flags, args
  <2>2. CASE cmd.op = "run"
    BY <1>1, <2>1, <2>2 DEF WriteHeightMarker, Progress, WasmPlaced, Placed, AfterPatch, AfterPlace, AfterWasm,
                      confVars, dataVars
  <2>3. CASE cmd.op = "heal"
    BY <1>1, <2>1, <2>3 DEF WriteHeightMarker, HealMarked, MarkerMeansWhole, confVars, dataVars
  <2>. QED
    BY <2>1, <2>2, <2>3 DEF BootTypeOK, CmdOK
<1>2. CASE WipeConfig \/ WipeData \/ WipeRest \/ Wiped
  BY <1>2 DEF WipeConfig, WipeData, WipeRest, Wiped
<1>3. CASE ~WriteHeightMarker /\ ~(WipeConfig \/ WipeData \/ WipeRest \/ Wiped)
  <2>1. marker' = marker /\ halfWiped' = halfWiped
    BY <1>3
    DEF BootNext, Step, RunStep, SharedStep, HealStep, Operator, DaemonInit, OverlayGenesis,
        FetchTrust, PatchTOML, ForwardPeers, PlaceAppDB, CopyDone, PlaceWasmPayloads, Probe, BootstrapState,
        SetOfflineHeight, RemoveBlockstore, RemoveState, RemoveEvidence, RunBootstrap, RunHeal, Stop,
        StartDaemon, bootVars, history, wipes
  <2>2. ~flagHealed
    BY <1>3
    DEF BootNext, Step, RunStep, SharedStep, HealStep, Operator, DaemonInit, OverlayGenesis,
        FetchTrust, PatchTOML, ForwardPeers, PlaceAppDB, CopyDone, PlaceWasmPayloads, Probe, BootstrapState,
        SetOfflineHeight, RemoveBlockstore, RemoveState, RemoveEvidence, RunBootstrap, RunHeal, Stop,
        StartDaemon, bootVars, history, flags
  <2>8. wiped' = wiped /\ inPlace' = inPlace /\ ext' = ext
    BY <1>3
    DEF BootNext, Step, RunStep, SharedStep, HealStep, Operator, DaemonInit, OverlayGenesis,
        FetchTrust, PatchTOML, ForwardPeers, PlaceAppDB, CopyDone, PlaceWasmPayloads, Probe, BootstrapState,
        SetOfflineHeight, RemoveBlockstore, RemoveState, RemoveEvidence, RunBootstrap, RunHeal, Stop,
        StartDaemon, bootVars, history, wipes, args
  <2>3. app = "whole" /\ (ext => wasm) /\ cfg = "patched" /\ gen # "none"
    BY <2>1, <2>2, <2>8 DEF MarkerMeansWhole
  <2>4. CASE DaemonInit \/ OverlayGenesis \/ PatchTOML
    BY <2>3, <2>4, <2>8 DEF DaemonInit, OverlayGenesis, PatchTOML, confVars, dataVars
  <2>5. CASE PlaceAppDB
    BY <2>3, <2>5, <2>8 DEF PlaceAppDB, SameOnDisk, PlaceRefuses, confVars
  <2>6. CASE CopyDone \/ PlaceWasmPayloads
    BY <2>3, <2>6, <2>8 DEF CopyDone, PlaceWasmPayloads, confVars
  <2>7. CASE UNCHANGED <<confVars, dataVars>>
    BY <2>3, <2>7, <2>8 DEF confVars, dataVars
  <2>. QED
    BY <1>3, <2>4, <2>5, <2>6, <2>7
    DEF BootNext, Step, RunStep, SharedStep, HealStep, Operator, FetchTrust, ForwardPeers, Probe, BootstrapState,
        SetOfflineHeight, RemoveBlockstore, RemoveState, RemoveEvidence, RunBootstrap, RunHeal, Stop,
        StartDaemon, bootVars
<1>. QED BY <1>1, <1>2, <1>3

LEMMA BootStep == BootInv /\ [BootNext]_bootVars => BootInv'
BY CmdStep, HomeStep, HistoryStep, ProgressStep, WasmStep, PlacedStep, HealMarkedStep, HeightStep,
   BlocksStep, MarkerStep
DEF BootInv, BootTypeOK

-----------------------------------------------------------------------------
(* Whatever commands the operator issues on a home and wherever they fail  *)
(* or die, a marker stands for a home with every piece in place, unless    *)
(* an --overwrite was broken off or wiped the appdb it was to place, or    *)
(* heal was told the height by its flag.                                   *)
THEOREM MarkerIsHonest == BootSpec => []MarkerMeansWhole
BY BootStarts, BootStep, PTL DEF BootSpec, BootInv

(* No sequence of failures and retries of bootstrap and heal, by move or   *)
(* by copy, loses the imported database short of an --overwrite.           *)
THEOREM AppDBSurvives == BootSpec => []AppDBKept
BY BootStarts, BootStep, PTL DEF BootSpec, BootInv

(* With a height recorded in meta.json, state.db, the offline-sync height  *)
(* and the marker never get another height than the application.db's.      *)
THEOREM HeightsNeverDiverge == BootSpec => []HeightsAgree
BY BootStarts, BootStep, PTL DEF BootSpec, BootInv

(* No step, of a first heal or of one that repeats a broken-off one,       *)
(* removes synced blocks without --force or --overwrite.                   *)
THEOREM BlocksNeedForce == BootSpec => SyncedBlocksKept
<1>1. BootInv /\ [BootNext]_bootVars
        => [blocks = "sst" /\ blocks' # "sst" => cmd.force \/ At("run", "wipe")]_bootVars
  <2> SUFFICES ASSUME BootInv, [BootNext]_bootVars, blocks = "sst", blocks' # "sst"
               PROVE  cmd.force \/ At("run", "wipe")
    OBVIOUS
  <2>1. CASE WipeData
    BY <2>1 DEF WipeData
  <2>2. CASE RemoveBlockstore
    BY <2>2 DEF RemoveBlockstore, BootInv, BlocksInv, LooksPopulated
  <2>3. CASE StartDaemon
    BY <2>3 DEF StartDaemon, BootInv, BlocksInv
  <2>4. CASE UNCHANGED blocks
    BY <2>4
  <2>. QED
    BY <2>1, <2>2, <2>3, <2>4
    DEF BootNext, Step, RunStep, SharedStep, HealStep, Operator, WipeConfig, WipeRest, Wiped, DaemonInit,
        OverlayGenesis, FetchTrust, PatchTOML, ForwardPeers, PlaceAppDB, CopyDone, PlaceWasmPayloads, Probe,
        BootstrapState, SetOfflineHeight, WriteHeightMarker, RemoveState, RemoveEvidence, RunBootstrap,
        RunHeal, Stop, bootVars, cometVars
<1>. QED
  BY <1>1, BootStarts, BootStep, PTL DEF BootSpec, SyncedBlocksKept
=============================================================================
