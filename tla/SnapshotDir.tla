---------------------------- MODULE SnapshotDir ----------------------------
(***************************************************************************)
(* The life of one snapshot directory snapshot_<chain>_<height> over       *)
(* several runs of `malcom snapshot fetch` (internal/snapfetch/runfetch.go *)
(* and session.go, internal/durable): which files a run writes, in which   *)
(* order they become durable, and what a failing step, a killed process or *)
(* a power loss leaves for the next run, the importer and the server.      *)
(*                                                                         *)
(* A file is worth the offer it was written for.  cur is what the file     *)
(* system shows; dur[f] is the set of contents f may have after a power    *)
(* loss: FsyncDir makes it the current one, a rename or an unlink adds to  *)
(* it.  durable.WriteFile is two steps, the rename and the FsyncDir after  *)
(* it, for the process may die, and the fsync fail, between the two.       *)
(***************************************************************************)
EXTENDS Naturals, FiniteSets

CONSTANTS
  Offers,          \* offers of this height (format, hash and metadata differ)
  None,            \* no file
  NumChunks,       \* NumChunks[o]: offer.Chunks
  Genuine,         \* offers whose chunk hashes agree with the snapshot hash
  SkipVerifyHash,  \* cfg.SkipVerifyHash
  MaxRuns          \* bound: runs of the command

ASSUME DirConstants ==
  /\ None \notin Offers
  /\ NumChunks \in [Offers -> Nat \ {0}]
  /\ Genuine \subseteq Offers
  /\ SkipVerifyHash \in BOOLEAN
  /\ MaxRuns \in Nat

ChunksOf(o) == 0 .. (NumChunks[o] - 1)
AllChunks   == UNION {ChunksOf(o) : o \in Offers}
ChunkFile(i) == <<"chunk", i>>
Metadata     == <<"metadata.bin", 0>>
MetaJSON     == <<"meta.json", 0>>
Sentinel     == <<".complete", 0>>
Files == {ChunkFile(i) : i \in AllChunks} \cup {Metadata, MetaJSON, Sentinel}

ASSUME NoneIsNoFile == None \notin Files

VARIABLES
  pc,         \* where the run is; "idle" between runs
  offer,      \* the offer the run downloads
  first,      \* the offer of the first run
  mixed,      \* history: some run found another offer than the first one
  cur, dur,   \* the directory
  todo,       \* the file whose rename waits for its FsyncDir
  completed,  \* chunks the download counts as stored
  runs

vars == <<pc, offer, first, mixed, cur, dur, todo, completed, runs>>

Stages == {"metadata", "seed", "resume", "download", "verify", "meta.json",
           "fsync", "sentinel", "fsyncLast"}

TypeOK ==
  /\ pc \in Stages \cup {"idle", "done"}
  /\ offer \in Offers \cup {None}
  /\ first \in Offers \cup {None}
  /\ mixed \in BOOLEAN
  /\ cur \in [Files -> Offers \cup {None}]
  /\ dur \in [Files -> SUBSET (Offers \cup {None})]
  /\ todo \in Files \cup {None}
  /\ completed \in SUBSET AllChunks
  /\ offer # None => completed \subseteq ChunksOf(offer)
  /\ runs \in Nat

Init ==
  /\ pc = "idle" /\ offer = None /\ first = None /\ mixed = FALSE
  /\ cur = [f \in Files |-> None]
  /\ dur = [f \in Files |-> {None}]
  /\ todo = None
  /\ completed = {}
  /\ runs = 0

-----------------------------------------------------------------------------
(* CreateTemp .. Rename of durable.WriteFile; the FsyncDir is still to do. *)
Rename(f) ==
  /\ cur' = [cur EXCEPT ![f] = offer]
  /\ dur' = [dur EXCEPT ![f] = @ \cup {offer}]
  /\ todo' = f

FsyncDir == dur' = [f \in Files |-> {cur[f]}]

(* Write f and go on to the next stage; the run stops when this fails.     *)
Write(f, next) ==
  \/ /\ todo = None
     /\ Rename(f)
     /\ UNCHANGED pc
  \/ /\ todo = f
     /\ FsyncDir
     /\ todo' = None
     /\ pc' = next
     /\ UNCHANGED cur

-----------------------------------------------------------------------------
(* A run starts; the walk ends with an offer of this height.               *)
StartRun(o) ==
  /\ pc \in {"idle", "done"}
  /\ runs < MaxRuns /\ runs' = runs + 1
  /\ mixed' = (mixed \/ first \notin {None, o})
  /\ first' = IF first = None THEN o ELSE first
  /\ offer' = o
  /\ completed' = {}
  /\ pc' = "metadata"
  /\ UNCHANGED <<cur, dur, todo>>

(* Mutant: any metadata.bin that is there is kept.                         *)
KeepsMetadata ==
  /\ pc = "metadata"
  /\ \/ /\ cur[Metadata] # None /\ todo = None
        /\ pc' = "seed" /\ UNCHANGED <<cur, dur, todo>>
     \/ Write(Metadata, "seed")
  /\ UNCHANGED <<offer, first, mixed, completed, runs>>

(* prepareSnapshotDir keeps an equal metadata.bin; one that differs, or    *)
(* cannot be read, is replaced.                                            *)
PrepareMetadata ==
  /\ pc = "metadata"
  /\ \/ /\ cur[Metadata] = offer /\ todo = None
        /\ pc' = "seed" /\ UNCHANGED <<cur, dur, todo>>
     \/ Write(Metadata, "seed")
  /\ UNCHANGED <<offer, first, mixed, completed, runs>>

(* Chunk 0 of the walk is written; a failure is only logged.               *)
SeedChunk0 ==
  /\ pc = "seed"
  /\ \/ Write(ChunkFile(0), "resume")
     \/ pc' = "resume" /\ todo' = None /\ UNCHANGED <<cur, dur>>
  /\ UNCHANGED <<offer, first, mixed, completed, runs>>

(* resumeFromDisk: keep what matches, unlink the readable rest, orphans of *)
(* a longer offer included; what cannot be unlinked stays.                 *)
Stale(unreadable) ==
  {i \in AllChunks : /\ cur[ChunkFile(i)] # None
                     /\ \/ i \notin ChunksOf(offer)
                        \/ i \notin unreadable /\ cur[ChunkFile(i)] # offer}

Unlink(gone) ==
  /\ cur' = [f \in Files |-> IF f \in {ChunkFile(i) : i \in gone}
                             THEN None ELSE cur[f]]
  /\ dur' = [f \in Files |-> IF f \in {ChunkFile(i) : i \in gone}
                             THEN dur[f] \cup {None} ELSE dur[f]]

ResumeFromDisk(unreadable) ==
  /\ pc = "resume"
  /\ completed' = {i \in ChunksOf(offer) \ unreadable : cur[ChunkFile(i)] = offer}
  /\ \E gone \in SUBSET Stale(unreadable) : Unlink(gone)
  /\ pc' = "download"
  /\ UNCHANGED <<offer, first, mixed, todo, runs>>

(* onChunk writes a verified chunk and counts it when WriteFile succeeds.  *)
StoreChunk(i) ==
  /\ pc = "download"
  /\ i \in ChunksOf(offer) \ completed
  /\ \/ Write(ChunkFile(i), "download") /\ completed' = completed \cup
                                            (IF todo = None THEN {} ELSE {i})
     \/ todo = ChunkFile(i) /\ todo' = None /\ UNCHANGED <<pc, cur, dur, completed>>
  /\ UNCHANGED <<offer, first, mixed, runs>>

DownloadDone ==
  /\ pc = "download"
  /\ todo = None
  /\ completed = ChunksOf(offer)
  /\ pc' = "verify"
  /\ UNCHANGED <<offer, first, mixed, cur, dur, todo, completed, runs>>

(* verifySnapshotHash reads the files back: all there, all of this offer,  *)
(* and an offer whose chunk hashes add up to its snapshot hash.            *)
HashAgrees == /\ offer \in Genuine
              /\ \A i \in ChunksOf(offer) : cur[ChunkFile(i)] = offer

VerifyHash ==
  /\ pc = "verify"
  /\ SkipVerifyHash \/ HashAgrees
  /\ pc' = "meta.json"
  /\ UNCHANGED <<offer, first, mixed, cur, dur, todo, completed, runs>>

(* Mutant: the sentinel is written before meta.json.                       *)
SentinelFirst ==
  /\ \/ pc = "meta.json" /\ Write(Sentinel, "fsync")
     \/ pc = "fsync" /\ FsyncDir /\ pc' = "sentinel" /\ UNCHANGED <<cur, todo>>
     \/ pc = "sentinel" /\ Write(MetaJSON, "fsyncLast")
     \/ pc = "fsyncLast" /\ FsyncDir /\ pc' = "done" /\ UNCHANGED <<cur, todo>>
  /\ UNCHANGED <<offer, first, mixed, completed, runs>>

(* writeMeta: meta.json, FsyncDir, .complete, FsyncDir.                    *)
WriteMeta ==
  /\ \/ pc = "meta.json" /\ Write(MetaJSON, "fsync")
     \/ pc = "fsync" /\ FsyncDir /\ pc' = "sentinel" /\ UNCHANGED <<cur, todo>>
     \/ pc = "sentinel" /\ Write(Sentinel, "fsyncLast")
     \/ pc = "fsyncLast" /\ FsyncDir /\ pc' = "done" /\ UNCHANGED <<cur, todo>>
  /\ UNCHANGED <<offer, first, mixed, completed, runs>>

(* Any step may fail (mkdir, write, fsync, download, hash mismatch, ctx)   *)
(* and the process may be killed: the run ends and the files stay.         *)
RunEnds ==
  /\ pc \in Stages
  /\ pc' = "idle" /\ todo' = None /\ completed' = {}
  /\ UNCHANGED <<offer, first, mixed, cur, dur, runs>>

PowerLoss ==
  /\ cur' \in {d \in [Files -> Offers \cup {None}] : \A f \in Files : d[f] \in dur[f]}
  /\ dur' = [f \in Files |-> {cur'[f]}]
  /\ pc' = "idle" /\ todo' = None /\ completed' = {}
  /\ UNCHANGED <<offer, first, mixed, runs>>

-----------------------------------------------------------------------------
Next == \/ \E o \in Offers : StartRun(o)
        \/ PrepareMetadata
        \/ SeedChunk0
        \/ \E unreadable \in SUBSET AllChunks : ResumeFromDisk(unreadable)
        \/ \E i \in AllChunks : StoreChunk(i)
        \/ DownloadDone
        \/ VerifyHash
        \/ WriteMeta
        \/ RunEnds
        \/ PowerLoss

Spec == Init /\ [][Next]_vars

-----------------------------------------------------------------------------
(* Every file of the directory is there and belongs to one offer, one that *)
(* passes the hash check unless the check is switched off.                 *)
CompleteFor(o) ==
  /\ o \in Genuine \/ SkipVerifyHash
  /\ \A f \in {ChunkFile(i) : i \in ChunksOf(o)} \cup {Metadata, MetaJSON} : cur[f] = o

(* "a crash can never leave the sentinel present alongside a torn          *)
(* predecessor" (session.go:482-484): what the importer (import.go:121),   *)
(* the parallel importer and the server take .complete to mean.            *)
SentinelImpliesComplete ==
  cur[Sentinel] # None => \E o \in Offers : CompleteFor(o)

(* It does mean that as long as every run of the height finds the same     *)
(* offer: failures, kills and power losses at any step included.           *)
SentinelSoundOneOffer == ~mixed => SentinelImpliesComplete

(* A run that reports success leaves a directory that is complete for its  *)
(* offer and stays so through a power loss, whatever earlier runs, with    *)
(* whatever offers, left behind.                                           *)
DoneIsDurable ==
  pc = "done" => /\ CompleteFor(offer)
                 /\ cur[Sentinel] # None
                 /\ \A f \in Files : dur[f] = {cur[f]}
=============================================================================
