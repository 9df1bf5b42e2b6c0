--------------------------- MODULE SnapshotServer ---------------------------
(***************************************************************************)
(* `malcom snapshot serve` (internal/snapserve, and the serve side of      *)
(* internal/statesync/reactor.go).  A catalog goroutine scans a root of    *)
(* snapshot directories, again at every tick and every SIGHUP, and hands   *)
(* the reactor a new immutable Store when the fingerprint changed; the     *)
(* reactor's handlers answer from the Store they loaded, reading the chunk *)
(* files at that time.  The directories change under both.  With an        *)
(* explicit list of directories (static mode) the one scan is strict.      *)
(*                                                                         *)
(* A snapshot stands for its hash, in meta.json, for its metadata, in      *)
(* metadata.bin, and for its chunks.  The verify modes are the two that    *)
(* hash the chunks: the default compares them with the hash alone, the     *)
(* other one also with the hashes in metadata.bin.                         *)
(***************************************************************************)
EXTENDS Integers, FiniteSets

CONSTANTS
  NumDirs,       \* subdirectories the root may hold, in ReadDir's order
  Snaps, NoSnap,
  Keys, KeyOf,   \* (height, format), and that of each snapshot
  SizeOf,        \* the number of chunks and the length of the metadata
  Ours,          \* the snapshots of the served chain
  None,          \* no catalogue entry
  MaxChanges,    \* bound: changes of the root
  MaxFaults,     \* bound: reads that fail
  MaxHups        \* bound: SIGHUPs

Dirs == 1 .. NumDirs

(* Directory, hash and metadata of a snapshot in the catalogue.            *)
Entries == Dirs \X Snaps \X Snaps

ASSUME ServerConstants ==
  /\ NumDirs \in Nat /\ NoSnap \notin Snaps
  /\ KeyOf \in [Snaps -> Keys] /\ SizeOf \in [Snaps -> Nat]
  /\ Ours \subseteq Snaps
  /\ None \notin Entries
  /\ MaxChanges \in Nat /\ MaxFaults \in Nat /\ MaxHups \in Nat

VARIABLES
  root,        \* what each directory holds
  static,      \* explicit -snapshot directories, not a watched root
  periodic,    \* RescanInterval > 0
  perChunk,    \* the verify mode is VerifyPerChunkHash
  phase,       \* of RunServe
  cancelled,   \* ctx is cancelled
  scan,        \* what the goroutine that scans is doing
  todo,        \* directories the scan has still to look at
  cand,        \* metadata.bin and meta.json of the first of them, once read
  loaded,      \* the Store being built: the entry of each key
  provider,    \* the Store the reactor answers from
  fingerp,
  trigger,     \* the catalog's trigger channel is full
  req,         \* the catalogue entry a chunk request has found
  misfits,     \* history: the last answer's entry, if it was not stale and the
               \* chunk is not of the advertised hash or metadata
  stale,       \* history: entries whose chunks changed after they were loaded
  announced,   \* history: a SIGHUP came after the last change and read error
  changes, faults, hups

scanVars  == <<scan, todo, cand, loaded>>
storeVars == <<provider, fingerp>>
modeVars  == <<static, periodic, perChunk>>
runVars   == <<modeVars, phase, cancelled>>
sigVars   == <<trigger, hups>>
reqVars   == <<req, misfits>>
diskVars  == <<root, stale, changes>>
vars == <<scanVars, storeVars, runVars, sigVars, reqVars, diskVars, announced, faults>>

Stores  == [Keys -> Entries \cup {None}]
Some    == Snaps \cup {NoSnap}
Content == [complete : BOOLEAN, bin : Some, meta : Some, chunks : Some]
Empty   == [complete |-> FALSE, bin |-> NoSnap, meta |-> NoSnap, chunks |-> NoSnap]
NoCand  == [bin |-> NoSnap, meta |-> NoSnap]
EmptyStore == [k \in Keys |-> None]
NoRequest  == {}

TypeOK ==
  /\ root \in [Dirs -> Content]
  /\ static \in BOOLEAN /\ periodic \in BOOLEAN /\ perChunk \in BOOLEAN /\ cancelled \in BOOLEAN
  /\ phase \in {"scanning", "starting", "serving", "draining", "stopped"}
  /\ scan \in {"idle", "metadata", "json", "chunks", "off"}
  /\ todo \in SUBSET Dirs
  /\ cand \in [bin : Some, meta : Some]
  /\ loaded \in Stores /\ provider \in Stores
  /\ fingerp \in SUBSET Snaps
  /\ trigger \in BOOLEAN
  /\ req \in SUBSET Entries
  /\ misfits \in SUBSET Entries /\ stale \in SUBSET Entries
  /\ announced \in BOOLEAN
  /\ changes \in Nat /\ faults \in Nat /\ hups \in Nat

(* At the start a directory is empty or complete; what a broken-off fetch  *)
(* leaves comes about by Refetch, before the first scan too.               *)
Complete(s) == [complete |-> TRUE, bin |-> s, meta |-> s, chunks |-> s]

Init ==
  /\ root \in [Dirs -> {Empty} \cup {Complete(s) : s \in Snaps}]
  /\ static \in BOOLEAN /\ periodic \in BOOLEAN /\ perChunk \in BOOLEAN
  /\ static => ~periodic
  /\ phase = "scanning" /\ cancelled = FALSE
  /\ scan = "idle" /\ todo = {} /\ cand = NoCand
  /\ loaded = EmptyStore /\ provider = EmptyStore /\ fingerp = {}
  /\ trigger = FALSE
  /\ req = NoRequest /\ misfits = {}
  /\ stale = {} /\ announced = FALSE
  /\ changes = 0 /\ faults = 0 /\ hups = 0

-----------------------------------------------------------------------------
(* The scan: LoadStore over the given directories, LoadStoreFromRoot over  *)
(* the entries the root has when ReadDir is called.                        *)
Present == {d \in Dirs : root[d] # Empty}
StartScan == /\ scan' = "metadata"
             /\ todo' = IF static THEN Dirs ELSE Present
             /\ loaded' = EmptyStore
             /\ UNCHANGED <<cand, storeVars, runVars, reqVars, diskVars>>

InitialScan == /\ phase = "scanning" /\ scan = "idle"
               /\ StartScan
               /\ UNCHANGED <<sigVars, announced, faults>>

Looping == ~static /\ phase \in {"serving", "draining"} /\ scan = "idle"

PeriodicScan == /\ Looping /\ periodic
                /\ StartScan
                /\ UNCHANGED <<sigVars, announced, faults>>

TriggeredScan == /\ Looping /\ trigger
                 /\ trigger' = FALSE
                 /\ StartScan
                 /\ UNCHANGED <<hups, announced, faults>>

Fault == faults < MaxFaults /\ faults' = faults + 1 /\ announced' = FALSE

(* The root cannot be read: at the start that ends the program, later the  *)
(* prior catalogue stays and the trigger is used up.                       *)
RootUnreadable ==
  /\ \/ phase = "scanning" /\ scan = "idle" /\ ~static
     \/ Looping /\ (periodic \/ trigger)
  /\ Fault
  /\ phase' = IF phase = "scanning" THEN "stopped" ELSE phase
  /\ trigger' = FALSE
  /\ UNCHANGED <<scanVars, storeVars, modeVars, cancelled, hups, reqVars, diskVars>>

First == CHOOSE d \in todo : \A e \in todo : d <= e

(* Mutant: a static server skips what it cannot load.                      *)
RefuseQuietly == /\ scan' = "metadata"
                 /\ todo' = todo \ {First} /\ cand' = NoCand
                 /\ UNCHANGED <<loaded, phase>>

(* A directory that does not load: skipped in a watched root, the end of   *)
(* the program when the operator named it.                                 *)
Refuse == IF static
          THEN phase' = "stopped" /\ scan' = "off" /\ UNCHANGED <<todo, cand, loaded>>
          ELSE /\ scan' = "metadata"
               /\ todo' = todo \ {First} /\ cand' = NoCand
               /\ UNCHANGED <<loaded, phase>>

ScanStep == UNCHANGED <<storeVars, modeVars, cancelled, sigVars, reqVars, root, changes>>

(* loadOne: .complete and metadata.bin ...                                 *)
ReadMetadata ==
  /\ scan = "metadata" /\ todo # {}
  /\ LET c == root[First]
     IN  \/ /\ c.complete /\ c.bin # NoSnap
            /\ cand' = [cand EXCEPT !.bin = c.bin]
            /\ scan' = "json"
            /\ UNCHANGED <<todo, loaded, phase, announced, faults>>
         \/ /\ ~c.complete \/ c.bin = NoSnap
            /\ Refuse
            /\ UNCHANGED <<announced, faults>>
         \/ Fault /\ Refuse
  /\ UNCHANGED stale /\ ScanStep

(* ... and meta.json, whose counts must be those of metadata.bin ...       *)
CountsAgree(j) == j # NoSnap /\ SizeOf[j] = SizeOf[cand.bin]

ReadMetaJSON ==
  /\ scan = "json"
  /\ LET j == root[First].meta
     IN  \/ /\ CountsAgree(j)
            /\ cand' = [cand EXCEPT !.meta = j]
            /\ scan' = "chunks"
            /\ UNCHANGED <<todo, loaded, phase, announced, faults>>
         \/ /\ ~CountsAgree(j)
            /\ Refuse
            /\ UNCHANGED <<announced, faults>>
         \/ Fault /\ Refuse
  /\ UNCHANGED stale /\ ScanStep

(* Mutant: the chunks are not hashed.                                      *)
Trusts(c) == c.meta \in Ours /\ loaded[KeyOf[c.meta]] = None

(* ... then the chunk files are read and hashed (verifyChunks), and only   *)
(* the first directory with a (height, format) of our chain is taken.  By  *)
(* default metadata.bin's own hashes are not looked at.                    *)
Loads(c) == /\ root[First].chunks = c.meta
            /\ perChunk => root[First].chunks = c.bin
            /\ c.meta \in Ours
            /\ loaded[KeyOf[c.meta]] = None

CheckChunks ==
  /\ scan = "chunks"
  /\ \/ /\ Loads(cand)
        /\ LET e == <<First, cand.meta, cand.bin>>
           IN  /\ loaded' = [loaded EXCEPT ![KeyOf[cand.meta]] = e]
               /\ stale' = stale \ {e}
        /\ todo' = todo \ {First}
        /\ scan' = "metadata" /\ cand' = NoCand
        /\ UNCHANGED <<phase, announced, faults>>
     \/ ~Loads(cand) /\ Refuse /\ UNCHANGED <<stale, announced, faults>>
     \/ Fault /\ Refuse /\ UNCHANGED stale
  /\ ScanStep

Listed(store) == {store[k] : k \in Keys} \ {None}

(* storeFingerprint: chain, height, format, chunks and hash, not the       *)
(* directory.                                                              *)
StoreFingerprint(store) == {e[2] : e \in Listed(store)}

(* The end of a scan.  The first Store goes to the reactor in any case; an *)
(* interrupt during the first scan ends the program.  A later one is       *)
(* handed over (SetOnStore) when its fingerprint differs from the last.    *)
Publish ==
  /\ scan = "metadata" /\ todo = {}
  /\ scan' = "idle" /\ loaded' = EmptyStore
  /\ fingerp' = StoreFingerprint(loaded)
  /\ IF phase = "scanning"
     THEN /\ provider' = loaded
          /\ phase' = IF cancelled /\ ~static THEN "stopped" ELSE "starting"
     ELSE /\ provider' = IF fingerp' # fingerp THEN loaded ELSE provider
          /\ UNCHANGED phase
  /\ UNCHANGED <<todo, cand, modeVars, cancelled, sigVars, reqVars, diskVars,
                 announced, faults>>

(* loop returns when it finds ctx done, between two scans.                 *)
LoopEnds ==
  /\ scan = "idle" /\ cancelled /\ phase \in {"serving", "draining"}
  /\ scan' = "off"
  /\ UNCHANGED <<todo, cand, loaded, storeVars, runVars, sigVars, reqVars, diskVars,
                 announced, faults>>

-----------------------------------------------------------------------------
(* RunServe.  Between the first scan and the start of the loop the p2p     *)
(* stack is set up; any part of that may fail.                             *)
RunServeStep == UNCHANGED <<scanVars, storeVars, modeVars, sigVars, reqVars,
                            diskVars, announced, faults>>

StartServing == /\ phase = "starting" /\ phase' = "serving"
                /\ UNCHANGED cancelled
                /\ RunServeStep

StartFails == /\ phase = "starting" /\ phase' = "stopped"
              /\ UNCHANGED cancelled
              /\ RunServeStep

Interrupt == /\ phase # "stopped" /\ ~cancelled
             /\ cancelled' = TRUE
             /\ UNCHANGED phase
             /\ RunServeStep

BeginShutdown == /\ phase = "serving" /\ cancelled
                 /\ phase' = "draining"
                 /\ UNCHANGED cancelled
                 /\ RunServeStep

(* The drain window is over, or a second signal forces the exit: what was  *)
(* in memory is gone.                                                      *)
Stopped == /\ phase # "stopped" /\ cancelled
           /\ phase' = "stopped"
           /\ scan' = "off" /\ todo' = {} /\ cand' = NoCand
           /\ loaded' = EmptyStore /\ provider' = EmptyStore /\ fingerp' = {}
           /\ trigger' = FALSE /\ req' = NoRequest
           /\ UNCHANGED <<modeVars, cancelled, hups, misfits, diskVars, announced, faults>>

(* Mutant: a trigger that comes during a scan is taken for part of it.     *)
TriggerWhenIdle == IF scan = "idle" THEN TRUE ELSE trigger

(* Trigger: the channel holds one request, whatever the loop is doing.     *)
Trigger == TRUE

(* A SIGHUP reaches the forwarding goroutine, possibly for several that    *)
(* were sent; it changes nothing while there is no catalog to trigger.     *)
Hup ==
  /\ hups < MaxHups /\ hups' = hups + 1
  /\ ~static /\ phase \in {"serving", "draining"}
  /\ announced' = (phase = "serving")
  /\ trigger' = Trigger
  /\ UNCHANGED <<scanVars, storeVars, runVars, reqVars, diskVars, faults>>

-----------------------------------------------------------------------------
(* Chunk requests.  A handler loads the Store first, then reads the file.  *)
(* A request in drain mode, or for a key the Store lacks, is answered      *)
(* Missing, and one beyond the rate limits is dropped: no state changes.   *)
Handler == UNCHANGED <<scanVars, storeVars, runVars, sigVars, diskVars, announced, faults>>

ChunkRequest(k) ==
  /\ req = NoRequest
  /\ phase = "serving"
  /\ provider[k] # None
  /\ req' = {provider[k]} /\ misfits' = {}
  /\ Handler

(* LoadChunk reads the file under the path the Store remembers.  An index  *)
(* past the end, and a read that fails, are answered Missing.              *)
LoadChunk ==
  /\ req # NoRequest /\ phase # "stopped"
  /\ req' = NoRequest
  /\ \/ UNCHANGED misfits
     \/ \E e \in req :
          LET c == root[e[1]].chunks
          IN  misfits' = IF c \in Snaps /\ {c} # {e[2], e[3]} /\ e \notin stale
                         THEN {e} ELSE {}
  /\ Handler

-----------------------------------------------------------------------------
(* The root: fetches, and the operator.                                    *)
RootStep == /\ phase # "stopped"
            /\ announced' = FALSE
            /\ UNCHANGED <<scanVars, storeVars, runVars, sigVars, reqVars, faults>>
Change   == changes < MaxChanges /\ changes' = changes + 1 /\ RootStep

(* The chunks of d become others under the entries in use.                 *)
InUse == Listed(loaded) \cup Listed(provider) \cup req
Outdates(d) == stale' = stale \cup {e \in InUse : e[1] = d}

(* A fetch into a new directory.                                           *)
Place(d, s) == /\ root[d] = Empty
               /\ root' = [root EXCEPT ![d] = [Complete(s) EXCEPT !.complete = FALSE, !.meta = NoSnap]]
               /\ UNCHANGED stale
               /\ Change

(* A fetch of another offer of the same height, in the same directory: the *)
(* sentinel stays, metadata.bin is replaced, then the chunks.              *)
Refetch(d, s) == /\ root[d].complete /\ KeyOf[root[d].meta] = KeyOf[s]
                 /\ root[d].bin # s
                 /\ root' = [root EXCEPT ![d].bin = s]
                 /\ UNCHANGED stale
                 /\ Change

RefetchChunks(d) == /\ root[d].chunks # root[d].bin
                    /\ root' = [root EXCEPT ![d].chunks = root[d].bin]
                    /\ Outdates(d)
                    /\ UNCHANGED changes /\ RootStep

(* The end of a fetch: meta.json, then the sentinel.                       *)
FetchDone(d) ==
  /\ root[d] # Empty /\ root[d].chunks = root[d].bin
  /\ root[d] # Complete(root[d].bin)
  /\ root' = [root EXCEPT ![d] = Complete(@.bin)]
  /\ UNCHANGED <<stale, changes>> /\ RootStep

Remove(d) == /\ root[d] # Empty
             /\ root' = [root EXCEPT ![d] = Empty]
             /\ Outdates(d)
             /\ Change

Move(d, e) == /\ root[d] # Empty /\ root[e] = Empty
              /\ root' = [root EXCEPT ![d] = Empty, ![e] = root[d]]
              /\ Outdates(d)
              /\ Change

-----------------------------------------------------------------------------
Scanner == \/ InitialScan \/ PeriodicScan \/ TriggeredScan \/ RootUnreadable
           \/ ReadMetadata \/ ReadMetaJSON \/ CheckChunks \/ Publish \/ LoopEnds

Next == \/ Scanner
        \/ StartServing \/ StartFails \/ Interrupt \/ BeginShutdown \/ Stopped
        \/ Hup
        \/ LoadChunk
        \/ \E k \in Keys : ChunkRequest(k)
        \/ \E d \in Dirs : \/ RefetchChunks(d) \/ FetchDone(d) \/ Remove(d)
                           \/ \E s \in Ours : Place(d, s) \/ Refetch(d, s)
                           \/ \E e \in Dirs : Move(d, e)
        \/ phase = "stopped" /\ UNCHANGED vars

Spec == Init /\ [][Next]_vars

(* The scanning goroutine and the start-up are never held up for ever, and *)
(* of the ready cases select takes each one sooner or later.               *)
FairSpec == /\ Spec
            /\ WF_vars(InitialScan \/ ReadMetadata \/ ReadMetaJSON \/ CheckChunks \/ Publish)
            /\ SF_vars(PeriodicScan) /\ SF_vars(TriggeredScan)
            /\ WF_vars(StartServing)

-----------------------------------------------------------------------------
(* A chunk sent under a (height, format) is one of the hash and the        *)
(* metadata that the catalogue of that request advertised, unless the      *)
(* chunks changed after they were loaded (store.go LoadChunk reads by      *)
(* path; ChunkRequest names no hash).  The one exception: in the default   *)
(* verify mode a directory whose metadata.bin is another offer's loads,    *)
(* and is advertised with it (store.go verifyChunks).                      *)
AnswerFits == \A e \in misfits : ~perChunk /\ e[2] # e[3]

(* "explicit -snapshot flags represent operator intent": a static server   *)
(* that has started serves every directory it was given, verified and      *)
(* without duplicates (store.go LoadStore).                                *)
StaticServesAll ==
  static /\ phase \in {"starting", "serving", "draining"} =>
    {e[1] : e \in Listed(provider)} = Dirs

(* What a watched root should be advertising, read at one moment: of each  *)
(* key of our chain the first directory that is complete.                  *)
Loadable(k) == {d \in Dirs : /\ root[d].complete
                             /\ root[d].chunks = root[d].meta
                             /\ SizeOf[root[d].bin] = SizeOf[root[d].meta]
                             /\ perChunk => root[d].bin = root[d].meta
                             /\ root[d].meta \in Ours
                             /\ KeyOf[root[d].meta] = k}
Reference(k) == IF Loadable(k) = {} THEN NoSnap
                ELSE root[CHOOSE d \in Loadable(k) : \A e \in Loadable(k) : d <= e].meta
Advertised(k) == IF provider[k] = None THEN NoSnap ELSE provider[k][2]

Over == static \/ cancelled \/ phase = "stopped"
Refreshed == <>[](periodic \/ announced)

(* Once the root stays as it is, a watching server comes to advertise      *)
(* exactly what the root holds, by its ticks or after a SIGHUP, however    *)
(* scans, triggers, changes and read errors were interleaved before        *)
(* (catalog.go Trigger, Rescan, loop).                                     *)
ReloadConverges ==
  Refreshed => <>[](Over \/ \A k \in Keys : Advertised(k) = Reference(k))

=============================================================================
