# Malcom: TLA+ models, model checking and proofs

Malcom fetches, serves, imports and places state-sync snapshots of Cosmos
chains. It speaks the CometBFT state-sync protocol itself: a fetch finds peers,
walks down through snapshot heights until somebody serves a chunk 0 that fits
its metadata, downloads the other chunks from many peers at once, and leaves a
directory that `serve`, `import` and `bootstrap` read later. This directory
holds TLA+ modules of those parts, TLC configurations that check them on small
instances, and TLAPS proofs of the properties that matter most for every
instance. `PROJECT.json` records for each definition the source lines it models,
the runs with their properties, a plausible defect each property detects, the
hazards of the code, the theorems and the findings.

## 1. Inventory

### Fetch (internal/snapfetch, internal/connect, internal/durable)

| Component | State | Operations | Interacts with |
|---|---|---|---|
| Height walk (`walk.go`, `offerset.go`) | queue of heights, current target, offers by key, asked pairs, jump count | warm-up, next target, ask, jump up, accept, ban, deadline | mux (offers, chunk 0), manager (ban), peer watch |
| Chunk scheduler (`download.go`) | pending, completed, in-flight entries, per-peer strikes, slots and declines | resume scan, dispatch, chunk answers, connect and removal events, timeout tick | switch, manager (pin, ban), chunk files, `OnChunkReady` |
| Snapshot directory (`session.go`, `runfetch.go`, `durable.go`) | metadata.bin, chunk files, meta.json, `.complete`; what of them is durable | prepare, seed chunk 0, resume, store, verify hash, write meta | read later by serve, import, inspect |
| Connection manager (`connect/manager.go`) | pins, bans, backoff schedule, dial failures | tick, redial, auto-ban, warm fill, Pin, Ban, Kick | switch, address book, ban list |
| Peer watch (`peerwatch.go`) | first-seen times, useful and out-of-range marks | connect, disconnect, offer, grace tick, ban | switch, book, manager |
| Event mux (`eventmux.go`), reactor events (`statesync/reactor.go`) | bounded channels per subscriber | fan out, drop when full | everything above |

One goroutine each runs the walk, then the scheduler; the manager, the peer
watch, the mux, every dial and every peer connection have their own. They share
the switch's peer set, the manager's maps (one mutex, released between the
parts of a tick), and lossy channels. Hard: answers that arrive after their
request has expired or its height was left; events that are dropped; bans and
disconnects between two looks at the peer set; a crash between two file
operations; a re-run over the files of another offer.

Correct means: no chunk is forgotten or counted twice; what counts as stored is
on disk and verified; a finished run is durable; `.complete` vouches for the
whole directory; the walk ends, inside its window; an honest peer is neither
banned nor a reason for the download to stall; a pinned peer is redialed within
its budget and never left in limbo.

### Serve (internal/snapserve, internal/statesync)

| Component | State | Operations | Interacts with |
|---|---|---|---|
| Catalog and store (`catalog.go`, `store.go`) | fingerprint, current Store, trigger channel | scan, verify, publish, trigger, loop | the root directory, the reactor |
| Server (`runserve.go`, `cli/snapshotserve`) | phase: scanning, starting, serving, draining | start, SIGHUP, interrupt, drain | catalog, reactor |
| Reactor, serve side (`reactor.go`) | provider, rate limiters with tombstones, drain flag | list, chunk request, add and remove peer, sweep | provider swaps, peers |

Hard: the directories change while they are scanned and while chunks are read
from them; triggers that come during a scan; a swap the fingerprint does not
see; limiters swept while their peer reconnects. Correct means: what is sent is
what was advertised; the catalogue converges to the directory; a static server
serves everything it was told to or does not start.

### Import, diff, bootstrap

| Component | State | Operations |
|---|---|---|
| Chunk sources (`chunkring.go`, `tailread.go`, `prefetch.go`, `chunkreader.go`) | bounded ring with reader cursors and pins; ready flags | write, read, pin, evict, close, fail |
| Parallel importer (`parallel.go`, `importer_par.go`, `ingester.go`) | stages, workers, first error | stream, dispatch stores, ingest, commit |
| Sequential importer, index (`importer.go`, `import.go`, `index.go`) | item stream, node stack | import, index, resume |
| Pipelined fetch (`cli/snapshotfetch/pipeline.go`) | tailing source, import goroutine | download ready, chunk ready, finalize |
| Diff and apply (`snapshotdiff`) | diff file format, merged streams | diff, apply, verify |
| Bootstrap, heal (`cli/bootstrap`) | chain home, marker file | init, patch, place, bootstrap-state, heal |
| Ban list, served list (`helpers`) | persisted maps with expiry | add, has, save, load |

Correct means: a store in the database is the one in the stream, whatever threads
did; the import ends, and an error is reported as what it was; a diff applied to
its base gives the target; the marker of a home vouches for all of it, no
failure loses the imported database, and heal repairs every marked home whose
application.db is whole.

Hard: everyone waiting on everyone in the ring; a reader created after its
bytes were evicted; two goroutines that cancel each other; crashes between the
steps of bootstrap and heal.

## 2. Modules

| Module | Models | Notes |
|---|---|---|
| `ChunkDelivery` | what the download promises | abstract: a set of verified chunks that only grows for one offer, and success only with all of them |
| `ChunkScheduler` | `download.go` | implements `ChunkDelivery` (refinement mapping `Have`, `Status`) |
| `SnapshotDir` | `session.go` (files), `runfetch.go`, `durable.go` | the directory over several runs, crashes and power losses |
| `Walk` | `walk.go`, `offerset.go` | |
| `ConnectManager` | `connect/manager.go`, the calls of its users | |
| `SnapshotServer` | `snapserve`, serve side of `reactor.go`, signals of the CLI | |
| `Reactor` | peer events, offers and token buckets of `statesync/reactor.go` | |
| `PeerWatch` | `peerwatch.go`, `eventmux.go` | extends `Reactor` |
| `ImportStream` | `parallel.go` (stages, workers), `chunkring.go`, `snapproto.go` | its source of bytes is left open |
| `FetchImport` | `tailread.go`, `prefetch.go`, `cli/snapshotfetch` | extends `ImportStream`, closes its source |
| `WaveImport` | `importer.go`, `importer_par.go`, the writer in `parallel.go` | compared with a reference computed from the stream |
| `SnapshotDiff` | `diff.go`, `apply.go`, `verify.go` | compared with the target snapshot |
| `StateSyncDiff` | `statesync_diff.go`, `statesync_apply.go` | extends `SnapshotDiff` |
| `Bootstrap` | `cli/bootstrap` | the daemon is external |
| `*_proofs` | theorems about the module they extend | `Durable_proofs` is about `SnapshotDir` and `Bootstrap`, `Fetch_proofs` about `Walk` and `FetchImport`: their variables and definitions have names of their own |
| `MC*` | constants for TLC | |

How they fit: `Walk` ends with the offer `ChunkScheduler` starts from, whose
requests for chunk 0 may still be answered (`WalkLeftovers`). `SnapshotDir` is
the same download seen from the file system: the scheduler's `disk` tells a
chunk file of this offer from another one's, `SnapshotDir` adds the other files,
their order and their durability. `ConnectManager` sees the callers of Pin and
Ban as split steps, and the scheduler and the walk see the manager's and the
peer watch's bans as steps that can come at any time. `SnapshotServer` scans
directories of the kinds `SnapshotDir` can leave behind. `FetchImport` is the
composition of a download, seen through its callbacks, with the import that
tails it: that every stored chunk is announced exactly once is what
`ChunkScheduler` guarantees it (`ReadyExactlyOnce`). `ImportStream` treats the
import of a store as items taken from a reader; `WaveImport` looks inside one.
`PeerWatch` is the other side of the evictions that `ChunkScheduler`, `Walk` and
`ConnectManager` see. `Bootstrap` starts from the application.db an import made.

**ChunkScheduler.** A handler of the event loop is one action; the dispatch
loop it ends with runs one pending chunk per step (`DispatchRequest`,
`DispatchQueueFull`, `DispatchVanished`, `DispatchReturn`), because the peer set
may change between two iterations. `OnChunk...` are the ways an answer ends:
duplicate, declined (`Missing`), wrong hash, failing write, stored. Every answer
gives back a slot of its sender, floored at zero, as `removeInflight` does, also
if its entry has expired. `TimeoutTick` is expiry, reconciliation with the
switch and the give-up of probing peers in one handler. `Begin` is the resume
scan over files of this or another offer; `Restart` is a crash or a re-run, for
the same or another offer of the height. `asked` counts the answers a peer may
still send.

**SnapshotDir.** A file is known by the offer its content belongs to. `cur` is
what a process reads, `dur` the contents a power loss may leave. A rename makes
both old and new possible until the directory is fsynced; an unlink likewise.
`mixed` records that some run found another offer of the same height than the
first one.

**Walk.** A key is a height and a snapshot; the metadata stands for its chunk
hash 0, and `Meta[p][k]` is what peer p advertises, which need not be what
another one does; offerSet keeps the first. `RecvChunk` is split by outcome: ignored (below the target, above the window, empty), accepted, ban.

**ConnectManager.** A tick is `TickStart` (copy of the pins under the lock), one
step per copied peer, `TickFillStart`, `TickFill`; Pin, Ban and dial results
fall in between. Time is counted in ticks; a Kick is a tick that takes none.
`up` is a history variable: how long the peer really has been connected.

**SnapshotServer.** A directory's metadata.bin, meta.json and chunks are three
contents, each known by its snapshot. A scan reads them in three steps
(`ReadMetadata`, `ReadMetaJSON`, `CheckChunks`) and the root changes in between.
The verify mode decides what the chunks are compared with: the hash in meta.json
(the default), or the hashes in metadata.bin as well. A refetch writes
metadata.bin first, then chunks, then meta.json (`Refetch`, `RefetchChunks`,
`FetchDone`), and may break off anywhere. A chunk request loads the Store first
and reads the file later, from the path that Store remembers. `misfits` and
`stale` (entries whose chunks changed after they were loaded) are history
variables for `AnswerFits`, `announced` for `ReloadConverges`.

**Reactor, PeerWatch.** A connection begins before AddPeer is called and
AddPeer may come after its end; both orders occur in CometBFT's switch. An event
goes through two bounded channels, each of which drops what does not fit. The
watch's goroutine handles an event or a tick at a time; a tick decides first
(`Tick`) and evicts later (`BanStop`, `BanForget`), and another goroutine may be
inside banPeer at the same time. A limiter is its tokens and the age of its
tombstone; the sweep reads the tombstone (`SweepLook`) and deletes the entry by
key (`SweepDelete`). `credit` is a bucket that no reconnect refreshes, `since`,
`offered`, `lostOffer`, `blurred`, `unseen` and `overtaken` record what the
properties speak of. Fetch and serve mode are two initial states.

**ImportStream, FetchImport.** Offsets are real and bytes are not: an item is
its kind and the offset where it ends. Stage 1 takes buffers from the prefetch
goroutine, writes them to the ring and scans them; a worker opens a reader for
its store, pulls bytes into a buffer, delivers items and moves its pin. The end
of a store reaches the worker through a listener goroutine (`SetEnd`) or through
the first item of the next store (`BoundaryEnds`). The tailing reader opens chunk
files in order as they become ready; a file that cannot be opened or decompressed
ends it with an error of its own (`PfBreaks`). `CancelFetch`, `FailTailing`,
`FinalErr` and `MapExitCode` are how either side's failure reaches the other and
the user. A downloaded snapshot whose hash does not match is an outcome of the
fetch of its own ("mismatch"). A store that fails leaves its ingester stuck only
with FastIngest.

**WaveImport.** A node is its height and version, a hash is "right" or "wrong".
The main thread builds frames and links children to parents, a dispatcher and
workers hash frames whose children are hashed, a writer sets entries, and one
more goroutine commits batches. Locks and channels of the code are separate
steps wherever another thread can come in between. Besides its node a leaf has an
f/ entry. With FastIngest it goes into a table of its own that is ingested at the
end; otherwise it is set in the batch (`SetFastSeq`, `SetFast`), by the main
thread also where, with WaveParallel, the writer sets the nodes. The batch has no
lock: if the writer has an entry in hand at that moment, the batch may lose or
garble either one (`Damaged`), and the history variable `raced` remembers that
the two were in set together.

**SnapshotDiff, StateSyncDiff.** Streams are sequences of items, names and keys
are numbers in their byte order, and `Rank` is the order of their encodings, in
which the length comes first. A step is a turn of a merge. `StopShort` ends
Compute by a crash or an error and leaves a file that lacks the records still in
buffers.

**Bootstrap.** The state is the home directory piece by piece, with application.db
"part" while it is copied, and "empty" when what is copied is a directory that is
not there: CloneTree makes the destination before it walks the source. `inPlace`
says that `--appdb` is the home's own data directory, which a wipe then empties
together with its meta.json and extension payloads (`ext`). A step is one of the
commands' steps, and `Stop` may come between any two. `wiped`, `halfWiped`, `flagOnly` and `flagHealed` record
what an operator asked for and thereby gave up.

## 3. Runs

| Run | Checks | Result |
|---|---|---|
| `sched_safety` | `TypeOK`, `NoChunkLost`, `ReadyExactlyOnce`, `HonestNeverBenched`, `Implements` | hold |
| `sched_liveness` | `HonestPeerCompletes` | holds |
| `dir` | `DoneIsDurable`, `SentinelSoundOneOffer` | hold |
| `walk` | `AcceptedInWindow`, `WalksDown`, `HonestKept`, `WalkBounded`, `WalkEnds` | hold |
| `mgr` | `TypeOK`, `RedialBudget`, `PinnedSettles`, `StableBeforeWipe` | hold |
| `peers` | `RateHeld`, `GraceHonoured`, `UsefulKept`, `UselessGoes` | hold |
| `serve` | `AnswerFits`, `StaticServesAll`, `ReloadConverges` | hold |
| `import` | `NothingNeededEvicted`, `SuccessIsWhole`, `CauseReported`, `EndsUnlessStranded` | hold |
| `import_stranded` | `ImportReturns` | violated: finding 1 |
| `wave` | `SameAsReference`, `HashedOnceChildrenFirst`, `StoreReturns` | hold |
| `diff` | `AppliedIsTarget`, `VerifyFaithful`, `SyncIsTarget`, `CommandsEnd` | hold |
| `bootstrap` | `MarkerMeansWhole`, `AppDBKept`, `HeightsAgree`, `SyncedBlocksKept`, `HealRecovers` | hold |

Every module has a type invariant. The runs list it where it says something the
other properties do not (the floor of the slot counts, the cap of the backoff);
the others hold on the same instances and serve as the starting point of proofs.

What the runs of the newer modules show:

- `peers`: useful peers stay, a reconnected peer gets its grace again, every
  useless peer goes, in spite of lost events; a server's rate limit survives
  reconnects. Each property names the one or two ways in which the code lets it
  slip (findings below), and no other way exists on the instance.
- `import`: the ring never drops bytes that are still to be read, stores take
  exactly their own items however their ends race with their readers, an
  interruption is reported only if there was one, and once the last chunk is
  there, a signal has come or either side has failed (`Ending`), the command ends
  unless stage 1 is stranded.
- `wave`: all interleavings of the threads produce the entries of the reference,
  which is computed from the stream alone, unless main thread and writer were in
  set together, which only WaveParallel without FastIngest allows; and no
  combination of full queues blocks the import.
- `diff`: for 452 pairs of snapshots a diff applied to its base gives the target,
  the verifier tells the truth about every output, also of a cut diff, and a
  state-sync diff cut by a crash is refused.
- `bootstrap`: over any sequence of commands, flags, failures and daemon starts
  the marker stands for a complete home, but for three named cases, and heal
  brings every marked home with a whole application.db back.

### Bounds, and why they are enough

- Scheduler: two peers, one of them honest, two chunks, one slot per peer, one
  restart, one connect, disconnect or eviction, limits of one or two. Two peers
  suffice for a chunk to be re-assigned while the first peer's answer is under
  way, and two chunks for dispatch to be blocked by one of them. `AskedCap`
  bounds the answers outstanding for one peer and chunk.
- Directory: three offers (two genuine ones with different numbers of chunks,
  one whose hashes do not add up), three runs. Three runs are a finished one, a
  failed one of another offer, and a third that finds what those left.
- Walk: window 3..5 with interval 3, offers at heights 2, 4, 5 and 6: a target,
  heights to jump to above and between targets, and heights outside the window
  on both sides. At height 4 the two peers advertise different metadata, so that
  the one whose offer comes second may be banned for a chunk that fits its own;
  at the other heights they agree. One change of the peer set.
- Manager: one peer, since no handler relates the schedules of two; budget and
  window of three ticks, so that counting, doubling, the cap and a broken window
  all happen. The theorems cover any number of peers.
- Server: two directories, two snapshots of one (height, format) and of one
  number of chunks, so that a broken-off refetch leaves a directory that mixes
  them and loads, and one of another chain; one change of the root with the steps
  of its fetch, both verify modes, one failing read, two SIGHUPs (the second one during the scan the first one started).
- Peers: one peer in the fetch mode, since the watch relates no two peers, two
  in the serve mode, where one peer's departure sweeps the other's limiter;
  channels of one event, so that every event can be dropped at either; a burst
  and a grace of two ticks. Connections, offers and requests are not bounded.
- Import: two streams, of two stores with an extension tail and of items that
  straddle buffers and chunks and end in a malformed one; two workers, a ring of
  five bytes in chunks of two, two chunk files, one failure, of a store or of a
  chunk file. The ring is smaller
  than two stores, so that stage 1, both workers and the prefetcher all have to
  wait for each other.
- Wave: five small stores (empty, a leaf, a tree older than the snapshot, two
  malformed ones) with and without WaveParallel and FastIngest, and a tree of five
  nodes with alternating versions for every combination but WaveParallel without
  FastIngest, whose damaged batches would multiply its states past minutes and
  which the small tree already shows; two workers, every queue of capacity one,
  one failing commit.
- Diff: snapshots over three keys, of which one has a longer encoding, up to two
  stores and two extensions; at most two records lost in buffers.
- Bootstrap: two heights, two failures or crashes, any number of commands.

The bounds are constants of the modules (`MaxRestarts`, `MaxChurn`, `MaxRuns`,
`MaxInbound`, `MaxChanges`, `MaxFaults`, `MaxHups`, `MaxLost`, `AskedCap`,
`StartFiles`, `Sweepers`); nothing else cuts the state space. Deadlock is checked
except in `import`, `wave`, `diff` and `bootstrap`, whose programs end: there the
liveness properties say that they end where they should.

### Fairness

- `ChunkScheduler!FairSpec`: the scheduler goroutine keeps running (weak
  fairness of dispatch, of the end of the loop); select picks among ready
  channels at random, so neither the ticker nor an honest peer's answer is
  passed over for ever, and pickPeer ranges over a Go map in random order
  (strong fairness). `InTime` is an assumption on the honest peer, not on the
  code: it answers before chunkTimeout. No fairness is assumed of other peers,
  of the network, or of the user.
- `Walk!FairSpec`: the walk's own goroutine, its deadlines included, keeps
  running. Offers and answers need never come.
- `ConnectManager!FairSpec`: the loop runs, each dial ends with some outcome
  (it has a timeout), and ticks that take time occur again and again in spite of
  kicks. Nothing says that a dial succeeds.
- `SnapshotServer!FairSpec`: scans and the start-up go on, and the loop's select
  does not ignore a tick or a trigger for ever. SIGHUPs are not assumed:
  `ReloadConverges` speaks of runs with a ticker, or with a SIGHUP after the
  last change.
- `PeerWatch!Spec`: time, the mux, the switch's calls of AddPeer and the watch's
  goroutine go on; its select passes over neither the ticker nor the channel for
  ever. Nothing is assumed of peers.
- `FetchImport!Spec`, `WaveImport!Spec`: each goroutine goes on when it can, one
  weak fairness per goroutine. The download itself has none: a fetch of silent
  peers runs until a signal ends it (runfetch.go:23-30). RunFetch returns once it
  is cancelled or all chunks are there, and nothing else is assumed of it; that an
  import which fails ends the command therefore rests on `CancelFetch`.
- `StateSyncDiff!Spec`: the one thread runs on.
- `Bootstrap!BootSpec`: a command that runs goes on, and the operator of a home that
  does not start runs `heal --force` again and again (strong fairness; the bound
  on faults lets one of them get through).

## 4. Proofs

Checked by `tlapm`, for every value of the constants that satisfies the ASSUMEs
of the modules. These only say what the configuration guarantees: limits are
natural numbers, at least one where the code replaces zero by a default, and the
sets of special values are disjoint. Of a snapshot stream they say that no item is
empty and that extensions are the tail: behind the first one come only extensions
or what neither stage recognises. Of two snapshots to be compared they say what
the SDK's writer and the diff's order rest on: stores come in the order of their
names and are not nameless, leaves of a store follow it in the order of their keys,
payloads follow their extension, extensions come last, and keys have an order of
their encodings besides.

| Theorem | States |
|---|---|
| `TypeCorrect` | `Spec => []TypeOK` of the scheduler |
| `SchedulerSafe` | no chunk lost, exact count, stored means verified on disk, announced exactly once, success means complete |
| `SchedulerImplementsDelivery` | the scheduler refines `ChunkDelivery` |
| `AnnouncedOnce` | `onChunkReady` once for each completed chunk |
| `HonestSafe` | a proven, honest peer is never benched |
| `SuccessIsDurable` | a run that reports success left a complete and durable directory |
| `SentinelSound` | `.complete` is sound as long as all runs of a height find one offer |
| `WalkSafe` | types, jump budget and number of heights tried |
| `WalkGoesDown` | strict descent, no expired height again |
| `AcceptsWhatWasAsked` | acceptance in the window, at the pinned height if there is one |
| `WalkKeepsHonest` | an honest peer is banned only over a key whose recorded metadata is an earlier offerer's and differs from its own |
| `ManagerTypeCorrect` | `Spec => []TypeOK` of the manager |
| `RedialsBounded` | types, backoff cap and redial budget of the manager |
| `WipedOnlyWhenStable` | the schedule is wiped only after the whole stability window, without inbound connections |
| `AnswersFit` | a chunk that is sent is of the hash and the metadata that were advertised, unless it changed since, or the default verify mode let another offer's metadata.bin pass |
| `StaticServerServesAll` | explicitly given directories are all served |
| `ReconnectGainsNothing` | no reconnect or sweep gives a peer more than one token bucket |
| `UsefulNeverEvicted` | a peer whose offer arrived is not evicted (action property) |
| `GraceNeverCut` | no eviction before the grace is over (action property) |
| `RingKeepsWhatIsNeeded` | the ring drops nothing that is still to be read, without wave decoding |
| `SuccessMeansWhole` | a successful import took every store to its last item; exit 0 means import and fetch are whole |
| `CauseIsReported` | the exit code names the cause: 130 a signal, 5 a failed fetch, 1 the import's own error or a hash mismatch |
| `HashedOnce` | the wave import hashes every frame once, after its children |
| `ImportSame` | a store imported by any interleaving of the threads has the entries the stream defines, f/ entries included, unless two threads were in set together, which needs WaveParallel without FastIngest |
| `DiffRoundTrip` | a whole leaf diff applied to its base gives the target's keys and values, store by store and in order, and its payloads |
| `VerifierExact` | the verifier of a leaf diff counts no difference exactly if all stores and extensions agree |
| `SyncRoundTrip` | an applied state-sync diff gives the target, and one that a crash cut short is refused |
| `MarkerIsHonest` | the marker stands for a complete home, unless a wipe was broken off, heal had its height from a flag alone, or `--overwrite` wiped an appdb that is in the home |
| `AppDBSurvives` | no failure loses application.db |
| `HeightsNeverDiverge` | state, signal and marker have the appdb's height |
| `BlocksNeedForce` | synced blocks go only with a flag (action property) |

**Scheduler.** `SafeInv` conjoins the properties with `FinishedCount` (at the
end doneCount is N): that success means completeness is not inductive by itself,
it follows from the exact count and the cardinality of the chunk set
(`FullCount`). Each action class has its lemma; what they share is that an entry
is only taken from `inflight` or `pending` by an action that puts the chunk into
another of the three places. The refinement maps each action to an abstract
step, or to a stutter when it leaves the set of verified files alone. `HonestInv`
adds that honest peers are tracked and not provisional: a strike needs a wrong
hash, a benching timeout a provisional peer.

**Directory.** `DirInv` adds to the types what each stage may rely on
(`StageInv`) and which rename is still waiting for its fsync (`TodoInv`). For the
sentinel it is not enough to speak of `cur`: after a power loss any combination
of the possible contents may appear, so `SentinelInv` is about `dur`: if the
sentinel may be there, every file it vouches for has become durable, because the
fsync that ends each write covers the whole directory. It needs `OneOffer` (all
possible contents are nothing or the one offer), hence the condition `~mixed`.

**Walk.** `QueueInv` relates the heights taken, the queue and the jumps
(`pops + Len(queue) = Len(Targets) + 2 * jumps`), from which the bound follows;
`TargetsGood` shows that the precomputed heights descend and stay in the window,
with lemmas on multiplication and division the provers do not have. For honest
peers `HonestInv` says that a pair is asked only of a peer that offered it, and
that what is recorded for a key is what one of its offerers advertises
(`FromOfferer`): a chunk that fits the metadata of its sender and not the recorded
one therefore points at another offerer.

**Manager.** `BackoffBounded` evaluates the doubling for its eleven possible
exponents. The window theorem needs `TimerInv` (a running stability timer
belongs to a pinned peer) and `WindowInv` (without inbound connections a peer
whose timer runs is not being dialed, and has really been connected as long as
the timer says): an old timer could otherwise survive a reconnect.

**Server.** A request loads the Store before it reads the file, and a scan reads
the metadata before the chunks, so what has to be carried along is that every
entry (of the published Store, of the Store a scan has in the making, of a request
under way) has the hash of its directory's chunks or is in `stale`, and in the
stricter verify mode has one snapshot's hash and metadata (`EntriesFit`). `StaticInv` counts the directories down: those already read are in
the Store in the making, because a static scan that refuses one does not start.

**Reactor and watch.** `RateHeld` alone is not inductive: a sweep deletes a limiter
on the strength of a tombstone it read earlier. `RateInv` says that a limiter
never holds more than the bucket no reconnect refreshes (`TokensCovered`), that
this bucket fills while a tombstone ages (`TombstoneFills`), so that what a sweep
deletes is full, and that a sweep decides only on peers whose AddPeer is not done
(`DecidedEarly`). For the churn loop the events are traced through both channels:
an offer is noted, queued or lost (`OfferKept`), a decided eviction is of a peer
not noted as useful (`PendingUseless`), and the count of ticks in `firstSeen` never
runs ahead of the connection unless a removal is still queued, was overtaken or
lost (`CountHonest`, `RemovalFollows`).

**Pipelined import.** `CauseInv` follows an error from where it arises (`s1err`,
`firstErr`, `imp`) to the exit code; what it adds is that "fetch" as the cause of
any of them means the fetch has failed already, and that a cancelled fetch was
cancelled by a signal or by an import that has its own error.
`RingInv` is about who holds which part of the ring: a reader is open only for a
store stage 1 has come to (`OpenInv`), a waiting store is pinned at its start
(`ChanInv`), a held one where its worker reads next, each by one worker
(`HeldInv`), and without wave decoding no pin passes the end of its own store
(`PinInv`). Since evictLocked stops at the least pin of an open reader, the head
then stays below every later store and the extension tail (`HeadInv`): a store
ends where the next one begins. `WholeInv` adds that the ring ends at what stage 1
has taken (`FlowInv`), that the prefetch goroutine ships what the opened files hold
(`SourceInv`; its end of file is the end of the stream), that stage 1 stops without
an error only there (`StopInv`), and that a store behind the scan waits, is held, is
whole or has failed (`DoneInv`). The race between the listener, the boundary and
the end of the ring is settled in `EofWhole`: whichever stops a reader, an io.EOF
between two items comes behind the store's last one.

**Wave import.** `FrameInv` follows a frame through the pool. The main thread's
stack and its links form a forest (`StackInv`, `ParentInv`); a frame has two
events, the main thread's link and its worker's hash (`EventsInv`), and the one
that comes second counts it off at its parent, so `pend` is the number of
children not counted off (`PendInv`). Since a parent is submitted at zero, by the
one of two threads that sees zero and `built`, a frame is in one place of the pool
(`QueueInv`, `HeldInv`) and its children are hashed (`WorkerInv`). For the entries,
`NonceInv` relates the cached and saved nonces to the number of nodes of a version
so far, `RootsInv` the stack to the reference's, `FlightInv` says that the wait
group counts the frames submitted and not finished, so that the root is hashed
when the main thread goes on, and `RootInv` and `OutInv` that batches, channel and
database hold only entries of the reference, and all of them at the end, the f/
entries in the batches or in the table. All of this is conditional on `~raced`,
and `RaceInv` says which options a race takes. The
reference is a recursive function of the stream; it is unfolded by one step at a
time (`RootsUnfold`), which the least counterexample of a numeric measure gives.

**State-sync diff.** `SyncInv`: each record behind the headers stands for the
target item of its place, as a literal or as a reference to an equal item of the
base; the scratch databases, whichever batches filled them, hold true pairs of an
item and its index (`ScratchInv`); and an end mark is at the target's end unless an
error closed the file, which is why a crash is refused (`EndsLast`).

**Leaf diff.** `RoundInv` has a part for each stage of the two commands. While
Compute merges store n, the records since its StoreEnter tell how to get from the
base's leaves read so far to the target's read so far (`Given` over `Read`), and
every earlier store has a closed section that tells it for all of its leaves
(`SoFar`, `Closed`). `Given` is deliberately weak, since the merge follows the
order of the encodings: a key of both sides has a Delete and an Insert, in either
order and far apart, or neither. Apply reads a section back as a
plan (`SectionPlan`): what is not deleted and every insert have the target's value,
and nothing of the target is missing. Between two stores (`AtWalk`) the reader of
the base, the place in the diff and the output are at the same name N, up to which
the output has the target's pairs. Within a store (`AtStore`) what is written lies
below both the base's leaf and the inserts that are left, and what is not written
yet is among them (`Merged`); at the end nothing is left, so all is written.
`AtApplyExts` counts the extensions down in the same way. Equal sets of pairs in
the order of their keys are equal sequences (`RisingSame`), as AppliedIsTarget
asks.

**Verifier.** The comparison of two stores is a recursive merge. `CountUnfold`
unfolds it by one step, `CompareExact` takes the least counterexample of its
measure to show that it counts zero exactly for equal lists, `SumZero` does the
same for the sum over store names and `VerdictExact` puts them together. `LeafInv`
carries what this needs through Compute and Apply: all keys and names in base,
target, diff file and output are numbers.

**Bootstrap.** `BootInv` says what the steps behind a command have left
(`Progress`, `Placed`, `WasmPlaced`), that a heal that does not go by its flag has
a marker (`HealMarked`), what a command's height is (`CmdHeight`), and that the offline
signal stands beside an empty blockstore only (`BlocksInv`); each of the four
properties uses the others: the marker is written at the end of a bootstrap or by
a heal that found it.

Only model-checked: the liveness properties (`HonestPeerCompletes`, `WalkEnds`,
`PinnedSettles`, `ReloadConverges`, `UselessGoes`, `EndsUnlessStranded`,
`StoreReturns`, `CommandsEnd`, `HealRecovers`), which rest on fairness and are out
of the prover's reach.

## 5. Findings

1. `import_stranded` (a run of its own): when a store fails in its worker and no
   other reader is open, nothing is evicted any more (`evictLocked` returns
   without readers, chunkring.go:399), stage 1 sleeps in Write (chunkring.go:130)
   for ever, ImportParallel waits for stage 1 (parallel.go:290) and the command
   hangs instead of reporting the store's error.

Found with the same models and described here without a run of their own. In the
fetch:

- The in-flight count of a peer is decremented by every answer
  (download.go:639), also by one whose entry expired earlier, so a proven peer
  may be given more chunks than "the actual ceiling" (download.go:765-766).
- A later fetch of the same height that chooses another offer replaces metadata
  and chunks beside the old `.complete` (session.go:373-389, against
  session.go:482-484 and runfetch.go:32-33); hence the condition of
  `SentinelSoundOneOffer`.
- After a jump an answer for the lower height is dropped and the pair stays in
  `asked`; the walk may fail although it was served (walk.go:187, 311, against
  walk.go:19-21).
- The metadata of a key is the first offerer's; another peer with metadata of
  its own is banned for a chunk that agrees with it (offerset.go:31-45, against
  walk.go:342-345): the exception of `HonestKept`.
- A tick works on a copy of the pins, and Pin does not look at the bans, so a
  banned peer is redialed (manager.go:357-430, against manager.go:291).
- dispatch returns at the first chunk nobody can take (download.go:827-829), so
  peers with open slots may idle while later chunks are pending; the comment at
  download.go:813-815 says otherwise. The download still ends.
- connectedSince is only reset by a tick that finds the peer gone
  (manager.go:382-401): a peer that drops and dials in between two ticks keeps
  its timer, against manager.go:92-93; hence the condition of `StableBeforeWipe`.
- The peer watch never evicts a peer whose Connected event was dropped: only a
  dropped Removed event is made up for (peerwatch.go:157-158). banPeer called by
  the download may delete the entry of a connection made meanwhile
  (peerwatch.go:124). A reconnected peer may be judged by its old time while its
  Removed event is still queued (against peerwatch.go:142-143). These are the
  exceptions of `UselessGoes` and `GraceHonoured`. `isBanned` (peerwatch.go:94)
  has no caller left, its comment names one.
- A sweep that has read a limiter's tombstone deletes the entry although AddPeer
  has cleared it meanwhile, or a peer has used its burst before AddPeer ran
  (reactor.go:331-333, against reactor.go:391-393): the exception of `RateHeld`.
  An AddPeer that comes after RemovePeer clears the tombstone of a peer that is
  gone, whose limiter is then never swept.

In the server:

- The fingerprint leaves directories out, so the reactor keeps the old path of a
  snapshot that was moved, and answers Missing for a snapshot it advertises at
  every later scan as well (catalog.go:165-178, 220-225, against
  runserve.go:57-59 and reactor.go:111-113).
- In the default verify mode metadata.bin is only compared in its number of
  chunks and its length with meta.json (store.go:259-285, 339-366). A refetch that breaks off after it has
  written another offer's metadata.bin (session.go:387-391) leaves a directory
  that loads and is advertised with metadata its chunks do not fit: the exception
  of `AnswerFits`.
- `RescanInterval` zero is documented to disable the periodic rescan
  (catalog.go:32-34), and is replaced by 30 seconds (catalog.go:49-53).

In the import:

- The stall of finding 1 also occurs when the extension tail, or a single item,
  is larger than the ring: nobody reads it before stage 1 has written it.
- When the end of a store arrives while its reader holds a part of the next
  store's first item, the read ends inside that item and the import fails with
  an unexpected end (parallel.go:763, snapproto.go:144-168). `SuccessIsWhole`
  shows that it never succeeds wrongly.
- A wave decoder commits items past the end of its store, so that the start of
  the next store, or of the extensions, may be evicted before its reader is
  created; `NothingNeededEvicted` is therefore about imports without wave
  decoding. A late error of the decoder may fail a store that is complete.
- With WaveParallel and without FastIngest, setFast is set (parallel.go:809-818),
  which addLeafPar calls on the main thread (importer_par.go:183) while the writer
  calls it too (parallel.go:848), on a batch without a lock; parallel.go:827-830
  calls the writer the "SOLE caller of set", and parallel.go:804-808 says "Output
  is bit-identical either way". The flags allow it (cli/snapshotimport/run.go:87)
  and parallel_leak_test.go:82 runs it. This is the exception of
  `SameAsReference`.
- A downloaded snapshot whose hash does not match has no sentinel error
  (runfetch.go:93-95), so it exits with the generic code 1 (exit.go:57), as an
  import that fails does.
- The prefetcher takes io.ErrUnexpectedEOF for the end of the stream
  (prefetch.go:73). An ingester stays open after a failed store, and the batch is
  closed on an error while the writer may still set entries.
- `nextNonce` takes version 0 for an empty cache, and the comment "Only the root
  has parent==nil" of importer_par.go does not hold while frames are being
  linked; both have no effect on valid streams.

In diff and apply:

- The reader of a diff takes a truncated file for its end (apply.go:508-520):
  applying a leaf diff that a crash cut short succeeds with a part of the
  changes. A failed Compute leaves a well-formed short file at its place, and
  ApplyStateSync does not compare the number of items with the header's. Hence
  `SyncIsTarget` speaks of crashes, and `AppliedIsTarget` of whole diffs.
- Records present in both streams may be emitted as a Delete and an Insert, when
  keys of different lengths lie between them (against the comment at the merge
  in diff.go); Apply brings them together again.
- Versions are not set to the target height (against format.go), deleted stores
  stay as empty ones, an extension keeps the base's format, and the base is not
  checked when its meta.json cannot be read.

In bootstrap:

- After `--app-strategy=move`, the hint "pass -overwrite to wipe"
  (place.go:68-72) leads to the loss of the only application.db.
- With `--appdb` in the home's own data directory, `--overwrite` wipes the
  application.db it is about to place (run.go:241-247); sameOnDisk sees two missing
  paths, CloneTree makes the destination and walks it, empty (place.go:11-15,
  durable.go:100), and the command succeeds and writes the marker.
- A wipe that is broken off may leave the marker on a gutted home, which heal
  accepts; heal with `--height` on a home without a marker checks nothing else
  and writes one. These three are the exceptions of `MarkerMeansWhole`.
- Blocks that are still in the write-ahead log do not count as synced for the
  guard of heal (heal.go:70-101).

## 6. Not modelled, and why

Byte formats (IAVL nodes, protobuf, TOML, commit info), hashing and compression
appear only as "agrees" or "does not agree". CometBFT's switch, address book and
transport, Pebble and the chain daemon are represented by what the code sees of
them: peers come and go at any time, sends fail, events arrive late or are
dropped, commits fail, a daemon start needs what bootstrap-state left. Logging,
statistics, progress output, flag parsing, configuration, the chain registry
client, compaction and the stand-alone scripts have no state worth a model.
`Unpin`, which nothing calls, the verify mode that hashes no chunks, the global
rate limit, and the churn loop when it is switched off are left out. The ban
list and the served list are maps under one mutex that are saved at the end of a
run; the peer-exchange reactors keep no protocol state: they put gossiped
addresses into the address book and kick the dialer, or announce the node itself.
The verify command compares the stored app hash with one fetched from the first
RPC that answers. The window
between counting a failed dial and dropping its address (manager.go:590) is
listed as a hazard without a property.

Where a module leaves out a case of the code it models:

- `ChunkScheduler`: an answer nobody asked for (it would be handled like a late
  one, and its sender gives up a slot it does not have), and an index outside the
  snapshot (download.go:624-641). The model's peers answer what they were asked, any
  number of times up to `AskedCap`.
- `ConnectManager`: Get() and the lock of one peer's turn in a tick are one step
  (manager.go:366-372), the count of dials under way is exact where the source's
  lags behind dials it has just launched (435-441, which bounds the excess by one
  batch), and the dial that starts the walk (walk.go:63) is left out: it ends in a
  connection the manager did not ask for, like an inbound one.
- `StateSyncDiff`: the scratch database starts empty, as in a directory of MakeTmpDir
  (diskutil.go:38-41; a caller that reuses one has to clear it,
  statesync_diff.go:37-38), and the zlib header is read together with the rest of
  the diff's head and not after the first phase (statesync_apply.go:143), which
  moves the error of a file that is too short for it, not its effect.
- `SnapshotDiff`: extensions have names; the payloads of a nameless one are skipped
  by the code (diff.go:723), and the SDK writes none.
- `Bootstrap`: the marker is written by one rename, so a marker that cannot be read
  needs a fault of another kind; heal would then take the flag (heal.go:60, against
  markerfile.go:28-31). A daemon that runs while heal does is not modelled: heal
  checks for synced blocks (heal.go:231) and removes them later (270) without a
  lock, and stopping the daemon first is left to the operator (heal.go:76-80).

## 7. Plan

The system's concurrent and crash-prone parts have their modules, and every safety
property the runs check is a theorem. What is left:

1. A type invariant as a theorem for each of the newer modules, where it says more
   than the parts the proofs use now.
