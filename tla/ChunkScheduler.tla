--------------------------- MODULE ChunkScheduler ---------------------------
(***************************************************************************)
(* The chunk scheduler of the download phase                               *)
(* (internal/snapfetch/download.go).  One goroutine owns all scheduler     *)
(* state and runs an event loop; the switch's peer set, the manager's ban  *)
(* list and the answers of the peers change under it at any time.          *)
(*                                                                         *)
(* A handler is one action that leaves pc = "dispatch"; the dispatch loop  *)
(* it ends with is then run to its return, one pending chunk per step, so  *)
(* that the peer set may change between two iterations as it can in the    *)
(* program.  No other handler can run before dispatch has returned.        *)
(*                                                                         *)
(* Time is counted in ticks of the 2s ticker: an entry expires at the      *)
(* first tick that finds it at least TimeoutTicks ticks old.               *)
(***************************************************************************)
EXTENDS Integers, FiniteSets

CONSTANTS
  Peers,                \* p2p IDs
  NoPeer,               \* marks a chunk that is not in flight
  Honest,               \* peers that stay connected and answer correctly
  N,                    \* target.Chunks
  PerPeer,              \* perPeer: in-flight ceiling of a proven peer
  ProvisionalInflight,  \* provisionalInflight
  PeerFailLimit,        \* peerFailLimit: strikes of a proven peer
  ProvisionalStrikes,   \* provisionalStrikes
  MaxDiskFails,         \* maxDiskFails; 0 is no limit
  TimeoutTicks,         \* chunkTimeout, in ticks
  StartFiles,           \* bound: what the first run may find as a chunk file
  AskedCap,             \* bound: answers a peer still owes for one chunk
  MaxRestarts,          \* bound: crashes / re-runs of the command
  MaxChurn              \* bound: connects, disconnects and evictions

ASSUME SchedulerConstants ==
  /\ NoPeer \notin Peers
  /\ Honest \subseteq Peers
  /\ N \in Nat \ {0}
  /\ PerPeer \in Nat \ {0}
  /\ ProvisionalInflight \in Nat
  /\ PeerFailLimit \in Nat \ {0}
  /\ ProvisionalStrikes \in Nat \ {0}
  /\ MaxDiskFails \in Nat
  /\ TimeoutTicks \in Nat
  /\ StartFiles \subseteq {"absent", "match", "other"}
  /\ AskedCap \in Nat \ {0}
  /\ MaxRestarts \in Nat
  /\ MaxChurn \in Nat

ASSUME PeersFinite == IsFiniteSet(Peers)

Chunks == 0 .. (N - 1)

VARIABLES
  pc,            \* where the scheduler goroutine is
  pending,       \* set of i with pending[i]
  completed,     \* set of i with completed[i]
  inflight,      \* inflight[i].peer, or NoPeer
  age,           \* ticks since inflight[i].sent
  doneCount,
  diskFails,
  tracked,       \* peers with an entry in stats
  banned,        \* set of p with stats[p].banned
  provisional,   \* set of p with stats[p].provisional
  slots,         \* stats[p].inflight
  failures,      \* stats[p].failures
  declined,      \* stats[p].declined
  cursor, skip,  \* the dispatch loop's index and skip set
  ready,         \* calls of onChunkReady(i) in this run
  disk,          \* chunk_<i>.bin against the target's hash
  offer,         \* which offer the walk chose for this run
  connected,     \* sw.Peers()
  mgrBanned,     \* mgr.IsBanned
  connectedEv,   \* Connected events not yet consumed
  removedEv,     \* Removed events not yet consumed
  asked,         \* asked[p][i]: answers p may still send for chunk i
  restarts, churn

loopVars  == <<pending, completed, inflight, age, doneCount, diskFails, ready>>
statVars  == <<tracked, banned, provisional, slots, failures, declined>>
netVars   == <<connected, mgrBanned, connectedEv, removedEv>>
boundVars == <<restarts, churn, offer>>
vars == <<pc, loopVars, statVars, cursor, skip, disk, netVars, asked, boundVars>>

Outcomes  == {"finished", "diskFailed", "allBanned", "cancelled"}
FileState == {"absent", "match", "other"}

TypeOK ==
  /\ pc \in {"init", "dispatch", "select"} \cup Outcomes
  /\ pending \in SUBSET Chunks
  /\ completed \in SUBSET Chunks
  /\ inflight \in [Chunks -> Peers \cup {NoPeer}]
  /\ age \in [Chunks -> Nat]
  /\ doneCount \in Nat
  /\ diskFails \in Nat
  /\ ready \in [Chunks -> Nat]
  /\ tracked \in SUBSET Peers
  /\ banned \in SUBSET Peers
  /\ provisional \in SUBSET Peers
  /\ slots \in [Peers -> Nat]
  /\ failures \in [Peers -> Nat]
  /\ declined \in [Peers -> SUBSET Chunks]
  /\ cursor \in 0 .. N
  /\ skip \in SUBSET Peers
  /\ disk \in [Chunks -> FileState]
  /\ connected \in SUBSET Peers
  /\ mgrBanned \in SUBSET Peers
  /\ connectedEv \in SUBSET Peers
  /\ removedEv \in SUBSET Peers
  /\ asked \in [Peers -> [Chunks -> Nat]]
  /\ offer \in Nat
  /\ restarts \in Nat
  /\ churn \in Nat

-----------------------------------------------------------------------------
(***************************************************************************)
(* Start of a run.  The walk asked every offering peer for chunk 0, so an  *)
(* answer for chunk 0 may still be on its way when the download starts.    *)
(* The directory may hold chunk files of an earlier run, of this offer     *)
(* ("match") or of another one ("other").                                  *)
(***************************************************************************)
WalkLeftovers ==
  {[p \in Peers |-> [i \in Chunks |-> IF i = 0 /\ p \in late THEN 1 ELSE 0]]
     : late \in SUBSET Peers}

Init ==
  /\ pc = "init"
  /\ pending = {} /\ completed = {}
  /\ inflight = [i \in Chunks |-> NoPeer]
  /\ age = [i \in Chunks |-> 0]
  /\ doneCount = 0 /\ diskFails = 0
  /\ ready = [i \in Chunks |-> 0]
  /\ tracked = {} /\ banned = {} /\ provisional = {}
  /\ slots = [p \in Peers |-> 0]
  /\ failures = [p \in Peers |-> 0]
  /\ declined = [p \in Peers |-> {}]
  /\ cursor = 0 /\ skip = {}
  /\ disk \in [Chunks -> StartFiles]
  /\ connected \in {C \in SUBSET Peers : Honest \subseteq C}
  /\ mgrBanned = {} /\ connectedEv = {} /\ removedEv = {}
  /\ asked \in WalkLeftovers
  /\ restarts = 0 /\ churn = 0 /\ offer = 0

(* resumeFromDisk: the chunk files that can be read and match the offer.   *)
Resumed(unreadable) == {i \in Chunks : disk[i] = "match"} \ unreadable

(* Mutant: a file that cannot be read is removed as well.                  *)
SweptUnreadable(unreadable, stuck) ==
  [i \in Chunks |-> IF i \in unreadable \cup {j \in Chunks : disk[j] = "other"}
                         /\ i \notin stuck
                    THEN "absent" ELSE disk[i]]

(* resumeFromDisk removes readable mismatches; a failing remove keeps them. *)
Swept(unreadable, stuck) ==
  [i \in Chunks |-> IF disk[i] = "other" /\ i \notin unreadable \cup stuck
                    THEN "absent" ELSE disk[i]]

(* The zero values download() builds the chunkScheduler with.              *)
FreshScheduler ==
  /\ inflight' = [i \in Chunks |-> NoPeer]
  /\ age' = [i \in Chunks |-> 0]
  /\ diskFails' = 0
  /\ banned' = {}
  /\ slots' = [p \in Peers |-> 0]
  /\ failures' = [p \in Peers |-> 0]
  /\ declined' = [p \in Peers |-> {}]
  /\ cursor' = 0 /\ skip' = {}

(***************************************************************************)
(* download() and init(): fresh state, the offer's peers as proven, every  *)
(* other connected peer as provisional, the resume scan, then dispatch.    *)
(***************************************************************************)
Begin(good, unreadable, stuck) ==
  /\ pc = "init"
  /\ Honest \subseteq good
  /\ completed' = Resumed(unreadable)
  /\ pending' = Chunks \ Resumed(unreadable)
  /\ doneCount' = Cardinality(Resumed(unreadable))
  /\ ready' = [i \in Chunks |-> IF i \in Resumed(unreadable) THEN 1 ELSE 0]
  /\ disk' = Swept(unreadable, stuck)
  /\ tracked' = good \cup connected
  /\ provisional' = connected \ good
  /\ FreshScheduler
  /\ pc' = "dispatch"
  /\ UNCHANGED <<netVars, asked, boundVars>>

-----------------------------------------------------------------------------
(***************************************************************************)
(* dispatch() and pickPeer().                                              *)
(***************************************************************************)
StillPending == {i \in pending : i >= cursor}
NextChunk == CHOOSE i \in StillPending : \A j \in StillPending : i <= j

Pickable(i) == {p \in tracked \cap connected : /\ p \notin banned
                                               /\ p \notin skip
                                               /\ i \notin declined[p]}
Proven(i)      == {p \in Pickable(i) \ provisional : slots[p] < PerPeer}
Probing(i)     == {p \in Pickable(i) \cap provisional :
                                           slots[p] <= ProvisionalInflight}
LeastLoaded(S) == {p \in S : \A q \in S : slots[p] <= slots[q]}

(* The peers pickPeer may return; map iteration order breaks ties.         *)
PickPeer(i) == IF Proven(i) # {} THEN LeastLoaded(Proven(i))
                                 ELSE LeastLoaded(Probing(i))

InDispatch(p) == /\ pc = "dispatch"
                 /\ StillPending # {}
                 /\ p \in PickPeer(NextChunk)
                 /\ cursor' = NextChunk + 1

(* RequestChunk succeeded: the chunk is in flight at p.                    *)
DispatchRequest(p) ==
  /\ InDispatch(p)
  /\ pending' = pending \ {NextChunk}
  /\ inflight' = [inflight EXCEPT ![NextChunk] = p]
  /\ age' = [age EXCEPT ![NextChunk] = 0]
  /\ slots' = [slots EXCEPT ![p] = @ + 1]
  /\ asked' = [asked EXCEPT ![p][NextChunk] =
                              IF @ < AskedCap THEN @ + 1 ELSE @]
  /\ UNCHANGED <<pc, completed, doneCount, diskFails, ready, tracked, banned,
                 provisional, failures, declined, skip, disk, netVars,
                 boundVars>>

(* Mutant: the chunk leaves pending before the send is known to succeed.   *)
QueueFullForgets(p) ==
  /\ InDispatch(p)
  /\ skip' = skip \cup {p}
  /\ pending' = pending \ {NextChunk}
  /\ UNCHANGED <<pc, completed, inflight, age, doneCount, diskFails, ready,
                 statVars, disk, netVars, asked, boundVars>>

(* RequestChunk returned false: p's send queue is full.                    *)
DispatchQueueFull(p) ==
  /\ InDispatch(p)
  /\ skip' = skip \cup {p}
  /\ UNCHANGED <<pc, loopVars, statVars, disk, netVars, asked, boundVars>>

(* p left the peer set between pickPeer and the lookup: p is benched.      *)
DispatchVanished(p) ==
  /\ InDispatch(p)
  /\ p \notin Honest
  /\ churn < MaxChurn /\ churn' = churn + 1
  /\ connected' = connected \ {p}
  /\ removedEv' = removedEv \cup {p}
  /\ banned' = banned \cup {p}
  /\ UNCHANGED <<pc, loopVars, tracked, provisional, slots, failures, declined,
                 skip, disk, mgrBanned, connectedEv, asked, restarts, offer>>

(* dispatch() returns: nothing left, or no peer for the chunk at hand.     *)
DispatchReturn ==
  /\ pc = "dispatch"
  /\ StillPending # {} => PickPeer(NextChunk) = {}
  /\ pc' = "select" /\ cursor' = 0 /\ skip' = {}
  /\ UNCHANGED <<loopVars, statVars, disk, netVars, asked, boundVars>>

-----------------------------------------------------------------------------
(***************************************************************************)
(* The event loop.                                                         *)
(***************************************************************************)
Alive == tracked \ banned
DiskGaveOut == MaxDiskFails > 0 /\ diskFails >= MaxDiskFails
LoopRuns == /\ pc = "select"
            /\ doneCount < N
            /\ ~DiskGaveOut
            /\ Alive # {}

ToDispatch == pc' = "dispatch" /\ UNCHANGED <<cursor, skip>>

Finish ==
  /\ pc = "select"
  /\ doneCount >= N
  /\ pc' = "finished"
  /\ banned' = banned \cup (tracked \cap mgrBanned)
  /\ UNCHANGED <<loopVars, tracked, provisional, slots, failures, declined,
                 cursor, skip, disk, netVars, asked, boundVars>>

GiveUp ==
  /\ pc = "select"
  /\ doneCount < N
  /\ \/ DiskGaveOut /\ pc' = "diskFailed"
     \/ ~DiskGaveOut /\ Alive = {} /\ pc' = "allBanned"
  /\ UNCHANGED <<loopVars, statVars, cursor, skip, disk, netVars, asked,
                 boundVars>>

Cancel ==
  /\ LoopRuns
  /\ pc' = "cancelled"
  /\ UNCHANGED <<loopVars, statVars, cursor, skip, disk, netVars, asked,
                 boundVars>>

(* Mutants: removeInflight without its floor, and one that does nothing.   *)
NoFloor(n, k) == n - k
NeverLess(n, k) == n

(* removeInflight never goes below zero.                                   *)
Less(n, k) == IF n >= k THEN n - k ELSE 0

(* banAndDrop(S): barred in the manager, and disconnected by peerWatch.    *)
BanAndDrop(S) ==
  /\ mgrBanned' = mgrBanned \cup S
  /\ connected' = connected \ S
  /\ removedEv' = removedEv \cup (S \cap connected)
  /\ UNCHANGED connectedEv

Expired == {i \in Chunks : inflight[i] # NoPeer /\ age[i] >= TimeoutTicks}
ExpiredAt(p) == {i \in Expired : inflight[i] = p}
(* Mutant: a timeout bars every peer, not only a probing one.              *)
AnyTimeouts == {p \in tracked : ExpiredAt(p) # {}}
ProbeTimeouts == {p \in provisional : ExpiredAt(p) # {}}

(* onTimeoutTick: expire, bench probing peers, mirror the manager's bans,  *)
(* add peers whose Connected event was lost, dispatch.                     *)
TimeoutTick ==
  /\ LoopRuns
  /\ inflight' = [i \in Chunks |-> IF i \in Expired THEN NoPeer ELSE inflight[i]]
  /\ age' = [i \in Chunks |-> IF inflight[i] = NoPeer \/ i \in Expired
                              THEN 0 ELSE age[i] + 1]
  /\ pending' = pending \cup Expired
  /\ slots' = [p \in Peers |-> Less(slots[p], Cardinality(ExpiredAt(p)))]
  /\ BanAndDrop(ProbeTimeouts)
  /\ banned' = banned \cup ProbeTimeouts \cup (tracked \cap mgrBanned')
  /\ tracked' = tracked \cup connected'
  /\ provisional' = provisional \cup (connected' \ tracked)
  /\ ToDispatch
  /\ UNCHANGED <<completed, doneCount, diskFails, ready, failures, declined,
                 disk, asked, boundVars>>

(* onConnect: registers the peer if it is still connected, dispatches.     *)
OnConnect(p) ==
  /\ LoopRuns
  /\ p \in connectedEv
  /\ connectedEv' = connectedEv \ {p}
  /\ tracked' = tracked \cup (connected \cap {p})
  /\ provisional' = provisional \cup ((connected \cap {p}) \ tracked)
  /\ ToDispatch
  /\ UNCHANGED <<loopVars, banned, slots, failures, declined, disk, connected,
                 mgrBanned, removedEv, asked, boundVars>>

(* onRemoved: every chunk in flight at the peer becomes pending again.     *)
OnRemoved(p) ==
  /\ LoopRuns
  /\ p \in removedEv
  /\ removedEv' = removedEv \ {p}
  /\ inflight' = [i \in Chunks |-> IF inflight[i] = p THEN NoPeer ELSE inflight[i]]
  /\ age' = [i \in Chunks |-> IF inflight[i] = p THEN 0 ELSE age[i]]
  /\ pending' = pending \cup {i \in Chunks : inflight[i] = p}
  /\ slots' = [slots EXCEPT ![p] = 0]
  /\ ToDispatch
  /\ UNCHANGED <<completed, doneCount, diskFails, ready, tracked, banned,
                 provisional, failures, declined, disk, connected, mgrBanned,
                 connectedEv, asked, boundVars>>

-----------------------------------------------------------------------------
(***************************************************************************)
(* onChunk.  An answer of p for chunk i; a peer without an entry in stats  *)
(* gets one that is neither provisional nor good.                          *)
(***************************************************************************)
Receive(p, i) ==
  /\ LoopRuns
  /\ asked[p][i] > 0
  /\ asked' = [asked EXCEPT ![p][i] = @ - 1]
  /\ tracked' = tracked \cup {p}
  /\ inflight' = IF inflight[i] = p THEN [inflight EXCEPT ![i] = NoPeer]
                                    ELSE inflight
  /\ age' = IF inflight[i] = p THEN [age EXCEPT ![i] = 0] ELSE age
  /\ slots' = [slots EXCEPT ![p] = Less(@, 1)]
  /\ UNCHANGED boundVars

(* A chunk that is already there: the early return, which leaves pending,  *)
(* declined and dispatch alone.                                            *)
OnChunkDuplicate(p, i) ==
  /\ Receive(p, i)
  /\ i \in completed
  /\ UNCHANGED <<pc, pending, completed, doneCount, diskFails, ready, banned,
                 provisional, failures, declined, cursor, skip, disk, netVars>>

(* Missing, or empty bytes: recorded as declined, no strike.               *)
OnChunkMissing(p, i) ==
  /\ Receive(p, i)
  /\ p \notin Honest
  /\ i \notin completed
  /\ declined' = [declined EXCEPT ![p] = @ \cup {i}]
  /\ pending' = pending \cup {i}
  /\ ToDispatch
  /\ UNCHANGED <<completed, doneCount, diskFails, ready, banned, provisional,
                 failures, disk, netVars>>

FailureLimit(p) == IF p \in provisional THEN ProvisionalStrikes
                                        ELSE PeerFailLimit
StruckOut(p) == p \notin banned /\ failures[p] + 1 >= FailureLimit(p)

(* Wrong bytes: recordFailure, and banAndDrop when the limit is reached.   *)
OnChunkMismatch(p, i) ==
  /\ Receive(p, i)
  /\ p \notin Honest
  /\ i \notin completed
  /\ failures' = [failures EXCEPT ![p] = IF p \in banned THEN @ ELSE @ + 1]
  /\ IF StruckOut(p)
     THEN banned' = banned \cup {p} /\ BanAndDrop({p})
     ELSE UNCHANGED <<banned, netVars>>
  /\ pending' = pending \cup {i}
  /\ ToDispatch
  /\ UNCHANGED <<completed, doneCount, diskFails, ready, provisional, declined,
                 disk>>

(* The bytes match: promote, reset the strikes.                            *)
Verified(p, i) ==
  /\ Receive(p, i)
  /\ i \notin completed
  /\ provisional' = provisional \ {p}
  /\ failures' = [failures EXCEPT ![p] = 0]
  /\ ToDispatch
  /\ UNCHANGED <<banned, declined, netVars>>

(* Mutant: the chunk is reported ready before it is written.               *)
ReadyBeforeWrite(p, i) ==
  /\ Verified(p, i)
  /\ diskFails' = diskFails + 1
  /\ pending' = pending \cup {i}
  /\ ready' = [ready EXCEPT ![i] = @ + 1]
  /\ UNCHANGED <<completed, doneCount, disk>>

(* durable.WriteFile failed, before its rename or in the FsyncDir after    *)
(* it, when the file is already in place: the chunk is fetched again.      *)
OnChunkWriteFails(p, i) ==
  /\ Verified(p, i)
  /\ disk' \in {disk, [disk EXCEPT ![i] = "match"]}
  /\ diskFails' = diskFails + 1
  /\ pending' = pending \cup {i}
  /\ UNCHANGED <<completed, doneCount, ready>>

(* The file is in place: completed, counted, reported to onChunkReady.     *)
OnChunkStored(p, i) ==
  /\ Verified(p, i)
  /\ disk' = [disk EXCEPT ![i] = "match"]
  /\ completed' = completed \cup {i}
  /\ doneCount' = doneCount + 1
  /\ ready' = [ready EXCEPT ![i] = @ + 1]
  /\ UNCHANGED <<pending, diskFails>>

-----------------------------------------------------------------------------
(***************************************************************************)
(* The surroundings: connections come and go, peerWatch or the manager     *)
(* bars a peer, the event mux drops a control event, the process dies and  *)
(* the command is run again, possibly for another offer.                   *)
(***************************************************************************)
Churn == churn < MaxChurn /\ churn' = churn + 1

PeerConnects(p) ==
  /\ Churn
  /\ p \notin connected
  /\ connected' = connected \cup {p}
  /\ connectedEv' = connectedEv \cup {p}
  /\ UNCHANGED <<pc, loopVars, statVars, cursor, skip, disk, mgrBanned,
                 removedEv, asked, restarts, offer>>

PeerDisconnects(p) ==
  /\ Churn
  /\ p \in connected \ Honest
  /\ connected' = connected \ {p}
  /\ removedEv' = removedEv \cup {p}
  /\ UNCHANGED <<pc, loopVars, statVars, cursor, skip, disk, mgrBanned,
                 connectedEv, asked, restarts, offer>>

PeerEvicted(p) ==
  /\ Churn
  /\ p \notin Honest
  /\ BanAndDrop({p})
  /\ UNCHANGED <<pc, loopVars, statVars, cursor, skip, disk, asked, restarts,
                 offer>>

CtrlEventDropped(p) ==
  /\ \/ p \in connectedEv /\ connectedEv' = connectedEv \ {p}
                          /\ UNCHANGED removedEv
     \/ p \in removedEv /\ removedEv' = removedEv \ {p}
                        /\ UNCHANGED connectedEv
  /\ UNCHANGED <<pc, loopVars, statVars, cursor, skip, disk, connected,
                 mgrBanned, asked, boundVars>>

(* What the files are worth against another offer's chunk hashes.          *)
Reappraised == {d \in [Chunks -> FileState] :
                  \A i \in Chunks : d[i] = "absent" <=> disk[i] = "absent"}

Restart ==
  /\ pc # "init"
  /\ restarts < MaxRestarts /\ restarts' = restarts + 1
  /\ \/ UNCHANGED <<disk, offer>>
     \/ disk' \in Reappraised /\ offer' = offer + 1
  /\ pc' = "init"
  /\ connected' \in {C \in SUBSET Peers : Honest \subseteq C}
  /\ mgrBanned' = {} /\ connectedEv' = {} /\ removedEv' = {}
  /\ asked' \in WalkLeftovers
  /\ FreshScheduler
  /\ pending' = {} /\ completed' = {} /\ doneCount' = 0
  /\ ready' = [i \in Chunks |-> 0]
  /\ tracked' = {} /\ provisional' = {}
  /\ UNCHANGED churn

-----------------------------------------------------------------------------
OnChunk(p, i) == \/ OnChunkDuplicate(p, i)
                 \/ OnChunkMissing(p, i)
                 \/ OnChunkMismatch(p, i)
                 \/ OnChunkWriteFails(p, i)
                 \/ OnChunkStored(p, i)

Scheduler ==
  \/ \E good \in SUBSET Peers, unreadable, stuck \in SUBSET Chunks :
       Begin(good, unreadable, stuck)
  \/ \E p \in Peers : \/ DispatchRequest(p)
                       \/ DispatchQueueFull(p)
                       \/ DispatchVanished(p)
                       \/ OnConnect(p)
                       \/ OnRemoved(p)
                       \/ \E i \in Chunks : OnChunk(p, i)
  \/ DispatchReturn
  \/ TimeoutTick
  \/ Finish
  \/ GiveUp
  \/ Cancel

Environment == \/ \E p \in Peers : \/ PeerConnects(p)
                                   \/ PeerDisconnects(p)
                                   \/ PeerEvicted(p)
                                   \/ CtrlEventDropped(p)
               \/ Restart

Done == pc \in Outcomes /\ UNCHANGED vars

Next == Scheduler \/ Environment \/ Done

Spec == Init /\ [][Next]_vars

(***************************************************************************)
(* Fairness.  The goroutine keeps running; select chooses at random among  *)
(* the ready channels, so neither the ticker nor a delivered answer of an  *)
(* honest peer is passed over for ever; pickPeer ranges over a Go map,     *)
(* whose order is random, so an honest peer that is again and again among  *)
(* the least loaded is chosen, and its send queue is not full every time.  *)
(* InTime is an assumption on the network, not on the code: an honest peer *)
(* answers within chunkTimeout, so its entries never expire.               *)
(***************************************************************************)
DispatchStep == \/ DispatchReturn
                \/ \E p \in Peers : \/ DispatchRequest(p)
                                     \/ DispatchQueueFull(p)
                                     \/ DispatchVanished(p)

HonestAsked(p, i)   == DispatchRequest(p) /\ i \in pending \ pending'
HonestAnswers(p, i) == \/ OnChunkDuplicate(p, i)
                       \/ OnChunkWriteFails(p, i)
                       \/ OnChunkStored(p, i)

InTime ==
  \A p \in Honest, i \in Chunks :
    inflight[i] = p /\ inflight'[i] = NoPeer /\ pc' # "init"
      => asked'[p] # asked[p]

FairSpec ==
  /\ Init /\ [][Next /\ InTime]_vars
  /\ WF_vars(DispatchStep)
  /\ WF_vars(Finish)
  /\ WF_vars(GiveUp)
  /\ SF_vars(TimeoutTick /\ InTime)
  /\ \A p \in Honest, i \in Chunks : /\ SF_vars(HonestAsked(p, i))
                                     /\ SF_vars(HonestAnswers(p, i))

-----------------------------------------------------------------------------
(* Safety.  No chunk is ever forgotten: in a running download each chunk   *)
(* is stored, waiting for a peer, or assigned to one, whatever order late  *)
(* answers, expiries, re-assignments and disconnects come in               *)
(* (download.go:549-550, 610-615, 636-638, 664, 678, 733, 843-844).        *)
NoChunkLost ==
  pc # "init" => \A i \in Chunks : i \in completed \cup pending \/ inflight[i] # NoPeer

(* doneCount, which ends the loop, is the number of stored chunks even     *)
(* when a chunk is answered twice or resumed from disk (335-338, 641, 738).*)
DoneCountExact == doneCount = Cardinality(completed)

(* A chunk counted as completed is on disk and matches the offer, also     *)
(* when the run resumed over another offer's files (334, 670, 727).        *)
CompletedOnDisk == \A i \in completed : disk[i] = "match"

(* onChunkReady is called exactly once per stored chunk: the importer that *)
(* tails the download gets every index, and none twice (340-342, 740-742). *)
ReadyExactlyOnce ==
  \A i \in Chunks : ready[i] = IF i \in completed THEN 1 ELSE 0

(* The download reports success only with every chunk file verified.       *)
FinishedComplete == pc = "finished" => \A i \in Chunks : disk[i] = "match"

(* A peer that stays connected and only sends correct chunks is never      *)
(* benched, however slow: timeouts, and other peers' misbehaviour, cost a  *)
(* proven peer nothing (543-547, 675-677).                                 *)
HonestNeverBenched == Honest \cap (banned \cup mgrBanned) = {}

(* Liveness.  With an honest, prompt, proven peer a started download ends, *)
(* and not by running out of peers: whatever the others decline, corrupt   *)
(* or leave unanswered, every chunk is stored unless the disk fails or the *)
(* user or a crash stops the run (run, download.go:354-397).               *)
HonestPeerCompletes ==
  pc = "dispatch" ~> pc \in {"finished", "diskFailed", "cancelled", "init"}

(* The detailed scheduler implements the delivery contract: a chunk file,  *)
(* once verified, survives every crash, expiry, strike, failed write and   *)
(* resume scan of the same offer, and success means all of them are there. *)
Have   == {i \in Chunks : disk[i] = "match"}
Status == IF pc = "finished" THEN "finished"
          ELSE IF pc \in Outcomes THEN "failed" ELSE "running"

Delivery == INSTANCE ChunkDelivery WITH have <- Have, status <- Status

Implements == Delivery!Spec
=============================================================================
