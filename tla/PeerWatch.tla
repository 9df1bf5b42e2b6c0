----------------------------- MODULE PeerWatch -----------------------------
(***************************************************************************)
(* The churn loop of a fetch (internal/snapfetch/peerwatch.go) behind the  *)
(* event mux (eventmux.go): it learns of peers and offers from events that *)
(* may be dropped twice on their way, and evicts peers that do not offer a *)
(* snapshot in the window.  The walk and the download evict through the    *)
(* same banPeer, from their own goroutines.                                *)
(*                                                                         *)
(* The peer table is the fetch mode of Reactor; in its serve mode the      *)
(* reactor has token buckets and nobody listens to its events.  minHeight  *)
(* is positive, so that an offer is "inRange" or "below" it.  The address  *)
(* book, the manager's bans (see ConnectManager) and the set banned, which *)
(* nothing reads, are left out.                                            *)
(***************************************************************************)
EXTENDS Reactor

CONSTANTS
  FetchPeers, ServePeers,    \* the peers that show up in either mode
  SubCap,                    \* subCtrlBuffer
  Grace,                     \* grace, in ticks
  RequireStateSyncChannel

ASSUME WatchConstants ==
  /\ FetchPeers \cup ServePeers \subseteq Peers
  /\ SubCap \in Nat \ {0} /\ Grace \in Nat \ {0}
  /\ RequireStateSyncChannel \in BOOLEAN

VARIABLES
  serving,     \* the mode
  noChannel,   \* peers that do not advertise the snapshot channel
  sub,         \* the watch's channel from the mux
  firstSeen,   \* ticks since firstSeen[p], -1 is no entry
  useful, outOfRange,
  pending,     \* evictions tick has decided on and not begun
  ban,         \* the peer for which a goroutine is inside banPeer
  since,       \* history: ticks since the connection began
  offered,     \* history: peers that sent an offer in range
  lostOffer,   \* history: peers such an offer of which was dropped
  blurred,     \* history: peers a removal of which was dropped or overtaken
  unseen       \* history: connected peers the watch cannot know of

Callers == {"tick", "other"}
modeVars    == <<serving, noChannel>>
watchVars   == <<sub, firstSeen, useful, outOfRange, pending, ban>>
historyVars == <<since, offered, lostOffer, blurred, unseen>>
vars == <<reactorVars, modeVars, watchVars, historyVars>>

TypeOK ==
  /\ ReactorTypeOK
  /\ serving \in BOOLEAN /\ noChannel \in SUBSET Peers
  /\ sub \in Seq(Events) /\ Len(sub) <= SubCap
  /\ firstSeen \in [Peers -> -1 .. Grace]
  /\ useful \in SUBSET Peers /\ outOfRange \in SUBSET Peers
  /\ pending \in SUBSET Peers
  /\ ban \in [Callers -> Peers \cup {None}]
  /\ since \in [Peers -> 0 .. Grace]
  /\ offered \in SUBSET Peers /\ lostOffer \in SUBSET Peers
  /\ blurred \in SUBSET Peers /\ unseen \in SUBSET up

Init ==
  /\ ReactorInit
  /\ serving \in BOOLEAN
  /\ noChannel \in SUBSET (IF serving THEN {} ELSE FetchPeers)
  /\ sub = <<>>
  /\ firstSeen = [p \in Peers |-> -1]
  /\ useful = {} /\ outOfRange = {} /\ pending = {}
  /\ ban = [c \in Callers |-> None]
  /\ since = [p \in Peers |-> 0]
  /\ offered = {} /\ lostOffer = {} /\ blurred = {} /\ unseen = {}

Around == IF serving THEN ServePeers ELSE FetchPeers

-----------------------------------------------------------------------------
(* The switch and the peers.                                               *)
PeerConnects(p) ==
  /\ Connect(p)
  /\ since' = [since EXCEPT ![p] = 0]
  /\ UNCHANGED <<modeVars, watchVars, offered, lostOffer, blurred, unseen>>

SwitchAddsPeer(p) ==
  /\ AddPeer(p)
  /\ unseen' = IF Full /\ p \in up THEN unseen \cup {p} ELSE unseen
  /\ blurred' = IF p \in up THEN blurred ELSE blurred \cup {p}
  /\ UNCHANGED <<modeVars, watchVars, since, offered, lostOffer>>

Removal(p) ==
  /\ unseen' = unseen \ {p}
  /\ blurred' = IF Full \/ p \in joining THEN blurred \cup {p} ELSE blurred
  /\ UNCHANGED <<modeVars, sub, firstSeen, useful, outOfRange, since, offered, lostOffer>>

PeerDisconnects(p) == /\ Disconnect(p) /\ Removal(p)
                      /\ UNCHANGED <<pending, ban>>

PeerOffers(p, kind) ==
  /\ ~serving
  /\ SnapshotsResponse(p, kind)
  /\ offered' = IF kind = "inRange" THEN offered \cup {p} ELSE offered
  /\ lostOffer' = IF kind = "inRange" /\ Full THEN lostOffer \cup {p} ELSE lostOffer
  /\ UNCHANGED <<modeVars, watchVars, since, blurred, unseen>>

PeerAsks(p) ==
  /\ serving
  /\ ChunkRequest(p)
  /\ UNCHANGED <<modeVars, watchVars, historyVars>>

Sweep == /\ serving
         /\ \E w \in Sweepers : SweepDelete(w) \/ \E p \in Peers : SweepLook(w, p)
         /\ UNCHANGED <<modeVars, watchVars, historyVars>>

Elapse ==
  /\ Refill
  /\ firstSeen' = [p \in Peers |-> IF firstSeen[p] = -1 THEN -1 ELSE Capped(firstSeen[p], Grace)]
  /\ since' = [p \in Peers |-> IF p \in up /\ ~serving THEN Capped(since[p], Grace) ELSE 0]
  /\ UNCHANGED <<modeVars, sub, useful, outOfRange, pending, ban, offered, lostOffer,
                 blurred, unseen>>

-----------------------------------------------------------------------------
(* The mux passes an event on, or drops it when the watch's buffer is full.*)
FanoutCtrl ==
  LET e == Head(out)
      fits == Len(sub) < SubCap
      p == e.peer
  IN
  /\ ~serving
  /\ out # <<>>
  /\ out' = Tail(out)
  /\ sub' = IF fits THEN Append(sub, e) ELSE sub
  /\ unseen' = IF ~fits /\ e.kind = "connected" /\ p \in up THEN unseen \cup {p} ELSE unseen
  /\ blurred' = IF ~fits /\ e.kind = "removed" THEN blurred \cup {p} ELSE blurred
  /\ lostOffer' = IF ~fits /\ e.kind = "inRange" THEN lostOffer \cup {p} ELSE lostOffer
  /\ UNCHANGED <<up, joining, rateVars, modeVars, firstSeen, useful, outOfRange, pending,
                 ban, since, offered>>

-----------------------------------------------------------------------------
(* The watch's goroutine: one event, or one tick, at a time.               *)
Ready == ~serving /\ pending = {} /\ ban["tick"] = None

OnConnect(p) ==
  /\ firstSeen' = [firstSeen EXCEPT ![p] = IF @ = -1 THEN 0 ELSE @]
  /\ UNCHANGED <<useful, outOfRange>>

(* Mutant: the old connection's time stays.                                *)
KeepFirstSeen(p) ==
  /\ outOfRange' = outOfRange \ {p}
  /\ UNCHANGED <<firstSeen, useful>>

OnDisconnect(p) ==
  /\ firstSeen' = [firstSeen EXCEPT ![p] = -1]
  /\ outOfRange' = outOfRange \ {p}
  /\ UNCHANGED useful

MarkUseful(p) ==
  /\ useful' = useful \cup {p}
  /\ UNCHANGED <<firstSeen, outOfRange>>

MarkOutOfRange(p) ==
  /\ outOfRange' = outOfRange \cup {p}
  /\ UNCHANGED <<firstSeen, useful>>

RunEvent ==
  LET e == Head(sub) IN
  /\ Ready
  /\ sub # <<>>
  /\ sub' = Tail(sub)
  /\ \/ e.kind = "connected" /\ OnConnect(e.peer)
     \/ e.kind = "removed" /\ OnDisconnect(e.peer)
     \/ e.kind = "inRange" /\ MarkUseful(e.peer)
     \/ e.kind = "below" /\ MarkOutOfRange(e.peer)
  /\ UNCHANGED <<reactorVars, modeVars, pending, ban, historyVars>>

Unfit(p) == RequireStateSyncChannel /\ p \in noChannel

(* Mutant: an offer below the window counts more than one inside it.       *)
ToEvictBelow ==
  {p \in up : /\ firstSeen[p] # -1
              /\ \/ p \in outOfRange
                 \/ p \notin useful /\ (Unfit(p) \/ firstSeen[p] >= Grace)}

(* Mutant: a peer without an offer is left alone.                          *)
ToEvictNever == {p \in up \ useful : firstSeen[p] # -1 /\ (Unfit(p) \/ p \in outOfRange)}

ToEvict ==
  {p \in up \ useful : /\ firstSeen[p] # -1
                       /\ Unfit(p) \/ p \in outOfRange \/ firstSeen[p] >= Grace}

(* Evictions are decided on under the lock and carried out after it.       *)
Tick ==
  /\ Ready
  /\ firstSeen' = [p \in Peers |-> IF p \in up THEN firstSeen[p] ELSE -1]
  /\ pending' = ToEvict
  /\ UNCHANGED <<reactorVars, modeVars, sub, useful, outOfRange, ban, historyVars>>

TickSkipsGone(p) ==
  /\ p \in pending \ up
  /\ ban["tick"] = None
  /\ pending' = pending \ {p}
  /\ UNCHANGED <<reactorVars, modeVars, sub, firstSeen, useful, outOfRange, ban, historyVars>>

(* banPeer: StopPeerGracefully, which runs RemovePeer; then, under the     *)
(* lock, the peer's time is forgotten, also if it is connected again.      *)
BanStop(c, p) ==
  /\ ~serving
  /\ p \in up
  /\ ban[c] = None
  /\ c = "tick" => p \in pending
  /\ pending' = IF c = "tick" THEN pending \ {p} ELSE pending
  /\ ban' = [ban EXCEPT ![c] = p]
  /\ \E w \in Sweepers : Idle(w) /\ RemovePeer(p, w)
  /\ Removal(p)

BanForget(c) ==
  LET p == ban[c] IN
  /\ p # None
  /\ firstSeen' = [firstSeen EXCEPT ![p] = -1]
  /\ unseen' = IF p \in up THEN unseen \cup {p} ELSE unseen
  /\ ban' = [ban EXCEPT ![c] = None]
  /\ UNCHANGED <<reactorVars, modeVars, sub, useful, outOfRange, pending, since, offered,
                 lostOffer, blurred>>

-----------------------------------------------------------------------------
Watch == \/ RunEvent \/ Tick
         \/ \E p \in Peers : TickSkipsGone(p) \/ BanStop("tick", p)
         \/ \E c \in Callers : BanForget(c)

Next == \/ \E p \in Around : \/ PeerConnects(p) \/ SwitchAddsPeer(p) \/ PeerDisconnects(p)
                             \/ PeerAsks(p) \/ BanStop("other", p)
                             \/ \E kind \in {"inRange", "below"} : PeerOffers(p, kind)
        \/ Sweep
        \/ Elapse
        \/ FanoutCtrl
        \/ Watch

(* Time goes on, the mux and the watch run, and a select does not pass     *)
(* over the ticker, or a channel that is ready, for ever.                  *)
Spec ==
  /\ Init /\ [][Next]_vars
  /\ WF_vars(Elapse) /\ WF_vars(FanoutCtrl)
  /\ WF_vars(RunEvent) /\ WF_vars(Tick)
  /\ \A p \in Peers : /\ WF_vars(SwitchAddsPeer(p))
                      /\ WF_vars(TickSkipsGone(p)) /\ WF_vars(BanStop("tick", p))
  /\ \A c \in Callers : WF_vars(BanForget(c))

-----------------------------------------------------------------------------
Queued(kind, p) == \E q \in {out, sub} : \E i \in 1 .. Len(q) : q[i] = Event(kind, p)

(* "Clears firstSeen and the out-of-range flag so a reconnect gets a fresh *)
(* grace window" (peerwatch.go:142-143): however connections, events and   *)
(* evictions by others interleave, tick gives no peer up for lack of an    *)
(* offer before it has been connected for the whole grace, unless the      *)
(* removal that ended an earlier connection was dropped, overtaken by the  *)
(* peer's Connected event, or is still queued.                             *)
GraceHonoured ==
  [][\A p \in pending' \ pending :
       Unfit(p) \/ p \in outOfRange \/ since[p] >= Grace
         \/ p \in blurred \/ Queued("removed", p)]_vars

(* "peers connected for >= grace with no useful flag get                   *)
(* StopPeerGracefully'd" (peerwatch.go:18-22), no others: tick evicts a    *)
(* peer that has ever offered a snapshot in the window only if the offer   *)
(* was dropped at a full channel or is still on its way to the watch, as   *)
(* it is when it arrives between the decision and the eviction.            *)
UsefulKept ==
  [][\A p \in Peers :
       BanStop("tick", p) => \/ p \notin offered
                             \/ p \in lostOffer
                             \/ Queued("inRange", p)]_vars

(* Liveness: no peer stays connected for ever without a useful offer,      *)
(* whatever is dropped, however often it reconnects and whoever else       *)
(* evicts it (tick, peerwatch.go:150-209), except one the watch cannot     *)
(* know of: its Connected event was dropped, or banPeer of its earlier     *)
(* connection came late and deleted its entry.                             *)
UselessGoes ==
  \A p \in Peers : []<>(serving \/ p \notin up \/ p \in useful \/ p \in unseen)
=============================================================================
