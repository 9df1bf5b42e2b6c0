-------------------------- MODULE PeerWatch_proofs --------------------------
(***************************************************************************)
(* Proofs about the reactor's token buckets and the churn loop, for any    *)
(* number of peers, sweeps and events: no peer gets more than one bucket's *)
(* rate by reconnecting, and the loop gives up no peer before its grace or *)
(* against an offer that reached it.                                       *)
(***************************************************************************)
EXTENDS PeerWatch, SequenceTheorems, TLAPS

-----------------------------------------------------------------------------
(* What the reactor's tables see of a step.                                *)
RateStep ==
  \/ \E p \in Peers : Connect(p) \/ AddPeer(p) \/ ChunkRequest(p)
  \/ \E p \in Peers, w \in Sweepers : p \in up /\ RemovePeer(p, w)
  \/ \E p \in Peers, w \in Sweepers : SweepLook(w, p)
  \/ \E w \in Sweepers : SweepDelete(w)
  \/ Refill
  \/ UNCHANGED <<up, joining, rateVars>>

LEMMA AroundPeers == Around \subseteq Peers
BY WatchConstants DEF Around

LEMMA RateSteps == [Next]_vars => RateStep
<1> SUFFICES ASSUME [Next]_vars PROVE RateStep
  OBVIOUS
<1> USE AroundPeers DEF RateStep
<1>1. ASSUME NEW p \in Around,
             PeerConnects(p) \/ SwitchAddsPeer(p) \/ PeerDisconnects(p) \/ PeerAsks(p)
      PROVE  RateStep
  BY <1>1 DEF PeerConnects, SwitchAddsPeer, PeerDisconnects, PeerAsks, Disconnect
<1>2. ASSUME NEW p \in Peers, NEW c \in Callers, BanStop(c, p) PROVE RateStep
  BY <1>2 DEF BanStop
<1>3. CASE Sweep
  BY <1>3 DEF Sweep
<1>4. CASE Elapse
  BY <1>4 DEF Elapse
<1>5. CASE UNCHANGED <<up, joining, rateVars>>
  BY <1>5
<1>. QED
  BY <1>1, <1>2, <1>3, <1>4, <1>5
  DEF Next, PeerOffers, SnapshotsResponse, FanoutCtrl, Watch, RunEvent, Tick, TickSkipsGone, BanForget,
      Callers, vars, reactorVars

-----------------------------------------------------------------------------
(***************************************************************************)
(* The token buckets.  A limiter never holds more than the bucket that no  *)
(* reconnect refreshes; where there is no limiter that bucket is full; and *)
(* it fills up while a tombstone ages.  A sweep deletes an entry whose     *)
(* tombstone is old, so one whose bucket is full, unless the peer has come *)
(* back since the sweep looked.                                            *)
(***************************************************************************)
RateOK == /\ tokens \in [Peers -> -1 .. Burst]
          /\ age \in [Peers -> -1 .. Oldest]
          /\ credit \in [Peers -> -1 .. Burst]

SweepOK == /\ left \in [Sweepers -> SUBSET Peers]
           /\ doomed \in [Sweepers -> Peers \cup {None}]

NoTombstone == \A p \in Peers : tokens[p] = -1 => age[p] = -1

(* A sweep only ever decides on peers whose AddPeer is not done.           *)
DecidedEarly ==
  /\ \A p \in up \ joining : p \in Peers => age[p] = -1
  /\ \A w \in Sweepers : left[w] \cap (up \ joining) = {}
  /\ \A w \in Sweepers : doomed[w] # None => w \in early

TokensCovered ==
  \A p \in Peers \ overtaken : IF tokens[p] = -1 THEN credit[p] = Burst ELSE tokens[p] <= credit[p]

TombstoneFills ==
  \A p \in Peers \ overtaken :
    p \notin up /\ age[p] # -1 => credit[p] >= Burst \/ credit[p] >= age[p]

RateInv == RateOK /\ SweepOK /\ NoTombstone /\ DecidedEarly /\ TokensCovered /\ TombstoneFills

LEMMA RateInit == Init => RateInv
<1> SUFFICES ASSUME Init PROVE RateInv
  OBVIOUS
<1>1. RateOK
  BY ReactorConstants DEF Init, ReactorInit, RateOK, Oldest, RefillTime
<1>2. SweepOK /\ NoTombstone /\ DecidedEarly
  BY DEF Init, ReactorInit, SweepOK, NoTombstone, DecidedEarly
<1>3. TokensCovered /\ TombstoneFills
  BY DEF Init, ReactorInit, TokensCovered, TombstoneFills
<1>. QED
  BY <1>1, <1>2, <1>3 DEF RateInv

LEMMA RateOKStep == RateOK /\ SweepOK /\ RateStep => RateOK' /\ SweepOK'
<1> SUFFICES ASSUME RateOK, SweepOK, RateStep PROVE RateOK' /\ SweepOK'
  OBVIOUS
<1> USE ReactorConstants DEF RateOK, SweepOK, Oldest, RefillTime
<1>1. ASSUME NEW p \in Peers, Connect(p) PROVE RateOK' /\ SweepOK'
  BY <1>1 DEF Connect, rateVars, limiterVars, sweepVars
<1>2. ASSUME NEW p \in Peers, AddPeer(p) PROVE RateOK' /\ SweepOK'
  BY <1>2 DEF AddPeer, ClearTombstone
<1>3. ASSUME NEW p \in Peers, ChunkRequest(p) PROVE RateOK' /\ SweepOK'
  <2>1. tokens' \in [Peers -> -1 .. Burst] /\ credit' \in [Peers -> -1 .. Burst]
    BY <1>3 DEF ChunkRequest
  <2>. QED
    BY <1>3, <2>1 DEF ChunkRequest, sweepVars
<1>4. ASSUME NEW p \in Peers, NEW w \in Sweepers, RemovePeer(p, w) PROVE RateOK' /\ SweepOK'
  <2>1. age' \in [Peers -> -1 .. Oldest]
    BY <1>4 DEF RemovePeer
  <2>2. left' \in [Sweepers -> SUBSET Peers]
    BY <1>4 DEF RemovePeer
  <2>. QED
    BY <1>4, <2>1, <2>2 DEF RemovePeer
<1>5. ASSUME NEW p \in Peers, NEW w \in Sweepers, SweepLook(w, p) PROVE RateOK' /\ SweepOK'
  BY <1>5 DEF SweepLook, limiterVars
<1>6. ASSUME NEW w \in Sweepers, SweepDelete(w) PROVE RateOK' /\ SweepOK'
  BY <1>6 DEF SweepDelete
<1>7. CASE Refill
  <2>1. tokens' \in [Peers -> -1 .. Burst]
    BY <1>7 DEF Refill, Capped
  <2>2. age' \in [Peers -> -1 .. Oldest]
    BY <1>7 DEF Refill, Capped
  <2>3. credit' \in [Peers -> -1 .. Burst]
    BY <1>7 DEF Refill, Capped
  <2>. QED
    BY <1>7, <2>1, <2>2, <2>3 DEF Refill, sweepVars
<1>8. CASE UNCHANGED <<up, joining, rateVars>>
  BY <1>8 DEF rateVars, limiterVars, sweepVars
<1>. QED
  BY <1>1, <1>2, <1>3, <1>4, <1>5, <1>6, <1>7, <1>8 DEF RateStep

LEMMA NoTombstoneStep == RateOK /\ NoTombstone /\ RateStep => NoTombstone'
<1> SUFFICES ASSUME RateOK, NoTombstone, RateStep PROVE NoTombstone'
  OBVIOUS
<1> USE ReactorConstants DEF RateOK, NoTombstone
<1>1. ASSUME NEW p \in Peers, AddPeer(p) PROVE NoTombstone'
  BY <1>1 DEF AddPeer, ClearTombstone
<1>2. ASSUME NEW p \in Peers, ChunkRequest(p) PROVE NoTombstone'
  BY <1>2 DEF ChunkRequest
<1>3. ASSUME NEW p \in Peers, NEW w \in Sweepers, RemovePeer(p, w) PROVE NoTombstone'
  BY <1>3 DEF RemovePeer
<1>4. ASSUME NEW w \in Sweepers, SweepDelete(w) PROVE NoTombstone'
  BY <1>4 DEF SweepDelete
<1>5. CASE Refill
  BY <1>5 DEF Refill, Capped
<1>6. CASE UNCHANGED limiterVars
  BY <1>6 DEF limiterVars
<1>. QED
  BY <1>1, <1>2, <1>3, <1>4, <1>5, <1>6 DEF RateStep, Connect, SweepLook, rateVars

LEMMA DecidedEarlyStep == RateOK /\ SweepOK /\ DecidedEarly /\ RateStep => DecidedEarly'
<1> SUFFICES ASSUME RateOK, SweepOK, DecidedEarly, RateStep PROVE DecidedEarly'
  OBVIOUS
<1> USE ReactorConstants DEF RateOK, SweepOK, DecidedEarly
<1>1. ASSUME NEW p \in Peers, Connect(p) PROVE DecidedEarly'
  BY <1>1 DEF Connect, rateVars, limiterVars, sweepVars
<1>2. ASSUME NEW p \in Peers, AddPeer(p) PROVE DecidedEarly'
  BY <1>2 DEF AddPeer, ClearTombstone
<1>3. ASSUME NEW p \in Peers, NEW w \in Sweepers, RemovePeer(p, w) PROVE DecidedEarly'
  <2>1. up' = up \ {p} /\ joining' = joining /\ UNCHANGED <<doomed, early>>
    BY <1>3 DEF RemovePeer
  <2>2. \A q \in up' \ joining' : q \in Peers => age'[q] = -1
    BY <1>3, <2>1 DEF RemovePeer
  <2>3. ASSUME NEW v \in Sweepers, NEW q \in left'[v], q \in up' \ joining' PROVE FALSE
    <3>1. CASE v = w /\ Burst > 0
      <4>1. q \in Peers /\ age'[q] > 2 * RefillTime
        BY <1>3, <2>3, <3>1 DEF RemovePeer
      <4>. QED
        BY <2>2, <2>3, <4>1 DEF RefillTime
    <3>2. CASE ~(v = w /\ Burst > 0)
      <4>1. q \in left[v]
        BY <1>3, <2>3, <3>2 DEF RemovePeer
      <4>. QED
        BY <2>1, <2>3, <4>1
    <3>. QED BY <3>1, <3>2
  <2>. QED
    BY <2>1, <2>2, <2>3
<1>4. ASSUME NEW p \in Peers, NEW w \in Sweepers, SweepLook(w, p) PROVE DecidedEarly'
  <2>1. p \notin up \ joining
    BY <1>4 DEF SweepLook
  <2>. QED
    BY <1>4, <2>1 DEF SweepLook, limiterVars
<1>5. ASSUME NEW w \in Sweepers, SweepDelete(w) PROVE DecidedEarly'
  BY <1>5 DEF SweepDelete
<1>6. CASE Refill
  BY <1>6 DEF Refill, sweepVars
<1>7. CASE UNCHANGED <<up, joining, age, left, doomed, early>>
  BY <1>7
<1>. QED
  BY <1>1, <1>2, <1>3, <1>4, <1>5, <1>6, <1>7
  DEF RateStep, ChunkRequest, rateVars, limiterVars, sweepVars

(* When a sweep deletes, the peer is away and its bucket full, or it is    *)
(* counted as overtaken.                                                   *)
LEMMA DeletesFull ==
  ASSUME RateOK, SweepOK, DecidedEarly, TombstoneFills, NEW w \in Sweepers, SweepDelete(w)
  PROVE  /\ doomed[w] \in Peers
         /\ doomed[w] \in overtaken' \/ credit[doomed[w]] = Burst
<1>1. doomed[w] \in Peers /\ w \in early
  BY ReactorConstants DEF SweepOK, DecidedEarly, SweepDelete
<1>2. ASSUME doomed[w] \notin overtaken' PROVE credit[doomed[w]] = Burst
  <2>1. doomed[w] \notin up /\ age[doomed[w]] > 2 * RefillTime /\ doomed[w] \notin overtaken
    BY <1>1, <1>2, ReactorConstants DEF SweepDelete, RateOK, RefillTime
  <2>2. credit[doomed[w]] >= Burst \/ credit[doomed[w]] >= age[doomed[w]]
    BY <1>1, <2>1, ReactorConstants DEF TombstoneFills, RefillTime
  <2>. QED
    BY <1>1, <2>1, <2>2, ReactorConstants DEF RateOK, RefillTime
<1>. QED BY <1>1, <1>2

LEMMA OvertakenStays == RateStep => overtaken \subseteq overtaken'
BY DEF RateStep, Connect, AddPeer, ChunkRequest, RemovePeer, SweepLook, SweepDelete, Refill, rateVars

LEMMA TokensStep ==
  RateOK /\ SweepOK /\ DecidedEarly /\ TokensCovered /\ TombstoneFills /\ RateStep => TokensCovered'
<1> SUFFICES ASSUME RateOK, SweepOK, DecidedEarly, TokensCovered, TombstoneFills, RateStep,
                    NEW q \in Peers, q \notin overtaken'
             PROVE  IF tokens'[q] = -1 THEN credit'[q] = Burst ELSE tokens'[q] <= credit'[q]
  BY DEF TokensCovered
<1>1. q \notin overtaken
  BY OvertakenStays
<1>2. IF tokens[q] = -1 THEN credit[q] = Burst ELSE tokens[q] <= credit[q]
  BY <1>1 DEF TokensCovered
<1> USE ReactorConstants DEF RateOK
<1>3. ASSUME NEW p \in Peers, ChunkRequest(p)
      PROVE  IF tokens'[q] = -1 THEN credit'[q] = Burst ELSE tokens'[q] <= credit'[q]
  BY <1>2, <1>3 DEF ChunkRequest
<1>4. ASSUME NEW w \in Sweepers, SweepDelete(w)
      PROVE  IF tokens'[q] = -1 THEN credit'[q] = Burst ELSE tokens'[q] <= credit'[q]
  <2>1. credit' = credit /\ tokens' = [tokens EXCEPT ![doomed[w]] = -1]
    BY <1>4 DEF SweepDelete
  <2>2. q = doomed[w] => credit[q] = Burst
    BY <1>4, DeletesFull
  <2>. QED BY <1>2, <2>1, <2>2
<1>5. CASE Refill
  BY <1>2, <1>5 DEF Refill, Capped
<1>6. CASE UNCHANGED <<tokens, credit>>
  BY <1>2, <1>6
<1>. QED
  BY <1>3, <1>4, <1>5, <1>6
  DEF RateStep, Connect, AddPeer, RemovePeer, SweepLook, rateVars, limiterVars

LEMMA FillsStep ==
  RateOK /\ SweepOK /\ NoTombstone /\ TokensCovered /\ TombstoneFills /\ RateStep => TombstoneFills'
<1> SUFFICES ASSUME RateOK, SweepOK, NoTombstone, TokensCovered, TombstoneFills, RateStep,
                    NEW q \in Peers, q \notin overtaken', q \notin up', age'[q] # -1
             PROVE  credit'[q] >= Burst \/ credit'[q] >= age'[q]
  BY DEF TombstoneFills
<1>1. q \notin overtaken
  BY OvertakenStays
<1>2. q \notin up /\ age[q] # -1 => credit[q] >= Burst \/ credit[q] >= age[q]
  BY <1>1 DEF TombstoneFills
<1>3. credit[q] >= 0
  BY <1>1, ReactorConstants DEF TokensCovered, RateOK
<1> USE ReactorConstants DEF RateOK
<1>4. ASSUME NEW p \in Peers, ChunkRequest(p)
      PROVE  credit'[q] >= Burst \/ credit'[q] >= age'[q]
  BY <1>2, <1>4 DEF ChunkRequest
<1>5. ASSUME NEW p \in Peers, NEW w \in Sweepers, p \in up, RemovePeer(p, w)
      PROVE  credit'[q] >= Burst \/ credit'[q] >= age'[q]
  <2>1. credit' = credit
    BY <1>5 DEF RemovePeer
  <2>2. CASE q = p
    <3>1. age'[q] = 0
      BY <1>5, <2>2 DEF RemovePeer, NoTombstone
    <3>. QED BY <1>3, <2>1, <3>1
  <2>3. CASE q # p
    <3>1. age'[q] = age[q] /\ q \notin up
      BY <1>5, <2>3 DEF RemovePeer
    <3>. QED BY <1>2, <2>1, <3>1
  <2>. QED BY <2>2, <2>3
<1>6. ASSUME NEW w \in Sweepers, SweepDelete(w)
      PROVE  credit'[q] >= Burst \/ credit'[q] >= age'[q]
  <2>1. credit' = credit /\ up' = up /\ age' = [age EXCEPT ![doomed[w]] = -1]
    BY <1>6 DEF SweepDelete
  <2>. QED BY <1>2, <2>1
<1>7. CASE Refill
  BY <1>2, <1>7 DEF Refill, Capped
<1>8. ASSUME NEW p \in Peers, AddPeer(p)
      PROVE  credit'[q] >= Burst \/ credit'[q] >= age'[q]
  BY <1>2, <1>8 DEF AddPeer, ClearTombstone
<1>9. CASE UNCHANGED <<age, credit>> /\ up \subseteq up'
  BY <1>2, <1>9
<1>. QED
  BY <1>4, <1>5, <1>6, <1>7, <1>8, <1>9 DEF RateStep, Connect, SweepLook, rateVars, limiterVars

(* For any number of peers and of concurrent sweeps, and any burst: a peer *)
(* that disconnects and comes back as often as it likes is served no more  *)
(* than one uninterrupted bucket allows, unless a sweep that had decided   *)
(* before its AddPeer deleted its limiter (reactor.go:405-440).            *)
THEOREM ReconnectGainsNothing == Spec => []RateHeld
<1>1. RateInv /\ [Next]_vars => RateInv'
  BY RateSteps, RateOKStep, NoTombstoneStep, DecidedEarlyStep, TokensStep, FillsStep DEF RateInv
<1>2. RateInv => RateHeld
  BY ReactorConstants DEF RateInv, TokensCovered, RateOK, RateHeld
<1>. QED
  BY RateInit, <1>1, <1>2, PTL DEF Spec

-----------------------------------------------------------------------------
(* Queues: what is in one, and when every c in one has an r behind it.     *)
InQueue(q, e) == \E i \in 1 .. Len(q) : q[i] = e

Settled(q, c, r) == \A i \in 1 .. Len(q) : q[i] = c => \E j \in i + 1 .. Len(q) : q[j] = r

LEMMA InAppended ==
  ASSUME NEW S, NEW q \in Seq(S), NEW x \in S, NEW e
  PROVE  InQueue(Append(q, x), e) <=> InQueue(q, e) \/ e = x
<1>1. Len(Append(q, x)) = Len(q) + 1 /\ Len(q) \in Nat
  OBVIOUS
<1>2. Append(q, x)[Len(q) + 1] = x /\ \A i \in 1 .. Len(q) : Append(q, x)[i] = q[i]
  OBVIOUS
<1>. QED
  BY <1>1, <1>2 DEF InQueue

LEMMA InTail ==
  ASSUME NEW S, NEW q \in Seq(S), q # <<>>, NEW e
  PROVE  InQueue(q, e) <=> e = Head(q) \/ InQueue(Tail(q), e)
<1>1. Len(q) \in Nat \ {0} /\ Len(Tail(q)) = Len(q) - 1 /\ Head(q) = q[1]
  OBVIOUS
<1>2. \A i \in 1 .. Len(q) - 1 : Tail(q)[i] = q[i + 1]
  OBVIOUS
<1>3. ASSUME NEW i \in 1 .. Len(q), q[i] = e, i # 1 PROVE InQueue(Tail(q), e)
  <2>1. i - 1 \in 1 .. Len(Tail(q)) /\ Tail(q)[i - 1] = e
    BY <1>1, <1>2, <1>3
  <2>. QED BY <2>1 DEF InQueue
<1>4. ASSUME NEW i \in 1 .. Len(Tail(q)), Tail(q)[i] = e PROVE InQueue(q, e)
  <2>1. i + 1 \in 1 .. Len(q) /\ q[i + 1] = e
    BY <1>1, <1>2, <1>4
  <2>. QED BY <2>1 DEF InQueue
<1>. QED
  BY <1>1, <1>3, <1>4 DEF InQueue

LEMMA SettledAppended ==
  ASSUME NEW S, NEW q \in Seq(S), NEW x \in S, NEW c, NEW r, r # c,
         (x # c /\ Settled(q, c, r)) \/ x = r
  PROVE  Settled(Append(q, x), c, r)
<1>1. Len(Append(q, x)) = Len(q) + 1 /\ Len(q) \in Nat
  OBVIOUS
<1>2. Append(q, x)[Len(q) + 1] = x /\ \A i \in 1 .. Len(q) : Append(q, x)[i] = q[i]
  OBVIOUS
<1> SUFFICES ASSUME NEW i \in 1 .. Len(q) + 1, Append(q, x)[i] = c
             PROVE  \E j \in i + 1 .. Len(q) + 1 : Append(q, x)[j] = r
  BY <1>1 DEF Settled
<1>3. i \in 1 .. Len(q)
  BY <1>1, <1>2
<1>4. CASE x = r
  BY <1>1, <1>2, <1>3, <1>4
<1>5. CASE Settled(q, c, r)
  <2>1. PICK j \in i + 1 .. Len(q) : q[j] = r
    BY <1>2, <1>3, <1>5 DEF Settled
  <2>. QED BY <1>1, <1>2, <2>1
<1>. QED BY <1>4, <1>5

LEMMA SettledRest ==
  ASSUME NEW S, NEW q \in Seq(S), q # <<>>, NEW c, NEW r, Settled(q, c, r)
  PROVE  /\ Settled(Tail(q), c, r)
         /\ Head(q) = c => InQueue(Tail(q), r)
<1>1. Len(q) \in Nat \ {0} /\ Len(Tail(q)) = Len(q) - 1 /\ Head(q) = q[1]
  OBVIOUS
<1>2. \A i \in 1 .. Len(q) - 1 : Tail(q)[i] = q[i + 1]
  OBVIOUS
<1>3. ASSUME NEW i \in 1 .. Len(q) - 1, Tail(q)[i] = c
      PROVE  \E j \in i + 1 .. Len(q) - 1 : Tail(q)[j] = r
  <2>1. PICK j \in i + 2 .. Len(q) : q[j] = r
    <3>1. i + 1 \in 1 .. Len(q) /\ q[i + 1] = c
      BY <1>1, <1>2, <1>3
    <3>2. \E j \in (i + 1) + 1 .. Len(q) : q[j] = r
      BY <3>1 DEF Settled
    <3>. QED BY <3>2
  <2>2. j - 1 \in i + 1 .. Len(q) - 1 /\ Tail(q)[j - 1] = r
    BY <1>1, <1>2, <2>1
  <2>. QED BY <2>2
<1>4. ASSUME Head(q) = c PROVE InQueue(Tail(q), r)
  <2>1. PICK j \in 2 .. Len(q) : q[j] = r
    <3>1. \E j \in 1 + 1 .. Len(q) : q[j] = r
      BY <1>1, <1>4 DEF Settled
    <3>. QED BY <3>1
  <2>2. j - 1 \in 1 .. Len(Tail(q)) /\ Tail(q)[j - 1] = r
    BY <1>1, <1>2, <2>1
  <2>. QED BY <2>2 DEF InQueue
<1>. QED
  BY <1>1, <1>3, <1>4 DEF Settled

-----------------------------------------------------------------------------
(* Out and the watch's buffer.                                             *)
QueueOK == out \in Seq(Events) /\ sub \in Seq(Events)

LEMMA QueuedIn ==
  ASSUME NEW kind, NEW p
  PROVE  /\ Queued(kind, p) <=> InQueue(out, Event(kind, p)) \/ InQueue(sub, Event(kind, p))
         /\ Queued(kind, p)' <=> InQueue(out', Event(kind, p)) \/ InQueue(sub', Event(kind, p))
BY DEF Queued, InQueue, Event

(* An event that is sent is queued unless the channel is full, and pushes  *)
(* out none that is there.                                                 *)
LEMMA PublishKeeps ==
  ASSUME QueueOK, NEW e \in Events, Publish(e), NEW x
  PROVE  /\ out' \in Seq(Events)
         /\ InQueue(out, x) => InQueue(out', x)
         /\ ~Full => InQueue(out', e)
<1>1. CASE Full
  BY <1>1 DEF Publish, QueueOK
<1>2. CASE ~Full
  <2>1. out' = Append(out, e) /\ out \in Seq(Events)
    BY <1>2 DEF Publish, QueueOK
  <2>2. InQueue(out, x) => InQueue(out', x)
    BY <2>1, InAppended
  <2>3. InQueue(out', e)
    BY <2>1, InAppended
  <2>. QED BY <2>1, <2>2, <2>3
<1>. QED BY <1>1, <1>2

(* The mux takes the first event and passes it on, or drops it.            *)
LEMMA FanoutKeeps ==
  ASSUME QueueOK, FanoutCtrl, NEW x
  PROVE  /\ out' \in Seq(Events) /\ sub' \in Seq(Events) /\ Head(out) \in Events
         /\ InQueue(out, x) => x = Head(out) \/ InQueue(out', x)
         /\ InQueue(sub, x) => InQueue(sub', x)
         /\ Len(sub) < SubCap => InQueue(sub', Head(out))
<1>1. out \in Seq(Events) /\ sub \in Seq(Events) /\ out # <<>> /\ out' = Tail(out)
  BY DEF FanoutCtrl, QueueOK
<1>2. out' \in Seq(Events) /\ Head(out) \in Events
  BY <1>1
<1>3. InQueue(out, x) => x = Head(out) \/ InQueue(out', x)
  BY <1>1, InTail
<1>4. CASE Len(sub) < SubCap
  <2>1. sub' = Append(sub, Head(out))
    BY <1>4 DEF FanoutCtrl
  <2>2. (InQueue(sub, x) => InQueue(sub', x)) /\ InQueue(sub', Head(out))
    BY <1>1, <1>2, <2>1, InAppended
  <2>. QED BY <1>1, <1>2, <1>3, <2>1, <2>2
<1>5. CASE ~(Len(sub) < SubCap)
  <2>1. sub' = sub
    BY <1>5 DEF FanoutCtrl
  <2>. QED BY <1>1, <1>2, <1>3, <1>5, <2>1
<1>. QED BY <1>4, <1>5

LEMMA RunKeeps ==
  ASSUME QueueOK, RunEvent, NEW x
  PROVE  /\ sub' \in Seq(Events) /\ out' = out /\ Head(sub) \in Events
         /\ InQueue(sub, x) => x = Head(sub) \/ InQueue(sub', x)
<1>1. sub \in Seq(Events) /\ sub # <<>> /\ sub' = Tail(sub) /\ out' = out
  BY DEF RunEvent, QueueOK, reactorVars
<1>2. InQueue(sub, x) => x = Head(sub) \/ InQueue(sub', x)
  BY <1>1, InTail
<1>. QED BY <1>1, <1>2

(* Every send of the reactor.                                              *)
Send(p, kind) == Publish(Event(kind, p)) /\ UNCHANGED sub

LEMMA EventsTyped == \A p \in Peers, kind \in Kinds : Event(kind, p) \in Events
BY DEF Event, Events

LEMMA Sends ==
  ASSUME NEW p \in Peers
  PROVE  /\ SwitchAddsPeer(p) => Send(p, "connected")
         /\ PeerDisconnects(p) => Send(p, "removed")
         /\ \A c \in Callers : BanStop(c, p) => Send(p, "removed")
         /\ \A kind \in Kinds : PeerOffers(p, kind) => Send(p, kind)
BY DEF SwitchAddsPeer, AddPeer, PeerDisconnects, Disconnect, RemovePeer, BanStop, Removal, PeerOffers,
       SnapshotsResponse, Send, watchVars

LEMMA QueueStep == QueueOK /\ [Next]_vars => QueueOK'
<1> SUFFICES ASSUME QueueOK, [Next]_vars PROVE QueueOK'
  OBVIOUS
<1>1. ASSUME NEW p \in Peers, NEW kind \in Kinds, Send(p, kind) PROVE QueueOK'
  BY <1>1, PublishKeeps, EventsTyped DEF Send, QueueOK
<1>2. CASE FanoutCtrl
  BY <1>2, FanoutKeeps DEF QueueOK
<1>3. CASE RunEvent
  BY <1>3, RunKeeps DEF QueueOK
<1>4. CASE UNCHANGED <<out, sub>>
  BY <1>4 DEF QueueOK
<1>5. ASSUME NEW p \in Peers, NEW c \in Callers, BanStop(c, p) PROVE QueueOK'
  BY <1>1, <1>5, Sends DEF Kinds
<1>6. ASSUME NEW p \in Around,
             \/ SwitchAddsPeer(p) \/ PeerDisconnects(p)
             \/ \E kind \in {"inRange", "below"} : PeerOffers(p, kind)
      PROVE  QueueOK'
  BY <1>1, <1>6, Sends, AroundPeers DEF Kinds
<1>. QED
  BY <1>2, <1>3, <1>4, <1>5, <1>6, AroundPeers
  DEF Next, PeerConnects, Connect, PeerAsks, ChunkRequest, Sweep, SweepLook, SweepDelete, Elapse, Refill,
      Watch, Tick, TickSkipsGone, BanForget, Callers, vars, reactorVars, watchVars

-----------------------------------------------------------------------------
(***************************************************************************)
(* Offers.  One that was sent is marked, lost at a full channel, or still  *)
(* on its way; and nothing is marked while an eviction is decided on.      *)
(***************************************************************************)
OfferKept == \A p \in offered : p \in lostOffer \/ p \in useful \/ Queued("inRange", p)

PendingUseless == pending \cap useful = {}

LEMMA OfferStep == QueueOK /\ OfferKept /\ [Next]_vars => OfferKept'
<1> SUFFICES ASSUME QueueOK, OfferKept, [Next]_vars, NEW q \in offered'
             PROVE  q \in lostOffer' \/ q \in useful' \/ Queued("inRange", q)'
  BY DEF OfferKept
<1> DEFINE e == Event("inRange", q)
<1> SUFFICES q \in lostOffer' \/ q \in useful' \/ InQueue(out', e) \/ InQueue(sub', e)
  BY QueuedIn
<1>1. q \in offered => q \in lostOffer \/ q \in useful \/ InQueue(out, e) \/ InQueue(sub, e)
  BY QueuedIn DEF OfferKept
<1> HIDE DEF e
<1>2. ASSUME NEW p \in Peers, NEW kind \in Kinds, Send(p, kind), UNCHANGED useful,
             \/ UNCHANGED <<offered, lostOffer>>
             \/ kind = "inRange" /\ offered' = offered \cup {p}
                  /\ lostOffer' = IF Full THEN lostOffer \cup {p} ELSE lostOffer
      PROVE  q \in lostOffer' \/ q \in useful' \/ InQueue(out', e) \/ InQueue(sub', e)
  <2>1. (InQueue(out, e) => InQueue(out', e)) /\ sub' = sub
    BY <1>2, PublishKeeps, EventsTyped DEF Send
  <2>2. CASE q \in offered
    BY <1>1, <1>2, <2>1, <2>2
  <2>3. CASE q \notin offered
    <3>1. q = p /\ kind = "inRange"
      BY <1>2, <2>3
    <3>2. ~Full => InQueue(out', e)
      BY <1>2, <3>1, PublishKeeps, EventsTyped DEF Send, e
    <3>. QED BY <1>2, <2>3, <3>1, <3>2
  <2>. QED BY <2>2, <2>3
<1>3. CASE FanoutCtrl
  <2>1. offered' = offered /\ useful' = useful
    BY <1>3 DEF FanoutCtrl
  <2>2. lostOffer \subseteq lostOffer' /\ (Len(sub) < SubCap \/ e # Head(out) \/ q \in lostOffer')
    BY <1>3 DEF FanoutCtrl, Event, e
  <2>. QED BY <1>1, <1>3, <2>1, <2>2, FanoutKeeps
<1>4. CASE RunEvent
  <2>1. UNCHANGED <<offered, lostOffer>> /\ out' = out
    BY <1>4, RunKeeps DEF RunEvent, historyVars
  <2>2. useful \subseteq useful' /\ (e = Head(sub) => q \in useful')
    BY <1>4 DEF RunEvent, OnConnect, OnDisconnect, MarkUseful, MarkOutOfRange, Event, e
  <2>. QED BY <1>1, <1>4, <2>1, <2>2, RunKeeps
<1>5. CASE UNCHANGED <<out, sub, offered, lostOffer, useful>>
  BY <1>1, <1>5
<1>6. ASSUME NEW p \in Peers, NEW c \in Callers, BanStop(c, p)
      PROVE  q \in lostOffer' \/ q \in useful' \/ InQueue(out', e) \/ InQueue(sub', e)
  BY <1>2, <1>6, Sends DEF Kinds, BanStop, Removal
<1>7. ASSUME NEW p \in Around, SwitchAddsPeer(p) \/ PeerDisconnects(p)
      PROVE  q \in lostOffer' \/ q \in useful' \/ InQueue(out', e) \/ InQueue(sub', e)
  <2>1. UNCHANGED <<offered, lostOffer, useful>>
    BY <1>7 DEF SwitchAddsPeer, PeerDisconnects, Removal, watchVars
  <2>. QED BY <1>2, <1>7, <2>1, Sends, AroundPeers DEF Kinds
<1>8. ASSUME NEW p \in Around, NEW kind \in {"inRange", "below"}, PeerOffers(p, kind)
      PROVE  q \in lostOffer' \/ q \in useful' \/ InQueue(out', e) \/ InQueue(sub', e)
  <2>1. useful' = useful /\ Send(p, kind)
    BY <1>8, Sends, AroundPeers DEF PeerOffers, watchVars, Kinds
  <2>. QED BY <1>2, <1>8, <2>1, AroundPeers DEF PeerOffers, Kinds
<1>. QED
  BY <1>3, <1>4, <1>5, <1>6, <1>7, <1>8, AroundPeers
  DEF Next, PeerConnects, Connect, PeerAsks, ChunkRequest, Sweep, SweepLook, SweepDelete, Elapse, Refill,
      Watch, Tick, TickSkipsGone, BanForget, Callers, vars, reactorVars, watchVars, historyVars

LEMMA PendingStep == PendingUseless /\ [Next]_vars => PendingUseless'
<1> SUFFICES ASSUME PendingUseless, [Next]_vars PROVE PendingUseless'
  OBVIOUS
<1> USE DEF PendingUseless
<1>1. CASE RunEvent
  BY <1>1 DEF RunEvent, Ready
<1>2. CASE Tick
  BY <1>2 DEF Tick, ToEvict
<1>3. CASE pending' \subseteq pending /\ useful' = useful
  BY <1>3
<1>. QED
  BY <1>1, <1>2, <1>3
  DEF Next, PeerConnects, SwitchAddsPeer, PeerDisconnects, Removal, PeerAsks, BanStop, PeerOffers, Sweep,
      Elapse, FanoutCtrl, Watch, TickSkipsGone, BanForget, vars, watchVars

(* For any buffers and any number of peers: tick evicts no peer whose      *)
(* offer in the window has reached it; an offer that has not was dropped   *)
(* at a full channel or is still queued (peerwatch.go:150-209).            *)
THEOREM UsefulNeverEvicted == Spec => UsefulKept
<1> DEFINE Inv == QueueOK /\ OfferKept /\ PendingUseless
           Kept == \A p \in Peers : BanStop("tick", p) => \/ p \notin offered
                                                          \/ p \in lostOffer
                                                          \/ Queued("inRange", p)
<1>1. Init => Inv
  BY DEF Init, ReactorInit, QueueOK, OfferKept, PendingUseless
<1>2. Inv /\ [Next]_vars => Inv'
  BY QueueStep, OfferStep, PendingStep
<1>3. Inv /\ [Next]_vars => [Kept]_vars
  BY DEF OfferKept, PendingUseless, BanStop
<1>. QED
  BY <1>1, <1>2, <1>3, PTL DEF Spec, UsefulKept

-----------------------------------------------------------------------------
(***************************************************************************)
(* The grace.  The time the watch counts for a peer is no more than the    *)
(* connection has lasted, unless the removal that separates the two is     *)
(* lost or on its way.  A Connected event could start the count of a peer  *)
(* that is gone: behind it in the queues there is always the removal.      *)
(***************************************************************************)
TimesOK == /\ firstSeen \in [Peers -> -1 .. Grace]
           /\ since \in [Peers -> 0 .. Grace]

ServeQuiet == serving => sub = <<>> /\ \A p \in Peers : firstSeen[p] = -1

Added(p) == Event("connected", p)
Gone(p)  == Event("removed", p)

RemovalFollows ==
  \A p \in Peers \ up :
    \/ p \in blurred
    \/ /\ Settled(out, Added(p), Gone(p))
       /\ Settled(sub, Added(p), Gone(p)) \/ InQueue(out, Gone(p))

CountHonest ==
  \A p \in Peers : firstSeen[p] # -1 =>
    \/ p \in up /\ firstSeen[p] <= since[p]
    \/ p \in blurred
    \/ InQueue(out, Gone(p)) \/ InQueue(sub, Gone(p))

GraceInv == up \subseteq Peers /\ QueueOK /\ TimesOK /\ ServeQuiet /\ RemovalFollows /\ CountHonest

LEMMA EventsDiffer ==
  /\ \A p : Added(p) # Gone(p)
  /\ \A p, q, kind : kind # "connected" \/ p # q => Event(kind, p) # Added(q)
  /\ \A p, q, kind : kind # "removed" \/ p # q => Event(kind, p) # Gone(q)
BY DEF Added, Gone, Event

LEMMA BlurredStays == [Next]_vars => blurred \subseteq blurred'
BY DEF Next, PeerConnects, SwitchAddsPeer, PeerDisconnects, Removal, PeerAsks, BanStop, PeerOffers, Sweep,
       Elapse, FanoutCtrl, Watch, RunEvent, Tick, TickSkipsGone, BanForget, vars, historyVars

LEMMA UpStep == up \subseteq Peers /\ [Next]_vars => up' \subseteq Peers
BY RateSteps
DEF RateStep, Connect, AddPeer, ChunkRequest, RemovePeer, SweepLook, SweepDelete, Refill

LEMMA TimesStep == TimesOK /\ ServeQuiet /\ [Next]_vars => TimesOK' /\ ServeQuiet'
<1> SUFFICES ASSUME TimesOK, ServeQuiet, [Next]_vars PROVE TimesOK' /\ ServeQuiet'
  OBVIOUS
<1> USE WatchConstants, AroundPeers DEF TimesOK
<1>1. ASSUME NEW p \in Around, PeerConnects(p) PROVE TimesOK' /\ ServeQuiet'
  BY <1>1 DEF PeerConnects, modeVars, watchVars, ServeQuiet
<1>2. CASE Elapse
  <2>1. firstSeen' \in [Peers -> -1 .. Grace] /\ since' \in [Peers -> 0 .. Grace]
    BY <1>2 DEF Elapse, Capped
  <2>2. ServeQuiet'
    BY <1>2 DEF Elapse, ServeQuiet, modeVars
  <2>. QED BY <2>1, <2>2
<1>3. CASE RunEvent
  <2>1. firstSeen' \in [Peers -> -1 .. Grace]
    <3>1. \/ firstSeen' = firstSeen
          \/ \E p : firstSeen' = [firstSeen EXCEPT ![p] = IF @ = -1 THEN 0 ELSE @]
          \/ \E p : firstSeen' = [firstSeen EXCEPT ![p] = -1]
      BY <1>3 DEF RunEvent, OnConnect, OnDisconnect, MarkUseful, MarkOutOfRange
    <3>. QED BY <3>1
  <2>2. since' = since /\ ~serving /\ serving' = serving
    BY <1>3 DEF RunEvent, Ready, modeVars, historyVars
  <2>. QED BY <2>1, <2>2 DEF ServeQuiet
<1>4. CASE Tick
  <2>1. firstSeen' \in [Peers -> -1 .. Grace]
    BY <1>4 DEF Tick
  <2>2. since' = since /\ ~serving /\ serving' = serving
    BY <1>4 DEF Tick, Ready, modeVars, historyVars
  <2>. QED BY <2>1, <2>2 DEF ServeQuiet
<1>5. ASSUME NEW c \in Callers, BanForget(c) PROVE TimesOK' /\ ServeQuiet'
  <2>1. UNCHANGED <<serving, sub, since>> /\ firstSeen' = [firstSeen EXCEPT ![ban[c]] = -1]
    BY <1>5 DEF BanForget, modeVars
  <2>2. PICK x : firstSeen' = [firstSeen EXCEPT ![x] = -1]
    BY <2>1
  <2>3. firstSeen' \in [Peers -> -1 .. Grace]
    <3>1. -1 \in -1 .. Grace
      OBVIOUS
    <3>. QED BY <2>2, <3>1
  <2>4. \A p \in Peers : firstSeen[p] = -1 => firstSeen'[p] = -1
    BY <2>2
  <2>. QED BY <2>1, <2>3, <2>4 DEF ServeQuiet
<1>6. CASE FanoutCtrl
  BY <1>6 DEF FanoutCtrl, modeVars, ServeQuiet
<1>7. CASE UNCHANGED <<serving, sub, firstSeen, since>>
  BY <1>7 DEF ServeQuiet
<1>. QED
  BY <1>1, <1>2, <1>3, <1>4, <1>5, <1>6, <1>7
  DEF Next, SwitchAddsPeer, PeerDisconnects, Removal, PeerAsks, BanStop, PeerOffers, Sweep,
      Watch, TickSkipsGone, vars, modeVars, watchVars, historyVars

(* A send other than the peer's own Connected keeps its removal behind.    *)
LEMMA SendSettles ==
  ASSUME QueueOK, NEW p \in Peers, NEW kind \in Kinds, Send(p, kind), NEW q \in Peers
  PROVE  /\ kind # "connected" \/ p # q =>
              (Settled(out, Added(q), Gone(q)) => Settled(out', Added(q), Gone(q)))
         /\ kind = "removed" /\ p = q /\ ~Full => Settled(out', Added(q), Gone(q))
<1>1. out \in Seq(Events) /\ Event(kind, p) \in Events /\ Added(q) # Gone(q)
  BY EventsTyped, EventsDiffer DEF QueueOK
<1>2. CASE Full
  BY <1>2 DEF Send, Publish
<1>3. CASE ~Full
  <2>1. out' = Append(out, Event(kind, p))
    BY <1>3 DEF Send, Publish
  <2>2. ASSUME kind # "connected" \/ p # q, Settled(out, Added(q), Gone(q))
        PROVE  Settled(out', Added(q), Gone(q))
    <3>1. Event(kind, p) # Added(q)
      BY <2>2, EventsDiffer
    <3>. QED BY <1>1, <2>1, <2>2, <3>1, SettledAppended
  <2>3. ASSUME kind = "removed", p = q PROVE Settled(out', Added(q), Gone(q))
    <3>1. Event(kind, p) = Gone(q)
      BY <2>3 DEF Gone
    <3>. QED BY <1>1, <2>1, <3>1, SettledAppended
  <2>. QED BY <2>2, <2>3
<1>. QED BY <1>2, <1>3

LEMMA FollowsStep == QueueOK /\ RemovalFollows /\ [Next]_vars => RemovalFollows'
<1> SUFFICES ASSUME QueueOK, RemovalFollows, [Next]_vars, NEW q \in Peers, q \notin up', q \notin blurred'
             PROVE  /\ Settled(out', Added(q), Gone(q))
                    /\ Settled(sub', Added(q), Gone(q)) \/ InQueue(out', Gone(q))
  BY DEF RemovalFollows, Added, Gone, Event
<1> DEFINE c == Added(q)
           r == Gone(q)
           Goal == Settled(out', c, r) /\ (Settled(sub', c, r) \/ InQueue(out', r))
<1> SUFFICES Goal
  OBVIOUS
<1>1. q \notin blurred
  BY BlurredStays
<1>2. q \notin up => Settled(out, c, r) /\ (Settled(sub, c, r) \/ InQueue(out, r))
  BY <1>1 DEF RemovalFollows
<1>3. ASSUME NEW p \in Around, SwitchAddsPeer(p) PROVE Goal
  <2>1. p # q /\ q \notin up /\ Send(p, "connected") /\ p \in Peers /\ "connected" \in Kinds
    BY <1>3, AroundPeers, Sends DEF SwitchAddsPeer, AddPeer, Kinds
  <2>2. Settled(out', c, r) /\ sub' = sub
    BY <1>2, <2>1, SendSettles DEF Send
  <2>3. InQueue(out, r) => InQueue(out', r)
    BY <2>1, PublishKeeps, EventsTyped DEF Send
  <2>. QED BY <1>2, <2>1, <2>2, <2>3
<1>4. ASSUME NEW p \in Peers, Send(p, "removed"), Removal(p), up' = up \ {p} PROVE Goal
  <2>1. "removed" \in Kinds /\ sub' = sub
    BY <1>4 DEF Kinds, Send
  <2>2. CASE p = q
    <3>1. ~Full
      BY <1>4, <2>2 DEF Removal
    <3>2. Settled(out', c, r)
      BY <1>4, <2>1, <2>2, <3>1, SendSettles
    <3>3. InQueue(out', r)
      BY <1>4, <2>1, <2>2, <3>1, PublishKeeps, EventsTyped DEF Send, Gone
    <3>. QED BY <3>2, <3>3
  <2>3. CASE p # q
    <3>1. q \notin up
      BY <1>4, <2>3
    <3>2. Settled(out', c, r)
      BY <1>2, <1>4, <2>1, <3>1, SendSettles
    <3>3. InQueue(out, r) => InQueue(out', r)
      BY <1>4, <2>1, PublishKeeps, EventsTyped DEF Send
    <3>. QED BY <1>2, <2>1, <3>1, <3>2, <3>3
  <2>. QED BY <2>2, <2>3
<1>5. ASSUME NEW p \in Around, NEW kind \in {"inRange", "below"}, PeerOffers(p, kind) PROVE Goal
  <2>1. q \notin up /\ Send(p, kind) /\ p \in Peers /\ kind \in Kinds /\ kind # "connected"
    BY <1>5, AroundPeers, Sends DEF PeerOffers, SnapshotsResponse, Kinds
  <2>2. Settled(out', c, r) /\ sub' = sub
    BY <1>2, <2>1, SendSettles DEF Send
  <2>3. InQueue(out, r) => InQueue(out', r)
    BY <2>1, PublishKeeps, EventsTyped DEF Send
  <2>. QED BY <1>2, <2>1, <2>2, <2>3
<1>6. CASE FanoutCtrl
  <2>1. q \notin up /\ out \in Seq(Events) /\ sub \in Seq(Events) /\ out # <<>> /\ out' = Tail(out)
    BY <1>6 DEF FanoutCtrl, QueueOK
  <2>2. Settled(out', c, r) /\ (Head(out) = c => InQueue(out', r))
    BY <1>2, <2>1, SettledRest
  <2>3. c # r
    BY EventsDiffer
  <2>4. CASE Len(sub) < SubCap
    <3>1. sub' = Append(sub, Head(out)) /\ Head(out) \in Events
      BY <1>6, <2>1, <2>4 DEF FanoutCtrl
    <3>2. Head(out) = r => Settled(sub', c, r)
      BY <2>1, <2>3, <3>1, SettledAppended
    <3>3. Head(out) # c /\ Settled(sub, c, r) => Settled(sub', c, r)
      BY <2>1, <2>3, <3>1, SettledAppended
    <3>4. InQueue(out, r) => r = Head(out) \/ InQueue(out', r)
      BY <1>6, FanoutKeeps
    <3>. QED BY <1>2, <2>1, <2>2, <3>2, <3>3, <3>4
  <2>5. CASE ~(Len(sub) < SubCap)
    <3>1. sub' = sub /\ Head(out) # r
      BY <1>6, <2>5 DEF FanoutCtrl, Gone, Event
    <3>2. InQueue(out, r) => InQueue(out', r)
      BY <1>6, <3>1, FanoutKeeps
    <3>. QED BY <1>2, <2>1, <2>2, <3>1, <3>2
  <2>. QED BY <2>4, <2>5
<1>7. CASE RunEvent
  <2>1. q \notin up /\ out' = out /\ sub \in Seq(Events) /\ sub # <<>> /\ sub' = Tail(sub)
    BY <1>7 DEF RunEvent, QueueOK, reactorVars
  <2>2. Settled(sub, c, r) => Settled(sub', c, r)
    BY <2>1, SettledRest
  <2>. QED BY <1>2, <2>1, <2>2
<1>8. CASE up \subseteq up' /\ UNCHANGED <<out, sub>>
  BY <1>2, <1>8
<1>9. ASSUME NEW p \in Peers, NEW k \in Callers, BanStop(k, p) PROVE Goal
  <2>1. Send(p, "removed") /\ Removal(p) /\ up' = up \ {p}
    BY <1>9, Sends DEF BanStop, RemovePeer
  <2>. QED BY <1>4, <2>1
<1>10. ASSUME NEW p \in Around, PeerDisconnects(p) PROVE Goal
  <2>1. p \in Peers /\ Send(p, "removed") /\ Removal(p) /\ up' = up \ {p}
    BY <1>10, Sends, AroundPeers DEF PeerDisconnects, Disconnect, RemovePeer
  <2>. QED BY <1>4, <2>1
<1> HIDE DEF Goal
<1>. QED
  BY <1>3, <1>5, <1>6, <1>7, <1>8, <1>9, <1>10, AroundPeers
  DEF Next, PeerConnects, Connect, PeerAsks, ChunkRequest, Sweep, SweepLook, SweepDelete, Elapse, Refill,
      Watch, Tick, TickSkipsGone, BanForget, Callers, vars, reactorVars, watchVars

LEMMA CountStep == GraceInv /\ [Next]_vars => CountHonest'
<1> SUFFICES ASSUME GraceInv, [Next]_vars, NEW q \in Peers, firstSeen'[q] # -1
             PROVE  \/ q \in up' /\ firstSeen'[q] <= since'[q]
                    \/ q \in blurred'
                    \/ InQueue(out', Gone(q)) \/ InQueue(sub', Gone(q))
  BY DEF CountHonest, Gone, Event
<1> DEFINE r == Gone(q)
           Goal == \/ q \in up' /\ firstSeen'[q] <= since'[q]
                   \/ q \in blurred'
                   \/ InQueue(out', r) \/ InQueue(sub', r)
<1> SUFFICES Goal
  OBVIOUS
<1> USE WatchConstants DEF GraceInv, TimesOK
<1>1. blurred \subseteq blurred'
  BY BlurredStays
<1>2. firstSeen[q] # -1 => \/ q \in up /\ firstSeen[q] <= since[q]
                           \/ q \in blurred \/ InQueue(out, r) \/ InQueue(sub, r)
  BY DEF CountHonest
<1> HIDE DEF GraceInv
<1>3. QueueOK
  BY DEF GraceInv
<1>4. ASSUME NEW p \in Peers, NEW kind \in Kinds, Send(p, kind)
      PROVE  (InQueue(out, r) => InQueue(out', r)) /\ sub' = sub
  BY <1>3, <1>4, PublishKeeps, EventsTyped DEF Send
<1>5. ASSUME NEW p \in Peers, Send(p, "removed"), Removal(p), up' = up \ {p} PROVE Goal
  <2>1. (InQueue(out, r) => InQueue(out', r)) /\ sub' = sub /\ UNCHANGED <<firstSeen, since>>
    BY <1>4, <1>5 DEF Kinds, Removal
  <2>2. p = q => q \in blurred' \/ InQueue(out', r)
    BY <1>3, <1>5, PublishKeeps, EventsTyped DEF Send, Removal, Kinds, Gone
  <2>. QED BY <1>1, <1>2, <1>5, <2>1, <2>2
<1>6. ASSUME NEW p \in Peers, NEW kind \in Kinds, Send(p, kind), UNCHANGED <<up, firstSeen, since>>
      PROVE  Goal
  BY <1>1, <1>2, <1>4, <1>6
<1>7. ASSUME NEW p \in Around, PeerConnects(p) PROVE Goal
  <2>1. /\ p \notin up /\ up' = up \cup {p} /\ UNCHANGED <<out, sub, firstSeen>>
        /\ since' = [since EXCEPT ![p] = 0]
    BY <1>7 DEF PeerConnects, Connect, watchVars
  <2>. QED BY <1>1, <1>2, <2>1
<1>8. CASE Elapse
  <2>1. UNCHANGED <<up, out, sub>>
    BY <1>8 DEF Elapse, Refill
  <2>2. firstSeen[q] # -1 /\ firstSeen'[q] = Capped(firstSeen[q], Grace)
    BY <1>8 DEF Elapse
  <2>3. ~serving
    BY <2>2 DEF GraceInv, ServeQuiet
  <2>4. CASE q \in up /\ firstSeen[q] <= since[q]
    <3>1. since'[q] = Capped(since[q], Grace)
      BY <1>8, <2>3, <2>4 DEF Elapse
    <3>2. firstSeen[q] \in -1 .. Grace /\ since[q] \in 0 .. Grace
      BY DEF GraceInv
    <3>3. firstSeen'[q] <= since'[q]
      BY <2>2, <2>4, <3>1, <3>2 DEF Capped
    <3>. QED BY <2>1, <2>4, <3>3
  <2>5. CASE ~(q \in up /\ firstSeen[q] <= since[q])
    BY <1>1, <1>2, <2>1, <2>2, <2>5
  <2>. QED BY <2>4, <2>5
<1>9. CASE FanoutCtrl
  <2>1. UNCHANGED <<up, firstSeen, since>>
    BY <1>9 DEF FanoutCtrl
  <2>2. r = Head(out) => Len(sub) < SubCap \/ q \in blurred'
    BY <1>9 DEF FanoutCtrl, Gone, Event
  <2>. QED BY <1>1, <1>2, <1>3, <1>9, <2>1, <2>2, FanoutKeeps
<1>10. CASE RunEvent
  <2> DEFINE e == Head(sub)
  <2>1. /\ UNCHANGED <<up, since, out>> /\ sub # <<>> /\ sub' = Tail(sub) /\ sub \in Seq(Events)
        /\ InQueue(sub, r) => r = e \/ InQueue(sub', r)
    BY <1>3, <1>10, RunKeeps DEF RunEvent, reactorVars, historyVars, QueueOK
  <2>2. CASE e = r
    <3>1. firstSeen' = [firstSeen EXCEPT ![q] = -1]
      BY <1>10, <2>2 DEF RunEvent, OnDisconnect, Gone, Event
    <3>. QED BY <3>1 DEF GraceInv
  <2>3. CASE e = Added(q)
    <3>1. firstSeen' = [firstSeen EXCEPT ![q] = IF @ = -1 THEN 0 ELSE @]
      BY <1>10, <2>3 DEF RunEvent, OnConnect, Added, Event
    <3>2. CASE firstSeen[q] # -1
      BY <1>1, <1>2, <2>1, <2>3, <3>1, <3>2, EventsDiffer DEF GraceInv
    <3>3. CASE firstSeen[q] = -1 /\ q \in up
      BY <2>1, <3>1, <3>3 DEF GraceInv
    <3>4. CASE firstSeen[q] = -1 /\ q \notin up
      <4>1. q \in blurred \/ Settled(sub, Added(q), r) \/ InQueue(out, r)
        BY <3>4 DEF GraceInv, RemovalFollows
      <4>2. Settled(sub, Added(q), r) => InQueue(sub', r)
        BY <2>1, <2>3, SettledRest
      <4>. QED BY <1>1, <2>1, <4>1, <4>2
    <3>. QED BY <3>2, <3>3, <3>4
  <2>4. CASE e # r /\ e # Added(q)
    <3>1. firstSeen'[q] = firstSeen[q]
      <4>1. e \in Events
        BY <2>1
      <4>2. e = Event(e.kind, e.peer)
        BY <4>1 DEF Events, Event
      <4>3. e.kind \in {"connected", "removed"} => e.peer # q
        BY <2>4, <4>2 DEF Added, Gone
      <4> HIDE DEF e
      <4>4. \/ firstSeen' = firstSeen
            \/ e.kind = "connected" /\ firstSeen' = [firstSeen EXCEPT ![e.peer] = IF @ = -1 THEN 0 ELSE @]
            \/ e.kind = "removed" /\ firstSeen' = [firstSeen EXCEPT ![e.peer] = -1]
        BY <1>10 DEF RunEvent, OnConnect, OnDisconnect, MarkUseful, MarkOutOfRange, e
      <4>. QED BY <4>3, <4>4 DEF GraceInv
    <3>. QED BY <1>1, <1>2, <2>1, <2>4, <3>1
  <2>. QED BY <2>2, <2>3, <2>4
<1>11. CASE Tick
  <2>1. UNCHANGED <<up, since, out, sub>> /\ firstSeen'[q] = firstSeen[q]
    BY <1>11 DEF Tick, reactorVars, historyVars
  <2>. QED BY <1>1, <1>2, <2>1
<1>12. ASSUME NEW k \in Callers, BanForget(k) PROVE Goal
  <2>1. UNCHANGED <<up, since, out, sub>> /\ firstSeen' = [firstSeen EXCEPT ![ban[k]] = -1]
    BY <1>12 DEF BanForget, reactorVars
  <2>2. firstSeen'[q] = firstSeen[q]
    BY <2>1 DEF GraceInv
  <2>. QED BY <1>1, <1>2, <2>1, <2>2
<1>13. CASE UNCHANGED <<up, firstSeen, since, out, sub>>
  BY <1>1, <1>2, <1>13
<1>14. ASSUME NEW p \in Peers, NEW k \in Callers, BanStop(k, p) PROVE Goal
  <2>1. Send(p, "removed") /\ Removal(p) /\ up' = up \ {p}
    BY <1>14, Sends DEF BanStop, RemovePeer
  <2>. QED BY <1>5, <2>1
<1>15. ASSUME NEW p \in Around, PeerDisconnects(p) PROVE Goal
  <2>1. p \in Peers /\ Send(p, "removed") /\ Removal(p) /\ up' = up \ {p}
    BY <1>15, Sends, AroundPeers DEF PeerDisconnects, Disconnect, RemovePeer
  <2>. QED BY <1>5, <2>1
<1>16. ASSUME NEW p \in Around, SwitchAddsPeer(p) PROVE Goal
  <2>1. p \in Peers /\ Send(p, "connected") /\ "connected" \in Kinds /\ UNCHANGED <<up, firstSeen, since>>
    BY <1>16, Sends, AroundPeers DEF SwitchAddsPeer, AddPeer, watchVars, Kinds
  <2>. QED BY <1>6, <2>1
<1>17. ASSUME NEW p \in Around, NEW kind \in {"inRange", "below"}, PeerOffers(p, kind) PROVE Goal
  <2>1. p \in Peers /\ kind \in Kinds /\ Send(p, kind) /\ UNCHANGED <<up, firstSeen, since>>
    BY <1>17, Sends, AroundPeers DEF PeerOffers, SnapshotsResponse, watchVars, Kinds
  <2>. QED BY <1>6, <2>1
<1> HIDE DEF Goal
<1>. QED
  BY <1>7, <1>8, <1>9, <1>10, <1>11, <1>12, <1>13, <1>14, <1>15, <1>16, <1>17, AroundPeers
  DEF Next, PeerAsks, ChunkRequest, Sweep, SweepLook, SweepDelete, Watch, TickSkipsGone, Callers,
      vars, reactorVars, watchVars, historyVars

(* For any grace, buffers and number of peers: tick decides to evict a     *)
(* peer for lack of an offer only when its present connection has lasted   *)
(* the whole grace, or the removal that ended an earlier one was dropped,  *)
(* overtaken or is still queued (peerwatch.go:137-209).                    *)
THEOREM GraceNeverCut == Spec => GraceHonoured
<1> DEFINE Honoured == \A p \in pending' \ pending :
                         Unfit(p) \/ p \in outOfRange \/ since[p] >= Grace
                           \/ p \in blurred \/ Queued("removed", p)
<1>1. Init => GraceInv
  <2> SUFFICES ASSUME Init PROVE GraceInv
    OBVIOUS
  <2>1. up \subseteq Peers /\ QueueOK /\ ServeQuiet /\ CountHonest
    BY DEF Init, ReactorInit, QueueOK, ServeQuiet, CountHonest
  <2>2. TimesOK
    BY WatchConstants DEF Init, TimesOK
  <2>3. RemovalFollows
    BY DEF Init, ReactorInit, RemovalFollows, Settled
  <2>. QED BY <2>1, <2>2, <2>3 DEF GraceInv
<1>2. GraceInv /\ [Next]_vars => GraceInv'
  BY UpStep, QueueStep, TimesStep, FollowsStep, CountStep DEF GraceInv
<1>3. GraceInv /\ [Next]_vars => [Honoured]_vars
  <2> SUFFICES ASSUME GraceInv, [Next]_vars, NEW p \in pending' \ pending,
                      ~Unfit(p), p \notin outOfRange, p \notin blurred, ~Queued("removed", p)
               PROVE  since[p] >= Grace
    OBVIOUS
  <2>1. Tick
    BY DEF Next, PeerConnects, SwitchAddsPeer, PeerDisconnects, Removal, PeerAsks, BanStop, PeerOffers, Sweep,
           Elapse, FanoutCtrl, Watch, RunEvent, TickSkipsGone, BanForget, vars, watchVars
  <2>2. p \in up /\ firstSeen[p] # -1 /\ firstSeen[p] >= Grace
    BY <2>1 DEF Tick, ToEvict
  <2>3. p \in Peers
    BY <2>2 DEF GraceInv
  <2>. QED
    BY <2>2, <2>3, QueuedIn, WatchConstants DEF GraceInv, CountHonest, TimesOK, Gone
<1>. QED
  BY <1>1, <1>2, <1>3, PTL DEF Spec, GraceHonoured
=============================================================================
