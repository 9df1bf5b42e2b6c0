------------------------------ MODULE Reactor ------------------------------
(***************************************************************************)
(* The peer side of the state-sync reactor (internal/statesync): the       *)
(* events it publishes when peers come, go and offer snapshots, into a     *)
(* bounded channel that drops what does not fit, and the per-peer token    *)
(* buckets of the serve mode, which outlive a connection until a sweep     *)
(* finds their tombstone old enough.                                       *)
(*                                                                         *)
(* The switch starts a connection, so that messages arrive, before it      *)
(* calls AddPeer; it calls RemovePeer before the peer may connect again.   *)
(* AddPeer may even come after the connection has ended.  A bucket refills *)
(* by one token per tick, from empty to full in Burst ticks.               *)
(***************************************************************************)
EXTENDS Integers, Sequences, FiniteSets

CONSTANTS
  Peers,
  Burst,       \* chunkBurstPerPeer; 0 is no limit
  OutCap,      \* capacity of Out
  Sweepers,    \* bound: RemovePeer calls that sweep at the same time
  None

ASSUME ReactorConstants ==
  /\ Burst \in Nat /\ OutCap \in Nat \ {0}
  /\ None \notin Peers

VARIABLES
  up,          \* sw.Peers()
  joining,     \* peers whose AddPeer is still to come
  out,         \* the Out channel
  tokens,      \* tokens of the peer's limiter, -1 is no entry
  age,         \* ticks since removedAt, -1 is removedAt = 0
  left,        \* entries a sweep will find with a tombstone before its cutoff
  doomed,      \* the entry a sweep is about to delete
  early,       \* history: sweeps that decided before the peer's AddPeer
  credit,      \* history: a bucket that no reconnect refreshes
  overtaken    \* history: peers that reconnected while a sweep was deleting

limiterVars == <<tokens, age>>
sweepVars   == <<left, doomed>>
rateVars    == <<limiterVars, sweepVars, early, credit, overtaken>>
reactorVars == <<up, joining, out, rateVars>>

Kinds  == {"connected", "removed", "inRange", "below"}
Events == [kind : Kinds, peer : Peers]
Event(kind, p) == [kind |-> kind, peer |-> p]

RefillTime == Burst
Oldest     == 2 * RefillTime + 1

ReactorTypeOK ==
  /\ up \in SUBSET Peers
  /\ joining \in SUBSET Peers
  /\ out \in Seq(Events) /\ Len(out) <= OutCap
  /\ tokens \in [Peers -> -1 .. Burst]
  /\ age \in [Peers -> -1 .. Oldest]
  /\ \A p \in Peers : tokens[p] = -1 => age[p] = -1
  /\ left \in [Sweepers -> SUBSET Peers]
  /\ doomed \in [Sweepers -> Peers \cup {None}]
  /\ early \in SUBSET Sweepers
  /\ credit \in [Peers -> -1 .. Burst]
  /\ overtaken \in SUBSET Peers

ReactorInit ==
  /\ up = {} /\ joining = {} /\ out = <<>>
  /\ tokens = [p \in Peers |-> -1]
  /\ age = [p \in Peers |-> -1]
  /\ left = [w \in Sweepers |-> {}]
  /\ doomed = [w \in Sweepers |-> None]
  /\ early = {}
  /\ credit = [p \in Peers |-> Burst]
  /\ overtaken = {}

-----------------------------------------------------------------------------
(* Every send into Out gives up when the channel is full.                  *)
Full       == Len(out) >= OutCap
Publish(e) == out' = IF Full THEN out ELSE Append(out, e)

Connect(p) ==
  /\ p \notin up \cup joining
  /\ up' = up \cup {p}
  /\ joining' = joining \cup {p}
  /\ UNCHANGED <<out, rateVars>>

(* Mutant: a reconnect leaves the tombstone where it is.                   *)
TombstoneStays(p) == UNCHANGED <<age, left>>

(* A cleared tombstone is one that the sweeps under way do not find old.   *)
ClearTombstone(p) ==
  /\ age' = [age EXCEPT ![p] = -1]
  /\ left' = [w \in Sweepers |-> left[w] \ {p}]

AddPeer(p) ==
  /\ p \in joining
  /\ joining' = joining \ {p}
  /\ Publish(Event("connected", p))
  /\ ClearTombstone(p)
  /\ UNCHANGED <<up, tokens, doomed, early, credit, overtaken>>

Idle(w) == left[w] = {} /\ doomed[w] = None

(* RemovePeer: the limiter is tombstoned, and a sweep begins.  It computes *)
(* its cutoff once: what has no old tombstone now, or gets another one     *)
(* before the sweep looks at it, is safe from this sweep.                  *)
RemovePeer(p, w) ==
  /\ up' = up \ {p}
  /\ Publish(Event("removed", p))
  /\ LET tomb == IF tokens[p] = -1 THEN age ELSE [age EXCEPT ![p] = 0]
         old  == {q \in Peers : tomb[q] > 2 * RefillTime}
     IN  /\ age' = tomb
         /\ left' = [v \in Sweepers |-> IF v = w /\ Burst > 0 THEN old ELSE left[v] \ {p}]
  /\ UNCHANGED <<joining, tokens, doomed, early, credit, overtaken>>

Disconnect(p) == \E w \in Sweepers : p \in up /\ Idle(w) /\ RemovePeer(p, w)

(* The sweep reads a tombstone in one step and deletes in another, by key: *)
(* whatever entry the peer has by then.                                    *)
SweepLook(w, p) ==
  /\ doomed[w] = None
  /\ p \in left[w]
  /\ left' = [left EXCEPT ![w] = @ \ {p}]
  /\ doomed' = [doomed EXCEPT ![w] = p]
  /\ early' = IF p \in up \ joining THEN early \ {w} ELSE early \cup {w}
  /\ UNCHANGED <<up, joining, out, limiterVars, credit, overtaken>>

SweepDelete(w) ==
  LET p == doomed[w] IN
  /\ p # None
  /\ tokens' = [tokens EXCEPT ![p] = -1]
  /\ age' = [age EXCEPT ![p] = -1]
  /\ doomed' = [doomed EXCEPT ![w] = None]
  /\ early' = early \ {w}
  /\ overtaken' = IF w \in early /\ (p \in up \/ age[p] <= 2 * RefillTime)
                  THEN overtaken \cup {p} ELSE overtaken
  /\ UNCHANGED <<up, joining, out, left, credit>>

(* A ChunkRequest: the limiter is made on first use; Allow takes a token,  *)
(* or the request is dropped.                                              *)
ChunkRequest(p) ==
  /\ p \in up
  /\ Burst > 0
  /\ LET have == IF tokens[p] = -1 THEN Burst ELSE tokens[p]
     IN  /\ tokens' = [tokens EXCEPT ![p] = IF have > 0 THEN have - 1 ELSE 0]
         /\ credit' = [credit EXCEPT ![p] = IF have > 0 /\ @ >= 0 THEN @ - 1 ELSE @]
  /\ UNCHANGED <<up, joining, out, age, sweepVars, early, overtaken>>

SnapshotsResponse(p, kind) ==
  /\ p \in up
  /\ Publish(Event(kind, p))
  /\ UNCHANGED <<up, joining, rateVars>>

Capped(n, cap) == IF n < cap THEN n + 1 ELSE n

Refill ==
  /\ tokens' = [p \in Peers |-> IF tokens[p] = -1 THEN -1 ELSE Capped(tokens[p], Burst)]
  /\ age' = [p \in Peers |-> IF age[p] = -1 THEN -1 ELSE Capped(age[p], Oldest)]
  /\ credit' = [p \in Peers |-> Capped(credit[p], Burst)]
  /\ UNCHANGED <<up, joining, out, sweepVars, early, overtaken>>

(* "Deleting immediately would let a peer with a stable Node ID disconnect *)
(* and reconnect to refresh its burst budget" (reactor.go:412-414): over   *)
(* any series of disconnects, reconnects and sweeps a peer is never served *)
(* more than one uninterrupted bucket would allow.  The one way around it  *)
(* is a sweep that had read the old tombstone before AddPeer cleared it    *)
(* and deletes the limiter under the reconnected peer.                     *)
RateHeld == \A p \in Peers \ overtaken : credit[p] >= 0
=============================================================================
