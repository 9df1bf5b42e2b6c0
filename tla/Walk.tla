-------------------------------- MODULE Walk --------------------------------
(***************************************************************************)
(* The height walk of `malcom snapshot fetch`                              *)
(* (internal/snapfetch/walk.go, offerset.go): offers are collected, target *)
(* heights are tried from the newest down, every peer that offers a        *)
(* snapshot at or above the target is asked for chunk 0, and the first     *)
(* chunk 0 that agrees with a known offer's metadata decides.  A fresher   *)
(* offer makes the walk jump up, with the abandoned target queued behind   *)
(* it.                                                                     *)
(*                                                                         *)
(* An offer's key <<height, snap>> stands for snapKey: height, format and  *)
(* hash (one format).  Meta[p][k] is the chunk hash 0 in the metadata that *)
(* p advertises under k; chunk bytes are named by their hash.              *)
(***************************************************************************)
EXTENDS Naturals, Sequences, FiniteSets

CONSTANTS
  Peers, Honest,
  Heights, Snaps,       \* heights and (format, hash) that peers offer
  Meta, Hashes,         \* Meta[p][k] \in Hashes
  NoHash,               \* no metadata: the key is not in the offerSet
  Garbage,              \* bytes whose hash is in nobody's metadata
  TargetHeight, CfgMin, CfgMax, Interval,   \* Config; 0 is unset
  MaxChurn              \* bound: connects and disconnects

Keys == Heights \X Snaps

ASSUME WalkConstants ==
  /\ Honest \subseteq Peers
  /\ Heights \subseteq Nat \ {0}
  /\ Meta \in [Peers -> [Keys -> Hashes]]
  /\ NoHash \notin Hashes
  /\ Garbage \notin Hashes \cup {NoHash}
  /\ TargetHeight \in Nat /\ CfgMin \in Nat /\ CfgMax \in Nat
  /\ Interval \in Nat
  /\ MaxChurn \in Nat

(* effectiveHeightWindow: a pinned TargetHeight clamps both ends.          *)
MinHeight == IF TargetHeight # 0 THEN TargetHeight ELSE CfgMin
MaxHeight == IF TargetHeight # 0 THEN TargetHeight ELSE CfgMax

(* Mutant: walkTargets ignores the bottom of the window.                   *)
OneTooLow(top, bottom, interval) ==
  IF interval = 0 \/ top < bottom THEN <<>>
  ELSE [i \in 1 .. (top \div interval + 1) |->
          (top \div interval + 1 - i) * interval]

(* walkTargets: floor(top, interval), down by interval, to the bottom.     *)
WalkTargets(top, bottom, interval) ==
  LET start == (top \div interval) * interval
      low   == IF bottom = 0 THEN 1 ELSE bottom
  IN  IF interval = 0 \/ top < bottom \/ start < low THEN <<>>
      ELSE [i \in 1 .. ((start - low) \div interval + 1) |->
              start - (i - 1) * interval]

Targets == IF TargetHeight # 0 THEN <<TargetHeight>>
           ELSE IF CfgMax = 0 THEN <<>>
           ELSE WalkTargets(MaxHeight, MinHeight, Interval)

MaxJumps == 2 * Len(Targets)

VARIABLES
  pc,
  queue, target,  \* heights still to try, and the one being tried
  failed,         \* heights whose deadline expired
  jumps,
  pops,           \* heights taken from the queue so far
  meta,           \* offerSet: the metadata kept for each key
  offeredBy,      \* offerSet: Peers of each key
  asked,          \* (peer, key) pairs that were asked for chunk 0
  replies,        \* asked pairs whose answer is still to come
  accepted,       \* the key the walk ends with
  connected, banned, churn

walkVars  == <<queue, target, failed, jumps, pops>>
offerVars == <<meta, offeredBy>>
askVars   == <<asked, replies>>
peerVars  == <<connected, banned, churn>>
walkerVars == <<pc, walkVars, offerVars, askVars, accepted, peerVars>>

Outcomes == {"accepted", "failed", "cancelled"}

WalkTypeOK ==
  /\ pc \in {"warmup", "next", "select"} \cup Outcomes
  /\ queue \in Seq(Nat)
  /\ target \in Nat
  /\ failed \in SUBSET Nat
  /\ jumps \in Nat
  /\ pops \in Nat
  /\ meta \in [Keys -> Hashes \cup {NoHash}]
  /\ offeredBy \in [Keys -> SUBSET Peers]
  /\ asked \in SUBSET (Peers \X Keys)
  /\ replies \in SUBSET asked
  /\ accepted \in Keys \cup {NoHash}
  /\ connected \in SUBSET Peers
  /\ banned \in SUBSET Peers
  /\ churn \in Nat

WalkInit ==
  /\ pc = IF Targets = <<>> THEN "failed" ELSE "warmup"
  /\ queue = Targets /\ target = 0 /\ failed = {} /\ jumps = 0 /\ pops = 0
  /\ meta = [k \in Keys |-> NoHash]
  /\ offeredBy = [k \in Keys |-> {}]
  /\ asked = {} /\ replies = {}
  /\ accepted = NoHash
  /\ connected \in {C \in SUBSET Peers : Honest \subseteq C}
  /\ banned = {} /\ churn = 0

-----------------------------------------------------------------------------
(* offerSet.add: the first offerer's metadata is kept for the key.         *)
RecordOffer(p, k) ==
  /\ meta' = IF meta[k] = NoHash THEN [meta EXCEPT ![k] = Meta[p][k]] ELSE meta
  /\ offeredBy' = [offeredBy EXCEPT ![k] = @ \cup {p}]

(* drainEvents and warmup collect offers before the first target.          *)
WarmupOffer(p, k) ==
  /\ pc = "warmup"
  /\ RecordOffer(p, k)
  /\ UNCHANGED <<pc, walkVars, askVars, accepted, peerVars>>

WarmupEnds ==
  /\ pc = "warmup"
  /\ pc' = "next"
  /\ UNCHANGED <<walkVars, offerVars, askVars, accepted, peerVars>>

(* dispatch(t): ask each connected peer of each offer in [t, MaxHeight],   *)
(* once; a full send queue leaves a pair for the next dispatch.            *)
Askable(t, by) ==
  {a \in (Peers \X Keys) \ asked :
     /\ a[1] \in connected \cap by[a[2]]
     /\ a[2][1] \in t .. MaxHeight}

Dispatch(t, by) ==
  \E sent \in SUBSET Askable(t, by) : /\ asked' = asked \cup sent
                                      /\ replies' = replies \cup sent

-----------------------------------------------------------------------------
(* Take the next height; one whose deadline expired before is skipped.     *)
NextTarget ==
  /\ pc = "next"
  /\ queue # <<>>
  /\ queue' = Tail(queue)
  /\ pops' = pops + 1
  /\ IF Head(queue) \in failed
     THEN UNCHANGED <<pc, target, askVars>>
     ELSE /\ target' = Head(queue)
          /\ Dispatch(Head(queue), offeredBy)
          /\ pc' = "select"
  /\ UNCHANGED <<failed, jumps, offerVars, accepted, peerVars>>

Exhausted ==
  /\ pc = "next"
  /\ queue = <<>>
  /\ pc' = "failed"
  /\ UNCHANGED <<walkVars, offerVars, askVars, accepted, peerVars>>

(* Mutant: the failed set is not consulted.                                *)
AnyFresher(h) == /\ h > target
                 /\ MinHeight # 0 => h >= MinHeight

IsJumpCandidate(h) == /\ h > target
                      /\ MinHeight # 0 => h >= MinHeight
                      /\ h \notin failed

(* Mutant: no jump budget.                                                *)
JumpUnbounded(h) == TargetHeight = 0 /\ IsJumpCandidate(h)

MayJump(h) == TargetHeight = 0 /\ IsJumpCandidate(h) /\ jumps < MaxJumps

(* An offer above the target: try that height first, then this one again.  *)
JumpUp(p, k) ==
  /\ pc = "select"
  /\ MayJump(k[1])
  /\ RecordOffer(p, k)
  /\ queue' = <<k[1], target>> \o queue
  /\ jumps' = jumps + 1
  /\ pc' = "next"
  /\ UNCHANGED <<target, failed, pops, askVars, accepted, peerVars>>

(* Any other offer is recorded and, in range, answered by a dispatch.      *)
RecvOffer(p, k) ==
  /\ pc = "select"
  /\ ~MayJump(k[1])
  /\ RecordOffer(p, k)
  /\ IF k[1] \in target .. MaxHeight THEN Dispatch(target, offeredBy')
                                     ELSE UNCHANGED askVars
  /\ UNCHANGED <<pc, walkVars, accepted, peerVars>>

-----------------------------------------------------------------------------
(* An answer of p to its request for chunk 0 of k.  An honest peer sends   *)
(* the chunk its own metadata describes; NoHash stands for Missing.        *)
Answers(p, k) == IF p \in Honest THEN {Meta[p][k]}
                                 ELSE Hashes \cup {Garbage, NoHash}

RecvChunk(p, k) ==
  /\ pc = "select"
  /\ <<p, k>> \in replies
  /\ replies' = replies \ {<<p, k>>}
  /\ UNCHANGED <<asked, walkVars, offerVars>>

InRange(k) == k[1] \in target .. MaxHeight

(* Mutant: offers are looked up at the target, not at the chunk's height.  *)
MatchesAtTarget(k, bytes) == {j \in Keys : j[1] = target /\ meta[j] = bytes}

(* offers.at(chunk height) whose metadata agrees with the bytes.           *)
Matches(k, bytes) == {j \in Keys : j[1] = k[1] /\ meta[j] = bytes}

(* Left over from another target, or Missing: dropped.                     *)
IgnoreChunk(p, k) ==
  /\ RecvChunk(p, k)
  /\ InRange(k) => NoHash \in Answers(p, k)
  /\ UNCHANGED <<pc, accepted, peerVars>>

AcceptChunk(p, k) ==
  /\ RecvChunk(p, k)
  /\ InRange(k)
  /\ \E bytes \in Answers(p, k) \ {NoHash} : accepted' \in Matches(k, bytes)
  /\ pc' = "accepted"
  /\ UNCHANGED peerVars

(* No offer agrees with the bytes: the sender is banned and dropped.       *)
BanSender(p, k) ==
  /\ RecvChunk(p, k)
  /\ InRange(k)
  /\ \E bytes \in Answers(p, k) \ {NoHash} : Matches(k, bytes) = {}
  /\ banned' = banned \cup (connected \cap {p})
  /\ connected' = connected \ {p}
  /\ UNCHANGED <<pc, accepted, churn>>

(* Mutant: `break` leaves only the select, not the loop over it.           *)
BreakSelectOnly == pc = "select" /\ UNCHANGED walkerVars

(* The deadline of a pinned height ends the walk, any other marks it.      *)
Deadline ==
  /\ pc = "select"
  /\ IF TargetHeight # 0 THEN pc' = "failed" /\ UNCHANGED failed
                         ELSE pc' = "next" /\ failed' = failed \cup {target}
  /\ UNCHANGED <<queue, target, jumps, pops, offerVars, askVars, accepted,
                 peerVars>>

Cancel ==
  /\ pc \notin Outcomes
  /\ pc' = "cancelled"
  /\ UNCHANGED <<walkVars, offerVars, askVars, accepted, peerVars>>

-----------------------------------------------------------------------------
(* An answer that never comes, or is dropped at a full chunk channel.      *)
AnswerLost(p, k) ==
  /\ <<p, k>> \in replies
  /\ p \notin Honest
  /\ replies' = replies \ {<<p, k>>}
  /\ UNCHANGED <<pc, walkVars, offerVars, asked, accepted, peerVars>>

Churn(p) ==
  /\ churn < MaxChurn /\ churn' = churn + 1
  /\ p \notin Honest
  /\ connected' \in {connected \cup {p}, connected \ {p}}
  /\ UNCHANGED <<pc, walkVars, offerVars, askVars, accepted, banned>>

Done == pc \in Outcomes /\ UNCHANGED walkerVars

Walker == \/ WarmupEnds \/ NextTarget \/ Exhausted \/ Deadline

WalkNext == \/ Walker \/ Cancel \/ Done
        \/ \E p \in Peers : \/ Churn(p)
                            \/ \E k \in Keys : \/ WarmupOffer(p, k)
                                               \/ JumpUp(p, k)
                                               \/ RecvOffer(p, k)
                                               \/ IgnoreChunk(p, k)
                                               \/ AcceptChunk(p, k)
                                               \/ BanSender(p, k)
                                               \/ AnswerLost(p, k)

WalkSpec == WalkInit /\ [][WalkNext]_walkerVars

(* The goroutine runs and its timers fire; nothing is asked of the peers.  *)
FairSpec == WalkSpec /\ WF_walkerVars(Walker)

-----------------------------------------------------------------------------
(* The offer the walk returns was asked for: it lies in the configured     *)
(* window, and is exactly TargetHeight when that is pinned, whatever       *)
(* heights peers offered and the walk jumped to (walk.go:68-79, 311-316).  *)
AcceptedInWindow ==
  pc = "accepted" => /\ accepted[1] \in MinHeight .. MaxHeight
                     /\ TargetHeight # 0 => accepted[1] = TargetHeight
                     /\ meta[accepted] # NoHash

(* Peers that keep offering fresher heights cannot keep the walk busy: it  *)
(* takes at most five heights per precomputed target from the queue        *)
(* (walk.go:166-170, "guaranteeing termination").                          *)
WalkBounded == /\ jumps <= MaxJumps
               /\ pops + Len(queue) <= Len(Targets) + 2 * MaxJumps

(* The walk goes down: the queue is strictly descending, below the height  *)
(* being tried, and never again holds a height whose deadline expired,     *)
(* through every jump and requeue (walk.go:207-211, 254-267).              *)
WalksDown ==
  /\ \A i, j \in 1 .. Len(queue) : i < j => queue[i] > queue[j]
  /\ \A i \in 1 .. Len(queue) : queue[i] \notin failed
  /\ pc = "select" => /\ target \notin failed
                      /\ \A i \in 1 .. Len(queue) : target > queue[i]

(* The ban is for "a forged chunk that doesn't even line up with the       *)
(* peer's own advertised metadata" (walk.go:342-346).  A peer that serves  *)
(* the chunk its own metadata describes is banned in one case only: it was *)
(* asked for a key under which another peer's offer came first, with       *)
(* metadata of its own that offerSet.add keeps for all (offerset.go:29-47).*)
HonestKept ==
  \A p \in Honest \cap banned :
    \E k \in Keys : /\ <<p, k>> \in asked
                   /\ \E q \in offeredBy[k] \ {p} : meta[k] = Meta[q][k] /\ meta[k] # Meta[p][k]

(* Liveness: the walk always ends, with an offer or with an error.         *)
WalkEnds == <>(pc \in Outcomes)
=============================================================================
