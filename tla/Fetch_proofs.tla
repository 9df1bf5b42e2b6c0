---------------------------- MODULE Fetch_proofs ----------------------------
(***************************************************************************)
(* Proofs about the fetch.  The height walk is bounded, goes down, and     *)
(* ends inside the window, for every window, interval, peer set and set of *)
(* offers.  The pipelined import works for every stream, number of workers *)
(* and size of ring, chunk and buffer.                                     *)
(***************************************************************************)
EXTENDS Walk, FetchImport, NaturalsInduction, WellFoundedInduction, SequenceTheorems, TLAPS

(* The height walk.                                                        *)

(* What the proofs need of the target list.                                *)
GoodQueue(q) == /\ q \in Seq(Nat)
                /\ \A i, j \in 1 .. Len(q) : i < j => q[i] > q[j]
                /\ \A i \in 1 .. Len(q) : q[i] >= MinHeight

(* Products of naturals grow with their factors.                           *)
LEMMA Monotone == \A m, n, d \in Nat : m <= n => m * d <= n * d
BY SMT

LEMMA Strict == \A m, n \in Nat, d \in Nat \ {0} : m < n => m * d < n * d
BY SMT

LEMMA Division ==
  \A n \in Nat, d \in Nat \ {0} : n \div d \in Nat /\ (n \div d) * d <= n
BY SMT

(* walkTargets descends strictly and stays at or above the bottom.         *)
LEMMA TargetsGood == GoodQueue(Targets)
<1> USE WalkConstants
<1>1. CASE TargetHeight # 0
  BY <1>1 DEF Targets, GoodQueue, MinHeight
<1>2. CASE TargetHeight = 0 /\ CfgMax = 0
  BY <1>2 DEF Targets, GoodQueue
<1>3. CASE TargetHeight = 0 /\ CfgMax # 0
  <2> DEFINE start == (CfgMax \div Interval) * Interval
             low   == IF CfgMin = 0 THEN 1 ELSE CfgMin
             steps == (start - low) \div Interval
  <2>1. CASE Interval = 0 \/ CfgMax < CfgMin \/ start < low
    BY <1>3, <2>1 DEF Targets, WalkTargets, GoodQueue, MinHeight, MaxHeight
  <2>2. CASE ~(Interval = 0 \/ CfgMax < CfgMin \/ start < low)
    <3>1. Interval \in Nat \ {0} /\ low \in Nat /\ start \in Nat
      BY <2>2, Division
    <3>2. steps \in Nat /\ steps * Interval <= start - low
      <4> HIDE DEF start, low
      <4>1. start - low \in Nat
        BY <2>2, <3>1
      <4> QED BY <3>1, <4>1, Division
    <3>3. Targets = [i \in 1 .. (steps + 1) |-> start - (i - 1) * Interval]
      BY <1>3, <2>2 DEF Targets, WalkTargets, MinHeight, MaxHeight
    <3> HIDE DEF start, low, steps
    <3>4. \A i \in 1 .. (steps + 1) : /\ (i - 1) * Interval \in Nat
                                      /\ (i - 1) * Interval <= start - low
      <4> TAKE i \in 1 .. (steps + 1)
      <4>1. (i - 1) \in Nat /\ i - 1 <= steps
        BY <3>2
      <4>2. (i - 1) * Interval <= steps * Interval
        BY <3>1, <3>2, <4>1, Monotone
      <4>3. (i - 1) * Interval \in Nat /\ steps * Interval \in Nat
        BY <3>1, <3>2, <4>1
      <4> QED BY <3>1, <3>2, <4>2, <4>3
    <3>5. Targets \in Seq(Nat) /\ Len(Targets) = steps + 1
      BY <3>1, <3>2, <3>3, <3>4
    <3>6. \A i, j \in 1 .. Len(Targets) : i < j => Targets[i] > Targets[j]
      <4> SUFFICES ASSUME NEW i \in 1 .. (steps + 1), NEW j \in 1 .. (steps + 1),
                          i < j
                   PROVE  Targets[i] > Targets[j]
        BY <3>5
      <4>1. (i - 1) * Interval < (j - 1) * Interval
        <5>1. i - 1 \in Nat /\ j - 1 \in Nat /\ i - 1 < j - 1
          BY <3>2
        <5> QED BY <3>1, <5>1, Strict
      <4>2. Targets[i] = start - (i - 1) * Interval /\ Targets[j] = start - (j - 1) * Interval
        BY <3>3
      <4> QED BY <3>1, <3>4, <4>1, <4>2
    <3>7. \A i \in 1 .. Len(Targets) : Targets[i] >= low
      <4> SUFFICES ASSUME NEW i \in 1 .. (steps + 1) PROVE Targets[i] >= low
        BY <3>5
      <4>1. Targets[i] = start - (i - 1) * Interval
        BY <3>3
      <4> DEFINE drop == (i - 1) * Interval
      <4>2. drop \in Nat /\ drop <= start - low
        BY <3>4
      <4>3. Targets[i] = start - drop
        BY <4>1
      <4> HIDE DEF drop
      <4> QED BY <3>1, <4>2, <4>3
    <3>8. low >= MinHeight
      BY <1>3 DEF low, MinHeight
    <3>9. MinHeight \in Nat
      BY DEF MinHeight
    <3> QED BY <3>1, <3>5, <3>6, <3>7, <3>8, <3>9 DEF GoodQueue
  <2> QED BY <2>1, <2>2
<1> QED BY <1>1, <1>2, <1>3

-----------------------------------------------------------------------------
(***************************************************************************)
(* The inductive invariant.  Every jump adds two heights to the queue and  *)
(* every turn of the loop takes one, so pops + Len(queue) is fixed by the  *)
(* number of jumps; heights are only ever put above the ones that wait;    *)
(* and nothing below MinHeight enters.                                     *)
(***************************************************************************)
QueueInv ==
  /\ pops + Len(queue) = Len(Targets) + 2 * jumps
  /\ jumps <= MaxJumps
  /\ \A i \in 1 .. Len(queue) : queue[i] >= MinHeight
  /\ pc = "select" => target >= MinHeight
  /\ \A k \in Keys : offeredBy[k] # {} <=> meta[k] # NoHash

WalkInv == WalkTypeOK /\ QueueInv /\ WalksDown /\ AcceptedInWindow

LEMMA MaxJumpsNat == MaxJumps \in Nat /\ Len(Targets) \in Nat /\ MinHeight \in Nat
BY TargetsGood, WalkConstants DEF MaxJumps, GoodQueue, MinHeight

LEMMA InitInv == WalkInit => WalkInv
<1> SUFFICES ASSUME WalkInit PROVE WalkInv
  OBVIOUS
<1> USE WalkConstants
<1>1. WalkTypeOK
  BY TargetsGood DEF WalkInit, WalkTypeOK, GoodQueue, Outcomes
<1>2. QueueInv /\ WalksDown /\ AcceptedInWindow
  BY TargetsGood, MaxJumpsNat
  DEF WalkInit, QueueInv, WalksDown, AcceptedInWindow, GoodQueue
<1> QED BY <1>1, <1>2 DEF WalkInv

(* Steps that leave the queue and the offers alone and accept nothing.     *)
LEMMA Quiet ==
  ASSUME WalkInv, WalkTypeOK', UNCHANGED <<walkVars, accepted>>,
         UNCHANGED offerVars,
         pc' # "accepted", pc' = "select" => pc = "select"
  PROVE  WalkInv'
BY DEF WalkInv, QueueInv, WalksDown, AcceptedInWindow, walkVars, offerVars

(* Recording an offer keeps the metadata of every offered key.             *)
LEMMA Recorded ==
  ASSUME WalkInv, NEW p \in Peers, NEW k \in Keys, RecordOffer(p, k)
  PROVE  /\ meta' \in [Keys -> Hashes \cup {NoHash}]
         /\ offeredBy' \in [Keys -> SUBSET Peers]
         /\ \A j \in Keys : offeredBy'[j] # {} <=> meta'[j] # NoHash
         /\ \A j \in Keys : meta[j] # NoHash => meta'[j] = meta[j]
<1> USE WalkConstants
<1>1. Meta[p][k] \in Hashes /\ Meta[p][k] # NoHash
  OBVIOUS
<1>2. /\ meta' \in [Keys -> Hashes \cup {NoHash}]
      /\ offeredBy' \in [Keys -> SUBSET Peers]
      /\ \A j \in Keys : meta[j] # NoHash => meta'[j] = meta[j]
  BY <1>1 DEF WalkInv, WalkTypeOK, RecordOffer
<1>3. offeredBy'[k] # {} /\ meta'[k] # NoHash
  BY <1>1 DEF WalkInv, WalkTypeOK, RecordOffer
<1>4. \A j \in Keys \ {k} : offeredBy'[j] = offeredBy[j] /\ meta'[j] = meta[j]
  BY DEF WalkInv, WalkTypeOK, RecordOffer
<1>5. \A j \in Keys : offeredBy'[j] # {} <=> meta'[j] # NoHash
  BY <1>3, <1>4 DEF WalkInv, QueueInv
<1> QED BY <1>2, <1>5

LEMMA Dispatched ==
  ASSUME WalkInv, NEW t, NEW by, Dispatch(t, by)
  PROVE  asked' \in SUBSET (Peers \X Keys) /\ replies' \in SUBSET asked'
BY DEF WalkInv, WalkTypeOK, Dispatch, Askable

LEMMA StepInv == WalkInv /\ [WalkNext]_walkerVars => WalkInv'
<1> SUFFICES ASSUME WalkInv, [WalkNext]_walkerVars PROVE WalkInv'
  OBVIOUS
<1> USE WalkConstants
<1>1. CASE UNCHANGED walkerVars
  BY <1>1 DEF walkerVars, walkVars, offerVars, askVars, peerVars, WalkInv, WalkTypeOK, QueueInv,
              WalksDown, AcceptedInWindow
<1>2. CASE WarmupEnds \/ Exhausted \/ Cancel
  <2>1. WalkTypeOK'
    BY <1>2 DEF WarmupEnds, Exhausted, Cancel, WalkInv, WalkTypeOK, Outcomes,
                walkVars, offerVars, askVars, peerVars
  <2> QED BY <1>2, <2>1, Quiet DEF WarmupEnds, Exhausted, Cancel
<1>3. CASE NextTarget
  <2>1. queue \in Seq(Nat) /\ queue # <<>>
    BY <1>3 DEF NextTarget, WalkInv, WalkTypeOK
  <2>2. /\ Head(queue) = queue[1] /\ Head(queue) \in Nat
        /\ Len(queue) \in Nat \ {0}
        /\ queue' \in Seq(Nat) /\ Len(queue') = Len(queue) - 1
        /\ \A i \in 1 .. Len(queue') : queue'[i] = queue[i + 1]
    BY <1>3, <2>1 DEF NextTarget
  <2>3. WalkTypeOK'
    BY <1>3, <2>2, Dispatched
    DEF NextTarget, WalkInv, WalkTypeOK, Outcomes, offerVars, askVars, peerVars
  <2>4. \A i \in 1 .. Len(queue') : i + 1 \in 1 .. Len(queue)
    BY <2>2
  <2>5. WalksDown'
    <3>1. \A i, j \in 1 .. Len(queue') : i < j => queue'[i] > queue'[j]
      <4> SUFFICES ASSUME NEW i \in 1 .. Len(queue'), NEW j \in 1 .. Len(queue'), i < j
                   PROVE  queue'[i] > queue'[j]
        OBVIOUS
      <4>1. i + 1 \in 1 .. Len(queue) /\ j + 1 \in 1 .. Len(queue) /\ i + 1 < j + 1
        BY <2>2, <2>4
      <4>2. queue[i + 1] > queue[j + 1]
        BY <4>1 DEF WalkInv, WalksDown
      <4> QED BY <2>2, <4>2
    <3>2. \A i \in 1 .. Len(queue') : queue'[i] \notin failed'
      BY <1>3, <2>2, <2>4 DEF WalkInv, WalksDown, NextTarget
    <3>3. pc' = "select" => target' = Head(queue) /\ Head(queue) \notin failed'
      BY <1>3 DEF NextTarget
    <3>4. \A i \in 1 .. Len(queue') : queue[1] > queue'[i]
      BY <2>2, <2>4 DEF WalkInv, WalksDown
    <3> QED BY <2>2, <3>1, <3>2, <3>3, <3>4 DEF WalksDown
  <2>6. pops' + Len(queue') = Len(Targets) + 2 * jumps' /\ jumps' <= MaxJumps
    <3>1. /\ pops \in Nat /\ jumps \in Nat /\ jumps <= MaxJumps
          /\ pops + Len(queue) = Len(Targets) + 2 * jumps
      BY DEF WalkInv, WalkTypeOK, QueueInv
    <3>2. pops' = pops + 1 /\ jumps' = jumps
      BY <1>3 DEF NextTarget
    <3>3. Len(queue) \in Nat /\ Len(queue') = Len(queue) - 1
      BY <2>2
    <3>4. Len(Targets) \in Nat
      BY MaxJumpsNat
    <3> DEFINE m == Len(queue)  n == Len(queue')  l == Len(Targets)
    <3>5. m \in Nat /\ n = m - 1 /\ l \in Nat /\ pops + m = l + 2 * jumps
      BY <3>1, <3>3, <3>4
    <3> HIDE DEF m, n, l
    <3>6. pops' + n = l + 2 * jumps'
      BY <3>1, <3>2, <3>5
    <3> QED BY <3>1, <3>2, <3>6 DEF m, n, l
  <2>7. \A i \in 1 .. Len(queue') : queue'[i] >= MinHeight
    BY <2>2, <2>4 DEF WalkInv, QueueInv
  <2>8. pc' = "select" => target' >= MinHeight
    BY <1>3, <2>2 DEF NextTarget, WalkInv, QueueInv
  <2>9. \A k \in Keys : offeredBy'[k] # {} <=> meta'[k] # NoHash
    BY <1>3 DEF NextTarget, WalkInv, QueueInv, offerVars
  <2>10. AcceptedInWindow'
    BY <1>3 DEF NextTarget, AcceptedInWindow
  <2> QED BY <2>3, <2>5, <2>6, <2>7, <2>8, <2>9, <2>10 DEF WalkInv, QueueInv
<1>4. ASSUME NEW p \in Peers, NEW k \in Keys, WarmupOffer(p, k) \/ RecvOffer(p, k)
      PROVE  WalkInv'
  <2>1. RecordOffer(p, k) /\ pc' = pc /\ UNCHANGED <<walkVars, accepted, peerVars>>
    BY <1>4 DEF WarmupOffer, RecvOffer
  <2>2. asked' \in SUBSET (Peers \X Keys) /\ replies' \in SUBSET asked'
    BY <1>4, Dispatched DEF WarmupOffer, RecvOffer, askVars, WalkInv, WalkTypeOK
  <2>3. WalkTypeOK'
    BY <2>1, <2>2, Recorded DEF WalkInv, WalkTypeOK, walkVars, peerVars
  <2>4. pc # "accepted"
    BY <1>4 DEF WarmupOffer, RecvOffer
  <2> QED
    BY <2>1, <2>3, <2>4, Recorded
    DEF WalkInv, QueueInv, WalksDown, AcceptedInWindow, walkVars
<1>5. ASSUME NEW p \in Peers, NEW k \in Keys, JumpUp(p, k) PROVE WalkInv'
  <2>1. k[1] \in Nat /\ target \in Nat /\ queue \in Seq(Nat) /\ k[1] > target
    BY <1>5 DEF Keys, WalkInv, WalkTypeOK, JumpUp, MayJump, IsJumpCandidate
  <2>2. /\ queue' \in Seq(Nat) /\ Len(queue') = Len(queue) + 2
        /\ Len(queue) \in Nat
        /\ queue'[1] = k[1] /\ queue'[2] = target
        /\ \A i \in 3 .. Len(queue') : queue'[i] = queue[i - 2]
    BY <1>5, <2>1 DEF JumpUp
  <2>3. \A i \in 3 .. Len(queue') : i - 2 \in 1 .. Len(queue)
    BY <2>2
  <2>4. WalkTypeOK'
    BY <1>5, <2>2, Recorded DEF JumpUp, WalkInv, WalkTypeOK, askVars, peerVars
  <2>5. pc = "select" /\ pc' = "next" /\ failed' = failed /\ target' = target
    BY <1>5 DEF JumpUp
  <2>6. \A i \in 3 .. Len(queue') : target > queue'[i] /\ queue'[i] \notin failed
    BY <2>2, <2>3, <2>5 DEF WalkInv, WalksDown
  <2>7. \A i \in 3 .. Len(queue') : queue'[i] \in Nat
    BY <2>2
  <2>8. \A i, j \in 1 .. Len(queue') : i < j => queue'[i] > queue'[j]
    <3> SUFFICES ASSUME NEW i \in 1 .. Len(queue'), NEW j \in 1 .. Len(queue'), i < j
                 PROVE  queue'[i] > queue'[j]
      OBVIOUS
    <3>1. CASE j = 2
      BY <2>1, <2>2, <3>1
    <3>2. CASE j >= 3 /\ i >= 3
      <4>1. i - 2 \in 1 .. Len(queue) /\ j - 2 \in 1 .. Len(queue) /\ i - 2 < j - 2
        BY <2>2, <3>2
      <4>2. queue'[i] = queue[i - 2] /\ queue'[j] = queue[j - 2]
        BY <2>2, <3>2
      <4> QED BY <4>1, <4>2 DEF WalkInv, WalksDown
    <3>3. CASE j >= 3 /\ i < 3
      <4>1. target > queue'[j] /\ queue'[j] \in Nat
        BY <2>2, <2>6, <2>7, <3>3
      <4>2. i = 1 \/ i = 2
        BY <2>2, <3>3
      <4> QED BY <2>1, <2>2, <4>1, <4>2
    <3> QED BY <2>2, <3>1, <3>2, <3>3
  <2>9. WalksDown'
    <3>1. k[1] \notin failed /\ target \notin failed
      BY <1>5, <2>5 DEF JumpUp, MayJump, IsJumpCandidate, WalkInv, WalksDown
    <3>2. \A i \in 1 .. Len(queue') : queue'[i] \notin failed'
      BY <2>2, <2>5, <2>6, <3>1
    <3> QED BY <2>5, <2>8, <3>2 DEF WalksDown
  <2>10. pops' + Len(queue') = Len(Targets) + 2 * jumps' /\ jumps' <= MaxJumps
    <3>1. /\ pops \in Nat /\ jumps \in Nat
          /\ pops + Len(queue) = Len(Targets) + 2 * jumps
      BY DEF WalkInv, WalkTypeOK, QueueInv
    <3>2. pops' = pops /\ jumps' = jumps + 1 /\ jumps < MaxJumps
      BY <1>5 DEF JumpUp, MayJump
    <3>3. Len(queue) \in Nat /\ Len(queue') = Len(queue) + 2
      BY <2>2
    <3> DEFINE m == Len(queue)  n == Len(queue')  l == Len(Targets)
    <3>4. m \in Nat /\ n = m + 2 /\ l \in Nat /\ pops + m = l + 2 * jumps
      BY <3>1, <3>3, MaxJumpsNat
    <3> HIDE DEF m, n, l
    <3>5. pops' + n = l + 2 * jumps'
      BY <3>1, <3>2, <3>4
    <3> QED BY <3>1, <3>2, <3>5, MaxJumpsNat DEF m, n, l
  <2>11. \A i \in 1 .. Len(queue') : queue'[i] >= MinHeight
    <3>1. target >= MinHeight
      BY <2>5 DEF WalkInv, QueueInv
    <3>2. \A i \in 3 .. Len(queue') : queue'[i] >= MinHeight
      BY <2>2, <2>3 DEF WalkInv, QueueInv
    <3> QED BY <2>1, <2>2, <3>1, <3>2, MaxJumpsNat
  <2>12. \A j \in Keys : offeredBy'[j] # {} <=> meta'[j] # NoHash
    BY <1>5, Recorded DEF JumpUp
  <2> QED BY <2>4, <2>5, <2>9, <2>10, <2>11, <2>12
          DEF WalkInv, QueueInv, AcceptedInWindow
<1>6. ASSUME NEW p \in Peers, NEW k \in Keys,
             IgnoreChunk(p, k) \/ BanSender(p, k) \/ AnswerLost(p, k)
      PROVE  WalkInv'
  <2>1. UNCHANGED <<pc, walkVars, offerVars, accepted>>
    BY <1>6 DEF IgnoreChunk, BanSender, AnswerLost, RecvChunk
  <2>2. replies' \subseteq replies /\ asked' = asked
    BY <1>6 DEF IgnoreChunk, BanSender, AnswerLost, RecvChunk
  <2>3. connected' \in SUBSET Peers /\ banned' \in SUBSET Peers /\ churn' = churn
    BY <1>6 DEF IgnoreChunk, BanSender, AnswerLost, peerVars, WalkInv, WalkTypeOK
  <2>4. WalkTypeOK'
    BY <2>1, <2>2, <2>3 DEF WalkInv, WalkTypeOK, walkVars, offerVars
  <2> QED BY <2>1, <2>4 DEF WalkInv, QueueInv, WalksDown, AcceptedInWindow,
                            walkVars, offerVars
<1>7. ASSUME NEW p \in Peers, NEW k \in Keys, AcceptChunk(p, k) PROVE WalkInv'
  <2>1. PICK bytes \in Answers(p, k) \ {NoHash} : accepted' \in Matches(k, bytes)
    BY <1>7 DEF AcceptChunk
  <2>2. accepted' \in Keys /\ accepted'[1] = k[1] /\ meta[accepted'] # NoHash
    BY <2>1 DEF Matches
  <2>3. /\ pc = "select" /\ pc' = "accepted" /\ asked' = asked
        /\ replies' \subseteq replies
        /\ UNCHANGED <<walkVars, offerVars, peerVars>>
    BY <1>7 DEF AcceptChunk, RecvChunk
  <2>4. WalkTypeOK'
    BY <2>2, <2>3 DEF WalkInv, WalkTypeOK, Outcomes, walkVars, offerVars, peerVars
  <2>5. k[1] \in target .. MaxHeight /\ target >= MinHeight /\ target \in Nat
    BY <1>7, <2>3 DEF AcceptChunk, InRange, WalkInv, QueueInv, WalkTypeOK
  <2>6. MaxHeight \in Nat
    BY DEF MaxHeight
  <2>7. AcceptedInWindow'
    BY <2>2, <2>3, <2>5, <2>6, MaxJumpsNat
    DEF AcceptedInWindow, offerVars, MinHeight, MaxHeight
  <2> QED BY <2>3, <2>4, <2>7 DEF WalkInv, QueueInv, WalksDown, walkVars, offerVars
<1>8. CASE Deadline
  <2>1. pc = "select" /\ UNCHANGED <<queue, target, jumps, pops, offerVars, accepted>>
    BY <1>8 DEF Deadline
  <2>2. pc' \in {"failed", "next"} /\ failed' \subseteq failed \cup {target}
    BY <1>8 DEF Deadline
  <2>3. WalkTypeOK'
    BY <1>8, <2>2 DEF Deadline, WalkInv, WalkTypeOK, Outcomes, offerVars, askVars, peerVars
  <2>4. \A i \in 1 .. Len(queue) : queue[i] \in Nat /\ target > queue[i]
    BY <2>1 DEF WalkInv, WalksDown, WalkTypeOK
  <2>5. \A i \in 1 .. Len(queue) : queue[i] # target
    BY <2>4 DEF WalkInv, WalkTypeOK
  <2>6. WalksDown'
    BY <2>1, <2>2, <2>5 DEF WalkInv, WalksDown
  <2> QED BY <2>1, <2>2, <2>3, <2>6
          DEF WalkInv, QueueInv, AcceptedInWindow, offerVars
<1>9. ASSUME NEW p \in Peers, Churn(p) PROVE WalkInv'
  <2>1. WalkTypeOK'
    BY <1>9 DEF Churn, WalkInv, WalkTypeOK, walkVars, offerVars, askVars
  <2> QED BY <1>9, <2>1 DEF Churn, WalkInv, QueueInv, WalksDown, AcceptedInWindow,
                            walkVars, offerVars
<1> QED BY <1>1, <1>2, <1>3, <1>4, <1>5, <1>6, <1>7, <1>8, <1>9
        DEF WalkNext, Walker, Done

(* For every window and every behaviour of the peers, the loop turns at    *)
(* most five times per precomputed target, and keeps its types             *)
(* (walk.go:166-170).                                                      *)
THEOREM WalkSafe == WalkSpec => [](WalkTypeOK /\ WalkBounded)
<1>1. WalkInv => WalkTypeOK /\ WalkBounded
  <2> SUFFICES ASSUME WalkInv PROVE WalkBounded
    BY DEF WalkInv
  <2> QED BY MaxJumpsNat DEF WalkInv, QueueInv, WalkTypeOK, WalkBounded
<1> QED BY <1>1, InitInv, StepInv, PTL DEF WalkSpec

(* Heights are tried downwards, and none again after its deadline expired, *)
(* however jumps and requeues rearrange the queue (walk.go:207-211).       *)
THEOREM WalkGoesDown == WalkSpec => []WalksDown
<1>1. WalkInv => WalksDown
  BY DEF WalkInv
<1> QED BY <1>1, InitInv, StepInv, PTL DEF WalkSpec

(* The walk returns only an offer inside the window, of the pinned height  *)
(* if there is one, and with its metadata (walk.go:68-79, 311-316).        *)
THEOREM AcceptsWhatWasAsked == WalkSpec => []AcceptedInWindow
<1>1. WalkInv => AcceptedInWindow
  BY DEF WalkInv
<1> QED BY <1>1, InitInv, StepInv, PTL DEF WalkSpec

-----------------------------------------------------------------------------
(***************************************************************************)
(* A pair is only asked after its offer was recorded, and the metadata     *)
(* recorded for a key is that of one of its offerers.  So the chunk an     *)
(* honest peer answers with finds its offer, unless that is another one.   *)
(***************************************************************************)
FromOfferer(k) == \E q \in offeredBy[k] : meta[k] = Meta[q][k]

HonestInv ==
  /\ \A a \in asked : a[1] \in offeredBy[a[2]]
  /\ \A k \in Keys : offeredBy[k] # {} => FromOfferer(k)
  /\ HonestKept

LEMMA AskedWereOffered ==
  ASSUME WalkInv, HonestInv, NEW t, NEW by,
         \A k \in Keys : offeredBy[k] \subseteq by[k], Dispatch(t, by)
  PROVE  \A a \in asked' : a[1] \in by[a[2]]
BY DEF HonestInv, WalkInv, WalkTypeOK, Dispatch, Askable

(* Recording an offer adds to the offerers and changes no recorded entry.  *)
LEMMA RecordAdds ==
  ASSUME WalkInv, HonestInv, NEW p \in Peers, NEW k \in Keys, RecordOffer(p, k)
  PROVE  /\ \A j \in Keys : offeredBy[j] \subseteq offeredBy'[j]
         /\ \A j \in Keys : offeredBy[j] # {} => meta'[j] = meta[j]
         /\ \A j \in Keys : offeredBy'[j] # {} => FromOfferer(j)'
<1>1. \A j \in Keys : offeredBy[j] \subseteq offeredBy'[j]
  BY DEF RecordOffer, WalkInv, WalkTypeOK
<1>2. ASSUME NEW j \in Keys, offeredBy[j] # {} PROVE meta'[j] = meta[j] /\ FromOfferer(j)'
  <2>1. PICK q \in offeredBy[j] : meta[j] = Meta[q][j]
    BY <1>2 DEF HonestInv, FromOfferer
  <2>2. q \in Peers /\ meta[j] \in Hashes
    BY <2>1, WalkConstants DEF WalkInv, WalkTypeOK
  <2>3. meta'[j] = meta[j]
    BY <2>2, WalkConstants DEF RecordOffer, WalkInv, WalkTypeOK
  <2> QED BY <1>1, <2>1, <2>3 DEF FromOfferer
<1>3. ASSUME NEW j \in Keys, offeredBy[j] = {}, offeredBy'[j] # {} PROVE FromOfferer(j)'
  <2>1. j = k /\ p \in offeredBy'[k]
    BY <1>3 DEF RecordOffer, WalkInv, WalkTypeOK
  <2>2. meta[k] = NoHash
    BY <1>3, <2>1 DEF WalkInv, QueueInv
  <2>3. meta'[k] = Meta[p][k]
    BY <2>2 DEF RecordOffer, WalkInv, WalkTypeOK
  <2> QED BY <2>1, <2>3 DEF FromOfferer
<1> QED BY <1>1, <1>2, <1>3

(* A ban that was justified stays so.                                      *)
LEMMA BansStay ==
  ASSUME HonestInv, WalkInv, Honest \cap banned' \subseteq banned, asked \subseteq asked',
         \A j \in Keys : offeredBy[j] \subseteq offeredBy'[j],
         \A j \in Keys : offeredBy[j] # {} => meta'[j] = meta[j]
  PROVE  HonestKept'
<1> SUFFICES ASSUME NEW p \in Honest \cap banned'
             PROVE  \E k \in Keys : /\ <<p, k>> \in asked'
                                    /\ \E q \in offeredBy'[k] \ {p} : meta'[k] = Meta[q][k] /\ meta'[k] # Meta[p][k]
  BY DEF HonestKept
<1>1. PICK k \in Keys : /\ <<p, k>> \in asked
                        /\ \E q \in offeredBy[k] \ {p} : meta[k] = Meta[q][k] /\ meta[k] # Meta[p][k]
  BY DEF HonestInv, HonestKept
<1> QED BY <1>1

LEMMA HonestStep ==
  ASSUME WalkInv, HonestInv, [WalkNext]_walkerVars
  PROVE  HonestInv'
<1> USE WalkConstants
<1>1. CASE UNCHANGED <<asked, offerVars, banned>>
  BY <1>1 DEF HonestInv, HonestKept, FromOfferer, offerVars
<1>2. CASE NextTarget
  <2>1. UNCHANGED <<offerVars, banned>>
    BY <1>2 DEF NextTarget, peerVars
  <2>2. \A a \in asked' : a[1] \in offeredBy[a[2]]
    <3>1. CASE UNCHANGED askVars
      BY <3>1 DEF askVars, HonestInv
    <3>2. CASE Dispatch(Head(queue), offeredBy)
      BY <3>2, AskedWereOffered
    <3> QED BY <1>2, <3>1, <3>2 DEF NextTarget
  <2>3. asked \subseteq asked'
    BY <1>2 DEF NextTarget, Dispatch, askVars
  <2>4. HonestKept'
    BY <2>1, <2>3, BansStay DEF offerVars
  <2> QED BY <2>1, <2>2, <2>4 DEF HonestInv, FromOfferer, offerVars
<1>3. ASSUME NEW p \in Peers, NEW k \in Keys,
             WarmupOffer(p, k) \/ JumpUp(p, k) \/ RecvOffer(p, k)
      PROVE  HonestInv'
  <2>1. RecordOffer(p, k) /\ banned' = banned
    BY <1>3 DEF WarmupOffer, JumpUp, RecvOffer, peerVars
  <2>2. \A a \in asked' : a[1] \in offeredBy'[a[2]]
    <3>1. CASE UNCHANGED askVars
      BY <2>1, <3>1, RecordAdds DEF askVars, HonestInv, WalkInv, WalkTypeOK
    <3>2. CASE Dispatch(target, offeredBy')
      BY <2>1, <3>2, RecordAdds, AskedWereOffered
    <3> QED BY <1>3, <3>1, <3>2 DEF WarmupOffer, JumpUp, RecvOffer
  <2>3. asked \subseteq asked'
    BY <1>3 DEF WarmupOffer, JumpUp, RecvOffer, Dispatch, askVars
  <2>4. HonestKept'
    BY <2>1, <2>3, RecordAdds, BansStay
  <2> QED BY <2>1, <2>2, <2>4, RecordAdds DEF HonestInv
<1>4. ASSUME NEW p \in Peers, NEW k \in Keys, BanSender(p, k) PROVE HonestInv'
  <2>1. UNCHANGED <<asked, offerVars>> /\ <<p, k>> \in asked
    BY <1>4 DEF BanSender, RecvChunk, WalkInv, WalkTypeOK
  <2>2. banned' \subseteq banned \cup {p}
    BY <1>4 DEF BanSender
  <2>3. ASSUME p \in Honest PROVE meta[k] # Meta[p][k]
    <3>1. PICK bytes \in Answers(p, k) \ {NoHash} : Matches(k, bytes) = {}
      BY <1>4 DEF BanSender
    <3>2. bytes = Meta[p][k]
      BY <2>3, <3>1 DEF Answers
    <3> QED BY <3>1, <3>2 DEF Matches
  <2>4. PICK q \in offeredBy[k] : meta[k] = Meta[q][k]
    BY <2>1 DEF HonestInv, FromOfferer
  <2>5. HonestKept'
    <3> SUFFICES ASSUME NEW o \in Honest \cap banned'
                 PROVE  \E j \in Keys : /\ <<o, j>> \in asked
                                        /\ \E r \in offeredBy[j] \ {o} : meta[j] = Meta[r][j] /\ meta[j] # Meta[o][j]
      BY <2>1 DEF HonestKept, offerVars
    <3>1. CASE o = p
      BY <2>1, <2>3, <2>4, <3>1
    <3>2. CASE o # p
      BY <2>2, <3>2 DEF HonestInv, HonestKept
    <3> QED BY <3>1, <3>2
  <2> QED BY <2>1, <2>5 DEF HonestInv, FromOfferer, offerVars
<1>5. ASSUME NEW p \in Peers, NEW k \in Keys,
             IgnoreChunk(p, k) \/ AcceptChunk(p, k) \/ AnswerLost(p, k)
      PROVE  UNCHANGED <<asked, offerVars, banned>>
  BY <1>5 DEF IgnoreChunk, AcceptChunk, AnswerLost, RecvChunk, peerVars
<1>6. ASSUME NEW p \in Peers, Churn(p) PROVE UNCHANGED <<asked, offerVars, banned>>
  BY <1>6 DEF Churn, askVars
<1>7. CASE WarmupEnds \/ Exhausted \/ Deadline \/ Cancel \/ UNCHANGED walkerVars
  BY <1>1, <1>7 DEF WarmupEnds, Exhausted, Deadline, Cancel, walkerVars, askVars, peerVars
<1> QED BY <1>1, <1>2, <1>3, <1>4, <1>5, <1>6, <1>7 DEF WalkNext, Walker, Done

(***************************************************************************)
(* Whatever metadata the peers advertise: the walk bans a peer that serves *)
(* what its own metadata describes only over a key for which offerSet.add  *)
(* has kept the differing metadata of an earlier offerer.                  *)
(***************************************************************************)
THEOREM WalkKeepsHonest == WalkSpec => []HonestKept
<1>1. WalkInit => WalkInv /\ HonestInv
  <2>1. WalkInit => HonestInv
    BY DEF WalkInit, HonestInv, HonestKept
  <2> QED BY <2>1, InitInv
<1>2. WalkInv /\ HonestInv /\ [WalkNext]_walkerVars => (WalkInv /\ HonestInv)'
  BY StepInv, HonestStep
<1>3. HonestInv => HonestKept
  BY DEF HonestInv
<1> QED BY <1>1, <1>2, <1>3, PTL DEF WalkSpec

-----------------------------------------------------------------------------
(***************************************************************************)
(* Causes.  An error "fetch" of the import comes by way of Fail, so from a *)
(* fetch that has returned one: an import that fails for that reason       *)
(* cancels a fetch that is over.  A fetch that returns "cancelled" was     *)
(* cancelled by a signal or by an import that failed on its own.           *)
(***************************************************************************)
CauseOK == /\ s1err \in Causes /\ firstErr \in Causes
           /\ fetch \in {"run", "done"} \cup FetchErrors
           /\ s1err # "none" => s1 \in {"closing", "done"}

FetchCause == /\ failErr => fetch \in FetchErrors
              /\ pf = "failed" => failErr
              /\ s1err = "fetch" => pf = "failed"
              /\ firstErr = "fetch" => s1err = "fetch"
              /\ imp = "fetch" => s1err = "fetch"

CancelCause == /\ cancelled => interrupted \/ imp \in {"own", "fetch"}
               /\ fetch = "cancelled" => interrupted \/ imp = "own"
               /\ exit # -1 => imp \in {"ok", "own", "fetch"}

CauseInv == CauseOK /\ FetchCause /\ CancelCause /\ CauseReported

(* What a step does to the error of stage 1, of stage 2 and of the whole.  *)
LEMMA S1ErrStep ==
  ASSUME CauseOK, [Next]_vars
  PROVE  /\ \/ UNCHANGED s1err
            \/ /\ s1err = "none" /\ s1' = "closing"
               /\ s1err' = "own" \/ (s1err' = "fetch" /\ pf = "failed")
         /\ s1 \in {"closing", "done"} => s1' \in {"closing", "done"}
<1>1. CASE ScanStore
  BY <1>1 DEF ScanStore, Scanning, CauseOK
<1>2. CASE ScanItem
  BY <1>2 DEF ScanItem, Scanning, CauseOK
<1>3. CASE SourceEnds
  BY <1>3 DEF SourceEnds, Scanning, CauseOK
<1>4. CASE UNCHANGED s1err /\ (s1' = s1 \/ s1 = "emit" \/ s1' = "done")
  BY <1>4
<1>. QED
  BY <1>1, <1>2, <1>3, <1>4
  DEF Next, StreamNext, Stage1, Take, Write, Emit, Stage1Done, StagesEnd, Finalize, Work, TakeStore,
      WorkerExits, ReadMore, Deliver, BoundaryEnds, EofEnds, WaveEnds, Malformed, GivesUp, SetEnd, StoreFault,
      Fetcher, FetchReturns, ChunkReady, Interrupt, Prefetch, PfOpen, PfShip, PfEnds, PfStop, PfBreaks, Ships,
      CancelFetch, FailTailing, Report, vars, streamVars, scanVars

LEMMA FirstErrStep ==
  ASSUME CauseOK, [Next]_vars
  PROVE  firstErr' \in {firstErr, "none", "own", s1err}
<1>1. ASSUME NEW w \in Workers, Work(w) \/ StoreFault(w)
      PROVE  firstErr' \in {firstErr, "none", "own", s1err}
  BY <1>1
  DEF Work, TakeStore, WorkerExits, ReadMore, Deliver, BoundaryEnds, EofEnds, WaveEnds, Malformed, GivesUp,
      StoreFault, StoreEnds, ReadError, outVars
<1>2. CASE UNCHANGED firstErr
  BY <1>2
<1>. QED
  BY <1>1, <1>2
  DEF Next, StreamNext, Stage1, Take, Write, ScanStore, ScanItem, SourceEnds, Emit, Stage1Done, StagesEnd,
      Finalize, SetEnd,
      Fetcher, FetchReturns, ChunkReady, Interrupt, Prefetch, PfOpen, PfShip, PfEnds, PfStop, PfBreaks, Ships,
      CancelFetch, FailTailing, Report, vars, streamVars, outVars

LEMMA ImpStep ==
  ASSUME [Next]_vars
  PROVE  /\ imp \in {"own", "fetch", "ok"} => imp' = imp
         /\ imp' \in {imp, "final", "own", "ok"} \/ (imp = "stages" /\ imp' \in {firstErr, s1err})
<1>1. CASE StagesEnd
  BY <1>1 DEF StagesEnd
<1>2. CASE Finalize
  BY <1>2 DEF Finalize
<1>3. CASE UNCHANGED imp
  BY <1>3
<1>. QED
  BY <1>1, <1>2, <1>3
  DEF Next, StreamNext, Stage1, Take, Write, ScanStore, ScanItem, SourceEnds, Emit, Stage1Done,
      SetEnd, Work, TakeStore, WorkerExits, ReadMore, Deliver, BoundaryEnds, EofEnds, WaveEnds, Malformed,
      GivesUp, StoreFault,
      Fetcher, FetchReturns, ChunkReady, Interrupt, Prefetch, PfOpen, PfShip, PfEnds, PfStop, PfBreaks, Ships,
      CancelFetch, FailTailing, Report, vars, streamVars, outVars

(* ... and to the prefetch and the pipeline.                               *)
LEMMA PipeStep ==
  ASSUME [Next]_vars
  PROVE  /\ pf' = pf \/ (pf = "run" /\ (pf' = "failed" => failErr))
         /\ (failErr => failErr') /\ (failErr' => failErr \/ fetch \in FetchErrors)
         /\ interrupted => interrupted'
         /\ \/ fetch' = fetch
            \/ fetch = "run" /\ fetch' \in {"done", "failed", "mismatch", "cancelled"} /\ (fetch' = "cancelled" => cancelled)
         /\ cancelled' => cancelled \/ interrupted' \/ imp \in {"own", "fetch"}
         /\ exit' = exit \/ Report
<1>1. CASE UNCHANGED pipeVars /\ StreamNext
  BY <1>1
  DEF StreamNext, Stage1, Take, Write, ScanStore, ScanItem, SourceEnds, Emit, Stage1Done, StagesEnd, Finalize,
      SetEnd, Work, TakeStore, WorkerExits, ReadMore, Deliver, BoundaryEnds, EofEnds, WaveEnds, Malformed,
      GivesUp, StoreFault, srcVars, pipeVars
<1>2. CASE Prefetch \/ PfBreaks
  BY <1>2 DEF Prefetch, PfOpen, PfShip, PfEnds, PfStop, PfBreaks, Ships, pipeVars, streamVars, srcVars
<1>3. CASE Fetcher \/ Interrupt \/ CancelFetch \/ FailTailing \/ Report \/ UNCHANGED vars
  BY <1>3 DEF Fetcher, FetchReturns, ChunkReady, Interrupt, CancelFetch, FailTailing, Report,
              vars, streamVars, srcVars, pipeVars
<1>. QED
  BY <1>1, <1>2, <1>3 DEF Next

LEMMA CauseStep == CauseInv /\ [Next]_vars => CauseInv'
<1> SUFFICES ASSUME CauseOK, FetchCause, CancelCause, CauseReported, [Next]_vars PROVE CauseInv'
  BY DEF CauseInv
<1>1. CauseOK'
  BY S1ErrStep, FirstErrStep, PipeStep DEF CauseOK, Causes, FetchErrors
<1>2. FetchCause'
  <2>1. failErr' => fetch' \in FetchErrors
    BY PipeStep DEF FetchCause, FetchErrors
  <2>2. pf' = "failed" => failErr'
    BY PipeStep DEF FetchCause
  <2>3. s1err' = "fetch" => pf' = "failed"
    BY PipeStep, S1ErrStep DEF FetchCause
  <2>4. s1err = "fetch" => s1err' = "fetch"
    BY S1ErrStep
  <2>5. firstErr' = "fetch" => s1err' = "fetch"
    BY <2>4, FirstErrStep DEF FetchCause
  <2>6. imp' = "fetch" => s1err' = "fetch"
    BY <2>4, ImpStep DEF FetchCause
  <2>. QED
    BY <2>1, <2>2, <2>3, <2>5, <2>6 DEF FetchCause
<1>3. CancelCause'
  <2>1. cancelled' => interrupted' \/ imp' \in {"own", "fetch"}
    BY PipeStep, ImpStep DEF CancelCause
  <2>2. ASSUME fetch' = "cancelled" PROVE interrupted' \/ imp' = "own"
    <3>1. CASE fetch = "cancelled"
      BY <3>1, PipeStep, ImpStep DEF CancelCause
    <3>2. CASE fetch # "cancelled"
      <4>1. fetch = "run" /\ cancelled
        BY <2>2, <3>2, PipeStep
      <4>2. imp # "fetch"
        BY <4>1 DEF FetchCause, FetchErrors
      <4>. QED
        BY <4>1, <4>2, PipeStep, ImpStep DEF CancelCause
    <3>. QED BY <3>1, <3>2
  <2>3. exit' # -1 => imp' \in {"ok", "own", "fetch"}
    <3>1. CASE Report
      BY <3>1 DEF Report, ImportOver, streamVars, outVars
    <3>2. CASE exit' = exit
      BY <3>2, ImpStep DEF CancelCause
    <3>. QED BY <3>1, <3>2, PipeStep
  <2>. QED BY <2>1, <2>2, <2>3 DEF CancelCause
<1>4. CauseReported'
  <2>1. CASE exit' = exit
    <3>1. exit = 5 => fetch' = fetch /\ (imp' = "own" => imp = "own")
      BY PipeStep, ImpStep DEF CauseReported, CancelCause
    <3>. QED
      BY <2>1, <3>1, PipeStep, ImpStep DEF CauseReported
  <2>2. CASE Report
    <3>1. UNCHANGED <<imp, fetch, interrupted, failErr>> /\ imp \in {"ok", "own", "fetch"}
      BY <2>2 DEF Report, ImportOver, streamVars, outVars
    <3>2. fetch = "done" \/ fetch \in FetchErrors
      BY <2>2 DEF Report
    <3>3. imp = "fetch" => fetch \in FetchErrors
      BY DEF FetchCause
    <3>4. CASE FinalErr = "none"
      BY <2>2, <3>4 DEF Report, PostImport, CauseReported
    <3>5. CASE FinalErr # "none"
      <4>1. exit' = MapExitCode(FinalErr)
        BY <2>2, <3>5 DEF Report
      <4>2. imp = "own" \/ (imp # "own" /\ fetch \in FetchErrors /\ FinalErr = fetch)
        BY <3>1, <3>2, <3>3, <3>5 DEF FinalErr
      <4>3. CASE imp = "own"
        BY <3>1, <4>1, <4>3 DEF FinalErr, MapExitCode, CauseReported
      <4>4. CASE imp # "own" /\ fetch \in FetchErrors /\ FinalErr = fetch
        BY <3>1, <4>1, <4>4 DEF MapExitCode, CauseReported, CancelCause, FetchErrors
      <4>. QED BY <4>2, <4>3, <4>4
    <3>. QED BY <3>4, <3>5
  <2>. QED BY <2>1, <2>2, PipeStep
<1>. QED BY <1>1, <1>2, <1>3, <1>4 DEF CauseInv

(* Whatever the order in which the fetch, the import and the signal come:  *)
(* exit code 130 means the user interrupted, 5 that the download failed    *)
(* and the import had no error of its own, 1 that it had one (pipeline.go  *)
(* finalize, run.go mapExitCode).                                          *)
THEOREM CauseIsReported == Spec => []CauseReported
<1>1. Init => CauseInv
  BY DEF Init, StreamInit, CauseInv, CauseOK, FetchCause, CancelCause, CauseReported, Causes, FetchErrors
<1>2. CauseInv => CauseReported
  BY DEF CauseInv
<1>. QED
  BY <1>1, <1>2, CauseStep, PTL DEF Spec

-----------------------------------------------------------------------------
(* Least and greatest elements.                                            *)
LEMMA MinOf ==
  ASSUME NEW S \in SUBSET Nat, S # {}
  PROVE  Min(S) \in S /\ \A j \in S : Min(S) <= j
<1>1. PICK i \in S : \A j \in S : ~(<<j, i>> \in OpToRel(<, Nat))
  BY NatLessThanWellFounded, WFMin
<1>2. \A j \in S : ~(j < i)
  BY <1>1 DEF OpToRel
<1>3. \E x \in S : \A y \in S : x =< y
  BY <1>2
<1>. QED
  BY <1>3 DEF Min

LEMMA MaxOf ==
  ASSUME NEW n \in Nat, NEW S \in SUBSET (0 .. n), S # {}
  PROVE  Max(S) \in S /\ \A j \in S : j <= Max(S)
<1> DEFINE T == {n - x : x \in S}
<1>1. T \in SUBSET Nat /\ T # {}
  <2>1. \A x \in S : x \in Int /\ n - x \in Nat
    OBVIOUS
  <2>2. PICK x : x \in S
    OBVIOUS
  <2>3. n - x \in T
    BY <2>2
  <2>. QED BY <2>1, <2>3
<1>2. Min(T) \in T /\ \A j \in T : Min(T) <= j
  BY <1>1, MinOf
<1>3. PICK x \in S : Min(T) = n - x
  BY <1>2
<1>4. \A j \in S : x >= j
  <2> TAKE j \in S
  <2>1. n - j \in T
    OBVIOUS
  <2>2. n - x <= n - j
    BY <1>2, <1>3, <2>1
  <2>. QED BY <2>2
<1>5. Max(S) \in S /\ \A j \in S : Max(S) >= j
  BY <1>4 DEF Max
<1>. QED BY <1>5

-----------------------------------------------------------------------------
(* Streams: where items begin and end, and the item that ends a store.     *)
Bound(s) == Min({j \in Items : j > s /\ Is(j, {"store", "ext"})} \cup {Len(stream) + 1})

Places == 1 .. Len(stream) + 1

LEMMA StreamFacts ==
  ASSUME stream \in Streams
  PROVE  /\ Len(stream) \in Nat
         /\ \A j \in Places : StartOf(j) \in Nat
         /\ \A i, j \in Places : i < j => StartOf(i) < StartOf(j)
         /\ \A j \in Items : EndOf(j) = StartOf(j + 1) /\ j + 1 \in Places /\ j \in Places
<1>1. /\ stream \in Seq([kind : Kinds, end : Nat \ {0}])
      /\ \A i, j \in 1 .. Len(stream) : i < j => stream[i].end < stream[j].end
  BY StreamConstants
<1>2. Len(stream) \in Nat /\ \A j \in 1 .. Len(stream) : stream[j].end \in Nat \ {0}
  <2>1. Len(stream) \in Nat /\ \A j \in 1 .. Len(stream) : stream[j] \in [kind : Kinds, end : Nat \ {0}]
    <3>1. ASSUME NEW R, NEW q \in Seq(R)
          PROVE  Len(q) \in Nat /\ \A j \in 1 .. Len(q) : q[j] \in R
      OBVIOUS
    <3>. QED BY <1>1, <3>1
  <2>. QED BY <2>1
<1>3. \A j \in Places : StartOf(j) \in Nat
  BY <1>2 DEF Places, StartOf
<1>4. ASSUME NEW i \in Places, NEW j \in Places, i < j PROVE StartOf(i) < StartOf(j)
  <2>1. j # 1 /\ j - 1 \in 1 .. Len(stream) /\ StartOf(j) = stream[j - 1].end
    BY <1>2, <1>4 DEF Places, StartOf
  <2>2. CASE i = 1
    BY <1>2, <2>1, <2>2 DEF StartOf
  <2>3. CASE i # 1
    <3>1. i - 1 \in 1 .. Len(stream) /\ i - 1 < j - 1 /\ StartOf(i) = stream[i - 1].end
      BY <1>2, <1>4, <2>3 DEF Places, StartOf
    <3>. QED BY <1>1, <2>1, <3>1
  <2>. QED BY <2>2, <2>3
<1>5. ASSUME NEW j \in Items PROVE EndOf(j) = StartOf(j + 1) /\ j + 1 \in Places /\ j \in Places
  BY <1>2 DEF Items, Places, StartOf, EndOf
<1>. QED BY <1>2, <1>3, <1>4, <1>5

LEMMA BoundFacts ==
  ASSUME stream \in Streams, NEW s \in Items
  PROVE  /\ Bound(s) \in Places /\ s < Bound(s)
         /\ Bound(s) \in Items => Is(Bound(s), {"store", "ext"})
         /\ \A j \in Items : s < j /\ Is(j, {"store", "ext"}) => Bound(s) <= j
<1> DEFINE S == {j \in Items : j > s /\ Is(j, {"store", "ext"})} \cup {Len(stream) + 1}
<1>1. Len(stream) \in Nat
  BY StreamFacts
<1>2. S \in SUBSET Nat /\ S # {}
  BY <1>1 DEF Items
<1>3. Bound(s) \in S /\ \A j \in S : Bound(s) <= j
  BY <1>2, MinOf DEF Bound
<1>. QED
  BY <1>1, <1>3 DEF Items, Places

-----------------------------------------------------------------------------
(* The store channel, as the set of what waits in it.                      *)
Waiting(q)  == {q[i] : i \in 1 .. Len(q)}
Distinct(q) == \A i, k \in 1 .. Len(q) : q[i] = q[k] => i = k

LEMMA WaitAppended ==
  ASSUME NEW S, NEW q \in Seq(S), NEW x \in S
  PROVE  /\ Waiting(Append(q, x)) = Waiting(q) \cup {x}
         /\ Distinct(q) /\ x \notin Waiting(q) => Distinct(Append(q, x))
<1>1. Len(Append(q, x)) = Len(q) + 1 /\ Len(q) \in Nat
  OBVIOUS
<1>2. Append(q, x)[Len(q) + 1] = x /\ \A i \in 1 .. Len(q) : Append(q, x)[i] = q[i]
  OBVIOUS
<1>. QED
  BY <1>1, <1>2 DEF Waiting, Distinct

LEMMA WaitTail ==
  ASSUME NEW S, NEW q \in Seq(S), q # <<>>, Distinct(q)
  PROVE  /\ Head(q) \in Waiting(q) /\ Waiting(Tail(q)) = Waiting(q) \ {Head(q)}
         /\ Distinct(Tail(q)) /\ Tail(q) \in Seq(S)
<1>1. Len(q) \in Nat \ {0} /\ Len(Tail(q)) = Len(q) - 1 /\ Head(q) = q[1] /\ Tail(q) \in Seq(S)
  OBVIOUS
<1>2. \A i \in 1 .. Len(q) - 1 : Tail(q)[i] = q[i + 1]
  OBVIOUS
<1>3. Head(q) \in Waiting(q)
  BY <1>1 DEF Waiting
<1>4. ASSUME NEW i \in 1 .. Len(q) - 1 PROVE Tail(q)[i] \in Waiting(q) \ {Head(q)}
  <2>1. i + 1 \in 1 .. Len(q) /\ i + 1 # 1 /\ Tail(q)[i] = q[i + 1]
    BY <1>1, <1>2
  <2>. QED BY <1>1, <2>1 DEF Waiting, Distinct
<1>5. ASSUME NEW i \in 1 .. Len(q), q[i] # Head(q) PROVE q[i] \in Waiting(Tail(q))
  <2>1. i - 1 \in 1 .. Len(q) - 1 /\ Tail(q)[i - 1] = q[i]
    BY <1>1, <1>2, <1>5
  <2>. QED BY <1>1, <2>1 DEF Waiting
<1>6. Distinct(Tail(q))
  BY <1>1, <1>2 DEF Distinct
<1>. QED
  BY <1>1, <1>3, <1>4, <1>5, <1>6 DEF Waiting

-----------------------------------------------------------------------------
(***************************************************************************)
(* The ring.  Stage 1 keeps at its tail what it has written, eviction      *)
(* moves the head up to the least pin, and a reader's pin follows the      *)
(* items its worker has been given.                                        *)
(***************************************************************************)
RingOK == /\ head \in Nat /\ tail \in Nat /\ head <= tail
          /\ ends \in SUBSET (head + 1 .. tail)
          /\ tail \in ends \/ (ends = {} /\ tail = head)
          /\ want \in Nat

Phases == {"idle", "read", "past", "exit"}

(* Types of the readers and the workers.                                   *)
HandsOK ==
  /\ stream \in Streams /\ item \in Places
  /\ rd \in [Items -> [open : BOOLEAN, pos : Nat, pin : Nat, end : Nat]]
  /\ wk \in [Workers -> [phase : Phases, store : Nat, next : Nat, bad : BOOLEAN, stuck : BOOLEAN]]
  /\ storeCh \in Seq(Nat) /\ Distinct(storeCh)

(* A reader is open for a store that stage 1 has come to.                  *)
OpenInv ==
  \A j \in Items : rd[j].open => j \in Stores /\ (j < item \/ (j = item /\ s1 = "emit"))

(* It holds what it has not read and, without wave decoding, never lets go *)
(* of anything past its own store.                                         *)
PinInv ==
  \A j \in Items : rd[j].open => /\ head <= rd[j].pin /\ rd[j].pin <= rd[j].pos
                                 /\ ~wave => rd[j].pin <= StartOf(Bound(j))

(* What stage 1 has yet to hand out, and the extension tail, stay.         *)
HeadInv ==
  ~wave => \A j \in Items : \/ j \in Stores /\ item <= j
                            \/ j = ExtStart
                            => head <= StartOf(j)

EmitInv == s1 = "emit" => item \in Stores /\ cur = item /\ rd[item].open /\ rd[item].pin = StartOf(item)

ChanInv == \A j \in Waiting(storeCh) : j \in Stores /\ j < item /\ rd[j].open /\ rd[j].pin = StartOf(j)

(* A worker's store is its own, and its pin stands where Next reads.       *)
HeldBy(w) ==
  Busy(w) =>
    /\ wk[w].store \in Stores /\ wk[w].store < item /\ wk[w].store \notin Waiting(storeCh)
    /\ wk[w].next \in Places /\ wk[w].store <= wk[w].next
    /\ rd[wk[w].store].open /\ rd[wk[w].store].pin = StartOf(wk[w].next)
    /\ wk[w].phase = "read" => wk[w].next <= Bound(wk[w].store)
    /\ wk[w].phase = "past" => wave
HeldInv ==
  /\ \A w \in Workers : HeldBy(w)
  /\ \A v, w \in Workers : Busy(v) /\ Busy(w) /\ wk[v].store = wk[w].store => v = w

RingInv == RingOK /\ HandsOK /\ OpenInv /\ PinInv /\ HeadInv /\ EmitInv /\ ChanInv /\ HeldInv

(* evictLocked: the head stays, or moves to where some open reader is and  *)
(* every open reader allows.                                               *)
LEMMA EvictStep ==
  ASSUME RingOK, NEW r, \A j \in Items : r[j].pin \in Nat, Evict(r)
  PROVE  /\ head' \in Nat /\ head <= head' /\ head' <= tail
         /\ ends' \in SUBSET (head' + 1 .. tail)
         /\ tail \in ends' \/ (ends' = {} /\ tail = head')
         /\ \/ head' = head
            \/ /\ \E j \in Items : r[j].open
               /\ \A j \in Items : r[j].open => head' <= r[j].pin
<1> DEFINE pins == {r[j].pin : j \in {i \in Items : r[i].open}}
           gone == IF pins = {} THEN {} ELSE {e \in ends : e <= Min(pins)}
<1>1. head' = Max(gone \cup {head}) /\ ends' = ends \ gone
  BY DEF Evict
<1>2. head \in Nat /\ tail \in Nat /\ head <= tail /\ ends \in SUBSET (head + 1 .. tail)
  BY DEF RingOK
<1>3. gone \in SUBSET ends
  <2> HIDE DEF pins
  <2>. QED OBVIOUS
<1>4. pins = {} => gone = {}
  <2> HIDE DEF pins
  <2>. QED OBVIOUS
<1>5. pins # {} => Min(pins) \in Nat /\ (\A x \in pins : Min(pins) <= x) /\ gone = {e \in ends : e <= Min(pins)}
  <2>1. pins \in SUBSET Nat
    OBVIOUS
  <2>. HIDE DEF pins
  <2>. QED BY <2>1, MinOf
<1>6. pins # {} => \E j \in Items : r[j].open
  OBVIOUS
<1>7. \A j \in Items : r[j].open => r[j].pin \in pins
  OBVIOUS
<1> HIDE DEF gone, pins
<1>8. \A e \in ends : e \in Nat /\ head < e /\ e <= tail
  BY <1>2
<1>9. gone \cup {head} \in SUBSET (0 .. tail)
  BY <1>2, <1>3, <1>8
<1>10. head' \in gone \cup {head} /\ \A e \in gone \cup {head} : e <= head'
  BY <1>1, <1>2, <1>9, MaxOf
<1>11. head' \in Nat /\ head <= head' /\ head' <= tail
  <2>1. head' \in 0 .. tail
    BY <1>9, <1>10
  <2>. QED BY <1>2, <1>10, <2>1
<1>12. ASSUME NEW e \in ends' PROVE e \in head' + 1 .. tail
  <2>1. e \in ends /\ e \notin gone
    BY <1>1
  <2>2. CASE head' = head
    BY <1>8, <2>1, <2>2, <1>2
  <2>3. CASE head' \in gone
    <3>1. gone # {} /\ pins # {}
      BY <1>4, <2>3
    <3>2. head' <= Min(pins) /\ ~(e <= Min(pins)) /\ Min(pins) \in Nat
      BY <1>5, <2>1, <2>3, <3>1
    <3>3. e \in Nat /\ e <= tail /\ head' \in Nat /\ tail \in Nat
      BY <1>2, <1>8, <1>11, <2>1
    <3>4. head' < e
      BY <3>2, <3>3
    <3>5. \A a, b, c \in Nat : a < b /\ b <= c => b \in a + 1 .. c
      OBVIOUS
    <3>. QED BY <3>3, <3>4, <3>5
  <2>. QED BY <1>10, <2>2, <2>3
<1>13. tail \in ends' \/ (ends' = {} /\ tail = head')
  <2>1. CASE tail \in gone
    <3>1. head' = tail
      BY <1>2, <1>10, <1>11, <2>1
    <3>2. head' + 1 .. tail = {}
      BY <1>2, <3>1
    <3>. QED BY <1>12, <3>1, <3>2
  <2>2. CASE tail \notin gone /\ tail \in ends
    BY <1>1, <2>2
  <2>3. CASE ends = {} /\ tail = head
    BY <1>1, <1>3, <1>10, <2>3
  <2>. QED BY <2>1, <2>2, <2>3 DEF RingOK
<1>14. ASSUME head' # head
       PROVE  /\ \E j \in Items : r[j].open
              /\ \A j \in Items : r[j].open => head' <= r[j].pin
  <2>1. head' \in gone /\ pins # {}
    BY <1>4, <1>10, <1>14
  <2>2. head' <= Min(pins) /\ Min(pins) \in Nat /\ \A x \in pins : Min(pins) <= x
    BY <1>5, <2>1
  <2>3. ASSUME NEW j \in Items, r[j].open PROVE head' <= r[j].pin
    <3>1. r[j].pin \in pins /\ r[j].pin \in Nat
      BY <1>7, <2>3
    <3>. QED BY <1>11, <2>2, <3>1
  <2>. QED BY <1>6, <2>1, <2>3
<1>. QED BY <1>11, <1>12, <1>13, <1>14

LEMMA SameStream ==
  ASSUME stream' = stream
  PROVE  /\ Items' = Items /\ Stores' = Stores /\ Places' = Places /\ ExtStart' = ExtStart
         /\ \A j : StartOf(j)' = StartOf(j)
         /\ \A j : Bound(j)' = Bound(j)
<1>1. Items' = Items /\ Places' = Places
  BY DEF Items, Places
<1>2. \A j, k : Is(j, k)' = Is(j, k)
  BY <1>1 DEF Is
<1>3. Stores' = Stores
  BY <1>1, <1>2 DEF Stores
<1>4. \A j : StartOf(j)' = StartOf(j)
  BY DEF StartOf
<1>5. ExtStart' = ExtStart
  BY <1>1, <1>2 DEF ExtStart
<1>6. \A j : Bound(j)' = Bound(j)
  BY <1>1, <1>2 DEF Bound
<1>. QED BY <1>1, <1>3, <1>4, <1>5, <1>6

(* A store ends before any later store and before the extension tail.      *)
LEMMA StoreBefore ==
  ASSUME stream \in Streams, NEW s \in Stores, NEW j \in Items,
         (j \in Stores /\ s < j) \/ j = ExtStart
  PROVE  StartOf(Bound(s)) <= StartOf(j) /\ s < j /\ StartOf(s) < StartOf(j)
<1>1. s \in Items /\ stream[s].kind = "store" /\ Len(stream) \in Nat
  BY StreamFacts DEF Stores, Is
<1>2. s < j /\ Is(j, {"store", "ext"})
  <2>1. CASE j \in Stores /\ s < j
    BY <2>1 DEF Stores, Is
  <2>2. CASE j = ExtStart
    <3> DEFINE S == {i \in Items : Is(i, {"ext"})} \cup {Len(stream) + 1}
    <3>1. S \in SUBSET Nat /\ S # {}
      BY <1>1 DEF Items
    <3>2. j \in S
      BY <2>2, <3>1, MinOf DEF ExtStart
    <3>3. j # Len(stream) + 1
      BY <1>1 DEF Items
    <3>4. stream[j].kind = "ext"
      BY <3>2, <3>3 DEF Is
    <3>5. ~(j < s)
      BY <1>1, <3>4, StreamConstants DEF Items
    <3>. QED BY <1>1, <3>4, <3>5 DEF Items, Is
  <2>. QED BY <2>1, <2>2
<1>3. Bound(s) <= j /\ Bound(s) \in Places /\ j \in Places /\ s \in Places
  BY <1>1, <1>2, BoundFacts, StreamFacts
<1>4. Bound(s) \in Int /\ j \in Int /\ s \in Int
  BY <1>1, <1>3 DEF Places
<1>5. StartOf(Bound(s)) \in Nat /\ StartOf(j) \in Nat
  BY <1>3, StreamFacts
<1>. QED BY <1>2, <1>3, <1>4, <1>5, StreamFacts

(* A step that lets readers go, or moves their pins up, and evicts.        *)
LEMMA EvictKeeps ==
  ASSUME RingOK, HandsOK, HandsOK', OpenInv', EmitInv', HeadInv, Evict(rd'),
         UNCHANGED <<stream, wave, item, tail, want>>,
         \A j \in Items : rd'[j].open => /\ head <= rd'[j].pin
                                         /\ ~wave => rd'[j].pin <= StartOf(Bound(j))
  PROVE  RingOK' /\ HeadInv' /\ \A j \in Items : rd'[j].open => head' <= rd'[j].pin
<1>1. /\ Items' = Items /\ Stores' = Stores /\ ExtStart' = ExtStart
      /\ \A j : StartOf(j)' = StartOf(j)
  BY SameStream
<1>2. \A j \in Items : rd'[j].pin \in Nat
  BY <1>1 DEF HandsOK
<1>3. /\ head' \in Nat /\ head <= head' /\ head' <= tail
      /\ ends' \in SUBSET (head' + 1 .. tail)
      /\ tail \in ends' \/ (ends' = {} /\ tail = head')
      /\ \/ head' = head
         \/ /\ \E j \in Items : rd'[j].open
            /\ \A j \in Items : rd'[j].open => head' <= rd'[j].pin
  BY <1>2, EvictStep
<1>4. RingOK'
  BY <1>3 DEF RingOK
<1>5. \A j \in Items : rd'[j].open => head' <= rd'[j].pin
  BY <1>3
<1>6. CASE head' = head
  BY <1>1, <1>4, <1>5, <1>6 DEF HeadInv
<1>7. CASE head' # head
  <2>1. PICK k \in Items : rd'[k].open
    BY <1>3, <1>7
  <2>2. k \in Stores /\ (k < item \/ (k = item /\ s1' = "emit"))
    BY <1>1, <2>1 DEF OpenInv
  <2>3. head' <= rd'[k].pin /\ rd'[k].pin \in Nat
    BY <1>2, <1>5, <2>1
  <2>4. ASSUME ~wave, NEW j \in Items, (j \in Stores /\ item <= j) \/ j = ExtStart
        PROVE  head' <= StartOf(j)
    <3>1. stream \in Streams /\ item \in Int /\ j \in Int /\ k \in Int
      BY StreamFacts DEF HandsOK, Places, Items
    <3>2. StartOf(j) \in Nat
      BY <3>1, StreamFacts
    <3>3. CASE (j \in Stores /\ k < j) \/ j = ExtStart
      <4>1. StartOf(Bound(k)) <= StartOf(j)
        BY <2>2, <3>1, <3>3, StoreBefore
      <4>2. rd'[k].pin <= StartOf(Bound(k)) /\ StartOf(Bound(k)) \in Nat
        BY <2>1, <2>4, <3>1, BoundFacts, StreamFacts
      <4>. QED BY <1>3, <2>3, <3>2, <4>1, <4>2
    <3>4. CASE j = k /\ item = k /\ s1' = "emit"
      BY <1>1, <2>3, <3>4 DEF EmitInv
    <3>. QED BY <2>2, <2>4, <3>1, <3>3, <3>4
  <2>5. HeadInv'
    BY <1>1, <2>4 DEF HeadInv
  <2>. QED BY <1>4, <1>5, <2>5
<1>. QED BY <1>6, <1>7

-----------------------------------------------------------------------------
(* Steps that touch neither readers nor workers.                           *)
LEMMA CalmStep ==
  ASSUME RingInv, RingOK', UNCHANGED <<stream, wave, item, head, rd, storeCh, wk>>,
         s1 = "emit" => s1' = "emit" /\ cur' = cur, s1' = "emit" => s1 = "emit"
  PROVE  RingInv'
<1>1. /\ Items' = Items /\ Stores' = Stores /\ Places' = Places /\ ExtStart' = ExtStart
      /\ (\A j : StartOf(j)' = StartOf(j)) /\ (\A j : Bound(j)' = Bound(j))
  BY SameStream
<1>2. HandsOK'
  BY <1>1 DEF RingInv, HandsOK
<1>3. OpenInv'
  BY <1>1 DEF RingInv, OpenInv
<1>4. PinInv'
  BY <1>1 DEF RingInv, PinInv
<1>5. HeadInv'
  BY <1>1 DEF RingInv, HeadInv
<1>6. EmitInv'
  BY <1>1 DEF RingInv, EmitInv
<1>7. ChanInv'
  BY <1>1 DEF RingInv, ChanInv
<1>8. HeldInv'
  BY <1>1 DEF RingInv, HeldInv, HeldBy, Busy
<1>. QED BY <1>2, <1>3, <1>4, <1>5, <1>6, <1>7, <1>8 DEF RingInv

(* ScanItem: the scan goes past an item that is no store.                  *)
LEMMA PassStep ==
  ASSUME RingInv, UNCHANGED <<stream, wave, ringVars, want, rd, storeCh, wk, s1>>,
         s1 = "scan", item \in Items, item \notin Stores, item' = item + 1
  PROVE  RingInv'
<1>1. /\ Items' = Items /\ Stores' = Stores /\ Places' = Places /\ ExtStart' = ExtStart
      /\ (\A j : StartOf(j)' = StartOf(j)) /\ (\A j : Bound(j)' = Bound(j))
  BY SameStream DEF RingInv
<1>2. item \in Int /\ item' \in Places /\ \A j \in Items : j \in Int
  BY StreamFacts DEF RingInv, HandsOK, Places, Items
<1>3. RingOK'
  BY DEF RingInv, RingOK, ringVars
<1>4. HandsOK'
  BY <1>1, <1>2 DEF RingInv, HandsOK
<1>5. OpenInv'
  <2>1. ASSUME NEW j \in Items, rd[j].open PROVE j \in Stores /\ j < item + 1
    BY <1>2, <2>1 DEF RingInv, OpenInv
  <2>. QED BY <1>1, <2>1 DEF OpenInv
<1>6. PinInv'
  BY <1>1 DEF RingInv, PinInv, ringVars
<1>7. HeadInv'
  <2>1. \A j \in Items : item + 1 <= j => item <= j
    BY <1>2
  <2>. QED BY <1>1, <2>1 DEF RingInv, HeadInv, ringVars
<1>8. EmitInv'
  BY DEF EmitInv
<1>9. \A j \in Stores : j \in Items /\ j \in Int
  BY <1>2 DEF Stores
<1>10. ChanInv'
  BY <1>1, <1>2, <1>9 DEF RingInv, ChanInv
<1>11. HeldInv'
  <2>1. ASSUME NEW w \in Workers PROVE HeldBy(w)'
    <3>1. \A j \in Stores : j < item => j < item + 1
      <4>1. item \in Int
        BY <1>2
      <4>. QED BY <1>9, <4>1
    <3>2. HeldBy(w)
      BY DEF RingInv, HeldInv
    <3>. QED BY <1>1, <3>1, <3>2 DEF HeldBy, Busy
  <2>. QED BY <2>1 DEF RingInv, HeldInv, Busy
<1>. QED BY <1>3, <1>4, <1>5, <1>6, <1>7, <1>8, <1>10, <1>11 DEF RingInv

(* The store goes into storeCh.                                            *)
LEMMA EmitStep ==
  ASSUME RingInv, Emit
  PROVE  RingInv'
<1> USE DEF Emit
<1>1. /\ Items' = Items /\ Stores' = Stores /\ Places' = Places /\ ExtStart' = ExtStart
      /\ (\A j : StartOf(j)' = StartOf(j)) /\ (\A j : Bound(j)' = Bound(j))
  BY SameStream
<1>2. item \in Stores /\ cur = item /\ rd[item].open /\ rd[item].pin = StartOf(item)
  BY DEF RingInv, EmitInv
<1>3. item \in Items /\ item \in Int /\ item' \in Places /\ \A j \in Items : j \in Int
  BY <1>2, StreamFacts DEF RingInv, HandsOK, Places, Items, Stores
<1>4. \A j \in Stores : j \in Items /\ j \in Nat
  BY StreamFacts DEF Stores, Items, RingInv, HandsOK
<1>5. item \notin Waiting(storeCh)
  BY <1>3 DEF RingInv, ChanInv
<1>6. Waiting(storeCh') = Waiting(storeCh) \cup {item} /\ Distinct(storeCh') /\ storeCh' \in Seq(Nat)
  <2>1. storeCh \in Seq(Nat) /\ Distinct(storeCh) /\ item \in Nat /\ storeCh' = Append(storeCh, item)
    BY <1>2, <1>4 DEF RingInv, HandsOK
  <2>. QED BY <1>5, <2>1, WaitAppended
<1>7. RingOK'
  BY DEF RingInv, RingOK, ringVars
<1>8. HandsOK'
  BY <1>1, <1>3, <1>6 DEF RingInv, HandsOK
<1>9. OpenInv'
  <2>1. ASSUME NEW j \in Items, rd[j].open PROVE j \in Stores /\ j < item + 1
    BY <1>3, <2>1 DEF RingInv, OpenInv
  <2>. QED BY <1>1, <2>1 DEF OpenInv
<1>10. PinInv'
  BY <1>1 DEF RingInv, PinInv, ringVars
<1>11. HeadInv'
  <2>1. \A j \in Items : item + 1 <= j => item <= j
    BY <1>3
  <2>. QED BY <1>1, <2>1 DEF RingInv, HeadInv, ringVars
<1>12. EmitInv'
  BY DEF EmitInv
<1>13. ChanInv'
  <2>1. \A j \in Stores : j < item \/ j = item => j < item + 1
    BY <1>3, <1>4
  <2>2. \A j \in Waiting(storeCh) : j \in Stores /\ j < item /\ rd[j].open /\ rd[j].pin = StartOf(j)
    BY DEF RingInv, ChanInv
  <2>. QED BY <1>1, <1>2, <1>6, <2>1, <2>2 DEF ChanInv
<1>14. HeldInv'
  <2>1. ASSUME NEW w \in Workers PROVE HeldBy(w)'
    <3>1. Busy(w) => wk[w].store # item
      BY <1>3 DEF RingInv, HeldInv, HeldBy
    <3>. QED BY <1>1, <1>3, <1>4, <1>6, <3>1 DEF RingInv, HeldInv, HeldBy, Busy
  <2>. QED BY <2>1 DEF RingInv, HeldInv, Busy
<1>. QED BY <1>7, <1>8, <1>9, <1>10, <1>11, <1>12, <1>13, <1>14 DEF RingInv

(* NewReader at a StoreItem.                                               *)
LEMMA PinStep ==
  ASSUME RingInv, UNCHANGED <<stream, wave, ringVars, want, item, storeCh, wk>>,
         s1 = "scan", s1' = "emit", cur' = item, item \in Stores, ~Evicted(item),
         rd' = [rd EXCEPT ![item] = NewReader(item)]
  PROVE  RingInv'
<1>1. /\ Items' = Items /\ Stores' = Stores /\ Places' = Places /\ ExtStart' = ExtStart
      /\ (\A j : StartOf(j)' = StartOf(j)) /\ (\A j : Bound(j)' = Bound(j))
  BY SameStream
<1>2. stream \in Streams /\ item \in Items /\ item \in Places /\ Len(stream) \in Nat /\ item \in Nat
  BY StreamFacts DEF RingInv, HandsOK, Stores, Items
<1>3. StartOf(item) \in Nat /\ head <= StartOf(item) /\ StartOf(item) <= StartOf(Bound(item))
  <2>1. item < Bound(item) /\ Bound(item) \in Places
    BY <1>2, BoundFacts
  <2>2. StartOf(item) \in Nat /\ StartOf(Bound(item)) \in Nat /\ StartOf(item) < StartOf(Bound(item))
    BY <1>2, <2>1, StreamFacts
  <2>3. head \in Nat
    BY DEF RingInv, RingOK
  <2>. QED BY <2>2, <2>3 DEF Evicted
<1>4. rd \in [Items -> [open : BOOLEAN, pos : Nat, pin : Nat, end : Nat]]
  BY DEF RingInv, HandsOK
<1>5. Total + 1 \in Nat
  <2>1. stream \in Seq([kind : Kinds, end : Nat \ {0}])
    BY <1>2, StreamConstants
  <2>2. ASSUME NEW R, NEW q \in Seq(R), q # <<>> PROVE q[Len(q)] \in R
    BY <2>2
  <2>3. stream # <<>> => stream[Len(stream)].end \in Nat
    BY <2>1, <2>2
  <2>. QED BY <2>3 DEF Total
<1>6. /\ rd'[item].open /\ rd'[item].pos = StartOf(item) /\ rd'[item].pin = StartOf(item)
      /\ \A j \in Items : j # item => rd'[j] = rd[j]
  BY <1>2, <1>4 DEF NewReader
<1>7. RingOK'
  BY DEF RingInv, RingOK, ringVars
<1>8. HandsOK'
  <2>1. rd' \in [Items -> [open : BOOLEAN, pos : Nat, pin : Nat, end : Nat]]
    BY <1>3, <1>4, <1>5 DEF NewReader, Unknown
  <2>. QED BY <1>1, <2>1 DEF RingInv, HandsOK
<1>9. OpenInv'
  BY <1>1, <1>6 DEF RingInv, OpenInv
<1>10. PinInv'
  <2>1. ASSUME NEW j \in Items, rd'[j].open
        PROVE  head <= rd'[j].pin /\ rd'[j].pin <= rd'[j].pos /\ (~wave => rd'[j].pin <= StartOf(Bound(j)))
    <3>1. CASE j = item
      BY <1>3, <1>6, <3>1
    <3>2. CASE j # item
      BY <1>6, <2>1, <3>2 DEF RingInv, PinInv
    <3>. QED BY <3>1, <3>2
  <2>. QED BY <1>1, <2>1 DEF PinInv, ringVars
<1>11. HeadInv'
  BY <1>1 DEF RingInv, HeadInv, ringVars
<1>12. EmitInv'
  BY <1>1, <1>6 DEF EmitInv
<1>13. ChanInv'
  <2>1. \A j \in Waiting(storeCh) : j \in Stores /\ j # item /\ j < item /\ rd[j].open /\ rd[j].pin = StartOf(j)
    BY <1>2 DEF RingInv, ChanInv
  <2>2. \A j \in Stores : j \in Items
    BY DEF Stores
  <2>. QED BY <1>1, <1>6, <2>1, <2>2 DEF ChanInv
<1>14. HeldInv'
  <2>1. ASSUME NEW w \in Workers PROVE HeldBy(w)'
    <3>1. HeldBy(w)
      BY DEF RingInv, HeldInv
    <3>2. Busy(w) => wk[w].store \in Items /\ wk[w].store # item
      BY <1>2, <3>1 DEF HeldBy, Stores
    <3>. QED BY <1>1, <1>6, <3>1, <3>2 DEF HeldBy, Busy
  <2>. QED BY <2>1 DEF RingInv, HeldInv, Busy
<1>. QED BY <1>7, <1>8, <1>9, <1>10, <1>11, <1>12, <1>13, <1>14 DEF RingInv

(* A store is let go: its reader closes, and nobody waits for it or holds  *)
(* it any more.                                                            *)
LEMMA ReleaseStep ==
  ASSUME RingInv, UNCHANGED <<stream, wave, tail, want, item, s1, cur>>,
         NEW s \in Stores, s < item, rd' = [rd EXCEPT ![s] = NoReader], Evict(rd'),
         storeCh' \in Seq(Nat), Distinct(storeCh'), Waiting(storeCh') \subseteq Waiting(storeCh) \ {s},
         wk' \in [Workers -> [phase : Phases, store : Nat, next : Nat, bad : BOOLEAN, stuck : BOOLEAN]],
         \A w \in Workers : Busy(w)' => wk'[w] = wk[w] /\ wk[w].store # s
  PROVE  RingInv'
<1>1. /\ Items' = Items /\ Stores' = Stores /\ Places' = Places /\ ExtStart' = ExtStart
      /\ (\A j : StartOf(j)' = StartOf(j)) /\ (\A j : Bound(j)' = Bound(j))
  BY SameStream
<1>2. rd \in [Items -> [open : BOOLEAN, pos : Nat, pin : Nat, end : Nat]] /\ s \in Items /\ item \in Int /\ s # item
  BY StreamFacts DEF RingInv, HandsOK, Stores, Places, Items
<1>3. ~rd'[s].open /\ \A j \in Items : j # s => rd'[j] = rd[j]
  BY <1>2 DEF NoReader
<1>4. HandsOK'
  <2>1. rd' \in [Items -> [open : BOOLEAN, pos : Nat, pin : Nat, end : Nat]]
    BY <1>2 DEF NoReader
  <2>. QED BY <1>1, <2>1 DEF RingInv, HandsOK
<1>5. OpenInv'
  BY <1>1, <1>3 DEF RingInv, OpenInv
<1>6. EmitInv'
  <2>1. s1 = "emit" => item \in Stores /\ cur = item /\ rd[item].open /\ rd[item].pin = StartOf(item)
    BY DEF RingInv, EmitInv
  <2>2. item \in Stores => item \in Items
    BY DEF Stores
  <2>. QED BY <1>1, <1>2, <1>3, <2>1, <2>2 DEF EmitInv
<1>7. \A j \in Items : rd'[j].open => /\ head <= rd'[j].pin /\ rd'[j].pin <= rd'[j].pos
                                      /\ ~wave => rd'[j].pin <= StartOf(Bound(j))
  BY <1>3 DEF RingInv, PinInv
<1>8. RingOK' /\ HeadInv' /\ \A j \in Items : rd'[j].open => head' <= rd'[j].pin
  BY <1>4, <1>5, <1>6, <1>7, EvictKeeps DEF RingInv
<1>9. PinInv'
  BY <1>1, <1>7, <1>8 DEF PinInv
<1>10. \A j \in Stores : j \in Items
  BY DEF Stores
<1>11. ChanInv'
  BY <1>1, <1>3, <1>10 DEF RingInv, ChanInv
<1>12. HeldInv'
  <2>1. ASSUME NEW w \in Workers PROVE HeldBy(w)'
    <3>1. HeldBy(w)
      BY DEF RingInv, HeldInv
    <3>2. Busy(w)' => Busy(w) /\ wk'[w] = wk[w] /\ wk[w].store # s
      BY DEF Busy
    <3>3. Busy(w) => wk[w].store \in Items
      BY <1>10, <3>1 DEF HeldBy
    <3>. QED BY <1>1, <1>3, <3>1, <3>2, <3>3 DEF HeldBy
  <2>2. ASSUME NEW v \in Workers, NEW w \in Workers, Busy(v)', Busy(w)', wk'[v].store = wk'[w].store PROVE v = w
    BY <2>2 DEF RingInv, HeldInv, Busy
  <2>. QED BY <2>1, <2>2 DEF HeldInv
<1>. QED BY <1>4, <1>5, <1>6, <1>8, <1>9, <1>11, <1>12 DEF RingInv

(* A worker takes a store out of storeCh.                                  *)
LEMMA TakeStep ==
  ASSUME RingInv, UNCHANGED <<stream, wave, ringVars, want, item, s1, cur, rd>>,
         NEW w \in Workers, wk[w].phase = "idle", storeCh # <<>>, storeCh' = Tail(storeCh),
         wk' = [wk EXCEPT ![w] = [@ EXCEPT !.phase = "read", !.store = Head(storeCh), !.next = Head(storeCh)]]
  PROVE  RingInv'
<1> DEFINE s == Head(storeCh)
<1>1. /\ Items' = Items /\ Stores' = Stores /\ Places' = Places /\ ExtStart' = ExtStart
      /\ (\A j : StartOf(j)' = StartOf(j)) /\ (\A j : Bound(j)' = Bound(j))
  BY SameStream
<1>2. /\ s \in Waiting(storeCh) /\ Waiting(storeCh') = Waiting(storeCh) \ {s}
      /\ Distinct(storeCh') /\ storeCh' \in Seq(Nat)
  BY WaitTail DEF RingInv, HandsOK
<1> HIDE DEF s
<1>3. s \in Stores /\ s < item /\ rd[s].open /\ rd[s].pin = StartOf(s)
  BY <1>2 DEF RingInv, ChanInv
<1>4. s \in Nat /\ s \in Places /\ s <= Bound(s) /\ s <= s
  <2>1. s \in Items /\ stream \in Streams
    BY <1>3 DEF Stores, RingInv, HandsOK
  <2>2. s \in Places /\ Bound(s) \in Places /\ s < Bound(s) /\ Len(stream) \in Nat
    BY <2>1, BoundFacts, StreamFacts
  <2>. QED BY <2>1, <2>2 DEF Items, Places
<1>5. wk \in [Workers -> [phase : Phases, store : Nat, next : Nat, bad : BOOLEAN, stuck : BOOLEAN]]
  BY DEF RingInv, HandsOK
<1>6. /\ wk'[w].phase = "read" /\ wk'[w].store = s /\ wk'[w].next = s
      /\ \A v \in Workers : v # w => wk'[v] = wk[v]
      /\ wk' \in [Workers -> [phase : Phases, store : Nat, next : Nat, bad : BOOLEAN, stuck : BOOLEAN]]
  BY <1>4, <1>5 DEF Phases, s
<1>7. RingOK' /\ HeadInv' /\ PinInv' /\ OpenInv' /\ EmitInv'
  <2>1. RingOK'
    BY DEF RingInv, RingOK, ringVars
  <2>2. HeadInv'
    BY <1>1 DEF RingInv, HeadInv, ringVars
  <2>3. PinInv'
    BY <1>1 DEF RingInv, PinInv, ringVars
  <2>4. OpenInv'
    BY <1>1 DEF RingInv, OpenInv
  <2>5. EmitInv'
    BY <1>1 DEF RingInv, EmitInv
  <2>. QED BY <2>1, <2>2, <2>3, <2>4, <2>5
<1>8. HandsOK'
  BY <1>1, <1>2, <1>6 DEF RingInv, HandsOK
<1>9. ChanInv'
  BY <1>1, <1>2 DEF RingInv, ChanInv
<1>10. \A v \in Workers : Busy(v) => wk[v].store # s
  BY <1>2 DEF RingInv, HeldInv, HeldBy
<1>11. HeldInv'
  <2>1. ASSUME NEW v \in Workers PROVE HeldBy(v)'
    <3>1. CASE v = w
      BY <1>1, <1>2, <1>3, <1>4, <1>6, <3>1 DEF HeldBy
    <3>2. CASE v # w
      <4>1. HeldBy(v)
        BY DEF RingInv, HeldInv
      <4>. QED BY <1>1, <1>2, <1>6, <3>2, <4>1 DEF HeldBy, Busy
    <3>. QED BY <3>1, <3>2
  <2>2. ASSUME NEW u \in Workers, NEW v \in Workers, Busy(u)', Busy(v)', wk'[u].store = wk'[v].store PROVE u = v
    <3>1. u # w => Busy(u) /\ wk'[u].store # s
      BY <1>6, <1>10, <2>2 DEF Busy
    <3>2. v # w => Busy(v) /\ wk'[v].store # s
      BY <1>6, <1>10, <2>2 DEF Busy
    <3>. QED BY <1>6, <2>2, <3>1, <3>2 DEF RingInv, HeldInv
  <2>. QED BY <2>1, <2>2 DEF HeldInv
<1>. QED BY <1>7, <1>8, <1>9, <1>11 DEF RingInv

(* A worker exits, or goes on to drain its decoder.                        *)
LEMMA PhaseStep ==
  ASSUME RingInv, UNCHANGED <<stream, wave, ringVars, want, item, s1, cur, rd, storeCh>>,
         NEW w \in Workers,
         wk' \in [Workers -> [phase : Phases, store : Nat, next : Nat, bad : BOOLEAN, stuck : BOOLEAN]],
         \A v \in Workers : v # w => wk'[v] = wk[v],
         \/ wk'[w].phase = "exit"
         \/ /\ wave /\ Busy(w) /\ wk'[w].phase = "past"
            /\ wk'[w].store = wk[w].store /\ wk'[w].next = wk[w].next
  PROVE  RingInv'
<1>1. /\ Items' = Items /\ Stores' = Stores /\ Places' = Places /\ ExtStart' = ExtStart
      /\ (\A j : StartOf(j)' = StartOf(j)) /\ (\A j : Bound(j)' = Bound(j))
  BY SameStream
<1>2. RingOK' /\ HeadInv' /\ PinInv' /\ OpenInv' /\ EmitInv' /\ ChanInv'
  <2>1. RingOK'
    BY DEF RingInv, RingOK, ringVars
  <2>2. HeadInv'
    BY <1>1 DEF RingInv, HeadInv, ringVars
  <2>3. PinInv'
    BY <1>1 DEF RingInv, PinInv, ringVars
  <2>4. OpenInv'
    BY <1>1 DEF RingInv, OpenInv
  <2>5. EmitInv'
    BY <1>1 DEF RingInv, EmitInv
  <2>6. ChanInv'
    BY <1>1 DEF RingInv, ChanInv
  <2>. QED BY <2>1, <2>2, <2>3, <2>4, <2>5, <2>6
<1>3. HandsOK'
  BY <1>1 DEF RingInv, HandsOK
<1>4. HeldInv'
  <2>1. ASSUME NEW v \in Workers PROVE HeldBy(v)' /\ (Busy(v)' => Busy(v) /\ wk'[v].store = wk[v].store)
    <3>1. HeldBy(v)
      BY DEF RingInv, HeldInv
    <3>2. CASE v # w
      BY <1>1, <3>1, <3>2 DEF HeldBy, Busy
    <3>3. CASE v = w
      BY <1>1, <3>1, <3>3 DEF HeldBy, Busy
    <3>. QED BY <3>2, <3>3
  <2>. QED BY <2>1 DEF RingInv, HeldInv
<1>. QED BY <1>2, <1>3, <1>4 DEF RingInv

(* SetEnd and ReadMore: the reader learns its end, or reads on.            *)
LEMMA ReadStep ==
  ASSUME RingInv, UNCHANGED <<stream, wave, ringVars, want, item, s1, cur, storeCh, wk>>,
         NEW s \in Items, rd' \in [Items -> [open : BOOLEAN, pos : Nat, pin : Nat, end : Nat]],
         \A j \in Items : j # s => rd'[j] = rd[j],
         rd'[s].open = rd[s].open, rd'[s].pin = rd[s].pin, rd[s].pos <= rd'[s].pos
  PROVE  RingInv'
<1>1. /\ Items' = Items /\ Stores' = Stores /\ Places' = Places /\ ExtStart' = ExtStart
      /\ (\A j : StartOf(j)' = StartOf(j)) /\ (\A j : Bound(j)' = Bound(j))
  BY SameStream
<1>2. \A j \in Items : rd'[j].open = rd[j].open /\ rd'[j].pin = rd[j].pin
  OBVIOUS
<1>3. \A j \in Stores : j \in Items
  BY DEF Stores
<1>4. RingOK' /\ HeadInv' /\ OpenInv' /\ EmitInv' /\ ChanInv'
  <2>1. RingOK'
    BY DEF RingInv, RingOK, ringVars
  <2>2. HeadInv'
    BY <1>1 DEF RingInv, HeadInv, ringVars
  <2>3. OpenInv'
    BY <1>1, <1>2 DEF RingInv, OpenInv
  <2>4. EmitInv'
    BY <1>1, <1>2, <1>3 DEF RingInv, EmitInv
  <2>5. ChanInv'
    BY <1>1, <1>2, <1>3 DEF RingInv, ChanInv
  <2>. QED BY <2>1, <2>2, <2>3, <2>4, <2>5
<1>5. HandsOK'
  BY <1>1 DEF RingInv, HandsOK
<1>6. PinInv'
  <2>1. ASSUME NEW j \in Items, rd[j].open PROVE rd[j].pin <= rd'[j].pos
    <3>1. rd[j].pin \in Nat /\ rd[j].pos \in Nat /\ rd'[j].pos \in Nat /\ rd[j].pin <= rd[j].pos
      BY <2>1 DEF RingInv, HandsOK, PinInv
    <3>2. rd[j].pos <= rd'[j].pos
      BY <3>1
    <3>. QED BY <3>1, <3>2
  <2>. QED BY <1>1, <1>2, <2>1 DEF RingInv, PinInv, ringVars
<1>7. HeldInv'
  <2>1. ASSUME NEW v \in Workers PROVE HeldBy(v)'
    <3>1. HeldBy(v)
      BY DEF RingInv, HeldInv
    <3>. QED BY <1>1, <1>2, <1>3, <3>1 DEF HeldBy, Busy
  <2>. QED BY <2>1 DEF RingInv, HeldInv, Busy
<1>. QED BY <1>4, <1>5, <1>6, <1>7 DEF RingInv

(* What holds of a worker's store and of the item it reads next.           *)
LEMMA HeldFacts ==
  ASSUME RingInv, NEW w \in Workers, Busy(w)
  PROVE  /\ wk[w].store \in Stores /\ wk[w].store \in Items /\ wk[w].store # item
         /\ wk[w].store < item /\ wk[w].store \in Nat /\ wk[w].next \in Nat /\ wk[w].phase \in {"read", "past"}
         /\ rd[wk[w].store] \in [open : BOOLEAN, pos : Nat, pin : Nat, end : Nat]
         /\ rd[wk[w].store].open /\ head <= rd[wk[w].store].pin /\ rd[wk[w].store].pin <= rd[wk[w].store].pos
         /\ \A v \in Workers : Busy(v) /\ v # w => wk[v].store # wk[w].store
<1>1. HeldBy(w) /\ stream \in Streams /\ item \in Places
  BY DEF RingInv, HeldInv, HandsOK
<1>2. wk[w].store \in Stores /\ wk[w].store \in Items /\ wk[w].store < item
  BY <1>1 DEF HeldBy, Stores
<1>3. wk[w].store \in Int /\ item \in Int
  BY <1>1, <1>2, StreamFacts DEF Items, Places
<1>4. wk[w].store # item
  BY <1>2, <1>3
<1>5. /\ wk[w].store \in Nat /\ wk[w].next \in Nat
      /\ rd[wk[w].store] \in [open : BOOLEAN, pos : Nat, pin : Nat, end : Nat]
  BY <1>2 DEF RingInv, HandsOK
<1>6. rd[wk[w].store].open /\ head <= rd[wk[w].store].pin /\ rd[wk[w].store].pin <= rd[wk[w].store].pos
  BY <1>1, <1>2 DEF RingInv, PinInv, HeldBy
<1>7. \A v \in Workers : Busy(v) /\ v # w => wk[v].store # wk[w].store
  BY DEF RingInv, HeldInv
<1>. QED BY <1>2, <1>4, <1>5, <1>6, <1>7 DEF Busy

(* A worker that has not passed the end of its store, and is not at it,    *)
(* does not pass it with its next item.                                    *)
LEMMA NotPast ==
  ASSUME RingInv, NEW w \in Workers, wk[w].phase = "read", wk[w].next \in Items
  PROVE  /\ ~Boundary(w) => wk[w].next + 1 <= Bound(wk[w].store)
         /\ Boundary(w) => wk[w].next = Bound(wk[w].store)
<1> DEFINE s == wk[w].store
           n == wk[w].next
<1>1. Busy(w) /\ HeldBy(w) /\ stream \in Streams /\ s \in Items
  BY HeldFacts DEF RingInv, HeldInv, HandsOK, Busy
<1>2. s <= n /\ n <= Bound(s)
  BY <1>1 DEF HeldBy
<1>3. /\ Bound(s) \in Places /\ s < Bound(s)
      /\ Bound(s) \in Items => Is(Bound(s), {"store", "ext"})
      /\ \A j \in Items : s < j /\ Is(j, {"store", "ext"}) => Bound(s) <= j
  BY <1>1, BoundFacts
<1>4. s \in Int /\ n \in Int /\ Bound(s) \in Int
  BY <1>1, <1>3, StreamFacts DEF Items, Places
<1>5. ASSUME Boundary(w) PROVE n = Bound(s)
  <2>1. n # s /\ Is(n, {"store", "ext"})
    BY <1>5 DEF Boundary
  <2>2. s < n
    BY <1>2, <1>4, <2>1
  <2>3. Bound(s) <= n
    BY <1>3, <2>1, <2>2
  <2>. QED BY <1>2, <1>4, <2>3
<1>6. ASSUME ~Boundary(w) PROVE n # Bound(s)
  <2>1. ASSUME n = Bound(s) PROVE FALSE
    <3>1. Is(n, {"store", "ext"})
      BY <1>3, <2>1
    <3>2. n # s
      BY <1>3, <1>4, <2>1
    <3>. QED BY <1>6, <3>1, <3>2 DEF Boundary
  <2>. QED BY <2>1
<1>7. ~Boundary(w) => n + 1 <= Bound(s)
  <2>1. ~Boundary(w) => n # Bound(s)
    BY <1>6
  <2>. QED BY <1>2, <1>4, <2>1
<1>. QED BY <1>5, <1>7

LEMMA DeliverStep ==
  ASSUME RingInv, NEW w \in Workers, Deliver(w)
  PROVE  RingInv'
<1> DEFINE s == wk[w].store
           n == wk[w].next
           Wk == [phase : Phases, store : Nat, next : Nat, bad : BOOLEAN, stuck : BOOLEAN]
           Rd == [open : BOOLEAN, pos : Nat, pin : Nat, end : Nat]
<1>1. /\ Busy(w) /\ n \in Items /\ EndOf(n) <= rd[s].pos /\ (Boundary(w) => wave) /\ Evict(rd')
      /\ rd' = [rd EXCEPT ![s].pin = EndOf(n)]
      /\ wk' = [wk EXCEPT ![w].next = @ + 1, ![w].phase = IF Boundary(w) THEN "past" ELSE @]
      /\ UNCHANGED <<stream, wave, scanVars, tail, storeCh>>
  <2>1. Buffered(w) /\ Busy(w)
    BY DEF Deliver
  <2>2. n \in Items /\ rd[s].pos >= EndOf(n)
    BY <2>1 DEF Buffered, Reader
  <2>3. EndOf(n) \in Nat /\ rd[s].pos \in Nat
    BY <2>1, <2>2, HeldFacts, StreamFacts DEF RingInv, HandsOK
  <2>. QED BY <2>1, <2>2, <2>3 DEF Deliver
<1>2. UNCHANGED <<stream, wave, item, s1, cur, want, tail>>
  BY <1>1 DEF scanVars
<1>3. /\ Items' = Items /\ Stores' = Stores /\ Places' = Places /\ ExtStart' = ExtStart
      /\ (\A j : StartOf(j)' = StartOf(j)) /\ (\A j : Bound(j)' = Bound(j))
  BY <1>2, SameStream
<1>4. /\ s \in Stores /\ s \in Items /\ s # item /\ s < item /\ n \in Nat /\ wk[w].phase \in {"read", "past"}
      /\ rd[s].open /\ head <= rd[s].pin /\ rd[s].pin \in Nat
      /\ \A v \in Workers : Busy(v) /\ v # w => wk[v].store # s
  BY <1>1, HeldFacts
<1>5. /\ s \notin Waiting(storeCh) /\ rd[s].pin = StartOf(n) /\ s <= n /\ s \in Int /\ s <= n + 1
      /\ wk[w].phase = "past" => wave
  <2>1. HeldBy(w) /\ s \in Int
    BY <1>1, HeldFacts DEF RingInv, HeldInv
  <2>2. s <= n
    BY <1>1, <2>1 DEF HeldBy
  <2>. QED BY <1>1, <1>4, <2>1, <2>2 DEF HeldBy
<1>6. EndOf(n) = StartOf(n + 1) /\ n + 1 \in Places /\ EndOf(n) \in Nat /\ head <= EndOf(n)
  <2>1. stream \in Streams /\ head \in Nat
    BY DEF RingInv, HandsOK, RingOK
  <2>2. EndOf(n) = StartOf(n + 1) /\ n + 1 \in Places /\ n \in Places
    BY <1>1, <2>1, StreamFacts
  <2>3. StartOf(n) < StartOf(n + 1) /\ StartOf(n) \in Nat /\ StartOf(n + 1) \in Nat
    BY <1>4, <2>1, <2>2, StreamFacts
  <2>. QED BY <1>4, <1>5, <2>1, <2>2, <2>3
<1>7. ASSUME wk[w].phase = "read", ~Boundary(w)
      PROVE  n + 1 <= Bound(s) /\ StartOf(n + 1) <= StartOf(Bound(s))
  <2>1. n + 1 <= Bound(s)
    BY <1>1, <1>7, NotPast
  <2>2. Bound(s) \in Places /\ stream \in Streams
    BY <1>4, BoundFacts DEF RingInv, HandsOK
  <2>3. n + 1 \in Int /\ Bound(s) \in Int
    BY <1>4, <2>2, StreamFacts DEF Places
  <2>4. n + 1 = Bound(s) \/ n + 1 < Bound(s)
    BY <2>1, <2>3
  <2>5. StartOf(n + 1) \in Nat /\ StartOf(Bound(s)) \in Nat
    BY <1>6, <2>2, StreamFacts
  <2>. QED BY <1>6, <2>1, <2>2, <2>4, <2>5, StreamFacts
<1>8. rd \in [Items -> Rd] /\ wk \in [Workers -> Wk]
  BY DEF RingInv, HandsOK
<1>9. /\ rd' \in [Items -> Rd] /\ rd'[s].open /\ rd'[s].pin = EndOf(n) /\ rd'[s].pos = rd[s].pos
      /\ \A j \in Items : j # s => rd'[j] = rd[j]
  BY <1>1, <1>4, <1>6, <1>8
<1>10. /\ wk' \in [Workers -> Wk] /\ wk'[w].next = n + 1 /\ wk'[w].store = s
       /\ wk'[w].phase = IF Boundary(w) THEN "past" ELSE wk[w].phase
       /\ \A v \in Workers : v # w => wk'[v] = wk[v]
  <2>1. n + 1 \in Nat
    BY <1>4
  <2>. QED BY <1>1, <1>8, <2>1 DEF Phases
<1>11. HandsOK'
  BY <1>1, <1>2, <1>3, <1>9, <1>10 DEF RingInv, HandsOK
<1>12. OpenInv'
  BY <1>2, <1>3, <1>4, <1>9 DEF RingInv, OpenInv
<1>13. EmitInv'
  <2>1. s1 = "emit" => item \in Stores /\ cur = item /\ rd[item].open /\ rd[item].pin = StartOf(item)
    BY DEF RingInv, EmitInv
  <2>2. item \in Stores => item \in Items
    BY DEF Stores
  <2>. QED BY <1>2, <1>3, <1>4, <1>9, <2>1, <2>2 DEF EmitInv
<1>14. ASSUME NEW j \in Items, rd'[j].open
       PROVE  /\ head <= rd'[j].pin /\ rd'[j].pin <= rd'[j].pos
              /\ ~wave => rd'[j].pin <= StartOf(Bound(j))
  <2>1. CASE j = s
    BY <1>1, <1>4, <1>5, <1>6, <1>7, <1>9, <2>1
  <2>2. CASE j # s
    BY <1>9, <1>14, <2>2 DEF RingInv, PinInv
  <2>. QED BY <2>1, <2>2
<1>15. RingOK' /\ HeadInv' /\ \A j \in Items : rd'[j].open => head' <= rd'[j].pin
  BY <1>1, <1>2, <1>11, <1>12, <1>13, <1>14, EvictKeeps DEF RingInv
<1>16. PinInv'
  BY <1>2, <1>3, <1>14, <1>15 DEF PinInv
<1>17. \A j \in Stores : j \in Items
  BY DEF Stores
<1>18. ChanInv'
  BY <1>1, <1>2, <1>3, <1>5, <1>9, <1>17 DEF RingInv, ChanInv
<1>19. ASSUME NEW v \in Workers PROVE HeldBy(v)'
  <2>1. CASE v = w
    <3>1. wk'[w].phase = "read" => n + 1 <= Bound(s)
      BY <1>7, <1>10
    <3>2. wk'[w].phase = "past" => wave
      BY <1>1, <1>5, <1>10
    <3>. QED BY <1>1, <1>2, <1>3, <1>4, <1>5, <1>6, <1>9, <1>10, <2>1, <3>1, <3>2 DEF HeldBy
  <2>2. CASE v # w
    <3>1. HeldBy(v) /\ wk'[v] = wk[v] /\ (Busy(v) => wk[v].store # s)
      BY <1>4, <1>10, <2>2 DEF RingInv, HeldInv
    <3>2. Busy(v) => wk[v].store \in Items
      BY <1>17, <3>1 DEF HeldBy
    <3>. QED BY <1>1, <1>2, <1>3, <1>9, <3>1, <3>2 DEF HeldBy, Busy
  <2>. QED BY <2>1, <2>2
<1>20. HeldInv'
  <2>1. \A v \in Workers : (Busy(v)' => Busy(v)) /\ wk'[v].store = wk[v].store
    BY <1>1, <1>10 DEF Busy
  <2>. QED BY <1>19, <2>1 DEF RingInv, HeldInv
<1>. QED BY <1>11, <1>12, <1>13, <1>15, <1>16, <1>18, <1>20 DEF RingInv

(* ReadMore goes forward, and not past what was written.                   *)
LEMMA ReadFacts ==
  ASSUME RingInv, NEW w \in Workers, ReadMore(w)
  PROVE  /\ wk[w].store \in Items /\ \A j \in Items : j # wk[w].store => rd'[j] = rd[j]
         /\ rd' \in [Items -> [open : BOOLEAN, pos : Nat, pin : Nat, end : Nat]]
         /\ \E p \in Nat : /\ rd[wk[w].store].pos <= p /\ p <= tail
                           /\ rd'[wk[w].store] = [rd[wk[w].store] EXCEPT !.pos = p]
<1> DEFINE s == wk[w].store
           E == {e \in ends : e > rd[s].pos}
           P == {rd[s].pos + BufSize, Min(E), rd[s].end}
<1>1. Busy(w) /\ rd[s].pos < rd[s].end /\ rd[s].pos < tail /\ rd' = [rd EXCEPT ![s].pos = Min(P)]
  BY DEF ReadMore, Reader
<1>2. /\ s \in Items /\ rd[s].pos \in Nat /\ rd[s].end \in Nat /\ rd[s].pin \in Nat
      /\ head <= rd[s].pin /\ rd[s].pin <= rd[s].pos
  BY <1>1, HeldFacts
<1>3. /\ head \in Nat /\ tail \in Nat /\ ends \in SUBSET (head + 1 .. tail) /\ BufSize \in Nat
      /\ tail \in ends \/ tail = head
  BY StreamConstants DEF RingInv, RingOK
<1>4. tail \in E
  <2>1. tail # head
    BY <1>1, <1>2, <1>3
  <2>. QED BY <1>1, <1>2, <1>3, <2>1
<1>5. E \in SUBSET Nat /\ \A e \in E : e <= tail /\ rd[s].pos <= e
  <2>1. \A e \in ends : e \in Nat /\ e <= tail
    BY <1>3
  <2>2. \A e \in Nat : e > rd[s].pos => rd[s].pos <= e
    BY <1>2
  <2>. QED BY <2>1, <2>2
<1>6. Min(E) \in E
  <2> HIDE DEF E
  <2>. QED BY <1>4, <1>5, MinOf
<1>7. Min(E) \in Nat /\ Min(E) <= tail /\ rd[s].pos <= Min(E)
  BY <1>5, <1>6
<1> HIDE DEF E
<1>8. P \in SUBSET Nat /\ P # {} /\ Min(E) \in P /\ \A x \in P : rd[s].pos <= x
  BY <1>1, <1>2, <1>3, <1>7
<1> HIDE DEF P
<1>9. Min(P) \in P /\ Min(P) <= Min(E)
  BY <1>8, MinOf
<1>10. Min(P) \in Nat /\ rd[s].pos <= Min(P) /\ Min(P) <= tail
  <2>1. Min(P) \in Nat /\ rd[s].pos <= Min(P)
    BY <1>8, <1>9
  <2>. QED BY <1>3, <1>7, <1>9, <2>1
<1>11. rd \in [Items -> [open : BOOLEAN, pos : Nat, pin : Nat, end : Nat]]
  BY DEF RingInv, HandsOK
<1>12. rd'[s] = [rd[s] EXCEPT !.pos = Min(P)] /\ \A j \in Items : j # s => rd'[j] = rd[j]
  BY <1>1, <1>2, <1>11
<1>13. rd' \in [Items -> [open : BOOLEAN, pos : Nat, pin : Nat, end : Nat]]
  BY <1>1, <1>2, <1>10, <1>11
<1>. QED BY <1>2, <1>10, <1>12, <1>13

(* Write fills the last chunk and starts another, above the head.          *)
LEMMA WriteRing ==
  ASSUME RingOK, Write
  PROVE  RingOK' /\ head' = head /\ tail' + want' = tail + want /\ tail <= tail'
<1> DEFINE n    == Min({want, Room})
           last == Max((ends \ {tail}) \cup {head})
           fill == IF ends = {} THEN 0 ELSE Min({n, ChunkSize - (tail - last)})
           more == IF fill > 0 THEN (ends \ {tail}) \cup {tail + fill} ELSE ends
<1>1. /\ want > 0 /\ Room > 0 /\ tail' = tail + n /\ want' = want - n /\ head' = head
      /\ ends' = more \cup {tail + n}
  BY DEF Write
<1>2. /\ head \in Nat /\ tail \in Nat /\ head <= tail /\ want \in Nat
      /\ ends \in SUBSET (head + 1 .. tail) /\ ChunkSize \in Nat /\ MaxBytes \in Nat
  BY StreamConstants DEF RingOK
<1>3. Room \in Nat
  BY <1>1, <1>2 DEF Room
<1>4. n \in Nat /\ n > 0 /\ n <= want
  <2>1. {want, Room} \in SUBSET Nat /\ {want, Room} # {}
    BY <1>2, <1>3
  <2>2. n \in {want, Room} /\ \A x \in {want, Room} : n <= x
    BY <2>1, MinOf
  <2>. QED BY <1>1, <1>2, <1>3, <2>2
<1> HIDE DEF n
<1>5. last \in Nat
  <2>1. (ends \ {tail}) \cup {head} \in SUBSET (0 .. tail)
    BY <1>2
  <2>2. last \in (ends \ {tail}) \cup {head}
    BY <1>2, <2>1, MaxOf
  <2>. QED BY <2>1, <2>2
<1> HIDE DEF last
<1>6. ASSUME NEW a \in Int, NEW b \in Int PROVE Min({a, b}) \in Int /\ Min({a, b}) <= a
  <2>1. \E x \in {a, b} : \A y \in {a, b} : x =< y
    <3>1. a <= b \/ b <= a
      OBVIOUS
    <3>. QED BY <3>1
  <2>2. Min({a, b}) \in {a, b} /\ \A y \in {a, b} : Min({a, b}) <= y
    BY <2>1 DEF Min
  <2>. QED BY <2>2
<1>7. fill \in Int /\ fill <= n
  <2>1. ChunkSize - (tail - last) \in Int
    BY <1>2, <1>5
  <2>2. Min({n, ChunkSize - (tail - last)}) \in Int /\ Min({n, ChunkSize - (tail - last)}) <= n
    BY <1>4, <1>6, <2>1
  <2>. QED BY <1>4, <2>2
<1> HIDE DEF fill
<1>8. more \in SUBSET (head + 1 .. tail + n)
  <2>1. \A e \in ends : e \in head + 1 .. tail + n
    BY <1>2, <1>4
  <2>2. fill > 0 => tail + fill \in head + 1 .. tail + n
    BY <1>2, <1>4, <1>7
  <2>. QED BY <2>1, <2>2
<1> HIDE DEF more
<1>9. tail + n \in head + 1 .. tail + n /\ tail + n \in Nat /\ head <= tail + n /\ want - n \in Nat
  BY <1>2, <1>4
<1>10. ends' \in SUBSET (head + 1 .. tail + n) /\ tail + n \in ends'
  BY <1>1, <1>8, <1>9
<1>11. RingOK'
  BY <1>1, <1>2, <1>9, <1>10 DEF RingOK
<1>. QED BY <1>1, <1>2, <1>4, <1>11

-----------------------------------------------------------------------------
(***************************************************************************)
(* The source.  What the prefetch goroutine ships comes out of the files   *)
(* it has opened, and at io.EOF that is the whole stream.                  *)
(***************************************************************************)
LEMMA DivBounds ==
  ASSUME NEW a \in Nat, NEW n \in Nat \ {0}
  PROVE  a \div n \in Nat /\ n * (a \div n) <= a /\ a < n * (a \div n) + n
OBVIOUS

LEMMA TimesLess ==
  ASSUME NEW x \in Nat, NEW y \in Nat, NEW n \in Nat \ {0}, n * x < n * y + n
  PROVE  x <= y
<1>1. CASE x >= y + 1
  <2>1. n * x >= n * (y + 1)
    BY <1>1
  <2>2. n * (y + 1) = n * y + n
    OBVIOUS
  <2>. QED BY <2>1, <2>2
<1>. QED BY <1>1

LEMMA DivTimes ==
  ASSUME NEW a \in Nat, NEW n \in Nat \ {0}
  PROVE  (a * n) \div n = a
<1> DEFINE q == (a * n) \div n
<1>1. a * n \in Nat /\ a * n = n * a
  OBVIOUS
<1>2. q \in Nat /\ n * q <= a * n /\ a * n < n * q + n
  BY <1>1, DivBounds
<1> HIDE DEF q
<1>3. a <= q
  BY <1>1, <1>2, TimesLess
<1>4. n * q < n * a + n
  BY <1>1, <1>2
<1>5. q <= a
  BY <1>2, <1>4, TimesLess
<1>. QED BY <1>2, <1>3, <1>5 DEF q

LEMMA DivMono ==
  ASSUME NEW a \in Nat, NEW b \in Nat, a <= b, NEW n \in Nat \ {0}
  PROVE  a \div n <= b \div n
<1>1. a \div n \in Nat /\ n * (a \div n) <= a
  BY DivBounds
<1>2. b \div n \in Nat /\ b < n * (b \div n) + n
  BY DivBounds
<1>3. \A q, p \in Nat : n * q <= a /\ b < n * p + n => n * q < n * p + n
  OBVIOUS
<1>. QED BY <1>1, <1>2, <1>3, TimesLess

LEMMA TotalFacts ==
  ASSUME stream \in Streams
  PROVE  Total \in Nat /\ Total = StartOf(Len(stream) + 1)
<1>1. stream \in Seq([kind : Kinds, end : Nat \ {0}])
  BY StreamConstants
<1>2. ASSUME NEW R, NEW q \in Seq(R)
      PROVE  Len(q) \in Nat /\ (q # <<>> => q[Len(q)] \in R /\ Len(q) # 0) /\ (q = <<>> => Len(q) = 0)
  OBVIOUS
<1>3. /\ Len(stream) \in Nat
      /\ stream # <<>> => stream[Len(stream)].end \in Nat /\ Len(stream) # 0
      /\ stream = <<>> => Len(stream) = 0
  <2>1. /\ Len(stream) \in Nat /\ (stream = <<>> => Len(stream) = 0)
        /\ stream # <<>> => stream[Len(stream)] \in [kind : Kinds, end : Nat \ {0}] /\ Len(stream) # 0
    BY <1>1, <1>2
  <2>. QED BY <2>1
<1>. QED BY <1>3 DEF Total, StartOf

LEMMA AvailFacts ==
  ASSUME stream \in Streams, NEW k \in 0 .. NumChunks
  PROVE  /\ Avail(k) \in Nat /\ Avail(k) <= Total /\ Avail(NumChunks) = Total
         /\ k < NumChunks => Avail(k) <= Avail(k + 1)
<1>1. Total \in Nat /\ NumChunks \in Nat \ {0} /\ k \in Nat /\ k <= NumChunks
  BY TotalFacts, PipelineConstants
<1>2. ASSUME NEW T \in Nat, NEW i \in Nat, NEW j \in Nat, i <= j PROVE T * i \in Nat /\ T * j \in Nat /\ T * i <= T * j
  BY <1>2
<1>3. Avail(k) \in Nat
  BY <1>1, <1>2, DivBounds DEF Avail
<1>4. Avail(NumChunks) = Total
  BY <1>1, DivTimes DEF Avail
<1>5. ASSUME NEW j \in Nat, k <= j PROVE Avail(k) <= Avail(j)
  <2>1. Total * k \in Nat /\ Total * j \in Nat /\ Total * k <= Total * j
    BY <1>1, <1>2, <1>5
  <2>. QED BY <1>1, <2>1, DivMono DEF Avail
<1>6. Avail(k) <= Total
  BY <1>1, <1>4, <1>5
<1>7. Avail(k) <= Avail(k + 1)
  <2>1. k + 1 \in Nat /\ k <= k + 1
    BY <1>1
  <2>. QED BY <1>5, <2>1
<1>. QED BY <1>3, <1>4, <1>6, <1>7

SourceInv ==
  /\ stream \in Streams /\ opened \in 0 .. NumChunks /\ ready \in SUBSET (1 .. NumChunks)
  /\ fetched \in Nat /\ fetched <= Avail(opened)
  /\ taken \in Nat /\ taken <= fetched
  /\ pf = "eof" => fetched = Total

LEMMA TakeFacts ==
  ASSUME SourceInv, Take
  PROVE  want' \in Nat /\ taken' = taken + want' /\ taken' <= fetched
<1> DEFINE S == {PfBuf, fetched - taken}
<1>1. taken < fetched /\ taken' = taken + Min(S) /\ want' = Min(S)
  BY DEF Take
<1>2. S \in SUBSET Nat /\ S # {}
  BY <1>1, StreamConstants DEF SourceInv
<1>3. Min(S) \in S /\ \A x \in S : Min(S) <= x
  BY <1>2, MinOf
<1>4. Min(S) \in Nat /\ Min(S) <= fetched - taken
  BY <1>2, <1>3
<1> HIDE DEF S
<1>. QED BY <1>1, <1>4 DEF SourceInv

LEMMA SourceMoves ==
  ASSUME [Next]_vars
  PROVE  /\ stream' = stream /\ wave' = wave
         /\ \/ Take /\ UNCHANGED pipeVars
            \/ Prefetch \/ PfBreaks
            \/ UNCHANGED <<fetched, pf, taken, opened>>
<1>1. CASE Take /\ UNCHANGED pipeVars
  BY <1>1 DEF Take
<1>2. CASE Prefetch \/ PfBreaks
  BY <1>2 DEF Prefetch, PfOpen, PfShip, PfEnds, PfStop, PfBreaks, Ships, streamVars
<1>3. CASE UNCHANGED <<stream, wave, fetched, pf, taken, opened>>
  BY <1>3
<1>. QED
  BY <1>1, <1>2, <1>3
  DEF Next, StreamNext, Stage1, Write, ScanStore, ScanItem, SourceEnds, Emit, Stage1Done, StagesEnd, Finalize,
      SetEnd, Work, TakeStore, WorkerExits, ReadMore, Deliver, BoundaryEnds, EofEnds, WaveEnds, Malformed,
      GivesUp, StoreFault, Fetcher, FetchReturns, ChunkReady, Interrupt, CancelFetch, FailTailing, Report,
      vars, streamVars, scanVars, srcVars, pipeVars

LEMMA SourceStep ==
  ASSUME SourceInv, [Next]_vars
  PROVE  SourceInv'
<1>1. stream' = stream /\ Total' = Total /\ \A k : Avail(k)' = Avail(k)
  BY SourceMoves DEF Total, Avail
<1>0. ready' \in SUBSET (1 .. NumChunks)
  <2>1. CASE \E c \in 1 .. NumChunks : ChunkReady(c)
    BY <2>1 DEF ChunkReady, SourceInv
  <2>2. CASE UNCHANGED ready
    BY <2>2 DEF SourceInv
  <2>. QED
    BY <2>1, <2>2
    DEF Next, Fetcher, FetchReturns, Interrupt, CancelFetch, FailTailing, Report,
        Prefetch, PfOpen, PfShip, PfEnds, PfStop, PfBreaks, Ships, vars, pipeVars
<1>2. CASE Take /\ UNCHANGED pipeVars
  <2>1. taken' \in Nat /\ taken' <= fetched
    BY <1>2, TakeFacts DEF SourceInv
  <2>2. UNCHANGED <<stream, fetched, pf, opened>>
    BY <1>2 DEF Take, srcVars, pipeVars
  <2>. QED BY <1>0, <1>1, <2>1, <2>2 DEF SourceInv
<1>3. CASE PfOpen
  <2>1. opened \in 0 .. NumChunks /\ opened < NumChunks /\ opened + 1 \in 0 .. NumChunks
    <3>1. opened + 1 \in 1 .. NumChunks /\ opened \in 0 .. NumChunks /\ NumChunks \in Nat
      BY <1>3, PipelineConstants DEF PfOpen, SourceInv
    <3>. QED BY <3>1
  <2>2. Avail(opened) \in Nat /\ Avail(opened + 1) \in Nat /\ Avail(opened) <= Avail(opened + 1)
    BY <2>1, AvailFacts DEF SourceInv
  <2>3. UNCHANGED <<fetched, taken, pf>> /\ opened' = opened + 1
    BY <1>3 DEF PfOpen, streamVars, srcVars, scanVars
  <2>4. fetched \in Nat /\ fetched <= Avail(opened + 1)
    BY <2>2 DEF SourceInv
  <2>. QED BY <1>0, <1>1, <2>1, <2>3, <2>4 DEF SourceInv
<1>4. CASE PfShip \/ PfEnds \/ PfStop \/ PfBreaks
  <2>1. opened' = opened /\ taken' = taken /\ pf = "run"
    BY <1>4 DEF PfShip, PfEnds, PfStop, PfBreaks, Ships, scanVars, pipeVars
  <2>2. /\ Avail(opened) \in Nat /\ fetched \in Nat /\ fetched <= Avail(opened) /\ PfBuf \in Nat
        /\ opened = NumChunks => Avail(opened) = Total
    BY AvailFacts, StreamConstants DEF SourceInv
  <2>3. fetched' \in Nat /\ fetched <= fetched' /\ fetched' <= Avail(opened) /\ (pf' = "eof" => fetched' = Total)
    <3>1. CASE PfShip
      BY <2>2, <3>1 DEF PfShip, FullBuffer, Ships
    <3>2. CASE PfEnds
      BY <2>2, <3>2 DEF PfEnds, Ships
    <3>3. CASE PfStop
      BY <2>2, <3>3 DEF PfStop, Ships
    <3>4. CASE PfBreaks
      BY <2>2, <3>4 DEF PfBreaks
    <3>. QED BY <1>4, <3>1, <3>2, <3>3, <3>4
  <2>. QED BY <1>0, <1>1, <2>1, <2>2, <2>3 DEF SourceInv
<1>5. CASE UNCHANGED <<fetched, pf, taken, opened>>
  BY <1>0, <1>1, <1>5 DEF SourceInv
<1>. QED BY <1>2, <1>3, <1>4, <1>5, SourceMoves DEF Prefetch

(* Stage 1 keeps the invariant.                                            *)
LEMMA RingStage1 ==
  ASSUME RingInv, SourceInv, Stage1
  PROVE  RingInv'
<1>1. CASE Take
  <2>1. RingOK'
    BY <1>1, TakeFacts DEF Take, RingInv, RingOK, ringVars
  <2>. QED BY <1>1, <2>1, CalmStep DEF Take, ringVars
<1>2. CASE Write
  <2>1. RingOK'
    BY <1>2, WriteRing DEF RingInv
  <2>. QED BY <1>2, <2>1, CalmStep DEF Write, ringVars
<1>3. CASE ScanStore
  <2>1. CASE Evicted(item)
    <3>1. RingOK'
      BY <1>3 DEF ScanStore, RingInv, RingOK, ringVars
    <3>. QED BY <1>3, <2>1, <3>1, CalmStep DEF ScanStore, Scanning, ringVars
  <2>2. CASE ~Evicted(item)
    <3>1. item \in Stores
      BY <1>3 DEF ScanStore, Is, Stores
    <3>. QED BY <1>3, <2>2, <3>1, PinStep DEF ScanStore, Scanning
  <2>. QED BY <2>1, <2>2
<1>4. CASE Emit
  BY <1>4, EmitStep
<1>5. CASE ScanItem
  <2>1. CASE Is(item, {"bad"})
    <3>1. RingOK'
      BY <1>5 DEF ScanItem, RingInv, RingOK, ringVars
    <3>. QED BY <1>5, <2>1, <3>1, CalmStep DEF ScanItem, Scanning, ringVars
  <2>2. CASE ~Is(item, {"bad"})
    <3>1. item \in Items /\ item \notin Stores
      BY <1>5 DEF ScanItem, Is, Stores
    <3>. QED BY <1>5, <2>2, <3>1, PassStep DEF ScanItem, Scanning
  <2>. QED BY <2>1, <2>2
<1>6. CASE SourceEnds
  <2>1. RingOK'
    BY <1>6 DEF SourceEnds, RingInv, RingOK, ringVars
  <2>. QED BY <1>6, <2>1, CalmStep DEF SourceEnds, Scanning, ringVars
<1>7. CASE Stage1Done
  <2>1. RingOK'
    BY <1>7 DEF Stage1Done, RingInv, RingOK, ringVars
  <2>. QED BY <1>7, <2>1, CalmStep DEF Stage1Done
<1>. QED BY <1>1, <1>2, <1>3, <1>4, <1>5, <1>6, <1>7 DEF Stage1

(* A worker that lets its store go.                                        *)
LEMMA LetGo ==
  ASSUME RingInv, UNCHANGED <<stream, wave, scanVars, tail, storeCh>>, NEW w \in Workers, Busy(w),
         rd' = [rd EXCEPT ![wk[w].store] = NoReader], Evict(rd'), NEW b \in BOOLEAN,
         wk' = [wk EXCEPT ![w] = [Idle EXCEPT !.stuck = b]]
  PROVE  RingInv'
<1> DEFINE s == wk[w].store
<1>1. s \in Stores /\ s < item /\ \A v \in Workers : Busy(v) /\ v # w => wk[v].store # s
  BY HeldFacts
<1>2. s \notin Waiting(storeCh) /\ HandsOK
  BY DEF RingInv, HeldInv, HeldBy
<1>3. wk' \in [Workers -> [phase : Phases, store : Nat, next : Nat, bad : BOOLEAN, stuck : BOOLEAN]]
  BY <1>2 DEF HandsOK, Idle, Phases
<1>4. ~Busy(w)' /\ \A v \in Workers : v # w => wk'[v] = wk[v]
  BY <1>2 DEF HandsOK, Idle, Busy
<1>5. \A v \in Workers : Busy(v)' => wk'[v] = wk[v] /\ wk[v].store # s
  BY <1>1, <1>4 DEF Busy
<1>. QED BY <1>1, <1>2, <1>3, <1>5, ReleaseStep DEF HandsOK, scanVars

LEMMA GivesUpStep ==
  ASSUME RingInv, NEW w \in Workers, NEW open \in BOOLEAN, GivesUp(w, open), wk[w].phase = "read"
  PROVE  RingInv'
<1>1. Busy(w) /\ HandsOK
  BY DEF Busy, RingInv
<1>2. CASE wave
  <2>1. wk' = [wk EXCEPT ![w].phase = "past", ![w].bad = TRUE, ![w].stuck = open]
    BY <1>2 DEF GivesUp
  <2>2. /\ wk' \in [Workers -> [phase : Phases, store : Nat, next : Nat, bad : BOOLEAN, stuck : BOOLEAN]]
        /\ \A v \in Workers : v # w => wk'[v] = wk[v]
        /\ wk'[w].phase = "past" /\ wk'[w].store = wk[w].store /\ wk'[w].next = wk[w].next
    BY <1>1, <2>1 DEF HandsOK, Phases
  <2>. QED BY <1>1, <1>2, <2>2, PhaseStep DEF GivesUp, scanVars, ringVars
<1>3. CASE ~wave
  BY <1>1, <1>3, LetGo DEF GivesUp
<1>. QED BY <1>2, <1>3

LEMMA RingWork ==
  ASSUME RingInv, NEW w \in Workers, Work(w) \/ SetEnd(w) \/ StoreFault(w)
  PROVE  RingInv'
<1>0. HandsOK /\ wk[w].stuck \in BOOLEAN
  BY DEF RingInv, HandsOK
<1>1. CASE TakeStore(w)
  <2>1. CASE wk[w].stuck
    <3> DEFINE s == Head(storeCh)
    <3>1. /\ s \in Waiting(storeCh) /\ Waiting(storeCh') = Waiting(storeCh) \ {s}
          /\ Distinct(storeCh') /\ storeCh' \in Seq(Nat)
      BY <1>0, <1>1, WaitTail DEF HandsOK, TakeStore
    <3>2. rd' = [rd EXCEPT ![s] = NoReader] /\ Evict(rd') /\ wk' = wk
      BY <1>1, <2>1 DEF TakeStore
    <3> HIDE DEF s
    <3>3. s \in Stores /\ s < item
      BY <3>1 DEF RingInv, ChanInv
    <3>4. \A v \in Workers : Busy(v)' => wk'[v] = wk[v] /\ wk[v].store # s
      BY <3>1, <3>2 DEF RingInv, HeldInv, HeldBy, Busy
    <3>5. UNCHANGED <<stream, wave, tail, want, item, s1, cur>>
      BY <1>1 DEF TakeStore, scanVars
    <3>. QED BY <1>0, <3>1, <3>2, <3>3, <3>4, <3>5, ReleaseStep DEF HandsOK
  <2>2. CASE ~wk[w].stuck
    BY <1>1, <2>2, TakeStep DEF TakeStore, scanVars, ringVars
  <2>. QED BY <2>1, <2>2
<1>2. CASE WorkerExits(w)
  <2>1. /\ wk' \in [Workers -> [phase : Phases, store : Nat, next : Nat, bad : BOOLEAN, stuck : BOOLEAN]]
        /\ \A v \in Workers : v # w => wk'[v] = wk[v]
        /\ wk'[w].phase = "exit"
    BY <1>0, <1>2 DEF HandsOK, Phases, WorkerExits
  <2>. QED BY <1>2, <2>1, PhaseStep DEF WorkerExits, scanVars
<1>3. CASE ReadMore(w)
  <2>1. PICK p \in Nat : /\ rd[wk[w].store].pos <= p /\ p <= tail
                         /\ rd'[wk[w].store] = [rd[wk[w].store] EXCEPT !.pos = p]
    BY <1>3, ReadFacts
  <2>2. /\ rd'[wk[w].store].open = rd[wk[w].store].open /\ rd'[wk[w].store].pin = rd[wk[w].store].pin
        /\ rd'[wk[w].store].pos = p
    <3>1. Busy(w)
      BY <1>3 DEF ReadMore
    <3>. QED BY <2>1, <3>1, HeldFacts
  <2>3. /\ wk[w].store \in Items /\ \A j \in Items : j # wk[w].store => rd'[j] = rd[j]
        /\ rd' \in [Items -> [open : BOOLEAN, pos : Nat, pin : Nat, end : Nat]]
    BY <1>3, ReadFacts
  <2>4. UNCHANGED <<stream, wave, ringVars, want, item, s1, cur, storeCh, wk>>
    BY <1>3 DEF ReadMore, scanVars
  <2>. QED BY <2>1, <2>2, <2>3, <2>4, ReadStep
<1>4. CASE Deliver(w)
  BY <1>4, DeliverStep
<1>5. CASE BoundaryEnds(w)
  BY <1>0, <1>5, LetGo DEF BoundaryEnds, StoreEnds, Busy
<1>6. CASE EofEnds(w)
  BY <1>0, <1>6, LetGo DEF EofEnds, StoreEnds, Busy
<1>7. CASE WaveEnds(w)
  BY <1>0, <1>7, LetGo DEF WaveEnds, StoreEnds, Busy
<1>8. CASE Malformed(w)
  BY <1>8, GivesUpStep, StreamConstants DEF Malformed
<1>9. CASE StoreFault(w)
  BY <1>9, GivesUpStep, StreamConstants DEF StoreFault
<1>10. CASE SetEnd(w)
  <2> DEFINE s == wk[w].store
  <2>1. Busy(w) /\ rd' = [rd EXCEPT ![s].end = StartOf(Bound(s))]
    BY <1>10 DEF SetEnd, Bound
  <2>2. s \in Items /\ rd[s].pos \in Nat /\ stream \in Streams
    BY <1>0, <2>1, HeldFacts DEF HandsOK
  <2>3. StartOf(Bound(s)) \in Nat
    BY <2>2, BoundFacts, StreamFacts
  <2>4. /\ rd' \in [Items -> [open : BOOLEAN, pos : Nat, pin : Nat, end : Nat]]
        /\ rd'[s].open = rd[s].open /\ rd'[s].pin = rd[s].pin /\ rd'[s].pos = rd[s].pos
        /\ \A j \in Items : j # s => rd'[j] = rd[j]
    BY <1>0, <2>1, <2>2, <2>3 DEF HandsOK
  <2>5. UNCHANGED <<stream, wave, ringVars, want, item, s1, cur, storeCh, wk>>
    BY <1>10 DEF SetEnd, scanVars
  <2>6. rd[s].pos <= rd'[s].pos
    BY <2>2, <2>4
  <2>. QED BY <2>2, <2>4, <2>5, <2>6, ReadStep
<1>. QED BY <1>1, <1>2, <1>3, <1>4, <1>5, <1>6, <1>7, <1>8, <1>9, <1>10 DEF Work

LEMMA RingStep ==
  ASSUME RingInv, SourceInv, [Next]_vars
  PROVE  RingInv'
<1>1. CASE Stage1
  BY <1>1, RingStage1
<1>2. CASE \E w \in Workers : Work(w) \/ SetEnd(w) \/ StoreFault(w)
  BY <1>2, RingWork
<1>3. CASE UNCHANGED <<stream, wave, scanVars, ringVars, rd, storeCh, wk>>
  <2>1. RingOK'
    BY <1>3 DEF RingInv, RingOK, ringVars, scanVars
  <2>. QED BY <1>3, <2>1, CalmStep DEF ringVars, scanVars
<1>. QED
  BY <1>1, <1>2, <1>3
  DEF Next, StreamNext, StagesEnd, Finalize, Fetcher, FetchReturns, ChunkReady, Interrupt, CancelFetch,
      FailTailing, Report, Prefetch, PfOpen, PfShip, PfEnds, PfStop, PfBreaks, Ships, vars, streamVars

LEMMA RingStart == Init => RingInv /\ SourceInv
<1> SUFFICES ASSUME Init PROVE RingInv /\ SourceInv
  OBVIOUS
<1> USE DEF Init, StreamInit
<1>1. stream \in Streams /\ Len(stream) \in Nat
  BY StreamFacts
<1>2. \A j \in Items : rd[j] = NoReader
  OBVIOUS
<1>3. RingOK
  BY DEF RingOK
<1>4. Waiting(storeCh) = {} /\ Distinct(storeCh) /\ storeCh \in Seq(Nat)
  BY DEF Waiting, Distinct
<1>5. HandsOK
  <2>1. rd \in [Items -> [open : BOOLEAN, pos : Nat, pin : Nat, end : Nat]]
    BY DEF NoReader
  <2>2. wk \in [Workers -> [phase : Phases, store : Nat, next : Nat, bad : BOOLEAN, stuck : BOOLEAN]]
    BY DEF Idle, Phases
  <2>3. item \in Places
    BY <1>1 DEF Places
  <2>. QED BY <1>1, <1>4, <2>1, <2>2, <2>3 DEF HandsOK
<1>6. OpenInv /\ PinInv
  BY <1>2 DEF OpenInv, PinInv, NoReader
<1>7. HeadInv
  BY <1>1, StreamFacts DEF HeadInv
<1>8. EmitInv /\ ChanInv
  BY <1>4 DEF EmitInv, ChanInv
<1>9. HeldInv
  BY DEF HeldInv, HeldBy, Busy, Idle
<1>10. SourceInv
  <2>1. 0 \in 0 .. NumChunks /\ Avail(0) \in Nat
    BY <1>1, AvailFacts, PipelineConstants
  <2>. QED BY <1>1, <2>1 DEF SourceInv
<1>. QED BY <1>3, <1>5, <1>6, <1>7, <1>8, <1>9, <1>10 DEF RingInv

(* Without wave decoding the ring never drops a byte that is still to be   *)
(* read, for any streams, ring, buffers and workers: not what an open      *)
(* reader holds, not the store stage 1 will pin next, not the extension    *)
(* tail (chunkring.go evictLocked, parallel.go).                           *)
THEOREM RingKeepsWhatIsNeeded == Spec => []NothingNeededEvicted
<1>1. ASSUME RingInv PROVE NothingNeededEvicted
  <2>1. head \in Nat /\ stream \in Streams /\ item \in Int
    BY <1>1, StreamFacts DEF RingInv, RingOK, HandsOK, Places
  <2>2. \A j \in Items : rd[j].open => rd[j].pin >= head
    BY <1>1, <2>1 DEF RingInv, PinInv, HandsOK
  <2>3. ASSUME ~wave, NEW j \in Items, (j \in Stores /\ j >= item) \/ j = ExtStart PROVE StartOf(j) >= head
    <3>1. j \in Int /\ StartOf(j) \in Nat
      BY <2>1, StreamFacts DEF Items
    <3>2. head <= StartOf(j)
      BY <1>1, <2>1, <2>3, <3>1 DEF RingInv, HeadInv
    <3>. QED BY <2>1, <3>1, <3>2
  <2>4. \A j \in Stores : j \in Items
    BY DEF Stores
  <2>. QED BY <2>2, <2>3, <2>4 DEF NothingNeededEvicted
<1>. QED
  BY <1>1, RingStart, RingStep, SourceStep, PTL DEF Spec

-----------------------------------------------------------------------------
(***************************************************************************)
(* What a successful import has imported.  The ring ends where stage 1     *)
(* stopped taking, stage 1 stops without an error only at the end of the   *)
(* stream, and a store it has handed out waits, is held by a worker, has   *)
(* been imported up to its last item, or has failed.                       *)
(***************************************************************************)
FlowInv == tail + want = taken

StopInv ==
  /\ s1 \in {"closing", "done"} /\ s1err = "none" =>
       item \notin Items /\ pf = "eof" /\ taken = fetched /\ want = 0
  /\ s1 \in {"scan", "emit"} => s1err = "none" /\ closed = "open"
  /\ closed = "failed" => s1err # "none"
  /\ closed = "eof" => s1 = "done" /\ s1err = "none"
  /\ closed \in {"open", "eof", "failed"} /\ s1 \in {"scan", "emit", "closing", "done"}

(* A reader is within the ring, and its end is not known or right.         *)
SpanInv == \A j \in Items : rd[j].open => rd[j].pos <= tail /\ rd[j].end \in {Unknown, StartOf(Bound(j))}

CleanInv == \A j \in Items : j < item => ~Is(j, {"bad"})

Whole(s) == imported[s] = Bound(s) - 1
Held(s)  == \E w \in Workers : Busy(w) /\ wk[w].store = s

DoneInv ==
  /\ imported \in [Stores -> Int]
  /\ \A s \in Stores : s < item => s \in Waiting(storeCh) \/ Held(s) \/ Whole(s) \/ firstErr # "none"
  /\ \A w \in Workers : wk[w].phase = "past" /\ ~wk[w].bad => Whole(wk[w].store)

EndInv ==
  /\ \A w \in Workers : wk[w].phase = "exit" => storeCh = <<>> /\ s1 = "done"
  /\ imp \in {"final", "ok"} =>
       firstErr = "none" /\ s1err = "none" /\ \A w \in Workers : wk[w].phase = "exit"
  /\ exit = 0 => imp = "ok" /\ fetch = "done"

WholeInv == RingInv /\ SourceInv /\ FlowInv /\ StopInv /\ SpanInv /\ CleanInv /\ DoneInv /\ EndInv

LEMMA FlowStep ==
  ASSUME RingInv, SourceInv, FlowInv, [Next]_vars
  PROVE  FlowInv' /\ tail <= tail'
<1>1. want \in Nat /\ tail \in Nat /\ taken \in Nat
  BY DEF RingInv, RingOK, SourceInv
<1>2. CASE Take
  <2>1. want = 0 /\ tail' = tail
    BY <1>2 DEF Take, Scanning, ringVars
  <2>. QED BY <1>1, <1>2, <2>1, TakeFacts DEF FlowInv
<1>3. CASE Write
  <2>1. tail' + want' = tail + want /\ tail <= tail' /\ taken' = taken
    BY <1>3, WriteRing DEF Write, RingInv
  <2>. QED BY <2>1 DEF FlowInv
<1>4. CASE UNCHANGED <<tail, want, taken>>
  BY <1>1, <1>4 DEF FlowInv
<1>. QED
  BY <1>2, <1>3, <1>4
  DEF Next, StreamNext, Stage1, ScanStore, ScanItem, SourceEnds, Emit, Stage1Done, StagesEnd, Finalize,
      SetEnd, Work, TakeStore, WorkerExits, ReadMore, Deliver, BoundaryEnds, EofEnds, WaveEnds, Malformed,
      GivesUp, StoreFault, Fetcher, FetchReturns, ChunkReady, Interrupt, CancelFetch, FailTailing, Report,
      Prefetch, PfOpen, PfShip, PfEnds, PfStop, PfBreaks, Ships, vars, streamVars, scanVars, ringVars

(* What a step does to stage 1.                                            *)
LEMMA StopStep ==
  ASSUME StopInv, [Next]_vars
  PROVE  StopInv'
<1>1. Items' = Items
  BY SourceMoves, SameStream
<1>2. CASE UNCHANGED <<s1, s1err, closed, item, want, taken>>
  <2>1. pf = "eof" => pf' = pf /\ fetched' = fetched
    <3>1. CASE Prefetch \/ PfBreaks
      BY <3>1 DEF Prefetch, PfOpen, PfShip, PfEnds, PfStop, PfBreaks, streamVars, srcVars
    <3>2. CASE Take
      BY <3>2 DEF Take, srcVars
    <3>. QED BY <3>1, <3>2, SourceMoves
  <2>. QED BY <1>1, <1>2, <2>1 DEF StopInv
<1>3. CASE Take
  BY <1>3 DEF Take, Scanning, StopInv, ringVars
<1>4. CASE Write
  BY <1>1, <1>4 DEF Write, StopInv, srcVars
<1>5. CASE ScanStore
  BY <1>5 DEF ScanStore, Scanning, StopInv, ringVars
<1>6. CASE Emit
  BY <1>6 DEF Emit, StopInv, ringVars
<1>7. CASE ScanItem
  BY <1>7 DEF ScanItem, Scanning, StopInv, ringVars
<1>8. CASE SourceEnds
  BY <1>1, <1>8 DEF SourceEnds, Scanning, StopInv, ringVars, srcVars
<1>9. CASE Stage1Done
  BY <1>1, <1>9 DEF Stage1Done, StopInv, srcVars
<1>. QED
  BY <1>2, <1>3, <1>4, <1>5, <1>6, <1>7, <1>8, <1>9
  DEF Next, StreamNext, Stage1, StagesEnd, Finalize,
      SetEnd, Work, TakeStore, WorkerExits, ReadMore, Deliver, BoundaryEnds, EofEnds, WaveEnds, Malformed,
      GivesUp, StoreFault, Fetcher, FetchReturns, ChunkReady, Interrupt, CancelFetch, FailTailing, Report,
      Prefetch, PfOpen, PfShip, PfEnds, PfStop, PfBreaks, Ships, vars, streamVars, scanVars, ringVars

LEMMA SpanStep ==
  ASSUME RingInv, SourceInv, FlowInv, SpanInv, [Next]_vars
  PROVE  SpanInv'
<1>1. /\ Items' = Items /\ Unknown' = Unknown
      /\ (\A j : StartOf(j)' = StartOf(j)) /\ (\A j : Bound(j)' = Bound(j))
  BY SourceMoves, SameStream DEF Unknown, Total
<1>2. tail \in Nat /\ tail' \in Nat /\ tail <= tail'
  BY FlowStep, RingStep DEF RingInv, RingOK
<1>3. rd \in [Items -> [open : BOOLEAN, pos : Nat, pin : Nat, end : Nat]]
  BY DEF RingInv, HandsOK
<1> DEFINE Kept(j) == rd'[j].open => rd[j].open /\ rd'[j].pos = rd[j].pos /\ rd'[j].end = rd[j].end
           Fine(j) == rd'[j].open => rd'[j].pos \in Nat /\ rd'[j].pos <= tail /\ rd'[j].end \in {Unknown, StartOf(Bound(j))}
<1>4. ASSUME NEW j \in Items, Kept(j) PROVE Fine(j)
  BY <1>3, <1>4 DEF SpanInv
<1>5. CASE ScanStore /\ ~Evicted(item)
  <2>1. /\ rd' = [rd EXCEPT ![item] = NewReader(item)] /\ item \in Items /\ want = 0 /\ taken >= EndOf(item)
    BY <1>5 DEF ScanStore, Scanning, Is
  <2>2. /\ StartOf(item) \in Nat /\ EndOf(item) \in Nat /\ StartOf(item) < EndOf(item)
    <3>1. stream \in Streams /\ Len(stream) \in Nat /\ item \in Places /\ item + 1 \in Places /\ EndOf(item) = StartOf(item + 1)
      BY <2>1, StreamFacts DEF RingInv, HandsOK
    <3>2. item < item + 1
      BY <3>1 DEF Places
    <3>. QED BY <3>1, <3>2, StreamFacts
  <2>3. StartOf(item) <= tail
    BY <1>2, <2>1, <2>2 DEF FlowInv, SourceInv
  <2>4. Fine(item) /\ \A j \in Items : j # item => rd'[j] = rd[j]
    BY <1>3, <2>1, <2>2, <2>3 DEF NewReader
  <2>5. \A j \in Items : Fine(j)
    BY <1>4, <2>4
  <2>. QED BY <1>1, <1>2, <2>5 DEF SpanInv
<1>6. ASSUME NEW w \in Workers, ReadMore(w) PROVE SpanInv'
  <2>1. PICK p \in Nat : rd[wk[w].store].pos <= p /\ p <= tail /\ rd'[wk[w].store] = [rd[wk[w].store] EXCEPT !.pos = p]
    BY <1>6, ReadFacts
  <2>2. wk[w].store \in Items /\ \A j \in Items : j # wk[w].store => rd'[j] = rd[j]
    BY <1>6, ReadFacts
  <2>3. Fine(wk[w].store)
    BY <1>3, <2>1, <2>2 DEF SpanInv
  <2>4. \A j \in Items : Fine(j)
    BY <1>4, <2>2, <2>3
  <2>. QED BY <1>1, <1>2, <2>4 DEF SpanInv
<1>7. ASSUME NEW w \in Workers, SetEnd(w) PROVE SpanInv'
  <2>1. Busy(w) /\ rd' = [rd EXCEPT ![wk[w].store].end = StartOf(Bound(wk[w].store))]
    BY <1>7 DEF SetEnd, Bound
  <2>2. wk[w].store \in Items /\ rd[wk[w].store].open
    BY <2>1, HeldFacts
  <2>3. Fine(wk[w].store) /\ \A j \in Items : j # wk[w].store => rd'[j] = rd[j]
    BY <1>3, <2>1, <2>2 DEF SpanInv
  <2>4. \A j \in Items : Fine(j)
    BY <1>4, <2>3
  <2>. QED BY <1>1, <1>2, <2>4 DEF SpanInv
<1>8. ASSUME NEW w \in Workers, Deliver(w) PROVE SpanInv'
  <2>1. rd' = [rd EXCEPT ![wk[w].store].pin = EndOf(wk[w].next)]
    BY <1>8 DEF Deliver
  <2>2. \A j \in Items : Kept(j)
    BY <1>3, <2>1
  <2>. QED BY <1>1, <1>2, <1>4, <2>2 DEF SpanInv
<1>9. ASSUME NEW k, rd' = [rd EXCEPT ![k] = NoReader] PROVE SpanInv'
  <2>1. \A j \in Items : Kept(j)
    BY <1>3, <1>9 DEF NoReader
  <2>. QED BY <1>1, <1>2, <1>4, <2>1 DEF SpanInv
<1>10. CASE UNCHANGED rd
  <2>1. \A j \in Items : Kept(j)
    BY <1>10
  <2>. QED BY <1>1, <1>2, <1>4, <2>1 DEF SpanInv
<1> HIDE DEF Kept, Fine
<1>. QED
  BY <1>5, <1>6, <1>7, <1>8, <1>9, <1>10
  DEF Next, StreamNext, Stage1, Take, Write, ScanStore, ScanItem, SourceEnds, Emit, Stage1Done, StagesEnd, Finalize,
      Work, TakeStore, WorkerExits, BoundaryEnds, EofEnds, WaveEnds, StoreEnds, Malformed,
      GivesUp, StoreFault, Fetcher, FetchReturns, ChunkReady, Interrupt, CancelFetch, FailTailing, Report,
      Prefetch, PfOpen, PfShip, PfEnds, PfStop, PfBreaks, Ships, vars, streamVars

(* Next returns io.EOF only behind the store's last item, whether the      *)
(* listener's end or the closed ring stopped the reader.                   *)
LEMMA EofWhole ==
  ASSUME WholeInv, NEW w \in Workers, wk[w].phase = "read", AtEof(w), ReadError(w) = "none"
  PROVE  wk[w].next = Bound(wk[w].store)
<1> DEFINE s == wk[w].store
           n == wk[w].next
           r == rd[s]
<1>1. Busy(w) /\ RingInv /\ stream \in Streams
  BY DEF Busy, WholeInv, RingInv, HandsOK
<1>2. s \in Items /\ r.open /\ r.pos \in Nat /\ r.end \in Nat /\ r.pin \in Nat /\ r.pin <= r.pos
  BY <1>1, HeldFacts
<1>3. n \in Places /\ n <= Bound(s) /\ r.pin = StartOf(n)
  BY <1>1 DEF RingInv, HeldInv, HeldBy
<1>4. Bound(s) \in Places /\ StartOf(n) \in Nat /\ StartOf(Bound(s)) \in Nat
  BY <1>1, <1>2, <1>3, BoundFacts, StreamFacts
<1>5. n \in Int /\ Bound(s) \in Int /\ Len(stream) \in Nat /\ n <= Len(stream) + 1 /\ Bound(s) <= Len(stream) + 1
  BY <1>1, <1>3, <1>4, StreamFacts DEF Places
<1>6. ~(closed = "failed" /\ r.pos < r.end) /\ ~(r.pos > StartOf(n))
  BY DEF ReadError, Reader, Cut, WholeInv, StopInv
<1>7. r.pos = StartOf(n)
  BY <1>2, <1>3, <1>4, <1>6
<1>8. Total \in Nat /\ Total = StartOf(Len(stream) + 1)
  BY <1>1, TotalFacts
<1>9. /\ tail \in Nat /\ want \in Nat /\ taken \in Nat /\ fetched \in Nat /\ taken <= fetched
      /\ tail + want = taken /\ fetched <= Total
  <2>1. opened \in 0 .. NumChunks /\ fetched <= Avail(opened) /\ fetched \in Nat
    BY DEF WholeInv, SourceInv
  <2>2. Avail(opened) \in Nat /\ Avail(opened) <= Total
    BY <1>1, <2>1, AvailFacts
  <2>3. fetched <= Total
    BY <1>8, <2>1, <2>2
  <2>. QED BY <2>1, <2>3 DEF WholeInv, RingInv, RingOK, SourceInv, FlowInv
<1>10. r.pos <= tail /\ r.end \in {Unknown, StartOf(Bound(s))}
  BY <1>2 DEF WholeInv, SpanInv
<1>11. CASE r.pos >= r.end
  <2>1. r.pos < Total + 1
    BY <1>2, <1>8, <1>9, <1>10
  <2>2. r.end = StartOf(Bound(s))
    BY <1>2, <1>8, <1>10, <1>11, <2>1 DEF Unknown
  <2>3. ~(StartOf(n) < StartOf(Bound(s)))
    BY <1>4, <1>7, <1>11, <2>2
  <2>4. ~(n < Bound(s))
    BY <1>1, <1>3, <1>4, <2>3, StreamFacts
  <2>. QED BY <1>3, <1>5, <2>4
<1>12. CASE ~(r.pos >= r.end)
  <2>1. closed # "open" /\ r.pos >= tail
    BY <1>12 DEF AtEof, Reader
  <2>2. closed = "eof"
    BY <1>2, <1>6, <1>12, <2>1 DEF WholeInv, StopInv
  <2>3. taken = fetched /\ want = 0 /\ fetched = Total
    BY <2>2 DEF WholeInv, StopInv, SourceInv
  <2>4. ~(StartOf(n) < StartOf(Len(stream) + 1))
    BY <1>4, <1>7, <1>8, <1>9, <2>1, <2>3
  <2>5. Len(stream) + 1 \in Places
    BY <1>5 DEF Places
  <2>6. ~(n < Len(stream) + 1)
    BY <1>1, <1>3, <2>4, <2>5, StreamFacts
  <2>. QED BY <1>3, <1>5, <2>6
<1>. QED BY <1>11, <1>12

(* What a step of worker w settles: a store leaves storeCh for the worker  *)
(* or with an error, and leaves the worker imported to its last item or    *)
(* with an error.                                                          *)
Settled(w) ==
  /\ imported' \in [Stores -> Int]
  /\ \A v \in Workers : v # w => wk'[v] = wk[v]
  /\ firstErr # "none" => firstErr' # "none"
  /\ \A k \in Stores : ~(Busy(w) /\ k = wk[w].store) => imported'[k] = imported[k]
  /\ \A k \in Waiting(storeCh) : k \in Waiting(storeCh') \/ (Busy(w)' /\ wk'[w].store = k) \/ firstErr' # "none"
  /\ Busy(w) => \/ Busy(w)' /\ wk'[w].store = wk[w].store
                \/ imported'[wk[w].store] = Bound(wk[w].store) - 1
                \/ firstErr' # "none"
  /\ wk'[w].phase = "past" /\ ~wk'[w].bad => imported'[wk'[w].store] = Bound(wk'[w].store) - 1

LEMMA Settles ==
  ASSUME WholeInv, NEW w \in Workers, Work(w) \/ SetEnd(w) \/ StoreFault(w)
  PROVE  Settled(w)
<1> DEFINE s == wk[w].store
           n == wk[w].next
<1>1. /\ RingInv /\ imported \in [Stores -> Int]
      /\ wk \in [Workers -> [phase : Phases, store : Nat, next : Nat, bad : BOOLEAN, stuck : BOOLEAN]]
      /\ storeCh \in Seq(Nat) /\ Distinct(storeCh)
      /\ wk[w].phase = "past" /\ ~wk[w].bad => imported[s] = Bound(s) - 1
  BY DEF WholeInv, RingInv, HandsOK, DoneInv, Whole
<1>2. Busy(w) => s \in Stores /\ n \in Nat
  BY <1>1, HeldFacts
<1>3. CASE UNCHANGED <<wk, storeCh, imported, firstErr>>
  BY <1>1, <1>3 DEF Settled, Busy
<1>4. CASE TakeStore(w)
  <2>1. /\ wk[w].phase = "idle" /\ imported' = imported
        /\ Waiting(storeCh') = Waiting(storeCh) \ {Head(storeCh)}
    BY <1>1, <1>4, WaitTail DEF TakeStore
  <2>2. CASE wk[w].stuck
    <3>1. firstErr' # "none" /\ wk' = wk
      BY <1>4, <2>2 DEF TakeStore
    <3>. QED BY <1>1, <2>1, <3>1 DEF Settled, Busy
  <2>3. CASE ~wk[w].stuck
    <3>1. /\ wk'[w].phase = "read" /\ wk'[w].store = Head(storeCh) /\ firstErr' = firstErr
          /\ \A v \in Workers : v # w => wk'[v] = wk[v]
      <4> DEFINE h == Head(storeCh)
      <4>1. /\ wk' = [wk EXCEPT ![w] = [@ EXCEPT !.phase = "read", !.store = h, !.next = h]]
            /\ firstErr' = firstErr
        BY <1>4, <2>3 DEF TakeStore
      <4> HIDE DEF h
      <4>2. wk'[w].phase = "read" /\ wk'[w].store = h /\ \A v \in Workers : v # w => wk'[v] = wk[v]
        BY <1>1, <4>1
      <4>. QED BY <4>1, <4>2 DEF h
    <3>. QED BY <1>1, <2>1, <3>1 DEF Settled, Busy
  <2>. QED BY <2>2, <2>3
<1>5. CASE WorkerExits(w)
  <2>1. /\ wk'[w].phase = "exit" /\ wk[w].phase = "idle" /\ UNCHANGED <<storeCh, imported, firstErr>>
        /\ \A v \in Workers : v # w => wk'[v] = wk[v]
    BY <1>1, <1>5 DEF WorkerExits, outVars
  <2>. QED BY <1>1, <2>1 DEF Settled, Busy
<1>6. CASE Deliver(w)
  <2>1. /\ Busy(w) /\ n \in Items /\ storeCh' = storeCh /\ firstErr' = firstErr
        /\ imported' = IF Boundary(w) /\ wk[w].phase = "read"
                       THEN [imported EXCEPT ![s] = n - 1] ELSE imported
    BY <1>6 DEF Deliver, Buffered
  <2>2. /\ \A v \in Workers : v # w => wk'[v] = wk[v]
        /\ wk'[w].store = s /\ wk'[w].bad = wk[w].bad
        /\ wk'[w].phase = IF Boundary(w) THEN "past" ELSE wk[w].phase
    BY <1>1, <1>6 DEF Deliver
  <2>3. wk[w].phase \in {"read", "past"} /\ Busy(w)'
    BY <2>1, <2>2 DEF Busy
  <2>4. s \in Stores /\ n - 1 \in Int
    BY <1>2, <2>1
  <2>5. /\ imported' \in [Stores -> Int] /\ \A k \in Stores : k # s => imported'[k] = imported[k]
        /\ Boundary(w) /\ wk[w].phase = "read" => imported'[s] = n - 1
    BY <1>1, <2>1, <2>4
  <2>6. Boundary(w) /\ wk[w].phase = "read" => imported'[s] = Bound(s) - 1
    BY <1>1, <2>1, <2>5, NotPast
  <2>7. wk'[w].phase = "past" /\ ~wk'[w].bad => imported'[s] = Bound(s) - 1
    BY <1>1, <2>1, <2>2, <2>3, <2>6
  <2>. QED BY <2>1, <2>2, <2>3, <2>5, <2>7 DEF Settled
<1>7. ASSUME NEW e, StoreEnds(w, e), Busy(w), storeCh' = storeCh, imported' \in [Stores -> Int],
             \A k \in Stores : k # s => imported'[k] = imported[k],
             e = "none" => imported'[s] = Bound(s) - 1
      PROVE  Settled(w)
  <2>1. /\ wk'[w].phase = "idle" /\ \A v \in Workers : v # w => wk'[v] = wk[v]
        /\ firstErr' = IF firstErr = "none" THEN e ELSE firstErr
    BY <1>1, <1>7 DEF StoreEnds, Idle
  <2>. QED BY <1>7, <2>1 DEF Settled
<1>8. CASE BoundaryEnds(w)
  <2>1. /\ StoreEnds(w, "none") /\ Busy(w) /\ storeCh' = storeCh /\ n \in Items
        /\ imported' = [imported EXCEPT ![s] = n - 1] /\ n = Bound(s)
    BY <1>1, <1>8, NotPast DEF BoundaryEnds, Busy, Buffered
  <2>2. s \in Stores /\ n - 1 \in Int
    BY <1>2, <2>1
  <2>3. /\ imported' \in [Stores -> Int] /\ imported'[s] = Bound(s) - 1
        /\ \A k \in Stores : k # s => imported'[k] = imported[k]
    BY <1>1, <2>1, <2>2
  <2>. QED BY <1>7, <2>1, <2>3
<1>9. CASE EofEnds(w)
  <2>1. /\ StoreEnds(w, ReadError(w)) /\ Busy(w) /\ storeCh' = storeCh /\ AtEof(w) /\ wk[w].phase = "read"
        /\ imported' = IF ReadError(w) = "none" THEN [imported EXCEPT ![s] = n - 1] ELSE imported
    BY <1>9 DEF EofEnds, Busy
  <2>2. s \in Stores /\ n - 1 \in Int
    BY <1>2, <2>1
  <2>3. /\ imported' \in [Stores -> Int] /\ \A k \in Stores : k # s => imported'[k] = imported[k]
        /\ ReadError(w) = "none" => imported'[s] = n - 1
    BY <1>1, <2>1, <2>2
  <2>4. ReadError(w) = "none" => imported'[s] = Bound(s) - 1
    BY <2>1, <2>3, EofWhole
  <2>. QED BY <1>7, <2>1, <2>3, <2>4
<1>10. CASE WaveEnds(w)
  <2>1. PICK e : StoreEnds(w, IF wk[w].bad THEN "own" ELSE e)
    BY <1>10 DEF WaveEnds
  <2>2. Busy(w) /\ storeCh' = storeCh /\ imported' = imported /\ wk[w].phase = "past"
    BY <1>10 DEF WaveEnds, Busy
  <2> DEFINE x == IF wk[w].bad THEN "own" ELSE e
  <2>3. x = "none" => imported'[s] = Bound(s) - 1
    BY <1>1, <2>2
  <2>4. StoreEnds(w, x)
    BY <2>1
  <2> HIDE DEF x
  <2>. QED BY <1>1, <1>7, <2>2, <2>3, <2>4
<1>11. ASSUME NEW open, GivesUp(w, open), wk[w].phase = "read" PROVE Settled(w)
  <2>1. Busy(w) /\ storeCh' = storeCh /\ imported' = imported
    BY <1>11 DEF GivesUp, Busy
  <2>2. CASE wave
    <3>1. /\ wk'[w].phase = "past" /\ wk'[w].store = s /\ wk'[w].bad /\ firstErr' = firstErr
          /\ \A v \in Workers : v # w => wk'[v] = wk[v]
      BY <1>1, <1>11, <2>2 DEF GivesUp
    <3>. QED BY <1>1, <2>1, <3>1 DEF Settled, Busy
  <2>3. CASE ~wave
    <3>1. /\ wk'[w].phase = "idle" /\ firstErr' # "none" /\ \A v \in Workers : v # w => wk'[v] = wk[v]
      BY <1>1, <1>11, <2>3 DEF GivesUp, Idle
    <3>. QED BY <1>1, <2>1, <3>1 DEF Settled, Busy
  <2>. QED BY <2>2, <2>3
<1>. QED
  BY <1>3, <1>4, <1>5, <1>6, <1>8, <1>9, <1>10, <1>11
  DEF Work, Malformed, StoreFault, SetEnd, ReadMore, outVars

(* The scan hands a store out before it goes past it, and stops at an      *)
(* unknown field.                                                          *)
LEMMA ScanMoves ==
  ASSUME RingInv, [Next]_vars, ~(\E w \in Workers : Work(w) \/ SetEnd(w) \/ StoreFault(w))
  PROVE  /\ UNCHANGED <<wk, imported, firstErr>>
         /\ Waiting(storeCh) \subseteq Waiting(storeCh')
         /\ \/ item' = item
            \/ /\ item' = item + 1 /\ ~Is(item, {"bad"})
               /\ item \in Stores => item \in Waiting(storeCh')
<1>1. CASE Emit
  <2>1. item \in Stores /\ cur = item /\ item \in Nat
    BY <1>1, StreamFacts DEF Emit, RingInv, EmitInv, HandsOK, Stores, Items
  <2>2. Waiting(storeCh') = Waiting(storeCh) \cup {item}
    <3>1. storeCh \in Seq(Nat) /\ storeCh' = Append(storeCh, item)
      BY <1>1, <2>1 DEF Emit, RingInv, HandsOK
    <3>. QED BY <2>1, <3>1, WaitAppended
  <2>3. ~Is(item, {"bad"})
    BY <2>1 DEF Stores, Is
  <2>. QED BY <1>1, <2>2, <2>3 DEF Emit, outVars
<1>2. CASE ScanItem
  <2>1. item \notin Stores
    BY <1>2 DEF ScanItem, Is, Stores
  <2>. QED BY <1>2, <2>1 DEF ScanItem, outVars
<1>3. CASE UNCHANGED <<wk, imported, firstErr, storeCh, item>>
  BY <1>3
<1>. QED
  BY <1>1, <1>2, <1>3
  DEF Next, StreamNext, Stage1, Take, Write, ScanStore, SourceEnds, Stage1Done, StagesEnd, Finalize,
      Fetcher, FetchReturns, ChunkReady, Interrupt, CancelFetch, FailTailing, Report,
      Prefetch, PfOpen, PfShip, PfEnds, PfStop, PfBreaks, Ships, vars, streamVars, scanVars, outVars

LEMMA WorkFrame ==
  ASSUME NEW w \in Workers, Work(w) \/ SetEnd(w) \/ StoreFault(w)
  PROVE  item' = item /\ s1' = s1 /\ s1err' = s1err /\ imp' = imp
BY DEF Work, TakeStore, WorkerExits, ReadMore, Deliver, BoundaryEnds, EofEnds, WaveEnds, Malformed, SetEnd,
       GivesUp, StoreFault, scanVars, outVars

LEMMA DoneStep ==
  ASSUME WholeInv, [Next]_vars
  PROVE  DoneInv' /\ CleanInv'
<1>1. /\ Items' = Items /\ Stores' = Stores /\ (\A j : Bound(j)' = Bound(j)) /\ \A j : Is(j, {"bad"})' = Is(j, {"bad"})
  <2>1. stream' = stream
    BY SourceMoves
  <2>. QED BY <2>1, SameStream DEF Is
<1>2. RingInv /\ DoneInv /\ CleanInv /\ stream \in Streams /\ item \in Int /\ \A j \in Items : j \in Int
  BY StreamFacts DEF WholeInv, RingInv, HandsOK, Places, Items
<1>3. \A j \in Stores : j \in Items /\ j \in Int
  BY <1>2 DEF Stores
<1>4. ASSUME NEW w \in Workers, Work(w) \/ SetEnd(w) \/ StoreFault(w) PROVE DoneInv' /\ CleanInv'
  <2>1. Settled(w) /\ item' = item
    BY <1>4, Settles, WorkFrame
  <2>2. ASSUME NEW k \in Stores, k < item
        PROVE  \/ k \in Waiting(storeCh') \/ (\E v \in Workers : Busy(v)' /\ wk'[v].store = k)
               \/ imported'[k] = Bound(k) - 1 \/ firstErr' # "none"
    <3>1. CASE k \in Waiting(storeCh)
      BY <2>1, <3>1 DEF Settled
    <3>2. ASSUME NEW v \in Workers, Busy(v), wk[v].store = k, v # w
          PROVE  Busy(v)' /\ wk'[v].store = k
      BY <2>1, <3>2 DEF Settled, Busy
    <3>3. CASE Busy(w) /\ wk[w].store = k
      BY <2>1, <3>3 DEF Settled
    <3>4. CASE ~(Busy(w) /\ wk[w].store = k) /\ imported[k] = Bound(k) - 1
      BY <2>1, <3>4 DEF Settled
    <3>5. CASE firstErr # "none"
      BY <2>1, <3>5 DEF Settled
    <3>6. k \in Waiting(storeCh) \/ Held(k) \/ Whole(k) \/ firstErr # "none"
      BY <1>2, <2>2 DEF DoneInv
    <3>. QED BY <3>1, <3>2, <3>3, <3>4, <3>5, <3>6 DEF Held, Whole
  <2>3. ASSUME NEW v \in Workers, wk'[v].phase = "past", ~wk'[v].bad
        PROVE  imported'[wk'[v].store] = Bound(wk'[v].store) - 1
    <3>1. CASE v = w
      BY <2>1, <2>3, <3>1 DEF Settled
    <3>2. CASE v # w
      <4>1. wk'[v] = wk[v] /\ Busy(v) /\ wk[v].store \in Stores
        BY <1>2, <2>1, <2>3, <3>2, HeldFacts DEF Settled, Busy
      <4>2. ~(Busy(w) /\ wk[v].store = wk[w].store)
        BY <1>2, <3>2, <4>1, HeldFacts
      <4>. QED BY <1>2, <2>1, <2>3, <4>1, <4>2 DEF Settled, DoneInv, Whole
    <3>. QED BY <3>1, <3>2
  <2>4. DoneInv'
    BY <1>1, <2>1, <2>2, <2>3 DEF DoneInv, Held, Whole, Settled
  <2>5. CleanInv'
    BY <1>1, <1>2, <2>1 DEF CleanInv
  <2>. QED BY <2>4, <2>5
<1>5. CASE ~(\E w \in Workers : Work(w) \/ SetEnd(w) \/ StoreFault(w))
  <2>1. /\ UNCHANGED <<wk, imported, firstErr>>
        /\ Waiting(storeCh) \subseteq Waiting(storeCh')
        /\ \/ item' = item
           \/ /\ item' = item + 1 /\ ~Is(item, {"bad"})
              /\ item \in Stores => item \in Waiting(storeCh')
    BY <1>2, <1>5, ScanMoves
  <2>2. \A j \in Items : j < item' => j < item \/ (j = item /\ item' = item + 1)
    BY <1>2, <2>1
  <2>3. CleanInv'
    BY <1>1, <1>2, <2>1, <2>2 DEF CleanInv
  <2>4. ASSUME NEW k \in Stores, k < item'
        PROVE  k \in Waiting(storeCh') \/ Held(k)' \/ Whole(k)' \/ firstErr' # "none"
    <3>1. CASE k < item
      BY <1>1, <1>2, <2>1, <3>1 DEF DoneInv, Held, Whole, Busy
    <3>2. CASE k = item /\ item' = item + 1
      BY <1>2, <2>1, <3>2
    <3>. QED BY <1>3, <2>2, <2>4, <3>1, <3>2
  <2>5. DoneInv'
    BY <1>1, <1>2, <2>1, <2>4 DEF DoneInv, Whole
  <2>. QED BY <2>3, <2>5
<1>. QED BY <1>4, <1>5

LEMMA EndStep ==
  ASSUME WholeInv, CauseInv, [Next]_vars
  PROVE  EndInv'
<1>1. EndInv /\ RingInv /\ StopInv
  BY DEF WholeInv
<1>2. PICK u \in Workers : TRUE
  BY StreamConstants
<1>3. wk \in [Workers -> [phase : Phases, store : Nat, next : Nat, bad : BOOLEAN, stuck : BOOLEAN]]
  BY <1>1 DEF RingInv, HandsOK
<1>4. s1 = "done" => s1' = "done" /\ s1err' = s1err
  BY DEF Next, StreamNext, Stage1, Take, Write, ScanStore, ScanItem, SourceEnds, Emit, Stage1Done, Scanning,
         StagesEnd, Finalize, SetEnd, Work, TakeStore, WorkerExits, ReadMore, Deliver, BoundaryEnds, EofEnds,
         WaveEnds, Malformed, GivesUp, StoreFault, Fetcher, FetchReturns, ChunkReady, Interrupt, CancelFetch,
         FailTailing, Report, Prefetch, PfOpen, PfShip, PfEnds, PfStop, PfBreaks, Ships, vars, streamVars, scanVars
<1>5. s1 = "done" /\ storeCh = <<>> => storeCh' = <<>>
  BY DEF Next, StreamNext, Stage1, Take, Write, ScanStore, ScanItem, SourceEnds, Emit, Stage1Done, Scanning,
         StagesEnd, Finalize, SetEnd, Work, TakeStore, WorkerExits, ReadMore, Deliver, BoundaryEnds, EofEnds,
         WaveEnds, Malformed, GivesUp, StoreFault, Fetcher, FetchReturns, ChunkReady, Interrupt, CancelFetch,
         FailTailing, Report, Prefetch, PfOpen, PfShip, PfEnds, PfStop, PfBreaks, Ships, vars, streamVars
<1>6. ASSUME NEW v \in Workers, wk'[v].phase = "exit" PROVE storeCh' = <<>> /\ s1' = "done"
  <2>1. CASE wk[v].phase = "exit"
    BY <1>1, <1>4, <1>5, <2>1 DEF EndInv
  <2>2. CASE wk[v].phase # "exit"
    <3>1. PICK w \in Workers : Work(w) \/ SetEnd(w) \/ StoreFault(w)
      BY <1>1, <1>6, <2>2, ScanMoves
    <3>2. v = w
      BY <1>6, <2>2, <3>1, Settles DEF Settled
    <3>3. WorkerExits(v)
      <4>1. CASE TakeStore(v)
        <5>1. wk' = wk \/ \E h : wk' = [wk EXCEPT ![v] = [@ EXCEPT !.phase = "read", !.store = h, !.next = h]]
          BY <4>1 DEF TakeStore
        <5>2. wk'[v].phase \in {wk[v].phase, "read"}
          BY <1>3, <5>1
        <5>. QED BY <1>6, <2>2, <5>2
      <4>2. CASE Deliver(v)
        <5>1. wk'[v].phase \in {"past", wk[v].phase}
          BY <1>3, <4>2 DEF Deliver
        <5>. QED BY <1>6, <2>2, <5>1
      <4>3. CASE \E b : wk' = [wk EXCEPT ![v] = [Idle EXCEPT !.stuck = b]]
        BY <1>3, <1>6, <4>3 DEF Idle
      <4>4. CASE \E b : wk' = [wk EXCEPT ![v].phase = "past", ![v].bad = TRUE, ![v].stuck = b]
        BY <1>3, <1>6, <4>4
      <4>5. CASE wk' = wk
        BY <1>6, <2>2, <4>5
      <4>. QED
        BY <3>1, <3>2, <4>1, <4>2, <4>3, <4>4, <4>5
        DEF Work, ReadMore, BoundaryEnds, EofEnds, WaveEnds, StoreEnds, Malformed, SetEnd, GivesUp, StoreFault
    <3>. QED BY <3>3 DEF WorkerExits, scanVars
  <2>. QED BY <2>1, <2>2
<1>7. ASSUME imp \in {"final", "ok"}
      PROVE  firstErr' = "none" /\ s1err' = "none" /\ \A w \in Workers : wk'[w].phase = "exit"
  <2>1. firstErr = "none" /\ s1err = "none" /\ (\A w \in Workers : wk[w].phase = "exit") /\ s1 = "done"
    BY <1>1, <1>2, <1>7 DEF EndInv
  <2>2. ~(\E w \in Workers : Work(w) \/ SetEnd(w) \/ StoreFault(w))
    BY <2>1 DEF Work, TakeStore, WorkerExits, ReadMore, Deliver, BoundaryEnds, EofEnds, WaveEnds, Malformed,
                SetEnd, StoreFault, Busy
  <2>. QED BY <1>1, <1>4, <2>1, <2>2, ScanMoves
<1>8. ASSUME imp' \in {"final", "ok"}
      PROVE  firstErr' = "none" /\ s1err' = "none" /\ \A w \in Workers : wk'[w].phase = "exit"
  <2>1. CASE imp \in {"final", "ok"}
    BY <1>7, <2>1
  <2>2. CASE StagesEnd
    <3>1. firstErr \notin {"final", "ok"} /\ s1err \notin {"final", "ok"}
      BY DEF CauseInv, CauseOK, Causes
    <3>. QED BY <1>8, <2>2, <3>1 DEF StagesEnd, scanVars
  <2>3. CASE UNCHANGED imp
    BY <1>8, <2>1, <2>3
  <2>4. CASE Finalize
    BY <2>1, <2>4 DEF Finalize
  <2>. QED
    BY <2>2, <2>3, <2>4, WorkFrame
    DEF Next, StreamNext, Stage1, Take, Write, ScanStore, ScanItem, SourceEnds, Emit, Stage1Done,
        Fetcher, FetchReturns, ChunkReady, Interrupt, CancelFetch, FailTailing, Report,
        Prefetch, PfOpen, PfShip, PfEnds, PfStop, PfBreaks, Ships, vars, streamVars, outVars
<1>9. exit' = 0 => imp' = "ok" /\ fetch' = "done"
  <2>1. CASE exit' = exit
    BY <1>1, <2>1, ImpStep, PipeStep DEF EndInv
  <2>2. CASE Report
    BY <2>2 DEF Report, ImportOver, FinalErr, MapExitCode, FetchErrors, streamVars, outVars
  <2>. QED BY <2>1, <2>2, PipeStep
<1>. QED BY <1>6, <1>8, <1>9 DEF EndInv

(* A successful import took every store from its StoreItem to the item     *)
(* before the next store or the extensions, and met no unknown field; and  *)
(* the command exits 0 only if the fetch was complete too: for any streams *)
(* and buffers, with and without wave decoding, in whatever order readers, *)
(* listeners and boundaries come (parallel.go, pipeline.go finalize).      *)
THEOREM SuccessMeansWhole == Spec => []SuccessIsWhole
<1>1. Init => WholeInv
  <2> SUFFICES ASSUME Init PROVE WholeInv
    OBVIOUS
  <2>1. RingInv /\ SourceInv
    BY RingStart
  <2>2. FlowInv /\ StopInv
    BY DEF Init, StreamInit, FlowInv, StopInv
  <2>3. SpanInv
    BY DEF Init, StreamInit, SpanInv, NoReader
  <2>4. CleanInv
    BY StreamFacts DEF Init, StreamInit, CleanInv, Items
  <2>5. DoneInv
    <3>1. \A s \in Stores : ~(s < item)
      BY StreamFacts DEF Init, StreamInit, Stores, Items
    <3>. QED BY <3>1 DEF Init, StreamInit, DoneInv, Idle
  <2>6. EndInv
    BY DEF Init, StreamInit, EndInv, Idle
  <2>. QED BY <2>1, <2>2, <2>3, <2>4, <2>5, <2>6 DEF WholeInv
<1>2. WholeInv /\ CauseInv /\ [Next]_vars => WholeInv'
  BY RingStep, SourceStep, FlowStep, StopStep, SpanStep, DoneStep, EndStep DEF WholeInv
<1>3. ASSUME WholeInv PROVE SuccessIsWhole
  <2>1. EndInv /\ stream \in Streams /\ item \in Places /\ Len(stream) \in Nat
    BY <1>3, StreamFacts DEF WholeInv, RingInv, HandsOK
  <2>2. ASSUME imp \in {"final", "ok"}
        PROVE  (\A s \in Stores : imported[s] = LastOf(s)) /\ (\A j \in Items : ~Is(j, {"bad"}))
    <3>1. PICK u \in Workers : TRUE
      BY StreamConstants
    <3>2. /\ firstErr = "none" /\ s1err = "none" /\ storeCh = <<>> /\ s1 = "done"
          /\ \A w \in Workers : wk[w].phase = "exit"
      BY <2>1, <2>2, <3>1 DEF EndInv
    <3>3. item \notin Items
      BY <1>3, <3>2 DEF WholeInv, StopInv
    <3>4. \A j \in Items : j < item
      BY <2>1, <3>3 DEF Items, Places
    <3>5. \A j \in Items : ~Is(j, {"bad"})
      BY <1>3, <3>4 DEF WholeInv, CleanInv
    <3>6. ASSUME NEW s \in Stores PROVE imported[s] = LastOf(s)
      <4>1. s < item
        BY <3>4 DEF Stores
      <4>2. Waiting(storeCh) = {} /\ ~Held(s)
        BY <3>2 DEF Waiting, Held, Busy
      <4>3. Whole(s)
        BY <1>3, <3>2, <4>1, <4>2 DEF WholeInv, DoneInv
      <4>. QED BY <4>3 DEF Whole, LastOf, Bound
    <3>. QED BY <3>5, <3>6
  <2>. QED BY <2>1, <2>2 DEF SuccessIsWhole, EndInv
<1>4. Init => CauseInv
  BY DEF Init, StreamInit, CauseInv, CauseOK, FetchCause, CancelCause, CauseReported, Causes, FetchErrors
<1>. QED BY <1>1, <1>2, <1>3, <1>4, CauseStep, PTL DEF Spec
=============================================================================
