----------------------- MODULE ChunkScheduler_proofs -----------------------
(***************************************************************************)
(* Proofs about the chunk scheduler, for any number of chunks and peers,   *)
(* any limits, any number of restarts.                                     *)
(***************************************************************************)
EXTENDS ChunkScheduler, FiniteSetTheorems, NaturalsInduction,
        WellFoundedInduction, TLAPS

-----------------------------------------------------------------------------
(* The chunk indices are finitely many, and so is every set of them.       *)
LEMMA ChunksFinite ==
  /\ IsFiniteSet(Chunks) /\ Cardinality(Chunks) = N
  /\ \A S \in SUBSET Chunks : IsFiniteSet(S) /\ Cardinality(S) \in Nat
<1>1. IsFiniteSet(Chunks) /\ Cardinality(Chunks) = N
  <2>1. 0 \in Int /\ N - 1 \in Int
    BY SchedulerConstants
  <2>. QED
    BY <2>1, FS_Interval, SchedulerConstants DEF Chunks
<1>2. ASSUME NEW S \in SUBSET Chunks
      PROVE  IsFiniteSet(S) /\ Cardinality(S) \in Nat
  BY <1>1, FS_Subset, FS_CardinalityType
<1>. QED
  BY <1>1, <1>2

(* A nonempty set of naturals has a least element.                         *)
LEMMA LeastElement ==
  ASSUME NEW S \in SUBSET Nat, S # {}
  PROVE  \E i \in S : \A j \in S : i <= j
<1>1. PICK i \in S : \A j \in S : ~(<<j, i>> \in OpToRel(<, Nat))
  BY NatLessThanWellFounded, WFMin
<1>2. \A j \in S : ~(j < i)
  BY <1>1 DEF OpToRel
<1>. QED
  BY <1>2

(* The chunk dispatch works on is a pending chunk at or above the cursor.  *)
LEMMA NextChunkPending ==
  ASSUME TypeOK, StillPending # {}
  PROVE  /\ NextChunk \in pending /\ NextChunk \in Chunks
         /\ NextChunk \in 0 .. (N - 1) /\ NextChunk + 1 \in 0 .. N
<1>1. StillPending \in SUBSET Nat
  <2>1. StillPending \subseteq Chunks
    BY DEF TypeOK, StillPending
  <2>2. Chunks \subseteq Nat
    BY SchedulerConstants DEF Chunks
  <2>. QED
    BY <2>1, <2>2
<1>2. \E i \in StillPending : \A j \in StillPending : i <= j
  BY <1>1, LeastElement
<1>3. NextChunk \in StillPending
  BY <1>2 DEF NextChunk
<1>. QED
  BY <1>3, SchedulerConstants DEF StillPending, TypeOK, Chunks

(* Giving back slots leaves a natural number.                              *)
LEMMA LessNat ==
  ASSUME NEW n \in Nat, NEW k \in Nat
  PROVE  Less(n, k) \in Nat
BY DEF Less

-----------------------------------------------------------------------------
LEMMA TypeInit == Init => TypeOK
<1> SUFFICES ASSUME Init PROVE TypeOK
  OBVIOUS
<1>1. asked \in [Peers -> [Chunks -> Nat]]
  BY DEF Init, WalkLeftovers
<1>2. disk \in [Chunks -> FileState]
  BY SchedulerConstants DEF Init, FileState
<1>3. 0 \in 0 .. N
  BY SchedulerConstants
<1>. QED
  BY <1>1, <1>2, <1>3 DEF Init, TypeOK

LEMMA TypeBegin ==
  ASSUME TypeOK, NEW good \in SUBSET Peers, NEW unreadable \in SUBSET Chunks,
         NEW stuck \in SUBSET Chunks, Begin(good, unreadable, stuck)
  PROVE  TypeOK'
<1>1. Resumed(unreadable) \in SUBSET Chunks
  BY DEF Resumed
<1>2. Cardinality(Resumed(unreadable)) \in Nat
  BY <1>1, ChunksFinite
<1>3. Swept(unreadable, stuck) \in [Chunks -> FileState]
  BY DEF Swept, TypeOK, FileState
<1>4. 0 \in 0 .. N
  BY SchedulerConstants
<1>. QED
  BY <1>1, <1>2, <1>3, <1>4
  DEF TypeOK, Begin, FreshScheduler, netVars, boundVars

LEMMA TypeDispatch ==
  ASSUME TypeOK, DispatchStep
  PROVE  TypeOK'
<1>1. ASSUME NEW p \in Peers, DispatchRequest(p) PROVE TypeOK'
  <2>1. NextChunk \in Chunks /\ NextChunk + 1 \in 0 .. N
    BY <1>1, NextChunkPending DEF DispatchRequest, InDispatch
  <2>2. cursor' \in 0 .. N
    BY <1>1, <2>1 DEF DispatchRequest, InDispatch
  <2>3. asked' \in [Peers -> [Chunks -> Nat]]
    BY <1>1, <2>1 DEF DispatchRequest, TypeOK
  <2>4. /\ inflight' \in [Chunks -> Peers \cup {NoPeer}]
        /\ age' \in [Chunks -> Nat] /\ slots' \in [Peers -> Nat]
    BY <1>1, <2>1 DEF DispatchRequest, TypeOK
  <2>. QED
    BY <1>1, <2>2, <2>3, <2>4 DEF TypeOK, DispatchRequest, netVars, boundVars
<1>2. ASSUME NEW p \in Peers, DispatchQueueFull(p) PROVE TypeOK'
  <2>1. cursor' \in 0 .. N
    BY <1>2, NextChunkPending DEF DispatchQueueFull, InDispatch
  <2>. QED
    BY <1>2, <2>1 DEF TypeOK, DispatchQueueFull, loopVars, statVars, netVars,
                      boundVars
<1>3. ASSUME NEW p \in Peers, DispatchVanished(p) PROVE TypeOK'
  <2>1. cursor' \in 0 .. N
    BY <1>3, NextChunkPending DEF DispatchVanished, InDispatch
  <2>. QED
    BY <1>3, <2>1 DEF TypeOK, DispatchVanished, loopVars
<1>4. ASSUME DispatchReturn PROVE TypeOK'
  BY <1>4, SchedulerConstants
  DEF TypeOK, DispatchReturn, loopVars, statVars, netVars, boundVars
<1>. QED
  BY <1>1, <1>2, <1>3, <1>4 DEF DispatchStep

LEMMA TypeLoop ==
  ASSUME TypeOK, TimeoutTick \/ Finish \/ GiveUp \/ Cancel
  PROVE  TypeOK'
<1>1. ASSUME TimeoutTick PROVE TypeOK'
  <2>1. \A p \in Peers : Cardinality(ExpiredAt(p)) \in Nat
    BY ChunksFinite DEF ExpiredAt, Expired
  <2>2. slots' \in [Peers -> Nat]
    BY <1>1, <2>1, LessNat DEF TimeoutTick, TypeOK
  <2>3. ProbeTimeouts \subseteq Peers /\ Expired \subseteq Chunks
    BY DEF ProbeTimeouts, Expired, TypeOK
  <2>4. /\ connected' \in SUBSET Peers /\ mgrBanned' \in SUBSET Peers
        /\ removedEv' \in SUBSET Peers /\ connectedEv' \in SUBSET Peers
    BY <1>1, <2>3 DEF TimeoutTick, BanAndDrop, TypeOK
  <2>. QED
    BY <1>1, <2>2, <2>3, <2>4 DEF TypeOK, TimeoutTick, ToDispatch, boundVars
<1>2. ASSUME Finish \/ GiveUp \/ Cancel PROVE TypeOK'
  BY <1>2 DEF TypeOK, Finish, GiveUp, Cancel, Outcomes, loopVars, statVars,
              netVars, boundVars
<1>. QED
  BY <1>1, <1>2

LEMMA TypeCtrlEvent ==
  ASSUME TypeOK, NEW p \in Peers, OnConnect(p) \/ OnRemoved(p)
  PROVE  TypeOK'
<1>1. ASSUME OnConnect(p) PROVE TypeOK'
  BY <1>1 DEF TypeOK, OnConnect, ToDispatch, loopVars, boundVars
<1>2. ASSUME OnRemoved(p) PROVE TypeOK'
  BY <1>2 DEF TypeOK, OnRemoved, ToDispatch, boundVars
<1>. QED
  BY <1>1, <1>2

(* What every answer changes keeps its type.                               *)
LEMMA TypeReceive ==
  ASSUME TypeOK, NEW p \in Peers, NEW i \in Chunks, Receive(p, i)
  PROVE  /\ asked' \in [Peers -> [Chunks -> Nat]]
         /\ tracked' \in SUBSET Peers
         /\ inflight' \in [Chunks -> Peers \cup {NoPeer}]
         /\ age' \in [Chunks -> Nat]
         /\ slots' \in [Peers -> Nat]
         /\ offer' \in Nat /\ restarts' \in Nat /\ churn' \in Nat
<1>1. asked' \in [Peers -> [Chunks -> Nat]]
  BY DEF TypeOK, Receive
<1>2. slots' \in [Peers -> Nat]
  BY LessNat DEF TypeOK, Receive
<1>. QED
  BY <1>1, <1>2 DEF TypeOK, Receive, boundVars

LEMMA TypeOnChunk ==
  ASSUME TypeOK, NEW p \in Peers, NEW i \in Chunks, OnChunk(p, i)
  PROVE  TypeOK'
<1>1. ASSUME OnChunkDuplicate(p, i) PROVE TypeOK'
  BY <1>1, TypeReceive DEF TypeOK, OnChunkDuplicate, netVars
<1>2. ASSUME OnChunkMissing(p, i) PROVE TypeOK'
  BY <1>2, TypeReceive DEF TypeOK, OnChunkMissing, ToDispatch, netVars
<1>3. ASSUME OnChunkMismatch(p, i) PROVE TypeOK'
  <2>1. /\ banned' \in SUBSET Peers
        /\ connected' \in SUBSET Peers /\ mgrBanned' \in SUBSET Peers
        /\ removedEv' \in SUBSET Peers /\ connectedEv' \in SUBSET Peers
    BY <1>3 DEF TypeOK, OnChunkMismatch, BanAndDrop, netVars
  <2>. QED
    BY <1>3, <2>1, TypeReceive DEF TypeOK, OnChunkMismatch, ToDispatch
<1>4. ASSUME OnChunkWriteFails(p, i) PROVE TypeOK'
  <2>1. disk' \in [Chunks -> FileState]
    BY <1>4 DEF TypeOK, OnChunkWriteFails, FileState
  <2>. QED
    BY <1>4, <2>1, TypeReceive
    DEF TypeOK, OnChunkWriteFails, Verified, ToDispatch, netVars
<1>5. ASSUME OnChunkStored(p, i) PROVE TypeOK'
  BY <1>5, TypeReceive
  DEF TypeOK, OnChunkStored, Verified, ToDispatch, netVars, FileState
<1>. QED
  BY <1>1, <1>2, <1>3, <1>4, <1>5 DEF OnChunk

LEMMA TypeEnvironment ==
  ASSUME TypeOK, Environment
  PROVE  TypeOK'
<1>1. ASSUME NEW p \in Peers, PeerConnects(p) \/ PeerDisconnects(p)
      PROVE  TypeOK'
  BY <1>1 DEF TypeOK, PeerConnects, PeerDisconnects, Churn, loopVars, statVars
<1>2. ASSUME NEW p \in Peers, PeerEvicted(p) PROVE TypeOK'
  BY <1>2 DEF TypeOK, PeerEvicted, BanAndDrop, Churn, loopVars, statVars
<1>3. ASSUME NEW p \in Peers, CtrlEventDropped(p) PROVE TypeOK'
  BY <1>3 DEF TypeOK, CtrlEventDropped, loopVars, statVars, boundVars
<1>4. ASSUME Restart PROVE TypeOK'
  <2>1. disk' \in [Chunks -> FileState] /\ offer' \in Nat
    BY <1>4 DEF TypeOK, Restart, Reappraised
  <2>2. asked' \in [Peers -> [Chunks -> Nat]]
    BY <1>4 DEF Restart, WalkLeftovers
  <2>3. 0 \in 0 .. N
    BY SchedulerConstants
  <2>. QED
    BY <1>4, <2>1, <2>2, <2>3 DEF TypeOK, Restart, FreshScheduler
<1>. QED
  BY <1>1, <1>2, <1>3, <1>4 DEF Environment

LEMMA TypeStep == TypeOK /\ [Next]_vars => TypeOK'
<1> SUFFICES ASSUME TypeOK, [Next]_vars PROVE TypeOK'
  OBVIOUS
<1>1. CASE Scheduler
  BY <1>1, TypeBegin, TypeDispatch, TypeLoop, TypeCtrlEvent, TypeOnChunk
  DEF Scheduler, DispatchStep
<1>2. CASE Environment
  BY <1>2, TypeEnvironment
<1>3. CASE Done \/ UNCHANGED vars
  BY <1>3 DEF Done, TypeOK, vars, loopVars, statVars, netVars, boundVars
<1>. QED
  BY <1>1, <1>2, <1>3 DEF Next

(* Every variable of the scheduler keeps its type: no slot or strike       *)
(* counter goes below zero and the dispatch cursor stays inside the chunk  *)
(* range, in every reachable state.                                        *)
THEOREM TypeCorrect == Spec => []TypeOK
<1>1. Init => TypeOK
  BY TypeInit
<1>2. TypeOK /\ [Next]_vars => TypeOK'
  BY TypeStep
<1>. QED
  BY <1>1, <1>2, PTL DEF Spec

-----------------------------------------------------------------------------
(***************************************************************************)
(* The inductive invariant.  FinishedComplete is about files; what makes   *)
(* it inductive is the chain doneCount = |completed|, completed chunks are *)
(* on disk, and success is reported at doneCount >= N only.                *)
(***************************************************************************)
FinishedCount == pc = "finished" => doneCount >= N

SafeInv == /\ NoChunkLost
           /\ DoneCountExact
           /\ CompletedOnDisk
           /\ ReadyExactlyOnce
           /\ FinishedCount

LEMMA SafeInit == Init => SafeInv
BY FS_EmptySet, SchedulerConstants
DEF Init, SafeInv, NoChunkLost, DoneCountExact, CompletedOnDisk,
    ReadyExactlyOnce, FinishedCount

LEMMA SafeBegin ==
  ASSUME TypeOK, SafeInv, NEW good \in SUBSET Peers,
         NEW unreadable \in SUBSET Chunks, NEW stuck \in SUBSET Chunks,
         Begin(good, unreadable, stuck)
  PROVE  SafeInv'
<1>1. Resumed(unreadable) \subseteq Chunks
  BY DEF Resumed
<1>2. CompletedOnDisk'
  BY DEF Begin, CompletedOnDisk, Resumed, Swept, TypeOK
<1>3. NoChunkLost' /\ ReadyExactlyOnce' /\ FinishedCount' /\ DoneCountExact'
  BY <1>1 DEF Begin, NoChunkLost, ReadyExactlyOnce, FinishedCount, DoneCountExact
<1>. QED
  BY <1>2, <1>3 DEF SafeInv

(* Steps that leave completed, doneCount, ready and disk alone and keep    *)
(* every chunk somewhere.                                                  *)
LEMMA SafeQuiet ==
  ASSUME SafeInv, NoChunkLost', pc' # "finished" \/ pc = "finished",
         UNCHANGED <<completed, doneCount, ready, disk>>
  PROVE  SafeInv'
BY DEF SafeInv, DoneCountExact, CompletedOnDisk, ReadyExactlyOnce, FinishedCount

LEMMA SafeDispatch ==
  ASSUME TypeOK, SafeInv, DispatchStep
  PROVE  SafeInv'
<1>1. ASSUME NEW p \in Peers, DispatchRequest(p) PROVE SafeInv'
  <2>1. NextChunk \in Chunks
    BY <1>1, NextChunkPending DEF DispatchRequest, InDispatch
  <2>2. NoChunkLost'
    BY <1>1, <2>1, SchedulerConstants
    DEF SafeInv, NoChunkLost, DispatchRequest, InDispatch, TypeOK
  <2>. QED
    BY <1>1, <2>2, SafeQuiet DEF DispatchRequest, InDispatch
<1>2. ASSUME NEW p \in Peers, DispatchQueueFull(p) \/ DispatchVanished(p)
      PROVE  SafeInv'
  <2>1. NoChunkLost'
    BY <1>2 DEF SafeInv, NoChunkLost, DispatchQueueFull, DispatchVanished,
                InDispatch, loopVars
  <2>. QED
    BY <1>2, <2>1, SafeQuiet
    DEF DispatchQueueFull, DispatchVanished, InDispatch, loopVars
<1>3. ASSUME DispatchReturn PROVE SafeInv'
  <2>1. NoChunkLost'
    BY <1>3 DEF SafeInv, NoChunkLost, DispatchReturn, loopVars
  <2>. QED
    BY <1>3, <2>1, SafeQuiet DEF DispatchReturn, loopVars
<1>. QED
  BY <1>1, <1>2, <1>3 DEF DispatchStep

LEMMA SafeLoop ==
  ASSUME TypeOK, SafeInv, TimeoutTick \/ Finish \/ GiveUp \/ Cancel
  PROVE  SafeInv'
<1>1. ASSUME TimeoutTick PROVE SafeInv'
  <2>1. NoChunkLost'
    BY <1>1 DEF SafeInv, NoChunkLost, TimeoutTick, LoopRuns, Expired, TypeOK
  <2>. QED
    BY <1>1, <2>1, SafeQuiet DEF TimeoutTick, ToDispatch
<1>2. ASSUME Finish \/ GiveUp \/ Cancel PROVE SafeInv'
  BY <1>2 DEF SafeInv, NoChunkLost, DoneCountExact, CompletedOnDisk,
              ReadyExactlyOnce, FinishedCount, Finish, GiveUp, Cancel,
              LoopRuns, loopVars
<1>. QED
  BY <1>1, <1>2

LEMMA SafeCtrlEvent ==
  ASSUME TypeOK, SafeInv, NEW p \in Peers, OnConnect(p) \/ OnRemoved(p)
  PROVE  SafeInv'
<1>1. NoChunkLost'
  BY DEF SafeInv, NoChunkLost, OnConnect, OnRemoved, LoopRuns, loopVars, TypeOK
<1>. QED
  BY <1>1, SafeQuiet DEF OnConnect, OnRemoved, ToDispatch, loopVars

LEMMA SafeOnChunk ==
  ASSUME TypeOK, SafeInv, NEW p \in Peers, NEW i \in Chunks, OnChunk(p, i)
  PROVE  SafeInv'
<1>1. ASSUME Receive(p, i), UNCHANGED completed,
             pending \subseteq pending', i \in completed \cup pending'
      PROVE  NoChunkLost'
  BY <1>1 DEF SafeInv, NoChunkLost, Receive, LoopRuns, TypeOK
<1>2. ASSUME OnChunkDuplicate(p, i) PROVE SafeInv'
  <2>1. NoChunkLost'
    BY <1>1, <1>2 DEF OnChunkDuplicate
  <2>. QED
    BY <1>2, <2>1, SafeQuiet DEF OnChunkDuplicate
<1>3. ASSUME OnChunkMissing(p, i) \/ OnChunkMismatch(p, i) PROVE SafeInv'
  <2>1. NoChunkLost'
    BY <1>1, <1>3 DEF OnChunkMissing, OnChunkMismatch
  <2>. QED
    BY <1>3, <2>1, SafeQuiet DEF OnChunkMissing, OnChunkMismatch, ToDispatch
<1>4. ASSUME OnChunkWriteFails(p, i) PROVE SafeInv'
  <2>1. NoChunkLost'
    BY <1>1, <1>4 DEF OnChunkWriteFails, Verified
  <2>. QED
    BY <1>4, <2>1 DEF OnChunkWriteFails, Verified, ToDispatch, SafeInv, TypeOK,
                      DoneCountExact, CompletedOnDisk, ReadyExactlyOnce,
                      FinishedCount
<1>5. ASSUME OnChunkStored(p, i) PROVE SafeInv'
  <2>1. NoChunkLost'
    BY <1>5 DEF SafeInv, NoChunkLost, OnChunkStored, Verified, Receive,
                LoopRuns, TypeOK
  <2>2. DoneCountExact'
    <3>1. IsFiniteSet(completed)
      BY ChunksFinite DEF TypeOK
    <3>2. Cardinality(completed \cup {i}) = Cardinality(completed) + 1
      BY <3>1, <1>5, FS_AddElement DEF OnChunkStored, Verified
    <3>. QED
      BY <1>5, <3>2 DEF SafeInv, DoneCountExact, OnChunkStored
  <2>3. CompletedOnDisk' /\ ReadyExactlyOnce' /\ FinishedCount'
    BY <1>5 DEF SafeInv, CompletedOnDisk, ReadyExactlyOnce, FinishedCount,
                OnChunkStored, Verified, ToDispatch, TypeOK
  <2>. QED
    BY <2>1, <2>2, <2>3 DEF SafeInv
<1>. QED
  BY <1>2, <1>3, <1>4, <1>5 DEF OnChunk

LEMMA SafeEnvironment ==
  ASSUME TypeOK, SafeInv, Environment
  PROVE  SafeInv'
<1>1. ASSUME NEW p \in Peers, \/ PeerConnects(p) \/ PeerDisconnects(p)
                             \/ PeerEvicted(p) \/ CtrlEventDropped(p)
      PROVE  SafeInv'
  <2>1. NoChunkLost'
    BY <1>1 DEF SafeInv, NoChunkLost, PeerConnects, PeerDisconnects,
                PeerEvicted, CtrlEventDropped, loopVars
  <2>. QED
    BY <1>1, <2>1, SafeQuiet DEF PeerConnects, PeerDisconnects, PeerEvicted,
                                 CtrlEventDropped, loopVars
<1>2. ASSUME Restart PROVE SafeInv'
  BY <1>2, FS_EmptySet
  DEF Restart, SafeInv, NoChunkLost, DoneCountExact, CompletedOnDisk,
      ReadyExactlyOnce, FinishedCount
<1>. QED
  BY <1>1, <1>2 DEF Environment

LEMMA SafeStep == TypeOK /\ SafeInv /\ [Next]_vars => SafeInv'
<1> SUFFICES ASSUME TypeOK, SafeInv, [Next]_vars PROVE SafeInv'
  OBVIOUS
<1>1. CASE Scheduler
  BY <1>1, SafeBegin, SafeDispatch, SafeLoop, SafeCtrlEvent, SafeOnChunk
  DEF Scheduler, DispatchStep
<1>2. CASE Environment
  BY <1>2, SafeEnvironment
<1>3. CASE Done \/ UNCHANGED vars
  <2>1. NoChunkLost'
    BY <1>3 DEF Done, SafeInv, NoChunkLost, vars, loopVars
  <2>. QED
    BY <1>3, <2>1, SafeQuiet DEF Done, vars, loopVars
<1>. QED
  BY <1>1, <1>2, <1>3 DEF Next

(* A full count means every chunk of the offer is on disk and matches.     *)
LEMMA FullCount ==
  ASSUME TypeOK, SafeInv, doneCount >= N
  PROVE  \A i \in Chunks : disk[i] = "match"
<1>1. completed \in SUBSET Chunks /\ IsFiniteSet(Chunks) /\ Cardinality(Chunks) = N
  BY ChunksFinite DEF TypeOK
<1>2. Cardinality(completed) <= N /\ Cardinality(completed) \in Nat
  BY <1>1, FS_Subset, ChunksFinite
<1>3. Cardinality(completed) = N
  BY <1>2, SchedulerConstants DEF SafeInv, DoneCountExact
<1>4. completed = Chunks
  BY <1>1, <1>3, FS_Subset
<1>. QED
  BY <1>4 DEF SafeInv, CompletedOnDisk

(* In every state of every run: no chunk is forgotten, doneCount is the    *)
(* number of stored chunks, a stored chunk is a matching file and was      *)
(* reported ready exactly once, and success means all files are there.     *)
THEOREM SchedulerSafe ==
  Spec => [](NoChunkLost /\ DoneCountExact /\ CompletedOnDisk
               /\ ReadyExactlyOnce /\ FinishedComplete)
<1>1. Init => TypeOK /\ SafeInv
  BY TypeInit, SafeInit
<1>2. TypeOK /\ SafeInv /\ [Next]_vars => TypeOK' /\ SafeInv'
  BY TypeStep, SafeStep
<1>3. TypeOK /\ SafeInv => /\ NoChunkLost /\ DoneCountExact /\ CompletedOnDisk
                          /\ ReadyExactlyOnce /\ FinishedComplete
  BY FullCount DEF SafeInv, FinishedCount, FinishedComplete
<1>. QED
  BY <1>1, <1>2, <1>3, PTL DEF Spec

(* The importer that tails the download hears of every stored chunk, and   *)
(* of none twice, across retries, late duplicates and resumed runs         *)
(* (onChunkReady, 340-342 and 740-742).                                    *)
THEOREM AnnouncedOnce == Spec => []ReadyExactlyOnce
BY SchedulerSafe, PTL

-----------------------------------------------------------------------------
(***************************************************************************)
(* Refinement: every step of the scheduler is a step of ChunkDelivery or   *)
(* leaves what it sees unchanged.                                          *)
(***************************************************************************)
LEMMA RefinementInit == Init => Delivery!Init
BY DEF Init, Delivery!Init, Have, Status, Outcomes

LEMMA RefinementStutter ==
  ASSUME UNCHANGED <<disk, offer>>,
         \/ pc \in {"init", "dispatch", "select"} /\ pc' \in {"init", "dispatch", "select"}
         \/ pc' = pc
  PROVE  UNCHANGED Delivery!vars
BY DEF Delivery!vars, Have, Status, Outcomes

LEMMA RefinementScheduler ==
  ASSUME TypeOK, SafeInv, Scheduler
  PROVE  [Delivery!Next]_(Delivery!vars)
<1>1. ASSUME NEW good \in SUBSET Peers, NEW unreadable \in SUBSET Chunks,
             NEW stuck \in SUBSET Chunks, Begin(good, unreadable, stuck)
      PROVE  UNCHANGED Delivery!vars
  <2>1. Have' = Have
    BY <1>1 DEF Begin, Have, Swept, TypeOK
  <2>2. Status' = Status /\ offer' = offer
    BY <1>1 DEF Begin, Status, Outcomes, boundVars
  <2>. QED
    BY <2>1, <2>2 DEF Delivery!vars
<1>2. ASSUME DispatchStep PROVE UNCHANGED Delivery!vars
  BY <1>2, RefinementStutter
  DEF DispatchStep, DispatchRequest, DispatchQueueFull, DispatchVanished,
      DispatchReturn, InDispatch, boundVars
<1>3. ASSUME TimeoutTick PROVE UNCHANGED Delivery!vars
  BY <1>3, RefinementStutter DEF TimeoutTick, LoopRuns, ToDispatch, boundVars
<1>4. ASSUME NEW p \in Peers, OnConnect(p) \/ OnRemoved(p)
      PROVE  UNCHANGED Delivery!vars
  BY <1>4, RefinementStutter DEF OnConnect, OnRemoved, LoopRuns, ToDispatch, boundVars
<1>5. ASSUME NEW p \in Peers, NEW i \in Chunks, OnChunk(p, i), disk' = disk
      PROVE  UNCHANGED Delivery!vars
  BY <1>5, RefinementStutter
  DEF OnChunk, OnChunkDuplicate, OnChunkMissing, OnChunkMismatch,
      OnChunkWriteFails, OnChunkStored, Verified, Receive, LoopRuns,
      ToDispatch, boundVars
<1>6. ASSUME NEW p \in Peers, NEW i \in Chunks, OnChunk(p, i), disk' # disk
      PROVE  Delivery!Deliver(i)
  <2>1. OnChunkStored(p, i) \/ OnChunkWriteFails(p, i)
    BY <1>6 DEF OnChunk, OnChunkDuplicate, OnChunkMissing, OnChunkMismatch
  <2>2. Have' = Have \cup {i}
    BY <1>6, <2>1 DEF OnChunkStored, OnChunkWriteFails, Have, TypeOK
  <2>3. Status = "running" /\ Status' = "running" /\ offer' = offer
    BY <2>1 DEF OnChunkStored, OnChunkWriteFails, Verified, Receive, LoopRuns, ToDispatch,
                boundVars, Status, Outcomes
  <2>. QED
    BY <2>2, <2>3 DEF Delivery!Deliver
<1>7. ASSUME Finish PROVE Delivery!Finish
  <2>1. Have = Chunks
    BY <1>7, FullCount DEF Finish, Have
  <2>2. Have' = Have /\ offer' = offer
    BY <1>7 DEF Finish, Have, boundVars
  <2>3. Status = "running" /\ Status' = "finished"
    BY <1>7 DEF Finish, Status, Outcomes
  <2>. QED
    BY <2>1, <2>2, <2>3 DEF Delivery!Finish
<1>8. ASSUME GiveUp \/ Cancel PROVE Delivery!GiveUp
  <2>1. Have' = Have /\ offer' = offer
    BY <1>8 DEF GiveUp, Cancel, Have, boundVars
  <2>2. Status = "running" /\ Status' = "failed"
    BY <1>8 DEF GiveUp, Cancel, LoopRuns, Status, Outcomes
  <2>. QED
    BY <2>1, <2>2 DEF Delivery!GiveUp
<1>. QED
  BY <1>1, <1>2, <1>3, <1>4, <1>5, <1>6, <1>7, <1>8
  DEF Scheduler, DispatchStep, Delivery!Next

LEMMA RefinementEnvironment ==
  ASSUME TypeOK, Environment
  PROVE  [Delivery!Next]_(Delivery!vars)
<1>1. ASSUME NEW p \in Peers, \/ PeerConnects(p) \/ PeerDisconnects(p)
                             \/ PeerEvicted(p) \/ CtrlEventDropped(p)
      PROVE  UNCHANGED Delivery!vars
  BY <1>1, RefinementStutter DEF PeerConnects, PeerDisconnects, PeerEvicted,
                                 CtrlEventDropped, boundVars
<1>2. ASSUME Restart PROVE Delivery!Rerun \/ Delivery!Retarget
  <2>1. Status' = "running"
    BY <1>2 DEF Restart, Status, Outcomes
  <2>2. Have' \in SUBSET Chunks
    BY DEF Have
  <2>3. (Have' = Have /\ offer' = offer) \/ offer' = offer + 1
    BY <1>2 DEF Restart, Have
  <2>. QED
    BY <2>1, <2>2, <2>3 DEF Delivery!Rerun, Delivery!Retarget
<1>. QED
  BY <1>1, <1>2 DEF Environment, Delivery!Next

(* The scheduler implements ChunkDelivery: no expiry, strike, late answer, *)
(* failed write, crash or resume scan takes a verified chunk file away,    *)
(* and finished means complete.                                            *)
THEOREM SchedulerImplementsDelivery == Spec => Implements
<1>1. Init => Delivery!Init
  BY RefinementInit
<1>2. TypeOK /\ SafeInv /\ [Next]_vars => [Delivery!Next]_(Delivery!vars)
  <2> SUFFICES ASSUME TypeOK, SafeInv, [Next]_vars
               PROVE  [Delivery!Next]_(Delivery!vars)
    OBVIOUS
  <2>1. CASE Done \/ UNCHANGED vars
    BY <2>1, RefinementStutter DEF Done, vars, boundVars
  <2>. QED
    BY <2>1, RefinementScheduler, RefinementEnvironment DEF Next
<1>3. Init => TypeOK /\ SafeInv
  BY TypeInit, SafeInit
<1>4. TypeOK /\ SafeInv /\ [Next]_vars => TypeOK' /\ SafeInv'
  BY TypeStep, SafeStep
<1>. QED
  BY <1>1, <1>2, <1>3, <1>4, PTL DEF Spec, Implements, Delivery!Spec

-----------------------------------------------------------------------------
(***************************************************************************)
(* Honest peers.  They must be known as proven once the download runs, for *)
(* a probing peer is benched by a single timeout.                          *)
(***************************************************************************)
HonestInv == /\ HonestNeverBenched
             /\ Honest \cap provisional = {}
             /\ pc # "init" => Honest \subseteq tracked

LEMMA HonestStep == TypeOK /\ HonestInv /\ [Next]_vars => HonestInv'
<1> SUFFICES ASSUME TypeOK, HonestInv, [Next]_vars PROVE HonestInv'
  OBVIOUS
<1> USE DEF HonestInv, HonestNeverBenched
<1>1. ASSUME NEW good \in SUBSET Peers, NEW unreadable \in SUBSET Chunks,
             NEW stuck \in SUBSET Chunks, Begin(good, unreadable, stuck)
      PROVE  HonestInv'
  BY <1>1, SchedulerConstants DEF Begin, FreshScheduler, netVars
<1>2. ASSUME DispatchStep PROVE HonestInv'
  BY <1>2 DEF DispatchStep, DispatchRequest, DispatchQueueFull,
              DispatchVanished, DispatchReturn, InDispatch, statVars, netVars
<1>3. ASSUME TimeoutTick PROVE HonestInv'
  <2>1. Honest \cap ProbeTimeouts = {}
    BY DEF ProbeTimeouts
  <2>. QED
    BY <1>3, <2>1 DEF TimeoutTick, BanAndDrop, ToDispatch, LoopRuns
<1>4. ASSUME Finish \/ GiveUp \/ Cancel PROVE HonestInv'
  BY <1>4 DEF Finish, GiveUp, Cancel, LoopRuns, statVars, netVars
<1>5. ASSUME NEW p \in Peers, OnConnect(p) \/ OnRemoved(p) PROVE HonestInv'
  BY <1>5 DEF OnConnect, OnRemoved, LoopRuns, ToDispatch
<1>6. ASSUME NEW p \in Peers, NEW i \in Chunks, OnChunk(p, i) PROVE HonestInv'
  BY <1>6 DEF OnChunk, OnChunkDuplicate, OnChunkMissing, OnChunkMismatch,
              OnChunkWriteFails, OnChunkStored, Verified, Receive, LoopRuns,
              BanAndDrop, ToDispatch, netVars
<1>7. ASSUME Environment PROVE HonestInv'
  BY <1>7 DEF Environment, PeerConnects, PeerDisconnects, PeerEvicted,
              CtrlEventDropped, Restart, FreshScheduler, BanAndDrop, statVars
<1>8. CASE Done \/ UNCHANGED vars
  BY <1>8 DEF Done, vars, statVars, netVars
<1>. QED
  BY <1>1, <1>2, <1>3, <1>4, <1>5, <1>6, <1>7, <1>8
  DEF Next, Scheduler, DispatchStep

(* A peer that stays connected and only sends correct chunks is neither    *)
(* benched by the scheduler nor barred in the manager, however slow it is  *)
(* and whatever the other peers do.                                        *)
THEOREM HonestSafe == Spec => []HonestNeverBenched
<1>1. Init => TypeOK /\ HonestInv
  BY TypeInit DEF Init, HonestInv, HonestNeverBenched
<1>2. TypeOK /\ HonestInv /\ [Next]_vars => TypeOK' /\ HonestInv'
  BY TypeStep, HonestStep
<1>3. HonestInv => HonestNeverBenched
  BY DEF HonestInv
<1>. QED
  BY <1>1, <1>2, <1>3, PTL DEF Spec
=============================================================================
