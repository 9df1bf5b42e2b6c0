----------------------- MODULE ConnectManager_proofs -----------------------
(***************************************************************************)
(* Proofs about the dial loop, for any peers, pool, limits and windows.    *)
(***************************************************************************)
EXTENDS ConnectManager, TLAPS

-----------------------------------------------------------------------------
LongestWait == IF Backoff > MaxBackoff THEN Backoff ELSE MaxBackoff

LEMMA PowerOfTwo == \A k \in 0 .. 10 : 2 ^ k \in Nat
<1>1. /\ 2 ^ 0 \in Nat /\ 2 ^ 1 \in Nat /\ 2 ^ 2 \in Nat /\ 2 ^ 3 \in Nat
      /\ 2 ^ 4 \in Nat /\ 2 ^ 5 \in Nat /\ 2 ^ 6 \in Nat /\ 2 ^ 7 \in Nat
      /\ 2 ^ 8 \in Nat /\ 2 ^ 9 \in Nat /\ 2 ^ 10 \in Nat
  OBVIOUS
<1>2. \A k \in 0 .. 10 : k \in {0, 1, 2, 3, 4, 5, 6, 7, 8, 9, 10}
  OBVIOUS
<1>. QED
  BY <1>1, <1>2, Zenon

(* computeBackoff stays within the cap, for every count of disconnects.    *)
LEMMA BackoffBounded ==
  ASSUME NEW n \in Nat
  PROVE  ComputeBackoff(n) \in 0 .. LongestWait
<1> DEFINE e == IF n > 11 THEN 10 ELSE n - 1
           d == Backoff * 2 ^ e
<1>1. CASE n <= 1
  BY <1>1, ManagerConstants DEF ComputeBackoff, LongestWait
<1>2. CASE n > 1
  <2>1. e \in 0 .. 10
    BY <1>2
  <2>2. 2 ^ e \in Nat
    BY <2>1, PowerOfTwo
  <2>3. d \in Nat
    BY <2>2, ManagerConstants
  <2>4. ComputeBackoff(n) = IF d = 0 \/ d > MaxBackoff THEN MaxBackoff ELSE d
    BY <1>2 DEF ComputeBackoff
  <2> HIDE DEF d
  <2>. QED
    BY <2>3, <2>4, ManagerConstants DEF LongestWait
<1>. QED
  BY <1>1, <1>2

-----------------------------------------------------------------------------
LEMMA TypeInit == Init => TypeOK
BY ManagerConstants DEF Init, TypeOK

LEMMA TypeTick ==
  ASSUME TypeOK, NEW p \in Peers, Tick(p)
  PROVE  TypeOK'
<1> USE ManagerConstants DEF TypeOK, TickPeer, connVars, callVars, scheduleVars,
                             bookVars
<1>1. CASE TickConnected(p)
  BY <1>1 DEF TickConnected, Forget
<1>2. CASE TickBackingOff(p)
  BY <1>2 DEF TickBackingOff, Down
<1>3. CASE TickAutoBan(p)
  BY <1>3 DEF TickAutoBan, Down, Forget
<1>4. CASE TickRedial(p)
  <2>1. disc' \in [Peers -> Nat]
    BY <1>4 DEF TickRedial, Bump
  <2>2. ComputeBackoff(disc'[p]) \in 0 .. LongestWait
    BY <2>1, BackoffBounded
  <2>3. wait' \in [Peers -> 0 .. LongestWait]
    BY <1>4, <2>2 DEF TickRedial, LongestWait
  <2>. QED
    BY <1>4, <2>1, <2>3 DEF TickRedial, Down, LongestWait
<1>. QED
  BY <1>1, <1>2, <1>3, <1>4 DEF Tick

LEMMA TypeStep == TypeOK /\ [Next]_vars => TypeOK'
<1> SUFFICES ASSUME TypeOK, [Next]_vars PROVE TypeOK'
  OBVIOUS
<1> USE ManagerConstants DEF TypeOK, tickVars, connVars, callVars, scheduleVars,
                             bookVars
<1>1. ASSUME NEW elapsed \in BOOLEAN, TickStart(elapsed) PROVE TypeOK'
  <2>1. wait' \in [Peers -> 0 .. LongestWait]
    BY <1>1 DEF TickStart, Minus, LongestWait
  <2>2. seen' \in [Peers -> -1 .. StabilityWindow] /\ up' \in [Peers -> 0 .. StabilityWindow]
    BY <1>1 DEF TickStart, Plus
  <2>. QED
    BY <1>1, <2>1, <2>2 DEF TickStart, LongestWait
<1>2. ASSUME TickFillStart PROVE TypeOK'
  BY <1>2 DEF TickFillStart
<1>3. ASSUME TickFill PROVE TypeOK'
  BY <1>3 DEF TickFill, FromPool, FromBook
<1>4. ASSUME NEW p \in Peers, DialOutcome(p) PROVE TypeOK'
  BY <1>4 DEF DialOutcome, DialSucceeds, DialExisting, DialFails, DialEnds
<1>5. ASSUME NEW p \in Peers, PinLookup(p) \/ Pin(p) PROVE TypeOK'
  BY <1>5 DEF PinLookup, Pin
<1>6. ASSUME NEW p \in Peers, StopPeer(p) \/ Disconnect(p) PROVE TypeOK'
  BY <1>6 DEF StopPeer, Disconnect, Drop
<1>7. ASSUME NEW p \in Peers, Ban(p) PROVE TypeOK'
  BY <1>7 DEF Ban, Forget
<1>8. ASSUME NEW p \in Peers, Inbound(p) PROVE TypeOK'
  BY <1>8 DEF Inbound
<1>9. ASSUME UNCHANGED vars PROVE TypeOK'
  BY <1>9 DEF vars
<1>. QED
  BY <1>1, <1>2, <1>3, <1>4, <1>5, <1>6, <1>7, <1>8, <1>9, TypeTick DEF Next

LEMMA BudgetStep == TypeOK /\ RedialBudget /\ [Next]_vars => RedialBudget'
<1> SUFFICES ASSUME TypeOK, RedialBudget, [Next]_vars, MaxRedials > 0,
                    NEW q \in Peers
             PROVE  disc'[q] <= MaxRedials
  BY DEF RedialBudget
<1> USE ManagerConstants DEF TypeOK, RedialBudget
<1>1. ASSUME NEW p \in Peers, TickRedial(p) PROVE disc'[q] <= MaxRedials
  BY <1>1 DEF TickRedial, Bump, OutOfRedials
<1>2. ASSUME NEW p \in Peers, TickConnected(p) \/ TickAutoBan(p) \/ Ban(p)
      PROVE  disc'[q] <= MaxRedials
  BY <1>2 DEF TickConnected, TickAutoBan, Ban, Forget, scheduleVars
<1>3. ASSUME UNCHANGED disc PROVE disc'[q] <= MaxRedials
  BY <1>3
<1>. QED
  BY <1>1, <1>2, <1>3
  DEF Next, Tick, DialOutcome, TickStart, TickFillStart, TickFill, TickBackingOff,
      DialSucceeds, DialExisting, DialFails, DialEnds, PinLookup, Pin, StopPeer,
      Disconnect, Inbound, scheduleVars, vars

(* The manager's counters, timers and sets keep their types, for any       *)
(* number of peers and any backoff table; a schedule never counts below    *)
(* zero.                                                                   *)
THEOREM ManagerTypeCorrect == Spec => []TypeOK
<1>1. Init => TypeOK
  BY TypeInit
<1>2. TypeOK /\ [Next]_vars => TypeOK'
  BY TypeStep
<1>. QED
  BY <1>1, <1>2, PTL DEF Spec

(* Whatever ticks, dials, pins, bans and disconnects come in whatever      *)
(* order, no peer is redialed beyond MaxRedials, and no wait beyond the    *)
(* longest backoff the configuration allows is ever scheduled.             *)
THEOREM RedialsBounded == Spec => [](TypeOK /\ RedialBudget)
<1>1. Init => TypeOK /\ RedialBudget
  BY TypeInit, ManagerConstants DEF Init, RedialBudget
<1>2. TypeOK /\ RedialBudget /\ [Next]_vars => TypeOK' /\ RedialBudget'
  BY TypeStep, BudgetStep
<1>. QED
  BY <1>1, <1>2, PTL DEF Spec

-----------------------------------------------------------------------------
(***************************************************************************)
(* A timer that runs belongs to a pinned peer, and a schedule in the       *)
(* tick's copy to one that is still pinned: Ban and the auto-ban drop both *)
(* together.  So warm fill never dials a peer whose timer runs, and such a *)
(* peer, once down, can only come back by dialing in.                      *)
(***************************************************************************)
TimerInv ==
  \A p \in Peers :
    /\ seen[p] >= 0 => p \in pinned
    /\ p \in snap /\ p \notin pinned => disc[p] = 0

WindowInv ==
  inbound = 0 =>
    \A p \in Peers :
      /\ p \in connected => p \notin dialing
      /\ seen[p] >= 0 => p \notin dialing
      /\ seen[p] >= 0 /\ p \in connected => up[p] >= seen[p]

LEMMA TimerStep == TypeOK /\ TimerInv /\ [Next]_vars => TimerInv'
<1> SUFFICES ASSUME TypeOK, TimerInv, [Next]_vars PROVE TimerInv'
  OBVIOUS
<1> USE ManagerConstants
    DEF TypeOK, TimerInv, tickVars, connVars, callVars, scheduleVars, bookVars
<1>1. ASSUME NEW elapsed \in BOOLEAN, TickStart(elapsed) PROVE TimerInv'
  BY <1>1 DEF TickStart, Plus
<1>2. ASSUME NEW p \in Peers, TickConnected(p) PROVE TimerInv'
  BY <1>2 DEF TickConnected, TickPeer, Forget
<1>3. ASSUME NEW p \in Peers, TickBackingOff(p) \/ TickAutoBan(p) PROVE TimerInv'
  BY <1>3 DEF TickBackingOff, TickAutoBan, Down, TickPeer, Forget
<1>4. ASSUME NEW p \in Peers, TickRedial(p) PROVE TimerInv'
  BY <1>4 DEF TickRedial, Down, TickPeer, Bump
<1>5. ASSUME NEW p \in Peers, Ban(p) PROVE TimerInv'
  BY <1>5 DEF Ban, Forget
<1>6. ASSUME NEW p \in Peers, Pin(p) PROVE TimerInv'
  BY <1>6 DEF Pin
<1>7. ASSUME UNCHANGED <<snap, pinned, disc, seen>> PROVE TimerInv'
  BY <1>7
<1>. QED
  BY <1>1, <1>2, <1>3, <1>4, <1>5, <1>6, <1>7
  DEF Next, Tick, DialOutcome, TickFillStart, TickFill, DialSucceeds, DialExisting,
      DialFails, DialEnds, PinLookup, StopPeer, Disconnect, Inbound, vars

LEMMA WindowStep == TypeOK /\ TimerInv /\ WindowInv /\ [Next]_vars => WindowInv'
<1> SUFFICES ASSUME TypeOK, TimerInv, WindowInv, [Next]_vars, inbound' = 0
             PROVE  WindowInv'
  BY DEF WindowInv
<1> USE ManagerConstants
    DEF TypeOK, WindowInv, tickVars, connVars, callVars, scheduleVars, bookVars
<1>1. ASSUME NEW elapsed \in BOOLEAN, TickStart(elapsed) PROVE WindowInv'
  BY <1>1 DEF TickStart, Plus
<1>2. ASSUME NEW p \in Peers, TickConnected(p) PROVE WindowInv'
  BY <1>2 DEF TickConnected, TickPeer, Forget
<1>3. ASSUME NEW p \in Peers, TickBackingOff(p) \/ TickAutoBan(p) PROVE WindowInv'
  BY <1>3 DEF TickBackingOff, TickAutoBan, Down, TickPeer, Forget
<1>4. ASSUME NEW p \in Peers, TickRedial(p) PROVE WindowInv'
  BY <1>4 DEF TickRedial, Down, TickPeer, Bump
<1>5. ASSUME TickFill PROVE WindowInv'
  BY <1>5 DEF TickFill, FromPool, FromBook, TimerInv
<1>6. ASSUME NEW p \in Peers, Ban(p) PROVE WindowInv'
  BY <1>6 DEF Ban, Forget
<1>7. ASSUME NEW p \in Peers, DialOutcome(p) PROVE WindowInv'
  BY <1>7 DEF DialOutcome, DialSucceeds, DialExisting, DialFails, DialEnds
<1>8. ASSUME NEW p \in Peers, StopPeer(p) \/ Disconnect(p) PROVE WindowInv'
  BY <1>8 DEF StopPeer, Disconnect, Drop
<1>9. ASSUME NEW p \in Peers, Inbound(p) PROVE WindowInv'
  BY <1>9 DEF Inbound
<1>10. ASSUME UNCHANGED <<connected, dialing, seen, up, inbound>> PROVE WindowInv'
  BY <1>10
<1>. QED
  BY <1>1, <1>2, <1>3, <1>4, <1>5, <1>6, <1>7, <1>8, <1>9, <1>10
  DEF Next, Tick, TickFillStart, PinLookup, Pin, vars

(* As long as no peer has dialed in, the schedule of a pinned peer is only *)
(* wiped when the peer was connected, without a break, for the whole       *)
(* StabilityWindow, although connections are only sampled at ticks.        *)
THEOREM WipedOnlyWhenStable == Spec => StableBeforeWipe
<1> DEFINE Inv == TypeOK /\ TimerInv /\ WindowInv
           Wiped == \A p \in Peers : inbound = 0 /\ TickConnected(p) /\ disc[p] > 0
                                       /\ disc'[p] = 0 => up[p] >= StabilityWindow
<1>1. Init => Inv
  BY TypeInit DEF Init, TimerInv, WindowInv
<1>2. Inv /\ [Next]_vars => Inv'
  BY TypeStep, TimerStep, WindowStep
<1>3. Inv /\ [Next]_vars => [Wiped]_vars
  <2> SUFFICES ASSUME Inv, NEW p \in Peers, inbound = 0, TickConnected(p),
                      disc[p] > 0, disc'[p] = 0
               PROVE  up[p] >= StabilityWindow
    OBVIOUS
  <2>1. Stable(p) /\ p \in connected
    BY DEF TickConnected, scheduleVars
  <2>. QED
    BY <2>1, ManagerConstants DEF Stable, WindowInv, TypeOK
<1>. QED
  BY <1>1, <1>2, <1>3, PTL DEF Spec, StableBeforeWipe
=============================================================================
