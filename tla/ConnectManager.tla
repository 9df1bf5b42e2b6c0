-------------------------- MODULE ConnectManager --------------------------
(***************************************************************************)
(* The dial loop of `malcom snapshot fetch` (internal/connect/manager.go): *)
(* it redials pinned peers with a growing backoff, bars the ones that keep *)
(* dropping, and fills up the outbound peers from the static pool and the  *)
(* address book.  Pin and Ban are called from other goroutines at any time *)
(* between two lock sections of a tick; dials run in goroutines of their   *)
(* own and end at any later time.                                          *)
(*                                                                         *)
(* Time is counted in ticks of RefreshTick.  A Kick makes a tick that      *)
(* takes no time.                                                          *)
(***************************************************************************)
EXTENDS Integers, FiniteSets

CONSTANTS
  Peers,            \* a peer stands for its ID and its address
  Pool,             \* peers of the static pool
  WarmTarget, DialBatch, BookDisabled,
  Backoff, MaxBackoff, StabilityWindow,   \* in ticks
  MaxRedials, MaxDialFailures,            \* 0 is no limit
  MaxInbound        \* bound: connections that peers open

ASSUME ManagerConstants ==
  /\ Pool \subseteq Peers
  /\ WarmTarget \in Nat /\ DialBatch \in Nat /\ BookDisabled \in BOOLEAN
  /\ Backoff \in Nat /\ MaxBackoff \in Nat /\ StabilityWindow \in Nat \ {0}
  /\ MaxRedials \in Nat /\ MaxDialFailures \in Nat
  /\ MaxInbound \in Nat

VARIABLES
  pc,          \* where the dial loop is
  snap,        \* the tick's copy of pinned, minus the peers already handled
  pinned,
  banned,
  disc,        \* backoffs[p].disconnects; 0 is no entry
  wait,        \* ticks until backoffs[p].nextDialAt
  seen,        \* ticks since backoffs[p].connectedSince; -1 is its zero value
  dialFail,    \* consecutive failed dials of the address
  dialing,     \* peers with a dial goroutine under way
  connected,   \* sw.Peers()
  outbound,    \* the connected peers that were dialed
  book,        \* addresses the address book may hand out
  banlist,     \* addresses recorded for later runs
  pinning,     \* a caller has looked the peer up and is about to pin it
  banning,     \* banPeer has stopped the peer and is about to ban it
  up,          \* ticks the peer has been connected without a break
  inbound

tickVars == <<pc, snap>>
scheduleVars == <<disc, wait, seen>>
bookVars == <<dialFail, book, banlist>>
callVars == <<pinning, banning>>
connVars == <<connected, outbound, up>>
vars == <<tickVars, pinned, banned, scheduleVars, bookVars, dialing, connVars,
          callVars, inbound>>

TypeOK ==
  /\ pc \in {"idle", "pinned", "fill"}
  /\ snap \in SUBSET Peers
  /\ pinned \in SUBSET Peers
  /\ banned \in SUBSET Peers
  /\ disc \in [Peers -> Nat]
  /\ wait \in [Peers -> 0 .. (IF Backoff > MaxBackoff THEN Backoff ELSE MaxBackoff)]
  /\ seen \in [Peers -> -1 .. StabilityWindow]
  /\ dialFail \in [Peers -> Nat]
  /\ dialing \in SUBSET Peers
  /\ connected \in SUBSET Peers
  /\ outbound \in SUBSET connected
  /\ book \in SUBSET Peers
  /\ banlist \in SUBSET Peers
  /\ pinning \in SUBSET Peers
  /\ banning \in SUBSET Peers
  /\ up \in [Peers -> 0 .. StabilityWindow]
  /\ inbound \in 0 .. MaxInbound

(* The session pins the peers that served in earlier runs.                 *)
Init ==
  /\ pc = "idle" /\ snap = {}
  /\ pinned \in SUBSET Peers
  /\ banned = {}
  /\ disc = [p \in Peers |-> 0]
  /\ wait = [p \in Peers |-> 0]
  /\ seen = [p \in Peers |-> -1]
  /\ dialFail = [p \in Peers |-> 0]
  /\ dialing = {} /\ connected = {} /\ outbound = {}
  /\ book \in {{}, Peers}
  /\ banlist = {} /\ pinning = {} /\ banning = {}
  /\ up = [p \in Peers |-> 0]
  /\ inbound = 0

-----------------------------------------------------------------------------
(* tick: the pinned map is copied under the lock, which is then released.  *)
Minus(n) == IF n > 0 THEN n - 1 ELSE 0
Plus(n)  == IF n < StabilityWindow THEN n + 1 ELSE n

TickStart(elapsed) ==
  /\ pc = "idle"
  /\ snap' = pinned
  /\ pc' = "pinned"
  /\ wait' = [p \in Peers |-> IF elapsed THEN Minus(wait[p]) ELSE wait[p]]
  /\ seen' = [p \in Peers |-> IF elapsed /\ seen[p] >= 0 THEN Plus(seen[p]) ELSE seen[p]]
  /\ up' = [p \in Peers |-> IF elapsed /\ p \in connected THEN Plus(up[p]) ELSE up[p]]
  /\ UNCHANGED <<pinned, banned, disc, bookVars, dialing, connected, outbound, callVars,
                 inbound>>

TickPeer(p) == /\ pc = "pinned"
               /\ p \in snap
               /\ snap' = snap \ {p}
               /\ UNCHANGED <<pc, connVars, callVars, inbound>>

Forget(p) == /\ disc' = [disc EXCEPT ![p] = 0]
             /\ wait' = [wait EXCEPT ![p] = 0]
             /\ seen' = [seen EXCEPT ![p] = -1]

(* Mutant: one look at a connected peer is enough.                         *)
StableAtOnce(p) == TRUE

(* A connected peer loses its backoff schedule once it was seen connected  *)
(* for StabilityWindow.                                                    *)
Stable(p) == seen[p] >= StabilityWindow

TickConnected(p) ==
  /\ TickPeer(p)
  /\ p \in connected
  /\ IF disc[p] = 0
     THEN dialFail' = [dialFail EXCEPT ![p] = 0] /\ UNCHANGED scheduleVars
     ELSE IF Stable(p)
          THEN Forget(p) /\ dialFail' = [dialFail EXCEPT ![p] = 0]
          ELSE /\ seen' = [seen EXCEPT ![p] = IF @ < 0 THEN 0 ELSE @]
               /\ UNCHANGED <<disc, wait, dialFail>>
  /\ UNCHANGED <<pinned, banned, book, banlist, dialing>>

Down(p) == TickPeer(p) /\ p \notin connected

TickBackingOff(p) ==
  /\ Down(p)
  /\ disc[p] > 0 /\ wait[p] > 0
  /\ seen' = [seen EXCEPT ![p] = -1]
  /\ UNCHANGED <<pinned, banned, disc, wait, bookVars, dialing>>

(* Mutant: one redial too many.                                            *)
OneRedialMore(p) == MaxRedials > 0 /\ disc[p] > MaxRedials

OutOfRedials(p) == MaxRedials > 0 /\ disc[p] >= MaxRedials

(* MaxRedials reached: the peer is banned and marked bad in the book.      *)
TickAutoBan(p) ==
  /\ Down(p)
  /\ wait[p] = 0
  /\ OutOfRedials(p)
  /\ pinned' = pinned \ {p}
  /\ banned' = banned \cup {p}
  /\ Forget(p)
  /\ book' = book \ {p}
  /\ UNCHANGED <<dialFail, banlist, dialing>>

(* Mutant: the backoff is not capped.                                      *)
Uncapped(n) == Backoff * 2 ^ (IF n <= 1 THEN 0 ELSE n - 1)

(* computeBackoff: doubled with every further disconnect, then capped.     *)
ComputeBackoff(n) ==
  LET d == Backoff * 2 ^ (IF n > 11 THEN 10 ELSE n - 1)
  IN  IF n <= 1 THEN Backoff
      ELSE IF d = 0 \/ d > MaxBackoff THEN MaxBackoff ELSE d

(* Mutant: the count starts again at every redial.                         *)
BumpLost(p) == [disc EXCEPT ![p] = 1]

Bump(p) == [disc EXCEPT ![p] = @ + 1]

(* The schedule is bumped first, then the dial is fired.                   *)
TickRedial(p) ==
  /\ Down(p)
  /\ wait[p] = 0
  /\ ~OutOfRedials(p)
  /\ disc' = Bump(p)
  /\ wait' = [wait EXCEPT ![p] = ComputeBackoff(disc'[p])]
  /\ seen' = [seen EXCEPT ![p] = -1]
  /\ dialing' = dialing \cup {p}
  /\ UNCHANGED <<pinned, banned, bookVars>>

TickFillStart ==
  /\ pc = "pinned"
  /\ snap = {}
  /\ pc' = "fill"
  /\ UNCHANGED <<snap, pinned, banned, scheduleVars, bookVars, dialing, connVars,
                 callVars, inbound>>

-----------------------------------------------------------------------------
(* Warm fill: dialFromPool, then dialFromBook, skip banned, pinned and     *)
(* connected peers.  Any candidates: the pool is shuffled, the book draws. *)
Smaller(m, n) == IF m < n THEN m ELSE n
Need == Smaller(WarmTarget - Cardinality(outbound) - Cardinality(dialing), DialBatch)
PoolShare == IF BookDisabled THEN Need ELSE Need - Need \div 2
FromPool == Pool \ (banned \cup pinned \cup connected)
FromBook == book \ (banned \cup pinned \cup connected \cup dialing)

TickFill ==
  /\ pc = "fill"
  /\ pc' = "idle"
  /\ IF Need <= 0
     THEN UNCHANGED dialing
     ELSE \E A \in SUBSET FromPool, B \in SUBSET FromBook :
            /\ Cardinality(A) = Smaller(PoolShare, Cardinality(FromPool))
            /\ BookDisabled => B = {}
            /\ Cardinality(A) + Cardinality(B) <= Need
            /\ dialing' = dialing \cup A \cup B
  /\ UNCHANGED <<snap, pinned, banned, scheduleVars, bookVars, connVars, callVars,
                 inbound>>

-----------------------------------------------------------------------------
(* dial: success clears the failures of the address; an address that is    *)
(* connected already is no failure; MaxDialFailures failures in a row take *)
(* it out of the book and onto the ban list.                               *)
DialEnds(p) == /\ p \in dialing
               /\ dialing' = dialing \ {p}
               /\ UNCHANGED <<tickVars, pinned, banned, scheduleVars, callVars, inbound>>

DialSucceeds(p) ==
  /\ DialEnds(p)
  /\ p \notin connected
  /\ connected' = connected \cup {p}
  /\ outbound' = outbound \cup {p}
  /\ up' = [up EXCEPT ![p] = 0]
  /\ dialFail' = [dialFail EXCEPT ![p] = 0]
  /\ UNCHANGED <<book, banlist>>

DialExisting(p) ==
  /\ DialEnds(p)
  /\ p \in connected
  /\ UNCHANGED <<connVars, bookVars>>

(* Also when the peer has meanwhile connected to us: a duplicate ID.       *)
DialFails(p) ==
  /\ DialEnds(p)
  /\ IF MaxDialFailures > 0 /\ dialFail[p] + 1 >= MaxDialFailures
     THEN /\ book' = book \ {p}
          /\ banlist' = banlist \cup {p}
          /\ dialFail' = [dialFail EXCEPT ![p] = 0]
     ELSE /\ dialFail' = [dialFail EXCEPT ![p] = @ + 1]
          /\ UNCHANGED <<book, banlist>>
  /\ UNCHANGED connVars

-----------------------------------------------------------------------------
(* The callers.  addProvisional and init pin a peer they found connected,  *)
(* which may have gone, or been banned, by the time Pin takes the lock.    *)
PinLookup(p) ==
  /\ p \in connected
  /\ pinning' = pinning \cup {p}
  /\ UNCHANGED <<tickVars, pinned, banned, scheduleVars, bookVars, dialing, connVars,
                 banning, inbound>>

Pin(p) ==
  /\ p \in pinning
  /\ pinning' = pinning \ {p}
  /\ pinned' = pinned \cup {p}
  /\ UNCHANGED <<tickVars, banned, scheduleVars, bookVars, dialing, connVars, banning,
                 inbound>>

Drop(p) == /\ p \in connected
           /\ connected' = connected \ {p}
           /\ outbound' = outbound \ {p}
           /\ up' = [up EXCEPT ![p] = 0]

(* banPeer: StopPeerGracefully and MarkBad first, Ban after.  The chunk    *)
(* scheduler bans first, also a peer that has gone already.                *)
StopPeer(p) ==
  /\ Drop(p)
  /\ book' = book \ {p}
  /\ banning' = banning \cup {p}
  /\ UNCHANGED <<tickVars, pinned, banned, scheduleVars, dialFail, banlist, dialing,
                 pinning, inbound>>

Ban(p) ==
  /\ banning' = banning \ {p}
  /\ IF p \in banned
     THEN UNCHANGED <<pinned, banned, scheduleVars>>
     ELSE /\ banned' = banned \cup {p}
          /\ pinned' = pinned \ {p}
          /\ Forget(p)
  /\ UNCHANGED <<tickVars, bookVars, dialing, connVars, pinning, inbound>>

Disconnect(p) ==
  /\ Drop(p)
  /\ UNCHANGED <<tickVars, pinned, banned, scheduleVars, bookVars, dialing, callVars,
                 inbound>>

Inbound(p) ==
  /\ inbound < MaxInbound /\ inbound' = inbound + 1
  /\ p \notin connected
  /\ connected' = connected \cup {p}
  /\ up' = [up EXCEPT ![p] = 0]
  /\ UNCHANGED <<tickVars, pinned, banned, scheduleVars, bookVars, dialing, outbound,
                 callVars>>

-----------------------------------------------------------------------------
Tick(p) == \/ TickConnected(p) \/ TickBackingOff(p) \/ TickAutoBan(p) \/ TickRedial(p)
DialOutcome(p) == DialSucceeds(p) \/ DialExisting(p) \/ DialFails(p)

Next == \/ \E elapsed \in BOOLEAN : TickStart(elapsed)
        \/ TickFillStart
        \/ TickFill
        \/ \E p \in Peers : \/ Tick(p)
                            \/ DialOutcome(p)
                            \/ PinLookup(p) \/ Pin(p)
                            \/ StopPeer(p) \/ Ban(p)
                            \/ Disconnect(p) \/ Inbound(p)

Spec == Init /\ [][Next]_vars

(* The loop runs, every dial ends, and time goes on: however many kicks    *)
(* come first, again and again a tick finds that time has passed.          *)
FairSpec ==
  /\ Spec
  /\ SF_vars(TickStart(TRUE)) /\ WF_vars(TickFillStart) /\ WF_vars(TickFill)
  /\ \A p \in Peers : WF_vars(Tick(p)) /\ WF_vars(DialOutcome(p))

-----------------------------------------------------------------------------
(* "MaxRedials caps consecutive disconnect/redial cycles for a pinned peer *)
(* before auto-Ban" (manager.go:88-90): the schedule never counts more.    *)
RedialBudget == MaxRedials > 0 => \A p \in Peers : disc[p] <= MaxRedials

(* "StabilityWindow is how long a pinned peer must be continuously         *)
(* connected before its backoff schedule is wiped" (manager.go:92-93):     *)
(* as long as no peer has dialed in, a tick drops the schedule only of a   *)
(* peer that never broke off in the window.  (A peer that drops and dials  *)
(* in between two ticks is taken for one that stayed.)                     *)
StableBeforeWipe ==
  [][\A p \in Peers : inbound = 0 /\ TickConnected(p) /\ disc[p] > 0 /\ disc'[p] = 0
                        => up[p] >= StabilityWindow]_vars

(* A pinned peer is not left down and pinned for ever: it comes back, or   *)
(* its redial budget runs out and it is let go (manager.go:393-431).       *)
PinnedSettles ==
  \A p \in Peers : []<>(p \in connected \/ p \notin pinned)
=============================================================================
